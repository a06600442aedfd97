---------------------------- MODULE Cancellation ----------------------------
(***************************************************************************)
(* How a workflow submits one execution under its request id, and how it   *)
(* is cancelled: before it exists, while it is being submitted, while it   *)
(* waits for an agent, or while its handler runs.                          *)
(*                                                                         *)
(* The table execution_cancellations has one row per request id: the wish  *)
(* to cancel waits in it (WAITING_EXECUTION) until there is an execution,  *)
(* and then (PENDING) until a compensator has passed the signal on to the  *)
(* executor (SENT).  The execution is open, cancelled, or ended otherwise; *)
(* a workflow's execution is one attempt, so nothing more is needed here.  *)
(***************************************************************************)
EXTENDS Naturals, FiniteSets

CONSTANTS
    Submissions,  \* calls of RunRunner with this request id
    Requests,     \* calls that cancel: the workflow, users, the deadline
    Deliverers,   \* nodes that run the termination compensator
    Modes,        \* PUSH, PULL: of the execution's pool
    NoOne,        \* nobody holds the lock of the cancellation's row
    MaxCrashes,   \* bound: submissions whose process dies
    MaxFailures   \* bound: deliveries that fail, or whose process dies

ASSUME ModesAssumption == Modes \subseteq {"PUSH", "PULL"}
ASSUME NoOneAssumption == NoOne \notin Requests
ASSUME BoundsAssumption == MaxCrashes \in Nat /\ MaxFailures \in Nat

VARIABLES
    mode,        \* of the execution
    exec,        \* the execution's row: none, open, cancelled, ended
    handler,     \* at the executor: none, called, verified, running,
                 \* signalled, over
    submission,  \* where each submission is
    delivery,    \* delivery_status, or none without a row
    nextAttempt, \* whether next_attempt_at has come: due, later
    lockedBy,    \* the request whose transaction found no execution
    asked,       \* the requests that were made
    deliverer,   \* where each compensator is
    crashes, failures,
    starts,      \* ghost: how often the handler was started
    early        \* ghost: requests accepted before there was an execution

cancellation == <<delivery, nextAttempt>>
vars == <<mode, exec, handler, submission, cancellation, lockedBy, asked,
          deliverer, crashes, failures, starts, early>>

Init ==
    /\ mode \in Modes
    /\ exec = "none" /\ handler = "none"
    /\ submission = [s \in Submissions |-> "idle"]
    /\ delivery = "none" /\ nextAttempt = "due"
    /\ lockedBy = NoOne /\ asked = {}
    /\ deliverer = [d \in Deliverers |-> "idle"]
    /\ crashes = 0 /\ failures = 0
    /\ starts = 0 /\ early = {}

-----------------------------------------------------------------------------
(* The cancellation's row                                                  *)

(* Faulty variant: a repeated request sends the signal again.              *)
ScheduledStatus_Again == "PENDING"

(* scheduleCancellationDelivery: what was sent stays sent.                 *)
ScheduledStatus == IF delivery = "SENT" THEN "SENT" ELSE "PENDING"

(* Faulty variant: the row is bound, but the execution left as it is.      *)
Bind_SignalOnly ==
    /\ exec # "ended"
    /\ exec' = exec
    /\ delivery' = ScheduledStatus
    /\ nextAttempt' = "due"

(* bindCancellation: in one transaction the execution is cancelled and the *)
(* signal scheduled.  An execution that ended otherwise is refused.        *)
Bind ==
    /\ exec # "ended"
    /\ exec' = "cancelled"
    /\ delivery' = ScheduledStatus
    /\ nextAttempt' = "due"

(* Faulty variant: the row is read without its lock.                       *)
RowIsFree_Unlocked == TRUE

(* The row, or the place it is inserted at, is not locked by another       *)
(* transaction.                                                            *)
RowIsFree == lockedBy = NoOne

-----------------------------------------------------------------------------
(* RunRunner                                                               *)

Goto(s, label) == submission' = [submission EXCEPT ![s] = label]

(* CreateWorkflow looks for the execution of an earlier submission.        *)
Submit(s) ==
    /\ submission[s] = "idle"
    /\ Goto(s, IF exec = "none" THEN "create" ELSE "found")
    /\ UNCHANGED <<mode, exec, handler, cancellation, lockedBy, asked,
                   deliverer, crashes, failures, starts, early>>

(* Faulty variant: whoever gets here takes the record for its own.         *)
Created_Always == "created"

(* The unique index on the request id lets one INSERT win.                 *)
Created == IF exec = "none" THEN "created" ELSE "found"

Create(s) ==
    /\ submission[s] = "create"
    /\ exec' = IF exec = "none" THEN "open" ELSE exec
    /\ Goto(s, Created)
    /\ UNCHANGED <<mode, handler, cancellation, lockedBy, asked, deliverer,
                   crashes, failures, starts, early>>

(* Only the submission that created a PUSH execution invokes it.           *)
AfterAttach(s) ==
    IF submission[s] = "created" /\ mode = "PUSH" THEN "invoke" ELSE "done"

(* Attach: a cancellation that came first is applied now.  If it finds     *)
(* that the execution has ended, RunRunner returns an error.               *)
Attach(s) ==
    /\ submission[s] \in {"created", "found"}
    /\ RowIsFree
    /\ \/ /\ delivery = "none"
          /\ Goto(s, AfterAttach(s))
          /\ UNCHANGED <<exec, cancellation>>
       \/ /\ delivery # "none"
          /\ Goto(s, "done")
          /\ Bind \/ (exec = "ended" /\ UNCHANGED <<exec, cancellation>>)
    /\ UNCHANGED <<mode, handler, lockedBy, asked, deliverer, crashes,
                   failures, starts, early>>

(* The goroutine calls the executor, whatever has become of the execution  *)
(* since Attach.                                                           *)
Invoke(s) ==
    /\ submission[s] = "invoke"
    /\ handler' = "called"
    /\ Goto(s, "done")
    /\ UNCHANGED <<mode, exec, cancellation, lockedBy, asked, deliverer,
                   crashes, failures, starts, early>>

(* The call fails, before or after it has reached the executor: the        *)
(* execution ends as FAILED, unless it is final.                           *)
InvokeFails(s) ==
    /\ submission[s] = "invoke"
    /\ exec' = IF exec = "open" THEN "ended" ELSE exec
    /\ handler' \in {handler, "called"}
    /\ Goto(s, "done")
    /\ UNCHANGED <<mode, cancellation, lockedBy, asked, deliverer, crashes,
                   failures, starts, early>>

(* The process of a submission dies; the client may submit again.          *)
Crash(s) ==
    /\ crashes < MaxCrashes
    /\ submission[s] \in {"create", "created", "found", "invoke"}
    /\ crashes' = crashes + 1
    /\ Goto(s, "dead")
    /\ UNCHANGED <<mode, exec, handler, cancellation, lockedBy, asked,
                   deliverer, failures, starts, early>>

-----------------------------------------------------------------------------
(* The executor                                                            *)

(* ClaimPullTask: an agent takes an execution that is WAITING_PULL.        *)
Claim ==
    /\ mode = "PULL"
    /\ exec = "open" /\ handler = "none"
    /\ handler' = "called"
    /\ UNCHANGED <<mode, exec, submission, cancellation, lockedBy, asked,
                   deliverer, crashes, failures, starts, early>>

(* startExecution: an executor of the SDK first asks the scheduler whether *)
(* the execution is still wanted, and does not start it otherwise.         *)
LookUp ==
    /\ handler = "called"
    /\ handler' = IF exec = "open" THEN "verified" ELSE "over"
    /\ UNCHANGED <<mode, exec, submission, cancellation, lockedBy, asked,
                   deliverer, crashes, failures, starts, early>>

(* The handler starts, however long ago that was; an HTTP executor has not *)
(* asked at all.                                                           *)
Begin ==
    /\ handler \in {"called", "verified"}
    /\ handler' = "running"
    /\ starts' = starts + 1
    /\ UNCHANGED <<mode, exec, submission, cancellation, lockedBy, asked,
                   deliverer, crashes, failures, early>>

Finish ==
    /\ handler \in {"running", "signalled"}
    /\ handler' = "over"
    /\ UNCHANGED <<mode, exec, submission, cancellation, lockedBy, asked,
                   deliverer, crashes, failures, starts, early>>

(* Its report, by way of the completion event; ignored if the execution is *)
(* final.                                                                  *)
Settle ==
    /\ handler = "over" /\ exec = "open"
    /\ exec' = "ended"
    /\ UNCHANGED <<mode, handler, submission, cancellation, lockedBy, asked,
                   deliverer, crashes, failures, starts, early>>

-----------------------------------------------------------------------------
(* Request and RequestExecution                                            *)

(* With an execution: one transaction, rolled back if it has ended.        *)
RequestFound(r) ==
    /\ r \notin asked /\ RowIsFree
    /\ exec # "none"
    /\ Bind \/ (exec = "ended" /\ UNCHANGED <<exec, cancellation>>)
    /\ asked' = asked \union {r}
    /\ UNCHANGED <<mode, handler, submission, lockedBy, deliverer, crashes,
                   failures, starts, early>>

(* Without: by request id only.  The transaction keeps the lock of the row *)
(* it has inserted or found until it commits.                              *)
RequestEarly(r) ==
    /\ r \notin asked /\ RowIsFree
    /\ exec = "none"
    /\ lockedBy' = r
    /\ asked' = asked \union {r}
    /\ UNCHANGED <<mode, exec, handler, submission, cancellation, deliverer,
                   crashes, failures, starts, early>>

(* keepCancellationWaiting, and the commit.                                *)
KeepWaiting(r) ==
    /\ lockedBy = r
    /\ delivery' = "WAITING_EXECUTION" /\ nextAttempt' = "due"
    /\ lockedBy' = NoOne
    /\ early' = early \union {r}
    /\ UNCHANGED <<mode, exec, handler, submission, asked, deliverer,
                   crashes, failures, starts>>

-----------------------------------------------------------------------------
(* TerminationCompensator and DeliverPending                               *)

(* ListPending                                                             *)
List(d) ==
    /\ deliverer[d] = "idle"
    /\ delivery = "PENDING" /\ nextAttempt = "due"
    /\ deliverer' = [deliverer EXCEPT ![d] = "listed"]
    /\ UNCHANGED <<mode, exec, handler, submission, cancellation, lockedBy,
                   asked, crashes, failures, starts, early>>

(* WHERE delivery_status = PENDING                                         *)
MarkSent ==
    /\ delivery' = IF delivery = "PENDING" THEN "SENT" ELSE delivery
    /\ UNCHANGED nextAttempt

(* deliver: no signal for an execution that is final.                      *)
Deliver(d) ==
    /\ deliverer[d] = "listed"
    /\ RowIsFree
    /\ handler' = IF exec = "open" /\ handler = "running"
                  THEN "signalled" ELSE handler
    /\ MarkSent
    /\ deliverer' = [deliverer EXCEPT ![d] = "idle"]
    /\ UNCHANGED <<mode, exec, submission, lockedBy, asked, crashes,
                   failures, starts, early>>

(* Faulty variant: an error is the end of it, with a status of its own.    *)
MarkFailed_GivesUp ==
    /\ delivery' = IF delivery = "PENDING" THEN "FAILED" ELSE delivery
    /\ UNCHANGED nextAttempt

(* MarkFailed: another attempt, after a while.                             *)
MarkFailed ==
    /\ nextAttempt' = IF delivery = "PENDING" THEN "later" ELSE nextAttempt
    /\ UNCHANGED delivery

DeliverFails(d) ==
    /\ deliverer[d] = "listed"
    /\ RowIsFree
    /\ failures < MaxFailures
    /\ failures' = failures + 1
    /\ MarkFailed
    /\ deliverer' = [deliverer EXCEPT ![d] = "idle"]
    /\ UNCHANGED <<mode, exec, handler, submission, lockedBy, asked, crashes,
                   starts, early>>

DelivererDies(d) ==
    /\ deliverer[d] = "listed"
    /\ failures < MaxFailures
    /\ failures' = failures + 1
    /\ deliverer' = [deliverer EXCEPT ![d] = "idle"]
    /\ UNCHANGED <<mode, exec, handler, submission, cancellation, lockedBy,
                   asked, crashes, starts, early>>

(* cancellationBackoff has passed.                                         *)
BackoffEnds ==
    /\ nextAttempt = "later"
    /\ nextAttempt' = "due"
    /\ UNCHANGED <<mode, exec, handler, submission, delivery, lockedBy,
                   asked, deliverer, crashes, failures, starts, early>>

-----------------------------------------------------------------------------
Next ==
    \/ \E s \in Submissions :
          \/ Submit(s) \/ Create(s) \/ Attach(s)
          \/ Invoke(s) \/ InvokeFails(s) \/ Crash(s)
    \/ Claim \/ LookUp \/ Begin \/ Finish \/ Settle
    \/ \E r \in Requests :
          RequestFound(r) \/ RequestEarly(r) \/ KeepWaiting(r)
    \/ \E d \in Deliverers :
          List(d) \/ Deliver(d) \/ DeliverFails(d) \/ DelivererDies(d)
    \/ BackoffEnds

Spec == Init /\ [][Next]_vars

(* The compensators' loops run for ever, transactions end, time passes.    *)
(* Clients, agents and handlers do nothing they need not do.               *)
Fairness ==
    /\ \A r \in Requests : WF_vars(KeepWaiting(r))
    /\ \A d \in Deliverers : WF_vars(List(d)) /\ WF_vars(Deliver(d))
    /\ WF_vars(BackoffEnds)

FairSpec == Spec /\ Fairness

-----------------------------------------------------------------------------
(* Properties                                                              *)

(* The type invariant.                                                     *)
TypeOK ==
    /\ mode \in Modes
    /\ exec \in {"none", "open", "cancelled", "ended"}
    /\ handler \in {"none", "called", "verified", "running", "signalled", "over"}
    /\ submission \in [Submissions -> {"idle", "create", "created", "found",
                                       "invoke", "done", "dead"}]
    /\ delivery \in {"none", "WAITING_EXECUTION", "PENDING", "SENT"}
    /\ nextAttempt \in {"due", "later"}
    /\ lockedBy \in Requests \union {NoOne}
    /\ asked \subseteq Requests
    /\ deliverer \in [Deliverers -> {"idle", "listed"}]
    /\ crashes \in Nat /\ failures \in Nat /\ starts \in Nat
    /\ early \subseteq Requests

(* Repeated and concurrent submissions of one request id start the handler *)
(* at most once.                                                           *)
OneStart == starts <= 1

(* A pushed execution that was cancelled before it existed never starts,   *)
(* however the request, the submissions and their crashes interleave.      *)
EarlyCancelPreventsStart ==
    mode = "PUSH" /\ early # {} => starts = 0

(* A cancellation does not go on waiting once a submission is through: the *)
(* execution it was for is cancelled, unless it ended before that.         *)
WaitingIsApplied ==
    (\E s \in Submissions : submission[s] \in {"invoke", "done"})
       => delivery # "WAITING_EXECUTION" \/ exec = "ended"

(* A signal is scheduled, and called sent, only for an execution that is   *)
(* cancelled in the same transaction.                                      *)
ScheduledMeansCancelled ==
    delivery \in {"PENDING", "SENT"} => exec = "cancelled"

(* What was sent is not sent again, whoever asks or submits once more.     *)
SentStays == [][delivery = "SENT" => delivery' = "SENT"]_delivery

(* Every signal is sent in the end, though deliveries fail and nodes die.  *)
SignalIsSent == delivery = "PENDING" ~> delivery = "SENT"

(* When a signal is called sent, no handler is left running without it.    *)
SentReachesHandler ==
    [][delivery # "SENT" /\ delivery' = "SENT" => handler' # "running"]_vars
=============================================================================
