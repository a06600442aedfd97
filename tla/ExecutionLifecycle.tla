------------------------- MODULE ExecutionLifecycle -------------------------
(***************************************************************************)
(* The life of one execution, from its creation to its final state.        *)
(*                                                                         *)
(* Everybody works on the same row without holding a lock:                 *)
(*                                                                         *)
(*  - Workers run UpdateState for the reports of the executors: the row is *)
(*    read first, the write comes later and is conditional on what was     *)
(*    read, or is a message to the consumer of completion events;          *)
(*  - that consumer receives each message at least once, in any order, and *)
(*    settles the execution; giving the parent task back comes later in    *)
(*    the same handler, which may fail or die before it gets there;        *)
(*  - Compensators are the loops of the scheduler nodes (retry, reschedule,*)
(*    timeout): each finds the execution by a query and acts on it later;  *)
(*  - a user, or a workflow, cancels it; that releases the task as well.   *)
(*                                                                         *)
(* The executors are the environment: once the execution was dispatched,   *)
(* any state may be reported at any time and any number of times, which    *)
(* covers slow, repeated, reordered and lost reports and executors that    *)
(* die.  A report does not say which dispatch it answers.                  *)
(***************************************************************************)
EXTENDS ExecutionRow, Integers, FiniteSets

CONSTANTS
    Workers,        \* concurrent calls of UpdateState
    Compensators,   \* scheduler nodes, each with its compensating loops
    MaxRetries,     \* RetryConfig.MaxRetries of the task; 0 means unlimited
    Reports,        \* bound: the states executors report, of Reported
    Surplus         \* bound: failures counted beyond those answered

ASSUME WorkersAssumption == IsFiniteSet(Workers)
ASSUME CompensatorsAssumption == IsFiniteSet(Compensators)
ASSUME ReportsAssumption == Reports \subseteq Reported
ASSUME MaxRetriesAssumption == MaxRetries \in Nat
ASSUME SurplusAssumption ==
    Surplus \in Nat /\ Cardinality(Compensators) <= Surplus

VARIABLES
    source,      \* who asked for it: TASK, WORKFLOW or CODEBOOK_PREVIEW
    mode,        \* PUSH or PULL, fixed when the row is created
    status,      \* the row's status
    retryCount,  \* the row's retry_count
    calls,       \* per worker: the report in progress and what it has read
    scans,       \* per compensator: what it holds of the row
    topic,       \* completion events the consumer can receive (again)
    handback,    \* what the handler that settled still owes the task
    dispatched,  \* whether an executor was ever given the execution
    unanswered,  \* ghost: dispatches less the failures recorded, from -Surplus
    releases     \* ghost: times the parent task was given back for it

row == <<source, mode, status, retryCount>>
task == <<handback, releases>>
executors == <<dispatched, unanswered>>
vars == <<row, calls, scans, topic, task, executors>>

Idle == [report |-> "none", sawStatus |-> "none", sawRetries |-> 0]

Sources == {"TASK", "WORKFLOW", "CODEBOOK_PREVIEW"}
Held == {"nothing", "retry", "reschedule", "timeout", "dispatch"}

(* Create: PREPARE for PUSH, the dispatch follows; WAITING_PULL for PULL.  *)
(* Workflow executions and previews are always created in one of the two.  *)
Init ==
    /\ source \in Sources
    /\ mode \in {"PUSH", "PULL"}
    /\ status = IF mode = "PULL" THEN "WAITING_PULL" ELSE "PREPARE"
    /\ retryCount = 0
    /\ calls = [w \in Workers |-> Idle]
    /\ scans = [c \in Compensators |-> "nothing"]
    /\ topic = {}
    /\ handback = "none"
    /\ dispatched = IF mode = "PULL" THEN "no" ELSE "yes"
    /\ unanswered = IF mode = "PULL" THEN 0 ELSE 1
    /\ releases = 0

(* A report on an execution of the scheduler's own tasks: the two other    *)
(* sources have a branch of UpdateState to themselves.                     *)
OwnTask_OrWorkflow == source # "CODEBOOK_PREVIEW"   \* faulty variant
OwnTask == source = "TASK"

(* A failure stands for one dispatch that was answered.  Not counting the  *)
(* surplus only makes the bound on what is unanswered harder to keep.      *)
FailureRecorded ==
    unanswered' = IF unanswered > -Surplus THEN unanswered - 1 ELSE unanswered

HandOut == dispatched' = "yes" /\ unanswered' = unanswered + 1

ReleaseTask == releases' = IF source = "TASK" THEN releases + 1 ELSE releases

-----------------------------------------------------------------------------
(* UpdateState: the read of the row, then one write                        *)

Finish(w) == calls' = [calls EXCEPT ![w] = Idle]

(* A report reaches the scheduler and FindByID reads the row; on a final   *)
(* state the call returns at once.                                         *)
Receive(w, report) ==
    /\ calls[w] = Idle
    /\ dispatched = "yes"
    /\ status \notin Terminal
    /\ calls' = [calls EXCEPT ![w] = [report |-> report,
                                      sawStatus |-> status,
                                      sawRetries |-> retryCount]]
    /\ UNCHANGED <<row, scans, topic, task, executors>>

(* The process dies, or the database refuses the write: the caller gets an *)
(* error, and sends the report again or does not.                          *)
Drop(w) ==
    /\ calls[w] # Idle
    /\ Finish(w)
    /\ UNCHANGED <<row, scans, topic, task, executors>>

(* RUNNING on a row read as RUNNING writes the progress only.              *)
ReportRunning(w) ==
    /\ calls[w].report = "RUNNING"
    /\ status' = IF calls[w].sawStatus = "RUNNING" THEN status
                                                   ELSE SetRunningState(status)
    /\ Finish(w)
    /\ UNCHANGED <<source, mode, retryCount, scans, topic, task, executors>>

NextRetryCount(seen) == seen + 1

(* updateRetryState: the count written is the count READ plus one, and the *)
(* condition of the write is the status read, not the count.               *)
RecordRetry(w) ==
    LET call == calls[w] IN
    /\ OwnTask /\ call.report = "FAILED_RETRYABLE"
    /\ MayRetry(MaxRetries, NextRetryCount(call.sawRetries))
    /\ IF status = call.sawStatus
       THEN /\ status' = "FAILED_RETRYABLE"
            /\ retryCount' = NextRetryCount(call.sawRetries)
            /\ FailureRecorded
       ELSE UNCHANGED <<status, retryCount, unanswered>>
    /\ Finish(w)
    /\ UNCHANGED <<source, mode, scans, topic, task, dispatched>>

(* The last retry failed too: the failure becomes a completion event.      *)
ExhaustRetries(w) ==
    LET call == calls[w] IN
    /\ OwnTask /\ call.report = "FAILED_RETRYABLE"
    /\ ~MayRetry(MaxRetries, NextRetryCount(call.sawRetries))
    /\ topic' = topic \union {"FAILED"}
    /\ Finish(w)
    /\ UNCHANGED <<row, scans, task, executors>>

(* No limit applies here: an executor may put the execution off for ever.  *)
RecordReschedule(w) ==
    LET call == calls[w] IN
    /\ OwnTask /\ call.report = "FAILED_RESCHEDULED"
    /\ IF status = call.sawStatus
       THEN status' = "FAILED_RESCHEDULED" /\ FailureRecorded
       ELSE UNCHANGED <<status, unanswered>>
    /\ Finish(w)
    /\ UNCHANGED <<source, mode, retryCount, scans, topic, task, dispatched>>

(* sendCompletedEvent: nothing is written here, the consumer decides.  A   *)
(* workflow's attempt ends with its first failure of any kind.             *)
SendCompletedEvent(w) ==
    LET call == calls[w] IN
    /\ \/ OwnTask /\ call.report \in Terminal
       \/ source = "WORKFLOW" /\ call.report \in Terminal \union Recoverable
    /\ topic' = topic \union {SingleAttempt(call.report)}
    /\ Finish(w)
    /\ UNCHANGED <<row, scans, task, executors>>

(* A preview has no task to release: its final state is written at once.   *)
FinishPreview(w) ==
    LET call == calls[w] IN
    /\ source = "CODEBOOK_PREVIEW"
    /\ call.report \in Terminal \union Recoverable
    /\ status' = WithExecutionStatusCAS(status, {call.sawStatus},
                                        SingleAttempt(call.report))
    /\ Finish(w)
    /\ UNCHANGED <<source, mode, retryCount, scans, topic, task, executors>>

-----------------------------------------------------------------------------
(* The consumer of completion events.  A message stays available, for it   *)
(* may be delivered again; the consumer never has to take it, for a failed *)
(* handler is logged and the message skipped.                              *)

CompletionFrom_Any == Status   \* faulty variant: the last event wins
CompletionFrom == NonTerminal

(* The conditional write goes first.  Only the event that changed the row  *)
(* goes on, and only for an execution of a task.                           *)
Settle(reported) ==
    /\ reported \in topic
    /\ status' = WithExecutionStatusCAS(status, CompletionFrom,
                                        CompletionState(reported))
    /\ handback' = IF status \in CompletionFrom /\ source = "TASK"
                   THEN "due" ELSE handback
    /\ UNCHANGED <<source, mode, retryCount, calls, scans, topic,
                   releases, executors>>

(* Then, after the notifications, UpdateNextTime and Release: the one ends *)
(* a task that has no next time, the other unlocks a task that has.        *)
GiveBack ==
    /\ handback = "due"
    /\ handback' = "none"
    /\ releases' = releases + 1
    /\ UNCHANGED <<row, calls, scans, topic, executors>>

(* Either of the two fails, or the process dies before: the repeated event *)
(* finds the row final and nobody takes the rest of the handler up again.  *)
GiveUp ==
    /\ handback = "due"
    /\ handback' = "dropped"
    /\ UNCHANGED <<row, calls, scans, topic, releases, executors>>

(* Faulty variant: the task keeps waiting for the completion event.        *)
Cancelled_TaskKept ==
    /\ status' = IF status \in NonTerminal THEN "CANCELLED" ELSE status
    /\ UNCHANGED <<source, mode, retryCount, calls, topic, task, executors>>

(* Request, bound to the execution: the row, the task and the cancellation *)
(* record change in one transaction.  A final execution refuses it.        *)
Cancelled ==
    /\ IF status \in NonTerminal
       THEN status' = "CANCELLED" /\ ReleaseTask
       ELSE UNCHANGED <<status, releases>>
    /\ UNCHANGED <<source, mode, retryCount, calls, topic, handback, executors>>

Cancel == status \in NonTerminal /\ Cancelled /\ UNCHANGED scans

-----------------------------------------------------------------------------
(* Dispatch: executors that pull, and the compensating loops               *)

(* ClaimPullTask: candidates are read without a lock, then one is locked   *)
(* and its status checked again; only that transaction matters here.       *)
ClaimPullTask ==
    /\ status = "WAITING_PULL"
    /\ status' = "RUNNING"
    /\ HandOut
    /\ UNCHANGED <<source, mode, retryCount, calls, scans, topic, task>>

Hold(c, what) == scans' = [scans EXCEPT ![c] = what]

Find(c, what) ==
    /\ scans[c] = "nothing"
    /\ \/ what = "retry" /\ status = "FAILED_RETRYABLE"
       \/ what = "reschedule" /\ status = "FAILED_RESCHEDULED"
       \/ what = "timeout" /\ status \in HasDeadline
    /\ Hold(c, what)
    /\ UNCHANGED <<row, calls, topic, task, executors>>

(* RequeuePull does not ask which of the two failures the scan found.      *)
Requeue(c) ==
    /\ scans[c] \in {"retry", "reschedule"} /\ mode = "PULL"
    /\ status' = RequeuePull(status)
    /\ Hold(c, "nothing")
    /\ UNCHANGED <<source, mode, retryCount, calls, topic, task, executors>>

(* claimForDispatch: of all the nodes that found the row, one wins.        *)
ClaimForDispatch(c) ==
    LET expected == IF scans[c] = "retry" THEN "FAILED_RETRYABLE"
                                          ELSE "FAILED_RESCHEDULED" IN
    /\ scans[c] \in {"retry", "reschedule"} /\ mode = "PUSH"
    /\ status' = WithExecutionStatusCAS(status, {expected}, "PREPARE")
    /\ Hold(c, IF status' # status THEN "dispatch" ELSE "nothing")
    /\ UNCHANGED <<source, mode, retryCount, calls, topic, task, executors>>

(* invokeAsync, whatever has become of the execution since the claim.      *)
Invoke(c) ==
    /\ scans[c] = "dispatch"
    /\ HandOut
    /\ Hold(c, "nothing")
    /\ UNCHANGED <<row, calls, topic, task>>

Interrupt(c) ==
    /\ scans[c] = "timeout"
    /\ Cancelled
    /\ Hold(c, "nothing")

CompensatorDies(c) ==
    /\ scans[c] # "nothing"
    /\ Hold(c, "nothing")
    /\ UNCHANGED <<row, calls, topic, task, executors>>

-----------------------------------------------------------------------------
WorkerStep(w) ==
    \/ \E report \in Reports : Receive(w, report)
    \/ Drop(w)
    \/ ReportRunning(w)
    \/ RecordRetry(w)
    \/ ExhaustRetries(w)
    \/ RecordReschedule(w)
    \/ SendCompletedEvent(w)
    \/ FinishPreview(w)

Act(c) == Requeue(c) \/ ClaimForDispatch(c) \/ Invoke(c) \/ Interrupt(c)

CompensatorStep(c) ==
    \/ \E what \in {"retry", "reschedule", "timeout"} : Find(c, what)
    \/ Act(c)
    \/ CompensatorDies(c)

Next ==
    \/ \E w \in Workers : WorkerStep(w)
    \/ \E reported \in Terminal : Settle(reported)
    \/ GiveBack
    \/ GiveUp
    \/ Cancel
    \/ ClaimPullTask
    \/ \E c \in Compensators : CompensatorStep(c)

Spec == Init /\ [][Next]_vars

(* The loops of the compensators come round again for ever, and no node    *)
(* dies at every attempt.  Nothing is assumed of executors, of users, nor  *)
(* of the consumer of completion events.                                   *)
Fairness ==
    \A c \in Compensators :
        /\ \A what \in {"retry", "reschedule", "timeout"} :
              WF_vars(Find(c, what))
        /\ SF_vars(Act(c))

FairSpec == Spec /\ Fairness

-----------------------------------------------------------------------------
(* Properties                                                              *)

(* The type invariant.                                                     *)
TypeOK ==
    /\ source \in Sources
    /\ mode \in {"PUSH", "PULL"}
    /\ status \in Status
    /\ retryCount \in Nat
    /\ calls \in [Workers -> [report : Reported \union {"none"},
                              sawStatus : NonTerminal \union {"none"},
                              sawRetries : Nat]]
    /\ scans \in [Compensators -> Held]
    /\ topic \subseteq Terminal
    /\ handback \in {"none", "due", "dropped"}
    /\ dispatched \in {"no", "yes"}
    /\ unanswered \in Int /\ unanswered >= -Surplus
    /\ releases \in Nat

(* A final state wins over every report, retry, timeout and cancellation   *)
(* that was already on its way when it was written.                        *)
TerminalStable ==
    [][(status \in Terminal) => UNCHANGED <<status, retryCount>>]_vars

(* Two roads lead to the end, the consumer of completion events and the    *)
(* cancellation, and each is to give the parent task back.  Whatever the   *)
(* interleaving the task of a final execution was given back once, or one  *)
(* handler owes it, or gave up; never two of these, and never before the   *)
(* end.                                                                    *)
ReleasedOnce ==
    releases + (IF handback = "none" THEN 0 ELSE 1)
        = IF source = "TASK" /\ status \in Terminal THEN 1 ELSE 0

(* No two nodes hand out the same attempt: after the first dispatch, each  *)
(* further one answers a failure of its own, through stale scans, nodes    *)
(* that die between claim and call, repeated reports and requeues.         *)
DispatchPerFailure == unanswered <= 1

(* A workflow or a preview is attempted once: no failure of any kind makes *)
(* a compensator pick it up.                                               *)
SingleAttemptSources ==
    source # "TASK" => unanswered <= 1 /\ status \notin Recoverable

(* The limit of the retry configuration holds for the stored count.        *)
RetryLimit == MaxRetries > 0 => retryCount <= MaxRetries

Outcome == INSTANCE ExecutionOutcome WITH
    outcome <- IF status \in Terminal THEN status ELSE "open",
    hasTask <- source = "TASK",
    released <- releases,
    duty <- handback

(* Every behaviour of the lifecycle is one of the abstract outcome: the    *)
(* execution is decided once, and only by deciding it does anybody come to *)
(* give its task back.                                                     *)
ImplementsOutcome == Outcome!Spec

(* A pushed execution reaches a final state although executors may stay    *)
(* silent, completion events may all be lost and nodes die in between.     *)
(* Where retries are limited nothing keeps it open but executors that put  *)
(* it off again and again.                                                 *)
EventuallyFinal ==
    mode = "PUSH" /\ MaxRetries > 0 =>
        \/ <>(status \in Terminal)
        \/ []<>(status = "FAILED_RESCHEDULED") /\ []<>(status \in HasDeadline)
=============================================================================
