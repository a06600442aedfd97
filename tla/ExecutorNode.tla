---------------------------- MODULE ExecutorNode ----------------------------
(***************************************************************************)
(* One process of the executor SDK and one execution: the store of running *)
(* executions, repeated calls of Execute, the handler's goroutine, the     *)
(* calls that cancel it, and the shutdown of the process.                  *)
(*                                                                         *)
(* The store has one entry per execution, guarded by its mutex: its        *)
(* methods are atomic.  What they hand out is not: a cancel function is    *)
(* called after the mutex was released, and a handler decides what became  *)
(* of it some time before it enters that in the store.                     *)
(***************************************************************************)
EXTENDS Naturals, FiniteSets

CONSTANTS
    Calls,   \* calls of Execute for this execution, repeated or concurrent
    NoCall   \* no cancel function

ASSUME NoCallAssumption == NoCall \notin Calls

VARIABLES
    wanted,      \* what the scheduler answers: open, cancelled, decided
    call,        \* where each call, or the goroutine it started, is
    cause,       \* context.Cause of that goroutine
    outcome,     \* what the handler's end was taken for
    report,      \* the state Finish returned, which is sent
    entry,       \* the execution in the store
    held,        \* cancel functions taken from the store, not yet called
    phase,       \* of the process
    terminated   \* ghost: a termination was accepted, and is remembered

vars == <<wanted, call, cause, outcome, report, entry, held, phase,
          terminated>>

NoEntry == [status |-> "none", completed |-> FALSE, cancel |-> NoCall]

Retryable == {"FAILED_RETRYABLE", "FAILED_RESCHEDULABLE"}

Init ==
    /\ wanted = "open"
    /\ call = [c \in Calls |-> "idle"]
    /\ cause = [c \in Calls |-> "none"]
    /\ outcome = [c \in Calls |-> "none"]
    /\ report = [c \in Calls |-> "none"]
    /\ entry = NoEntry
    /\ held = {}
    /\ phase = "serving"
    /\ terminated = FALSE

Goto(c, label) == call' = [call EXCEPT ![c] = label]

-----------------------------------------------------------------------------
(* The store                                                               *)

(* Faulty variant: a failure may be retried while its handler still runs.  *)
MayBegin_Running ==
    entry = NoEntry \/ entry.status \in Retryable \union {"RUNNING"}

(* Begin refuses what is running, and what is over unless it may be        *)
(* attempted again.                                                        *)
MayBegin ==
    entry = NoEntry \/ (entry.completed /\ entry.status \in Retryable)

(* cleanupLocked, in the Begin of any execution: what has been over for    *)
(* half an hour is forgotten.                                              *)
CleanUp ==
    /\ phase = "serving"
    /\ entry.completed
    /\ entry' = NoEntry
    /\ terminated' = FALSE
    /\ UNCHANGED <<wanted, call, cause, outcome, report, held, phase>>

(* Store.Terminate: refused for what is over, remembered for what is not   *)
(* known, and for what is running the state changes at once.               *)
Remember ==
    /\ entry = NoEntry
    /\ entry' = [status |-> "CANCELLED", completed |-> TRUE, cancel |-> NoCall]
    /\ terminated' = TRUE
    /\ UNCHANGED held

(* The store hands out the cancel function, to be called for this reason.  *)
(* It is good for nothing once the handler has ended.                      *)
Hand(why) ==
    held' = IF call[entry.cancel] = "running"
            THEN held \union {<<entry.cancel, why>>} ELSE held

Running == entry # NoEntry /\ ~entry.completed

CancelRunning ==
    /\ Running /\ entry.status # "CANCELLED"
    /\ entry' = [entry EXCEPT !.status = "CANCELLED"]
    /\ Hand("terminated")
    /\ terminated' = TRUE

NothingToTerminate ==
    /\ entry.status = "CANCELLED" \/ entry.completed
    /\ UNCHANGED <<entry, held, terminated>>

StoreTerminate == Remember \/ CancelRunning \/ NothingToTerminate

(* Faulty variant: the handler's own result is entered.                    *)
Result_Own(c) == outcome[c]

(* Store.Finish keeps CANCELLED.                                           *)
Result(c) == IF entry.status = "CANCELLED" THEN "CANCELLED" ELSE outcome[c]

-----------------------------------------------------------------------------
(* Execute and the goroutine                                               *)

(* startExecution asks the scheduler; an error, also that of a connection  *)
(* already closed, ends the call.                                          *)
LookUp(c) ==
    /\ call[c] = "idle"
    /\ \/ /\ wanted = "cancelled"
          /\ StoreTerminate
          /\ Goto(c, "over")
       \/ /\ wanted = "open" /\ phase \notin {"closed", "aborted"}
          /\ Goto(c, "verified")
          /\ UNCHANGED <<entry, held, terminated>>
       \/ /\ Goto(c, "over")
          /\ UNCHANGED <<entry, held, terminated>>
    /\ UNCHANGED <<wanted, cause, outcome, report, phase>>

(* Faulty variant: whether the process stops is asked before runMu is      *)
(* taken, that is, long ago.                                               *)
Accepting_Unlocked == TRUE

Accepting == phase = "serving"

(* Under runMu: the question whether the process stops, the entry, and the *)
(* WaitGroup.                                                              *)
Begin(c) ==
    /\ call[c] = "verified"
    /\ IF Accepting /\ MayBegin
       THEN /\ entry' = [status |-> "RUNNING", completed |-> FALSE,
                         cancel |-> c]
            /\ Goto(c, "running")
       ELSE /\ Goto(c, "over")
            /\ UNCHANGED entry
    /\ UNCHANGED <<wanted, cause, outcome, report, held, phase, terminated>>

(* resolveFinalStatus: an interruption wins over the handler's own result. *)
Resolved(c) ==
    CASE cause[c] = "terminated"  -> {"CANCELLED"}
      [] cause[c] = "interrupted" -> {"FAILED_RESCHEDULABLE"}
      [] OTHER                    -> {"SUCCESS", "FAILED"}

(* The handler returns and its context is looked at; what the deferred     *)
(* recover catches is a failure, whatever the context says.  Nobody asks   *)
(* the context again: what it says and would be told is forgotten here, as *)
(* are the outcome and the report once they were passed on.                *)
HandlerEnds(c) ==
    /\ call[c] = "running"
    /\ \E status \in Resolved(c) \union {"FAILED"} :
          outcome' = [outcome EXCEPT ![c] = status]
    /\ cause' = [cause EXCEPT ![c] = "none"]
    /\ held' = {h \in held : h[1] # c}
    /\ Goto(c, "ended")
    /\ UNCHANGED <<wanted, report, entry, phase, terminated>>

Finish(c) ==
    /\ call[c] = "ended"
    /\ report' = [report EXCEPT ![c] = Result(c)]
    /\ entry' = [status |-> Result(c), completed |-> TRUE, cancel |-> NoCall]
    /\ outcome' = [outcome EXCEPT ![c] = "none"]
    /\ Goto(c, "finished")
    /\ UNCHANGED <<wanted, cause, held, phase, terminated>>

(* One attempt to report; then runWG.Done.                                 *)
Report(c) ==
    /\ call[c] = "finished"
    /\ \/ /\ wanted = "open" /\ report[c] \notin Retryable
          /\ phase \notin {"closed", "aborted"}
          /\ wanted' = IF report[c] = "CANCELLED" THEN "cancelled"
                                               ELSE "decided"
       \/ UNCHANGED wanted
    /\ report' = [report EXCEPT ![c] = "none"]
    /\ Goto(c, "over")
    /\ UNCHANGED <<cause, outcome, entry, held, phase, terminated>>

-----------------------------------------------------------------------------
(* Who cancels                                                             *)

(* A user, or a deadline, at the scheduler.                                *)
SchedulerCancels ==
    /\ wanted = "open"
    /\ wanted' = "cancelled"
    /\ UNCHANGED <<call, cause, outcome, report, entry, held, phase,
                   terminated>>

Terminate ==
    /\ phase \notin {"closed", "aborted"}
    /\ StoreTerminate
    /\ UNCHANGED <<wanted, call, cause, outcome, report, phase>>

(* Store.Cancel                                                            *)
Interrupt ==
    /\ phase \notin {"closed", "aborted"}
    /\ entry.cancel # NoCall
    /\ Hand("interrupted")
    /\ UNCHANGED <<wanted, call, cause, outcome, report, entry, phase,
                   terminated>>

(* A handler at work; its context keeps the first cause.                   *)
Cancelled(c, why) ==
    cause' = [cause EXCEPT ![c] =
       IF @ = "none" /\ call[c] = "running" THEN why ELSE @]

CallCancel(h) ==
    /\ h \in held
    /\ Cancelled(h[1], h[2])
    /\ held' = held \ {h}
    /\ UNCHANGED <<wanted, call, outcome, report, entry, phase, terminated>>

-----------------------------------------------------------------------------
(* Stop and GracefulStop                                                   *)

StopAccepting ==
    /\ phase = "serving"
    /\ phase' = "stopping"
    /\ UNCHANGED <<wanted, call, cause, outcome, report, entry, held,
                   terminated>>

(* CancelAll                                                               *)
CancelAll ==
    /\ phase = "stopping"
    /\ phase' = "draining"
    /\ IF entry.cancel = NoCall THEN UNCHANGED cause
                                ELSE Cancelled(entry.cancel, "interrupted")
    /\ UNCHANGED <<wanted, call, outcome, report, entry, held, terminated>>

(* What runWG counts.                                                      *)
Busy == {c \in Calls : call[c] \in {"running", "ended", "finished"}}

(* GracefulStop: waitExecutions, then the connection is closed.            *)
Close ==
    /\ phase = "draining"
    /\ Busy = {}
    /\ phase' = "closed"
    /\ UNCHANGED <<wanted, call, cause, outcome, report, entry, held,
                   terminated>>

(* Stop does not wait, and GracefulStop only as long as its context lets   *)
(* it.                                                                     *)
Abort ==
    /\ phase = "draining"
    /\ phase' = "aborted"
    /\ UNCHANGED <<wanted, call, cause, outcome, report, entry, held,
                   terminated>>

-----------------------------------------------------------------------------
Next ==
    \/ \E c \in Calls :
          LookUp(c) \/ Begin(c) \/ HandlerEnds(c) \/ Finish(c) \/ Report(c)
    \/ CleanUp \/ SchedulerCancels \/ Terminate \/ Interrupt
    \/ \E h \in Calls \X {"interrupted", "terminated"} : CallCancel(h)
    \/ StopAccepting \/ CancelAll \/ Close \/ Abort

Spec == Init /\ [][Next]_vars

(* Goroutines are scheduled, and a handler whose context was cancelled     *)
(* returns.  One that was not may run for ever, and nobody need call       *)
(* anything.                                                               *)
Fairness ==
    /\ \A c \in Calls :
          /\ WF_vars(cause[c] # "none" /\ HandlerEnds(c))
          /\ WF_vars(Finish(c)) /\ WF_vars(Report(c))
    /\ WF_vars(CancelAll) /\ WF_vars(Close)

FairSpec == Spec /\ Fairness

-----------------------------------------------------------------------------
(* Properties                                                              *)

Results == {"SUCCESS", "FAILED", "FAILED_RESCHEDULABLE", "CANCELLED"}

(* The type invariant.                                                     *)
TypeOK ==
    /\ wanted \in {"open", "cancelled", "decided"}
    /\ call \in [Calls -> {"idle", "verified", "running", "ended",
                           "finished", "over"}]
    /\ cause \in [Calls -> {"none", "interrupted", "terminated"}]
    /\ outcome \in [Calls -> Results \union {"none"}]
    /\ report \in [Calls -> Results \union {"none"}]
    /\ entry \in [status : Results \union {"none", "RUNNING"},
                  completed : BOOLEAN,
                  cancel : Calls \union {NoCall}]
    /\ held \subseteq Calls \X {"interrupted", "terminated"}
    /\ phase \in {"serving", "stopping", "draining", "closed", "aborted"}
    /\ terminated \in BOOLEAN

(* However often Execute is called, at most one handler of an execution is *)
(* at work in the process, also when an attempt that was interrupted is    *)
(* followed by another.                                                    *)
OneHandler ==
    \A c, d \in Calls :
       call[c] \in {"running", "ended"} /\ call[d] \in {"running", "ended"}
          => c = d

(* The process keeps the promise of HandlerSlot: the handlers that are at  *)
(* work, and the store's entry as its barrier and verdict.                 *)
Slot == INSTANCE HandlerSlot WITH
    Starters <- Calls,
    working <- {c \in Calls : call[c] \in {"running", "ended"}},
    barred <- entry.status = "CANCELLED",
    verdict <- IF ~entry.completed THEN "none"
               ELSE IF entry.status = "CANCELLED" THEN "cancelled"
               ELSE IF entry.status \in Retryable THEN "again" ELSE "own"

ImplementsSlot == Slot!Spec

(* A termination that was accepted is final, as long as it is remembered:  *)
(* no call that had already been let through starts a handler, and the one *)
(* that was at work is reported as cancelled, whatever it returned.        *)
TerminateWins ==
    [][terminated =>
          \A c \in Calls :
             /\ call[c] = "verified" => call'[c] # "running"
             /\ report'[c] \in {report[c], "none", "CANCELLED"}]_vars

(* No handler escapes the shutdown: once CancelAll is through, each has    *)
(* been told, also one that was just being started.                        *)
ShutdownReachesAll ==
    phase \in {"draining", "closed", "aborted"} =>
       \A c \in Calls : call[c] = "running" => cause[c] # "none"

(* The shutdown does not hang: handlers that obey let it end without       *)
(* recourse to its deadline.                                               *)
ShutdownEnds == phase = "stopping" ~> phase \in {"closed", "aborted"}
=============================================================================
