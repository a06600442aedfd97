------------------------------ MODULE AgentNode ------------------------------
(***************************************************************************)
(* One process of the Kafka agent and one execution: the workers that take *)
(* the command of its only dispatch from the topic (more than once, since  *)
(* Kafka repeats), the table of dispatches, the table of terminations, and *)
(* the loop that takes the control messages.  All tables are guarded by    *)
(* one mutex and lost with the process; cancel functions are called after  *)
(* the mutex was released.                                                 *)
(*                                                                         *)
(* An execution is published once: agents report only final states, so no  *)
(* retry gives it a second dispatch id.                                    *)
(***************************************************************************)
EXTENDS Naturals, FiniteSets

CONSTANTS
    Workers,      \* goroutines of consumeLoop
    NoWorker,     \* owner of no entry
    MaxEntries    \* how often the dispatch is entered in the table

ASSUME NoWorkerAssumption == NoWorker \notin Workers
ASSUME MaxEntriesAssumption == MaxEntries \in Nat

VARIABLES
    row,        \* the execution in the scheduler: open, cancelled, decided
    stopping,   \* the context of the consume loops is cancelled
    signalled,  \* the control message is in its topic
    pc,         \* where each worker is
    stopped,    \* whether the runCtx of who works is cancelled
    answer,     \* the outcome each worker has, and will publish
    round,      \* ghost: the entry it has it from
    entry,      \* executions[dispatchID]
    tomb,       \* terminated[executionID] is set
    held,       \* owners whose cancel function Terminate has taken
    results     \* published: entry, outcome, and (ghost) whether it is the
                \* entry's or the worker's own

vars == <<row, stopping, signalled, pc, stopped, answer, round, entry, tomb,
          held, results>>

Outcome == {"SUCCESS", "FAILED", "CANCELLED"}

(* no counts the entries made so far, present or not.                      *)
NoEntry(n) == [state |-> "none", no |-> n, owner |-> NoWorker,
               terminated |-> FALSE, outcome |-> "FAILED"]

Init ==
    /\ row = "open"
    /\ stopping = FALSE
    /\ signalled = FALSE
    /\ pc = [w \in Workers |-> "idle"]
    /\ stopped = [w \in Workers |-> FALSE]
    /\ answer = [w \in Workers |-> "FAILED"]
    /\ round = [w \in Workers |-> 0]
    /\ entry = NoEntry(0)
    /\ tomb = FALSE
    /\ held = {}
    /\ results = {}

(* Who has the handler in hand, before it starts to after it ended.        *)
Working == {"begun", "running", "ended", "unfit"}

Goto(w, label) == pc' = [pc EXCEPT ![w] = label]

(* active[executionID]: set by begin, deleted by finish.                   *)
Active == entry.state = "open"

-----------------------------------------------------------------------------
(* Receive: begin                                                          *)

(* Faulty variant: a termination that came first is not looked for.        *)
Refused_Never == FALSE

Refused == tomb

(* An entry of another delivery: wait for its end, or read it.  Who has    *)
(* heard the outcome may still leave without it (Leave).                   *)
JoinEntry(w) ==
    /\ entry.state # "none"
    /\ round' = [round EXCEPT ![w] = entry.no]
    /\ answer' = [answer EXCEPT ![w] = entry.outcome]
    /\ Goto(w, IF Active THEN "waiting" ELSE "heard")
    /\ UNCHANGED <<stopped, entry>>

RefuseEntry(w) ==
    /\ entry.state = "none" /\ Refused
    /\ entry' = [state |-> "done", no |-> entry.no + 1, owner |-> NoWorker,
                 terminated |-> TRUE, outcome |-> "CANCELLED"]
    /\ round' = [round EXCEPT ![w] = entry'.no]
    /\ answer' = [answer EXCEPT ![w] = "CANCELLED"]
    /\ Goto(w, "heard")
    /\ UNCHANGED stopped

OwnEntry(w) ==
    /\ entry.state = "none" /\ ~Refused
    /\ entry' = [state |-> "open", no |-> entry.no + 1, owner |-> w,
                 terminated |-> FALSE, outcome |-> "FAILED"]
    /\ round' = [round EXCEPT ![w] = entry'.no]
    /\ stopped' = [stopped EXCEPT ![w] = stopping]
    /\ Goto(w, "begun")
    /\ UNCHANGED answer

Begin(w) ==
    /\ pc[w] = "idle"
    /\ entry.no < MaxEntries \/ entry.state # "none"
    /\ JoinEntry(w) \/ RefuseEntry(w) \/ OwnEntry(w)
    /\ UNCHANGED <<row, stopping, signalled, tomb, held, results>>

(* Faulty variant: whatever is half an hour old is dropped.                *)
Forgettable_Any == entry.state # "none"

Forgettable == entry.state = "done"

(* begin of another dispatch, half an hour later: entries that are done    *)
(* and terminations are forgotten, each by its own age.                    *)
CleanUp ==
    /\ \/ Forgettable /\ entry' = NoEntry(entry.no) /\ tomb' \in {tomb, FALSE}
       \/ tomb /\ tomb' = FALSE /\ UNCHANGED entry
    /\ UNCHANGED <<row, stopping, signalled, pc, stopped, answer, round, held,
                   results>>

-----------------------------------------------------------------------------
(* Terminate                                                               *)

(* Faulty variant: the entry is looked up among all, not the active ones.  *)
MarkEntry_Done ==
    entry' = [entry EXCEPT !.terminated = TRUE, !.outcome = "CANCELLED"]

MarkEntry == entry' = [entry EXCEPT !.terminated = @ \/ Active]

(* ConsumeControl: the control message, once or repeatedly.                *)
TerminateBySignal ==
    /\ signalled
    /\ tomb' = TRUE
    /\ MarkEntry
    /\ held' = IF Active THEN held \union {entry.owner} ELSE held
    /\ UNCHANGED <<row, stopping, signalled, pc, stopped, answer, round,
                   results>>

(* After the unlock.  It is good for nothing once the entry was finished.  *)
CallCancel ==
    /\ held # {}
    /\ stopped' = [w \in Workers |-> stopped[w] \/ w \in held]
    /\ held' = {}
    /\ UNCHANGED <<row, stopping, signalled, pc, answer, round, entry, tomb,
                   results>>

-----------------------------------------------------------------------------
(* Receive: the owner                                                      *)

(* ensureNotCancelled: a cancelled execution is terminated here too.  The  *)
(* query fails on its own, and once runCtx is cancelled; the conversion of *)
(* artifacts and program after it fails on a bad command.                  *)
LookUp(w) ==
    /\ pc[w] = "begun"
    /\ \/ /\ row = "cancelled" /\ ~stopped[w]
          /\ tomb' = TRUE
          /\ MarkEntry
          /\ answer' = [answer EXCEPT ![w] = "CANCELLED"]
          /\ Goto(w, "ended")
       \/ /\ row # "cancelled" /\ ~stopped[w]
          /\ Goto(w, "running")
          /\ UNCHANGED <<answer, entry, tomb>>
       \/ /\ row # "cancelled" /\ ~stopped[w]
          /\ answer' = [answer EXCEPT ![w] = "FAILED"]
          /\ Goto(w, "unfit")
          /\ UNCHANGED <<entry, tomb>>
       \/ /\ answer' = [answer EXCEPT ![w] = "FAILED"]
          /\ Goto(w, "ended")
          /\ UNCHANGED <<entry, tomb>>
    /\ UNCHANGED <<row, stopping, signalled, stopped, round, held, results>>

(* Engine.Execute returns, with an error or not, cancelled or not.         *)
HandlerEnds(w) ==
    /\ pc[w] = "running"
    /\ \E o \in {"SUCCESS", "FAILED"} : answer' = [answer EXCEPT ![w] = o]
    /\ Goto(w, "ended")
    /\ UNCHANGED <<row, stopping, signalled, stopped, round, entry, tomb, held,
                   results>>

Verdict(w) == IF entry.terminated THEN "CANCELLED" ELSE answer[w]

(* Faulty variant: done is not closed, so those who wait go on waiting.    *)
Woken_Nobody == {}

(* close(done) lets those who wait read the outcome.                       *)
Woken == {v \in Workers : pc[v] = "waiting"}

(* finish, under the mutex.  An owner whose command could not be converted *)
(* drops the verdict finish gives it, and returns its own error.           *)
Finish(w) ==
    /\ pc[w] \in {"ended", "unfit"}
    /\ entry' = [entry EXCEPT !.state = "done", !.outcome = Verdict(w)]
    /\ answer' = [v \in Workers |->
                      IF v \in Woken \/ (v = w /\ pc[w] = "ended")
                      THEN Verdict(w) ELSE answer[v]]
    /\ pc' = [v \in Workers |->
                  IF v = w THEN IF pc[w] = "ended" THEN "publish" ELSE "apart"
                  ELSE IF v \in Woken THEN "heard" ELSE pc[v]]
    /\ held' = held \ {w}
    /\ stopped' = [stopped EXCEPT ![w] = FALSE]
    /\ UNCHANGED <<row, stopping, signalled, round, tomb, results>>

(* The select of who waits: the loop's context ended, whether or not the   *)
(* outcome is there as well.  The worker reports that as its failure.      *)
Leave(w) ==
    /\ stopping
    /\ pc[w] \in {"waiting", "heard"}
    /\ answer' = [answer EXCEPT ![w] = "FAILED"]
    /\ Goto(w, "apart")
    /\ UNCHANGED <<row, stopping, signalled, stopped, round, entry, tomb, held,
                   results>>

(* PublishFinished, by every worker that has an outcome; what it reports   *)
(* as an error is logged and the command is not taken up again.  The loop  *)
(* then ends if its context did.                                           *)
Publish(w) ==
    /\ pc[w] \in {"heard", "publish", "apart"}
    /\ results' \in {results,
                     results \union {[no |-> round[w], outcome |-> answer[w],
                                      by |-> IF pc[w] = "apart" THEN "self"
                                             ELSE "entry"]}}
    /\ Goto(w, IF stopping THEN "gone" ELSE "idle")
    /\ answer' = [answer EXCEPT ![w] = "FAILED"]
    /\ round' = [round EXCEPT ![w] = 0]
    /\ UNCHANGED <<row, stopping, signalled, stopped, entry, tomb, held>>

-----------------------------------------------------------------------------
(* The scheduler and the process                                           *)

Cancel ==
    /\ row = "open"
    /\ row' = "cancelled"
    /\ UNCHANGED <<stopping, signalled, pc, stopped, answer, round, entry, tomb,
                   held, results>>

(* MQInvoker.Terminate, for a cancelled execution.                         *)
Signal ==
    /\ row = "cancelled" /\ ~signalled
    /\ signalled' = TRUE
    /\ UNCHANGED <<row, stopping, pc, stopped, answer, round, entry, tomb, held,
                   results>>

Decide ==
    /\ row = "open" /\ results # {}
    /\ row' = "decided"
    /\ UNCHANGED <<stopping, signalled, pc, stopped, answer, round, entry, tomb,
                   held, results>>

(* The process is told to end: its loops' context, from which every runCtx *)
(* is derived, is cancelled.  A worker that has its message goes on.       *)
ShutDown ==
    /\ ~stopping
    /\ stopping' = TRUE
    /\ stopped' = [w \in Workers |-> pc[w] \in Working]
    /\ UNCHANGED <<row, signalled, pc, answer, round, entry, tomb, held,
                   results>>

(* After a shutdown, or a crash.                                           *)
Restart ==
    /\ stopping' = FALSE
    /\ pc' = [w \in Workers |-> "idle"]
    /\ stopped' = [w \in Workers |-> FALSE]
    /\ answer' = [w \in Workers |-> "FAILED"]
    /\ round' = [w \in Workers |-> 0]
    /\ entry' = NoEntry(entry.no)
    /\ tomb' = FALSE
    /\ held' = {}
    /\ UNCHANGED <<row, signalled, results>>

Next ==
    \/ \E w \in Workers : Begin(w) \/ LookUp(w) \/ HandlerEnds(w)
                          \/ Finish(w) \/ Leave(w) \/ Publish(w)
    \/ CleanUp \/ TerminateBySignal \/ CallCancel
    \/ Cancel \/ Signal \/ Decide \/ ShutDown \/ Restart

Spec == Init /\ [][Next]_vars

(* Goroutines go on while the process lives.  A handler need not end by    *)
(* itself, but one whose context was cancelled does.  Nobody is obliged to *)
(* cancel, to repeat a message, to stay up or to restart.                  *)
Progress ==
    /\ WF_vars(CallCancel)
    /\ \A w \in Workers : /\ WF_vars(LookUp(w))
                          /\ WF_vars(Finish(w))
                          /\ WF_vars(Publish(w))
                          /\ WF_vars(stopped[w] /\ HandlerEnds(w))

FairSpec == Spec /\ Progress

-----------------------------------------------------------------------------
(* Properties                                                              *)

TypeOK ==
    /\ row \in {"open", "cancelled", "decided"}
    /\ stopping \in BOOLEAN
    /\ signalled \in BOOLEAN
    /\ pc \in [Workers -> {"idle", "waiting", "heard", "begun", "running",
                           "ended", "unfit", "publish", "apart", "gone"}]
    /\ stopped \in [Workers -> BOOLEAN]
    /\ answer \in [Workers -> Outcome]
    /\ round \in [Workers -> Nat]
    /\ entry \in [state : {"none", "open", "done"}, no : Nat,
                  owner : Workers \union {NoWorker}, terminated : BOOLEAN,
                  outcome : Outcome]
    /\ tomb \in BOOLEAN
    /\ held \subseteq Workers
    /\ results \subseteq [no : Nat, outcome : Outcome, by : {"entry", "self"}]

(* However often Kafka repeats the command, and however the workers        *)
(* interleave with the cleaning of the table, one process runs at most one *)
(* handler of the dispatch at a time, and it is the entry's.               *)
OneHandler ==
    \A w \in Workers : pc[w] \in Working =>
        entry.state = "open" /\ entry.owner = w

(* The process keeps the promise of HandlerSlot, as the SDK's does: the    *)
(* workers with the handler in hand, and both tables as its barrier.       *)
Slot == INSTANCE HandlerSlot WITH
    Starters <- Workers,
    working <- {w \in Workers : pc[w] \in Working},
    barred <- tomb \/ entry.terminated,
    verdict <- IF entry.state # "done" THEN "none"
               ELSE IF entry.outcome = "CANCELLED" THEN "cancelled" ELSE "own"

ImplementsSlot == Slot!Spec

(* Everybody who answers with an entry's outcome gives the same answer: a  *)
(* termination between the handler's end and the answers of those who      *)
(* waited cannot make one report success and another a cancellation.  So   *)
(* two answers for one entry differ only where one is a failure that a     *)
(* worker reports on its own: it left at a shutdown, or could not convert  *)
(* the command.                                                            *)
OneAnswer ==
    \A r1, r2 \in results :
        r1.no = r2.no /\ r1.outcome # r2.outcome =>
            \E r \in {r1, r2} : r.by = "self" /\ r.outcome = "FAILED"

(* While a termination is remembered, whichever of it and the command came *)
(* first, a handler that runs has been told to stop, or is about to be;    *)
(* and what it returns is not reported: the entry is marked.               *)
NoDeafHandler ==
    \A w \in Workers : tomb /\ pc[w] \in Working =>
        entry.terminated
        /\ (pc[w] = "running" => stopped[w] \/ w \in held)

(* A handler that is terminated is over in the end, and so is the wait of  *)
(* every worker that took the same command: none of them is lost for the   *)
(* pool of workers.                                                        *)
TerminatedEnds ==
    \A w \in Workers :
        entry.terminated /\ pc[w] \in Working \union {"waiting"}
            ~> pc[w] \in {"idle", "gone"}
=============================================================================
