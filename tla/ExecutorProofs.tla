--------------------------- MODULE ExecutorProofs ---------------------------
(***************************************************************************)
(* Theorems on executors: on their process, for any number of calls of     *)
(* Execute, and, below, on the pools they are registered in, for any       *)
(* number of pools, of instances, of failures and of timers.  That a       *)
(* shutdown ends and that the pools come to rest is left to TLC.           *)
(***************************************************************************)
EXTENDS ExecutorNode, PoolRows, FiniteSetTheorems, SequenceTheorems, TLAPS

(* What is not over has a cancel function.                                 *)
HasCancel == Running => entry.cancel \in Calls

AtWork(c) == call[c] \in {"running", "ended"}

(* The handler at work is the one the store's entry speaks of.             *)
EntryIsRun ==
    \A c \in Calls :
       AtWork(c) => ~entry.completed /\ entry.cancel = c

(* A termination that was accepted is in the store.                        *)
Remembered == terminated => entry.status = "CANCELLED"

-----------------------------------------------------------------------------
(* Every step keeps the types.                                             *)
LEMMA NodeTypesStay ==
    ASSUME TypeOK, HasCancel, [Next]_vars
    PROVE  TypeOK' /\ HasCancel'
<1> USE TypeOK, HasCancel DEF TypeOK, HasCancel, Running, NoEntry, Results, Goto
<1>0. CASE UNCHANGED vars
  BY <1>0 DEF vars
<1>1. ASSUME StoreTerminate
      PROVE  /\ entry' \in [status : Results \union {"none", "RUNNING"},
                            completed : BOOLEAN,
                            cancel : Calls \union {NoCall}]
             /\ HasCancel'
             /\ held' \subseteq Calls \X {"interrupted", "terminated"}
             /\ terminated' \in BOOLEAN
  <2>1. CASE Remember
    BY <2>1 DEF Remember
  <2>2. CASE CancelRunning
    BY <2>2 DEF CancelRunning, Hand
  <2>3. CASE NothingToTerminate
    BY <2>3 DEF NothingToTerminate
  <2> QED
    BY <1>1, <2>1, <2>2, <2>3 DEF StoreTerminate
<1>2. ASSUME NEW c \in Calls, LookUp(c)
      PROVE  TypeOK' /\ HasCancel'
  <2>1. CASE StoreTerminate
    BY <1>1, <1>2, <2>1 DEF LookUp
  <2>2. CASE UNCHANGED <<entry, held, terminated>>
    BY <1>2, <2>2 DEF LookUp
  <2> QED
    BY <1>2, <2>1, <2>2 DEF LookUp
<1>3. ASSUME NEW c \in Calls, Begin(c)
      PROVE  TypeOK' /\ HasCancel'
  <2>1. CASE Accepting /\ MayBegin
    <3>1. /\ entry' = [status |-> "RUNNING", completed |-> FALSE, cancel |-> c]
          /\ call' = [call EXCEPT ![c] = "running"]
          /\ UNCHANGED <<wanted, cause, outcome, report, held, phase,
                         terminated>>
      BY <1>3, <2>1 DEF Begin
    <3> QED
      BY <3>1
  <2>2. CASE ~(Accepting /\ MayBegin)
    <3>1. /\ call' = [call EXCEPT ![c] = "over"]
          /\ UNCHANGED <<wanted, cause, outcome, report, entry, held, phase,
                         terminated>>
      BY <1>3, <2>2 DEF Begin
    <3> QED
      BY <3>1
  <2> QED
    BY <2>1, <2>2
<1>4. ASSUME NEW c \in Calls, HandlerEnds(c)
      PROVE  TypeOK' /\ HasCancel'
  BY <1>4 DEF HandlerEnds, Resolved
<1>5. ASSUME NEW c \in Calls, Finish(c)
      PROVE  TypeOK' /\ HasCancel'
  BY <1>5 DEF Finish, Result
<1>6. ASSUME NEW c \in Calls, Report(c)
      PROVE  TypeOK' /\ HasCancel'
  BY <1>6 DEF Report
<1>7. CASE SchedulerCancels \/ StopAccepting \/ Close \/ Abort
  BY <1>7 DEF SchedulerCancels, StopAccepting, Close, Abort
<1>12. CASE CleanUp
  BY <1>12 DEF CleanUp
<1>8. CASE Terminate
  BY <1>1, <1>8 DEF Terminate
<1>9. CASE Interrupt
  BY <1>9 DEF Interrupt, Hand
<1>10. ASSUME NEW h \in Calls \X {"interrupted", "terminated"}, CallCancel(h)
       PROVE  TypeOK' /\ HasCancel'
  BY <1>10 DEF CallCancel, Cancelled
<1>11. CASE CancelAll
  BY <1>11 DEF CancelAll, Cancelled
<1> QED
  BY <1>0, <1>2, <1>3, <1>4, <1>5, <1>6, <1>7, <1>8, <1>9, <1>10, <1>11,
     <1>12
     DEF Next

(* Every variable keeps to its set of values.                              *)
THEOREM NodeTypeOK == Spec => []TypeOK
<1>1. ASSUME Init PROVE TypeOK /\ HasCancel
  <2>1. ~Running /\ terminated = FALSE
    BY <1>1 DEF Init, Running
  <2>2. /\ call \in [Calls -> {"idle", "verified", "running", "ended",
                               "finished", "over"}]
        /\ cause \in [Calls -> {"none", "interrupted", "terminated"}]
        /\ outcome \in [Calls -> Results \union {"none"}]
        /\ report \in [Calls -> Results \union {"none"}]
    BY <1>1 DEF Init
  <2>3. entry \in [status : Results \union {"none", "RUNNING"},
                   completed : BOOLEAN,
                   cancel : Calls \union {NoCall}]
    BY <1>1 DEF Init, NoEntry
  <2>4. TypeOK
    BY <1>1, <2>1, <2>2, <2>3, Zenon DEF Init, TypeOK
  <2> QED
    BY <2>1, <2>4 DEF HasCancel
<1>2. TypeOK /\ HasCancel /\ [Next]_vars => TypeOK' /\ HasCancel'
  BY NodeTypesStay
<1> QED
  BY <1>1, <1>2, PTL DEF Spec

-----------------------------------------------------------------------------
(* Every step keeps the entry and the handler together: Begin replaces     *)
(* only the entry of a handler that is through with it, and so do CleanUp  *)
(* and Remember.                                                           *)
LEMMA EntryIsRunStays ==
    ASSUME TypeOK, EntryIsRun, [Next]_vars
    PROVE  EntryIsRun'
<1> USE TypeOK, EntryIsRun DEF TypeOK, EntryIsRun, AtWork, Goto
<1>0. CASE UNCHANGED vars
  BY <1>0 DEF vars
<1>1. ASSUME StoreTerminate, NEW d \in Calls, AtWork(d)
      PROVE  ~entry'.completed /\ entry'.cancel = d
  <2>1. CASE Remember
    BY <1>1, <2>1, NoCallAssumption DEF Remember, NoEntry
  <2>2. CASE CancelRunning
    BY <1>1, <2>2 DEF CancelRunning
  <2>3. CASE NothingToTerminate
    BY <1>1, <2>3 DEF NothingToTerminate
  <2> QED
    BY <1>1, <2>1, <2>2, <2>3 DEF StoreTerminate
<1>2. ASSUME NEW c \in Calls, LookUp(c)
      PROVE  EntryIsRun'
  <2>1. \A d \in Calls : AtWork(d)' => AtWork(d)
    BY <1>2 DEF LookUp
  <2>2. CASE StoreTerminate
    BY <1>1, <2>1, <2>2
  <2>3. CASE UNCHANGED <<entry, held, terminated>>
    BY <2>1, <2>3
  <2> QED
    BY <1>2, <2>2, <2>3 DEF LookUp
<1>3. ASSUME NEW c \in Calls, Begin(c)
      PROVE  EntryIsRun'
  <2>1. CASE Accepting /\ MayBegin
    <3>1. \A d \in Calls : ~AtWork(d)
      BY <2>1, NoCallAssumption DEF MayBegin, NoEntry
    <3>2. /\ entry' = [status |-> "RUNNING", completed |-> FALSE, cancel |-> c]
          /\ call' = [call EXCEPT ![c] = "running"]
      BY <1>3, <2>1 DEF Begin
    <3> QED
      BY <3>1, <3>2
  <2>2. CASE ~(Accepting /\ MayBegin)
    BY <1>3, <2>2 DEF Begin
  <2> QED
    BY <2>1, <2>2
<1>4. ASSUME NEW c \in Calls, HandlerEnds(c)
      PROVE  EntryIsRun'
  BY <1>4 DEF HandlerEnds
<1>5. ASSUME NEW c \in Calls, Finish(c)
      PROVE  EntryIsRun'
  <2>1. \A d \in Calls : ~AtWork(d)'
    BY <1>5 DEF Finish
  <2> QED
    BY <2>1
<1>6. ASSUME NEW c \in Calls, Report(c)
      PROVE  EntryIsRun'
  BY <1>6 DEF Report
<1>7. CASE CleanUp
  BY <1>7 DEF CleanUp
<1>8. CASE Terminate
  BY <1>1, <1>8 DEF Terminate
<1>9. CASE SchedulerCancels \/ Interrupt \/ StopAccepting \/ CancelAll
  BY <1>9 DEF SchedulerCancels, Interrupt, StopAccepting, CancelAll
<1>10. CASE Close \/ Abort
  BY <1>10 DEF Close, Abort
<1>11. ASSUME NEW h \in Calls \X {"interrupted", "terminated"}, CallCancel(h)
       PROVE  EntryIsRun'
  BY <1>11 DEF CallCancel
<1> QED
  BY <1>0, <1>2, <1>3, <1>4, <1>5, <1>6, <1>7, <1>8, <1>9, <1>10, <1>11
     DEF Next

(* At most one handler of the execution is at work in the process, however *)
(* often Execute is called.                                                *)
THEOREM NodeOneHandler == Spec => []OneHandler
<1>1. Init => EntryIsRun
  BY DEF Init, EntryIsRun, AtWork
<1>2. TypeOK /\ EntryIsRun /\ [Next]_vars => EntryIsRun'
  BY EntryIsRunStays
<1>3. EntryIsRun => OneHandler
  BY DEF EntryIsRun, AtWork, OneHandler
<1> QED
  BY <1>1, <1>2, <1>3, NodeTypeOK, PTL DEF Spec

-----------------------------------------------------------------------------
(* A call is told, or it is not running: every step after CancelAll keeps  *)
(* that, for Begin starts nothing any more.                                *)
LEMMA ReachesAllStays ==
    ASSUME TypeOK, EntryIsRun, ShutdownReachesAll, [Next]_vars
    PROVE  ShutdownReachesAll'
<1> USE TypeOK, ShutdownReachesAll DEF TypeOK, ShutdownReachesAll, Goto
<1>0. CASE UNCHANGED vars
  BY <1>0 DEF vars
<1>1. ASSUME NEW c \in Calls, LookUp(c)
      PROVE  ShutdownReachesAll'
  BY <1>1 DEF LookUp
<1>2. ASSUME NEW c \in Calls, Begin(c)
      PROVE  ShutdownReachesAll'
  <2>1. CASE Accepting
    BY <1>2, <2>1 DEF Begin, Accepting
  <2>2. CASE ~Accepting
    BY <1>2, <2>2 DEF Begin
  <2> QED
    BY <2>1, <2>2
<1>3. ASSUME NEW c \in Calls, HandlerEnds(c)
      PROVE  ShutdownReachesAll'
  BY <1>3 DEF HandlerEnds
<1>4. ASSUME NEW c \in Calls, Finish(c) \/ Report(c)
      PROVE  ShutdownReachesAll'
  BY <1>4 DEF Finish, Report
<1>5. CASE CleanUp \/ SchedulerCancels \/ Terminate \/ Interrupt
  BY <1>5 DEF CleanUp, SchedulerCancels, Terminate, Interrupt
<1>6. ASSUME NEW h \in Calls \X {"interrupted", "terminated"}, CallCancel(h)
      PROVE  ShutdownReachesAll'
  <2>1. /\ cause' = [cause EXCEPT ![h[1]] =
                       IF @ = "none" /\ call[h[1]] = "running"
                       THEN h[2] ELSE @]
        /\ UNCHANGED <<call, phase>>
    BY <1>6 DEF CallCancel, Cancelled
  <2>2. h[1] \in Calls /\ h[2] # "none"
    OBVIOUS
  <2> QED
    BY <2>1, <2>2
<1>7. CASE StopAccepting
  BY <1>7 DEF StopAccepting
<1>8. CASE CancelAll
  <2>1. CASE entry.cancel = NoCall
    <3>1. \A c \in Calls : call[c] # "running"
      BY <2>1, EntryIsRun, NoCallAssumption DEF EntryIsRun, AtWork
    <3> QED
      BY <1>8, <3>1 DEF CancelAll
  <2>2. CASE entry.cancel # NoCall
    <3>1. \A c \in Calls : call[c] = "running" => c = entry.cancel
      BY EntryIsRun DEF EntryIsRun, AtWork
    <3>2. /\ cause' = [cause EXCEPT ![entry.cancel] =
                         IF @ = "none" /\ call[entry.cancel] = "running"
                         THEN "interrupted" ELSE @]
          /\ UNCHANGED call
      BY <1>8, <2>2 DEF CancelAll, Cancelled
    <3> QED
      BY <3>1, <3>2
  <2> QED
    BY <2>1, <2>2
<1>9. CASE Close \/ Abort
  BY <1>9 DEF Close, Abort
<1> QED
  BY <1>0, <1>1, <1>2, <1>3, <1>4, <1>5, <1>6, <1>7, <1>8, <1>9 DEF Next

(* Once the shutdown has cancelled what runs, whatever still runs was told *)
(* so.                                                                     *)
THEOREM NodeShutdownReachesAll == Spec => []ShutdownReachesAll
<1>1. Init => EntryIsRun /\ ShutdownReachesAll
  BY DEF Init, EntryIsRun, AtWork, ShutdownReachesAll
<1>2. TypeOK /\ EntryIsRun /\ [Next]_vars => EntryIsRun'
  BY EntryIsRunStays
<1>3. TypeOK /\ EntryIsRun /\ ShutdownReachesAll /\ [Next]_vars
         => ShutdownReachesAll'
  BY ReachesAllStays
<1> QED
  BY <1>1, <1>2, <1>3, NodeTypeOK, PTL DEF Spec

-----------------------------------------------------------------------------
(* What a step does to a termination that was accepted: it stays in the    *)
(* store, nothing begins, and nothing else is reported.                    *)
LEMMA TerminationStays ==
    ASSUME TypeOK, Remembered, [Next]_vars
    PROVE  /\ Remembered'
           /\ terminated =>
                \A c \in Calls :
                   /\ call[c] = "verified" => call'[c] # "running"
                   /\ report'[c] \in {report[c], "none", "CANCELLED"}
<1> DEFINE Wins ==
             terminated =>
               \A c \in Calls :
                  /\ call[c] = "verified" => call'[c] # "running"
                  /\ report'[c] \in {report[c], "none", "CANCELLED"}
<1> SUFFICES Remembered' /\ Wins
  OBVIOUS
<1> USE TypeOK, Remembered DEF TypeOK, Remembered, Goto
<1>0. CASE UNCHANGED vars
  BY <1>0 DEF vars
<1>1. StoreTerminate => Remembered'
  <2>1. CASE Remember
    BY <2>1 DEF Remember
  <2>2. CASE CancelRunning
    BY <2>2 DEF CancelRunning
  <2>3. CASE NothingToTerminate
    BY <2>3 DEF NothingToTerminate
  <2> QED
    BY <2>1, <2>2, <2>3 DEF StoreTerminate
<1>2. ASSUME NEW c \in Calls, LookUp(c)
      PROVE  Remembered' /\ Wins
  <2>1. Wins
    BY <1>2 DEF LookUp
  <2>2. CASE StoreTerminate
    BY <1>1, <2>1, <2>2
  <2>3. CASE UNCHANGED <<entry, held, terminated>>
    BY <2>1, <2>3
  <2> QED
    BY <1>2, <2>2, <2>3 DEF LookUp
<1>3. ASSUME NEW c \in Calls, Begin(c)
      PROVE  Remembered' /\ Wins
  <2>1. CASE Accepting /\ MayBegin
    <3>1. ~terminated
      BY <2>1 DEF MayBegin, NoEntry, Retryable
    <3>2. UNCHANGED terminated
      BY <1>3 DEF Begin
    <3> QED
      BY <3>1, <3>2
  <2>2. CASE ~(Accepting /\ MayBegin)
    BY <1>3, <2>2 DEF Begin
  <2> QED
    BY <2>1, <2>2
<1>4. ASSUME NEW c \in Calls, HandlerEnds(c)
      PROVE  Remembered' /\ Wins
  BY <1>4 DEF HandlerEnds
<1>5. ASSUME NEW c \in Calls, Finish(c)
      PROVE  Remembered' /\ Wins
  <2>1. terminated => Result(c) = "CANCELLED"
    BY DEF Result
  <2> QED
    BY <1>5, <2>1 DEF Finish
<1>6. ASSUME NEW c \in Calls, Report(c)
      PROVE  Remembered' /\ Wins
  BY <1>6 DEF Report
<1>7. CASE CleanUp
  BY <1>7 DEF CleanUp
<1>8. CASE Terminate
  BY <1>1, <1>8 DEF Terminate
<1>9. CASE SchedulerCancels \/ Interrupt \/ StopAccepting \/ CancelAll
  BY <1>9 DEF SchedulerCancels, Interrupt, StopAccepting, CancelAll
<1>10. CASE Close \/ Abort
  BY <1>10 DEF Close, Abort
<1>11. ASSUME NEW h \in Calls \X {"interrupted", "terminated"}, CallCancel(h)
       PROVE  Remembered' /\ Wins
  BY <1>11 DEF CallCancel
<1> QED
  BY <1>0, <1>2, <1>3, <1>4, <1>5, <1>6, <1>7, <1>8, <1>9, <1>10, <1>11
     DEF Next

(* A termination that was accepted is final: what had been let through     *)
(* does not start, and what was at work is reported as cancelled.          *)
THEOREM NodeTerminateWins == Spec => TerminateWins
<1>1. Init => Remembered
  BY DEF Init, Remembered
<1>2. TypeOK /\ Remembered /\ [Next]_vars => Remembered'
  BY TerminationStays
<1>3. TypeOK /\ Remembered /\ [Next]_vars =>
         [terminated =>
            \A c \in Calls :
               /\ call[c] = "verified" => call'[c] # "running"
               /\ report'[c] \in {report[c], "none", "CANCELLED"}]_vars
  BY TerminationStays
<1> QED
  BY <1>1, <1>2, <1>3, NodeTypeOK, PTL DEF Spec, TerminateWins

-----------------------------------------------------------------------------
(* A handler that was told of a termination, or is about to be, or has     *)
(* ended on account of one, is at work under an entry that says CANCELLED. *)
Marked ==
    \A c \in Calls :
       /\ cause[c] = "terminated" \/ <<c, "terminated">> \in held
             => call[c] = "running" /\ entry.status = "CANCELLED"
       /\ outcome[c] = "CANCELLED"
             => call[c] = "ended" /\ entry.status = "CANCELLED"

(* Every step keeps that: the store marks the entry before it hands out    *)
(* the cancel function.                                                    *)
LEMMA MarkedStays ==
    ASSUME TypeOK, EntryIsRun, Marked, [Next]_vars
    PROVE  Marked'
<1> USE TypeOK, EntryIsRun, Marked DEF TypeOK, EntryIsRun, Marked, AtWork, Goto
<1>0. CASE UNCHANGED vars
  BY <1>0 DEF vars
<1>1. ASSUME StoreTerminate, UNCHANGED <<cause, outcome>>,
             \A d \in Calls : AtWork(d) => call'[d] = call[d]
      PROVE  Marked'
  <2>1. CASE Remember
    <3>1. \A d \in Calls : ~AtWork(d)
      BY <2>1, NoCallAssumption DEF Remember, NoEntry
    <3> QED
      BY <1>1, <2>1, <3>1 DEF Remember
  <2>2. CASE CancelRunning
    <3>1. entry'.status = "CANCELLED"
      BY <2>2 DEF CancelRunning
    <3>2. \A d \in Calls :
             <<d, "terminated">> \in held' =>
                <<d, "terminated">> \in held \/ call[d] = "running"
      BY <2>2 DEF CancelRunning, Hand
    <3> QED
      BY <1>1, <3>1, <3>2
  <2>3. CASE NothingToTerminate
    BY <1>1, <2>3 DEF NothingToTerminate
  <2> QED
    BY <1>1, <2>1, <2>2, <2>3 DEF StoreTerminate
<1>2. ASSUME NEW c \in Calls, LookUp(c)
      PROVE  Marked'
  <2>1. /\ UNCHANGED <<cause, outcome>>
        /\ \A d \in Calls : AtWork(d) => call'[d] = call[d]
    BY <1>2 DEF LookUp
  <2>2. CASE StoreTerminate
    BY <1>1, <2>1, <2>2
  <2>3. CASE UNCHANGED <<entry, held, terminated>>
    BY <2>1, <2>3
  <2> QED
    BY <1>2, <2>2, <2>3 DEF LookUp
<1>3. ASSUME NEW c \in Calls, Begin(c)
      PROVE  Marked'
  <2>1. CASE Accepting /\ MayBegin
    <3>1. \A d \in Calls : ~AtWork(d)
      BY <2>1, NoCallAssumption DEF MayBegin, NoEntry
    <3> QED
      BY <1>3, <3>1 DEF Begin
  <2>2. CASE ~(Accepting /\ MayBegin)
    <3>1. /\ call[c] = "verified" /\ call' = [call EXCEPT ![c] = "over"]
          /\ UNCHANGED <<cause, outcome, entry, held>>
      BY <1>3, <2>2 DEF Begin
    <3>2. \A d \in Calls : AtWork(d) => call'[d] = call[d]
      BY <3>1
    <3> QED
      BY <3>1, <3>2
  <2> QED
    BY <2>1, <2>2
<1>4. ASSUME NEW c \in Calls, HandlerEnds(c)
      PROVE  Marked'
  <2>1. outcome'[c] = "CANCELLED" => cause[c] = "terminated"
    BY <1>4 DEF HandlerEnds, Resolved
  <2>2. /\ cause' = [cause EXCEPT ![c] = "none"]
        /\ held' = {h \in held : h[1] # c}
        /\ call' = [call EXCEPT ![c] = "ended"]
        /\ \A d \in Calls \ {c} : outcome'[d] = outcome[d]
        /\ UNCHANGED entry
    BY <1>4 DEF HandlerEnds
  <2>3. call[c] = "running" /\ call'[c] = "ended" /\ cause'[c] = "none"
        /\ <<c, "terminated">> \notin held'
    BY <1>4, <2>2 DEF HandlerEnds
  <2>4. \A d \in Calls \ {c} :
           /\ call'[d] = call[d] /\ cause'[d] = cause[d]
           /\ outcome'[d] = outcome[d]
           /\ <<d, "terminated">> \in held' => <<d, "terminated">> \in held
    BY <2>2
  <2>5. entry'.status = entry.status
    BY <2>2
  <2> HIDE DEF TypeOK, EntryIsRun, AtWork, Goto
  <2> QED
    BY <2>1, <2>3, <2>4, <2>5
<1>5. ASSUME NEW c \in Calls, Finish(c)
      PROVE  Marked'
  <2>1. \A d \in Calls : AtWork(d) => d = c
    BY <1>5 DEF Finish
  <2>2. \A d \in Calls : outcome'[d] # "CANCELLED"
    BY <1>5, <2>1 DEF Finish
  <2>3. \A d \in Calls : cause'[d] # "terminated" /\ <<d, "terminated">> \notin held'
    BY <1>5, <2>1 DEF Finish
  <2> QED
    BY <2>2, <2>3
<1>6. ASSUME NEW c \in Calls, Report(c)
      PROVE  Marked'
  BY <1>6 DEF Report
<1>7. CASE CleanUp
  BY <1>7 DEF CleanUp
<1>8. CASE Terminate
  BY <1>1, <1>8 DEF Terminate
<1>9. CASE Interrupt
  <2>1. \A d \in Calls :
           <<d, "terminated">> \in held' => <<d, "terminated">> \in held
    BY <1>9 DEF Interrupt, Hand
  <2>2. UNCHANGED <<call, cause, outcome, entry>>
    BY <1>9 DEF Interrupt
  <2> QED
    BY <2>1, <2>2
<1>10. CASE CancelAll
  <2>1. UNCHANGED <<call, outcome, entry, held>>
    BY <1>10 DEF CancelAll
  <2>2. \A d \in Calls : cause'[d] = "terminated" => cause[d] = "terminated"
    BY <1>10 DEF CancelAll, Cancelled
  <2> HIDE DEF TypeOK, EntryIsRun, AtWork, Goto
  <2> QED
    BY <2>1, <2>2
<1>11. CASE SchedulerCancels \/ StopAccepting \/ Close \/ Abort
  BY <1>11 DEF SchedulerCancels, StopAccepting, Close, Abort
<1>12. ASSUME NEW h \in Calls \X {"interrupted", "terminated"}, CallCancel(h)
       PROVE  Marked'
  <2>1. PICK d \in Calls, why \in {"interrupted", "terminated"} : h = <<d, why>>
    OBVIOUS
  <2>2. /\ h \in held /\ held' = held \ {h}
        /\ cause' = [cause EXCEPT ![d] =
              IF @ = "none" /\ call[d] = "running" THEN why ELSE @]
        /\ UNCHANGED <<call, outcome, entry>>
    BY <1>12, <2>1 DEF CallCancel, Cancelled
  <2>3. \A e \in Calls :
           cause'[e] = "terminated" =>
              \/ cause[e] = "terminated"
              \/ call[e] = "running" /\ <<e, "terminated">> \in held
    BY <2>1, <2>2
  <2>4. held' \subseteq held
    BY <2>2
  <2>5. UNCHANGED <<call, outcome, entry>>
    BY <2>2
  <2> HIDE DEF TypeOK, EntryIsRun, AtWork, Goto
  <2> QED
    BY <2>3, <2>4, <2>5
<1> QED
  BY <1>0, <1>2, <1>3, <1>4, <1>5, <1>6, <1>7, <1>8, <1>9, <1>10, <1>11, <1>12
     DEF Next

(* What a termination of the store is for the promise of HandlerSlot.      *)
LEMMA StoreTerminates ==
    ASSUME TypeOK, EntryIsRun, StoreTerminate,
           \A c \in Calls : AtWork(c)' <=> AtWork(c)
    PROVE  [Slot!Next]_(Slot!vars)
<1> DEFINE hands == {c \in Calls : call[c] \in {"running", "ended"}}
<1>1. hands' = hands
  BY DEF AtWork
<1>2. CASE Remember
  <2>1. hands = {}
    BY <1>2, NoCallAssumption DEF EntryIsRun, AtWork, Remember, NoEntry
  <2>2. entry'.status = "CANCELLED" /\ entry'.completed /\ ~entry.completed
    BY <1>2 DEF Remember, NoEntry
  <2>3. Slot!Terminate
    BY <1>1, <2>1, <2>2 DEF Slot!Terminate
  <2> QED
    BY <2>3 DEF Slot!Next
<1>3. CASE CancelRunning
  <2>1. entry'.status = "CANCELLED" /\ ~entry'.completed /\ ~entry.completed
    BY <1>3 DEF CancelRunning, Running, TypeOK
  <2>2. Slot!Terminate
    BY <1>1, <2>1 DEF Slot!Terminate
  <2> QED
    BY <2>2 DEF Slot!Next
<1>4. CASE NothingToTerminate
  BY <1>1, <1>4 DEF NothingToTerminate, Slot!vars
<1> QED
  BY <1>2, <1>3, <1>4 DEF StoreTerminate

(* Every step of the process is one that HandlerSlot allows, or none.      *)
LEMMA NodeSlotStep ==
    ASSUME TypeOK, EntryIsRun, Marked, [Next]_vars
    PROVE  [Slot!Next]_(Slot!vars)
<1> DEFINE hands == {c \in Calls : call[c] \in {"running", "ended"}}
<1>1. ASSUME \A c \in Calls : AtWork(c)' <=> AtWork(c), UNCHANGED entry
      PROVE  [Slot!Next]_(Slot!vars)
  BY <1>1 DEF AtWork, Slot!vars
<1>2. ASSUME NEW c \in Calls, LookUp(c)
      PROVE  [Slot!Next]_(Slot!vars)
  <2>1. \A d \in Calls : AtWork(d)' <=> AtWork(d)
    BY <1>2 DEF LookUp, Goto, AtWork, TypeOK
  <2>2. CASE StoreTerminate
    BY <2>1, <2>2, StoreTerminates
  <2>3. CASE UNCHANGED <<entry, held, terminated>>
    BY <1>1, <2>1, <2>3
  <2> QED
    BY <1>2, <2>2, <2>3 DEF LookUp
<1>3. ASSUME NEW c \in Calls, Begin(c)
      PROVE  [Slot!Next]_(Slot!vars)
  <2>1. CASE Accepting /\ MayBegin
    <3>1. hands = {}
      BY <2>1, NoCallAssumption DEF MayBegin, NoEntry, EntryIsRun, AtWork
    <3>2. /\ entry' = [status |-> "RUNNING", completed |-> FALSE, cancel |-> c]
          /\ call' = [call EXCEPT ![c] = "running"]
      BY <1>3, <2>1 DEF Begin, Goto
    <3>3. hands' = {c}
      BY <3>1, <3>2 DEF TypeOK
    <3>4. /\ entry.status # "CANCELLED"
          /\ entry.completed => entry.status \in Retryable
      BY <2>1 DEF MayBegin, NoEntry, Retryable
    <3>5. Slot!Start(c)
      BY <3>1, <3>2, <3>3, <3>4 DEF Slot!Start
    <3> QED
      BY <3>5 DEF Slot!Next
  <2>2. CASE ~(Accepting /\ MayBegin)
    BY <1>1, <1>3, <2>2 DEF Begin, Goto, AtWork, TypeOK
  <2> QED
    BY <2>1, <2>2
<1>4. ASSUME NEW c \in Calls, HandlerEnds(c) \/ Report(c)
      PROVE  [Slot!Next]_(Slot!vars)
  BY <1>1, <1>4 DEF HandlerEnds, Report, Goto, AtWork, TypeOK
<1>5. ASSUME NEW c \in Calls, Finish(c)
      PROVE  [Slot!Next]_(Slot!vars)
  <2>1. call[c] = "ended" /\ call' = [call EXCEPT ![c] = "finished"]
    BY <1>5 DEF Finish, Goto
  <2>2. hands = {c} /\ hands' = {}
    BY <2>1 DEF EntryIsRun, AtWork, TypeOK
  <2>3. entry'.status = "CANCELLED" <=> entry.status = "CANCELLED"
    BY <1>5 DEF Finish, Result, Marked
  <2>4. entry'.completed
    BY <1>5 DEF Finish
  <2>5. Slot!End(c)
    BY <2>2, <2>3, <2>4 DEF Slot!End
  <2> QED
    BY <2>5 DEF Slot!Next
<1>6. CASE CleanUp
  <2>1. hands = {} /\ hands' = {}
    BY <1>6 DEF CleanUp, EntryIsRun, AtWork
  <2>2. entry'.status # "CANCELLED" /\ ~entry'.completed
    BY <1>6 DEF CleanUp, NoEntry
  <2>3. Slot!Forget
    BY <2>1, <2>2 DEF Slot!Forget
  <2> QED
    BY <2>3 DEF Slot!Next
<1>7. CASE Terminate
  BY <1>7, StoreTerminates DEF Terminate, AtWork
<1>8. CASE SchedulerCancels \/ Interrupt \/ StopAccepting \/ CancelAll
  BY <1>1, <1>8 DEF SchedulerCancels, Interrupt, StopAccepting, CancelAll, AtWork
<1>9. CASE Close \/ Abort
  BY <1>1, <1>9 DEF Close, Abort, AtWork
<1>10. ASSUME NEW h \in Calls \X {"interrupted", "terminated"}, CallCancel(h)
       PROVE  [Slot!Next]_(Slot!vars)
  BY <1>1, <1>10 DEF CallCancel, AtWork
<1>11. CASE UNCHANGED vars
  BY <1>1, <1>11 DEF vars, AtWork
<1> QED
  BY <1>2, <1>3, <1>4, <1>5, <1>6, <1>7, <1>8, <1>9, <1>10, <1>11 DEF Next

(* The process keeps the promise of HandlerSlot, whatever is called and    *)
(* cancelled, in whatever order.                                           *)
THEOREM NodeImplementsSlot == Spec => ImplementsSlot
<1>1. Init => EntryIsRun /\ Marked /\ Slot!Init
  BY DEF Init, NoEntry, EntryIsRun, AtWork, Marked, Slot!Init
<1>2. TypeOK /\ EntryIsRun /\ Marked /\ [Next]_vars
         => EntryIsRun' /\ Marked'
  BY EntryIsRunStays, MarkedStays
<1>3. TypeOK /\ EntryIsRun /\ Marked /\ [Next]_vars => [Slot!Next]_(Slot!vars)
  BY NodeSlotStep
<1> QED
  BY <1>1, <1>2, <1>3, NodeTypeOK, PTL DEF Spec, ImplementsSlot, Slot!Spec

-----------------------------------------------------------------------------
(* The pools                                                               *)

CONSTANTS MaxChanges, MaxFailures
VARIABLES changes, failures

Pool == INSTANCE PoolSync

(* The assumptions of PoolSync on its constants.                           *)
PoolNames ==
    /\ "none" \notin Pools
    /\ "loop" \notin Timers /\ "watch" \notin Timers

Steps == {"idle", "start", "broken", "look", "resync", "writing", "disabling"}

PoolRow == [status : {"absent", "ENABLED", "DISABLED"},
            config : Configs \union {NoConfig}, handlers : SUBSET Instances]

Event == [kind : {"put", "delete"}, pool : Pools]

Run == [pc : Steps, pool : Pools \union {"none"},
        seen : [Instances -> Pool!Registration], todo : SUBSET Pools]

(* An alignment writes the pools whose instances agree in its reading.     *)
Sensible(r) == r.pc = "writing" => r.todo \subseteq Pool!ActivePools(r.seen)

PoolTypes ==
    /\ reg \in [Instances -> Pool!Registration]
    /\ row \in [Pools -> PoolRow]
    /\ stream \in Seq(Event) /\ channel \in Seq(Event)
    /\ run \in [Pool!Runners -> Run]
    /\ \A x \in Pool!Runners : Sensible(run[x])

(* What an alignment is told by an event.                                  *)
Tells(e, p) == e.kind = "put" \/ e.pool = p

Told(s, p) == \E k \in 1..Len(s) : Tells(s[k], p)

(* A pool is the same in two readings.                                     *)
Same(r, s, p) ==
    \A i \in Instances :
       /\ r[i].pool = p <=> s[i].pool = p
       /\ r[i].pool = p => r[i].config = s[i].config

(* Something is under way that will have the registry read again.          *)
Ticket(p) ==
    \/ \E x \in Pool!Runners : run[x].pc \in {"start", "broken", "resync"}
    \/ Told(stream, p) \/ Told(channel, p)
    \/ run["loop"].pc = "look" /\ run["loop"].pool = p
    \/ \E t \in Timers :
          run[t].pc = "look" /\ run[t].pool = p /\ Pool!Members(reg, p) = {}

(* base is the last reading.  No change since goes unnoticed.              *)
Noticed(base) == ~missed => \A p \in Pools : Same(base, reg, p) \/ Ticket(p)

RowAgrees(r, p) ==
    IF Pool!Consistent(r, p) THEN row[p] = Pool!Aggregate(r, p)
    ELSE row[p].status # "ENABLED"

(* What the alignment x has left of pool p.                                *)
Written(x, base, p) ==
    IF Pool!Consistent(base, p)
    THEN (run[x].pc = "writing" /\ p \in run[x].todo) \/ RowAgrees(base, p)
    ELSE run[x].pc = "writing" \/ p \in run[x].todo \/ RowAgrees(base, p)

Carries(x, base) ==
    /\ run[x].seen = base
    /\ run[x].pc = "disabling" =>
          run[x].todo \intersect Pool!ActivePools(base) = {}
    /\ \A p \in Pools : Written(x, base, p)

(* The alignment that made the last reading is alone, and the rows agree   *)
(* with it but for what it has left to do.                                 *)
Carried(base) ==
    ~missed /\ ~mixed =>
       /\ \A x, y \in Pool!Runners :
             run[x].pc \in Pool!Aligning /\ run[y].pc \in Pool!Aligning => x = y
       /\ \A x \in Pool!Runners : run[x].pc \in Pool!Aligning => Carries(x, base)
       /\ (\A x \in Pool!Runners : run[x].pc \notin Pool!Aligning) /\ run["loop"].pc # "start"
             => \A p \in Pools : RowAgrees(base, p)

-----------------------------------------------------------------------------
LEMMA NoneCounted == Pool!Cardinality({}) = 0
<1>1. \A S : Pool!Cardinality(S) = Cardinality(S)
  BY Zenon DEF Pool!Cardinality, Cardinality, Pool!IsFiniteSet, IsFiniteSet
<1> QED
  BY <1>1, FS_EmptySet

LEMMA AggregateType ==
    ASSUME PoolNames, NEW r \in [Instances -> Pool!Registration], NEW p \in Pools,
           Pool!Consistent(r, p)
    PROVE  Pool!Aggregate(r, p) \in PoolRow
<1>1. Pool!ConfigsOf(r, p) # {}
  BY NoneCounted DEF Pool!Consistent
<1>2. Pool!ConfigsOf(r, p) \subseteq Configs
  BY DEF PoolNames, Pool!ConfigsOf, Pool!Members, Pool!Registration, Pool!Gone
<1>3. Pool!Agreed(Pool!ConfigsOf(r, p)) \in Configs
  BY <1>1, <1>2 DEF Pool!Agreed
<1>4. Pool!Members(r, p) \in SUBSET Instances
  BY DEF Pool!Members
<1> QED
  BY <1>3, <1>4 DEF Pool!Aggregate, PoolRow

LEMMA SameAgrees ==
    ASSUME NEW r, NEW s, NEW p, Same(r, s, p)
    PROVE  /\ Pool!Members(r, p) = Pool!Members(s, p)
           /\ Pool!Consistent(r, p) = Pool!Consistent(s, p)
           /\ Pool!Aggregate(r, p) = Pool!Aggregate(s, p)
<1>1. Pool!Members(r, p) = Pool!Members(s, p)
  BY DEF Same, Pool!Members
<1>2. Pool!ConfigsOf(r, p) = Pool!ConfigsOf(s, p)
  BY <1>1 DEF Same, Pool!Members, Pool!ConfigsOf
<1>3. Pool!Consistent(r, p) = Pool!Consistent(s, p)
  BY <1>2, Zenon DEF Pool!Consistent
<1>4. Pool!Aggregate(r, p) = Pool!Aggregate(s, p)
  BY <1>1, <1>2, Zenon DEF Pool!Aggregate
<1> QED
  BY <1>1, <1>3, <1>4

LEMMA ToldAppend ==
    ASSUME NEW s \in Seq(Event), NEW e \in Event, NEW p
    PROVE  Told(Append(s, e), p) <=> Told(s, p) \/ Tells(e, p)
BY DEF Told, Tells

LEMMA ToldHead ==
    ASSUME NEW s \in Seq(Event), s # <<>>, NEW p
    PROVE  Told(s, p) <=> Tells(Head(s), p) \/ Told(Tail(s), p)
<1>1. Len(s) \in Nat \ {0} /\ Len(Tail(s)) = Len(s) - 1 /\ Head(s) = s[1]
  OBVIOUS
<1>2. \A k \in 1..Len(Tail(s)) : Tail(s)[k] = s[k + 1] /\ k + 1 \in 1..Len(s)
  BY <1>1
<1>3. ASSUME Told(s, p)
      PROVE  Tells(Head(s), p) \/ Told(Tail(s), p)
  <2>1. PICK k \in 1..Len(s) : Tells(s[k], p)
    BY <1>3 DEF Told
  <2>2. CASE k = 1
    BY <1>1, <2>1, <2>2
  <2>3. CASE k # 1
    <3>1. k - 1 \in 1..Len(Tail(s)) /\ Tail(s)[k - 1] = s[k]
      BY <1>1, <1>2, <2>1, <2>3
    <3> QED
      BY <2>1, <3>1 DEF Told
  <2> QED
    BY <2>2, <2>3
<1>4. ASSUME Tells(Head(s), p)
      PROVE  Told(s, p)
  BY <1>1, <1>4 DEF Told
<1>5. ASSUME Told(Tail(s), p)
      PROVE  Told(s, p)
  BY <1>1, <1>2, <1>5 DEF Told
<1> QED
  BY <1>3, <1>4, <1>5

LEMMA ToldNothing == \A p : ~Told(<<>>, p)
BY DEF Told

(* A goroutine's record, and what the steps make of it.                    *)
LEMMA RunFields ==
    ASSUME NEW r \in Run
    PROVE  /\ r.pc \in Steps /\ r.pool \in Pools \union {"none"}
           /\ r.seen \in [Instances -> Pool!Registration] /\ r.todo \subseteq Pools
BY DEF Run

LEMMA IdleRun == Pool!Idle \in Run /\ Pool!Idle.pc = "idle" /\ Sensible(Pool!Idle)
<1>1. [i \in Instances |-> Pool!Gone] \in [Instances -> Pool!Registration]
  BY DEF Pool!Registration
<1> QED
  BY <1>1 DEF Run, Pool!Idle, Steps, Sensible

LEMMA GotoRun ==
    ASSUME NEW r \in Run, NEW s \in Steps, s # "writing", NEW q,
           q = [r EXCEPT !.pc = s]
    PROVE  /\ q \in Run /\ Sensible(q)
           /\ q.pc = s /\ q.pool = r.pool /\ q.seen = r.seen /\ q.todo = r.todo
BY DEF Run, Sensible

LEMMA TodoRun ==
    ASSUME NEW r \in Run, Sensible(r), NEW todo, todo \subseteq r.todo, NEW q,
           q = [r EXCEPT !.todo = todo]
    PROVE  /\ q \in Run /\ Sensible(q)
           /\ q.pc = r.pc /\ q.pool = r.pool /\ q.seen = r.seen /\ q.todo = todo
BY DEF Run, Sensible

(* One goroutine takes a step.                                             *)
Becomes(x, q) ==
    /\ \A y \in Pool!Runners : run'[y] = IF y = x THEN q ELSE run[y]
    /\ run' \in [Pool!Runners -> Run]
    /\ \A y \in Pool!Runners : Sensible(run'[y])

LEMMA RunStep ==
    ASSUME PoolTypes, NEW x \in Pool!Runners, NEW q \in Run, Sensible(q),
           run' = [run EXCEPT ![x] = q]
    PROVE  Becomes(x, q)
BY DEF PoolTypes, Becomes

(* One statement of an alignment: what it has left, and what became of the *)
(* row, unless it failed.                                                  *)
LEMMA StatementStep ==
    ASSUME PoolTypes, NEW x \in Pool!Runners, NEW p \in Pools, p \in run[x].todo,
           NEW value, Pool!Statement(x, p, value)
    PROVE  \E q \in Run :
              /\ Becomes(x, q)
              /\ q.pc = run[x].pc /\ q.seen = run[x].seen /\ q.todo = run[x].todo \ {p}
              /\ row' = [row EXCEPT ![p] = value] \/ (row' = row /\ missed')
<1>1. PICK r \in Run : r = run[x] /\ Sensible(r)
  BY DEF PoolTypes
<1>2. PICK todo : todo = r.todo \ {p}
  OBVIOUS
<1>3. PICK q : q = [r EXCEPT !.todo = todo]
  OBVIOUS
<1>4. /\ q \in Run /\ Sensible(q)
      /\ q.pc = r.pc /\ q.seen = r.seen /\ q.todo = todo
  BY <1>1, <1>2, <1>3, TodoRun
<1>5. run' = [run EXCEPT ![x] = q]
  BY <1>1, <1>2, <1>3 DEF Pool!Statement
<1>6. Becomes(x, q)
  BY <1>4, <1>5, RunStep
<1>7. row' = [row EXCEPT ![p] = value] \/ (row' = row /\ missed')
  BY DEF Pool!Statement, Pool!Fail
<1> QED
  BY <1>1, <1>2, <1>4, <1>6, <1>7

-----------------------------------------------------------------------------
SyncInv(base) == Noticed(base) /\ Carried(base)

(* Steps that leave the alignments and the rows alone.                     *)
LEMMA CarriedStays ==
    ASSUME NEW base, Carried(base), row' = row, missed => missed', mixed' = mixed,
           \A y \in Pool!Runners :
              \/ run'[y] = run[y]
              \/ run[y].pc \notin Pool!Aligning /\ run'[y].pc \notin Pool!Aligning,
           run["loop"].pc = "start" => run'["loop"].pc = "start"
    PROVE  Carried(base)'
<1>1. SUFFICES ASSUME ~missed', ~mixed'
               PROVE  Carried(base)'
  BY DEF Carried
<1>2. ~missed /\ ~mixed
  BY <1>1
<1>3. \A y \in Pool!Runners : run'[y].pc \in Pool!Aligning =>
         run'[y] = run[y] /\ run[y].pc \in Pool!Aligning
  OBVIOUS
<1>4. \A y \in Pool!Runners : run'[y].pc \in Pool!Aligning => Carries(y, base)'
  BY <1>2, <1>3 DEF Carried, Carries, Written, RowAgrees
<1>5. \A x, y \in Pool!Runners :
         run'[x].pc \in Pool!Aligning /\ run'[y].pc \in Pool!Aligning => x = y
  BY <1>2, <1>3 DEF Carried
<1>6. (\A x \in Pool!Runners : run'[x].pc \notin Pool!Aligning) /\ run'["loop"].pc # "start"
         => \A p \in Pools : RowAgrees(base, p)'
  BY <1>2 DEF Carried, RowAgrees
<1> QED
  BY <1>4, <1>5, <1>6 DEF Carried

(* Steps that leave the registry alone, and keep what is under way.        *)
LEMMA NoticedStays ==
    ASSUME NEW base, Noticed(base), reg' = reg, missed => missed',
           ~missed' => \A p \in Pools : Ticket(p) => Ticket(p)'
    PROVE  Noticed(base)'
BY DEF Noticed, Same

LEMMA MissedExcuses ==
    ASSUME NEW base, missed'
    PROVE  SyncInv(base)'
BY DEF SyncInv, Noticed, Carried

(* An instance comes, changes or leaves.                                   *)
LEMMA ChangeStep ==
    ASSUME PoolNames, PoolTypes, NEW base, SyncInv(base), NEW i \in Instances,
           Pool!Register(i) \/ Pool!Depart(i)
    PROVE  PoolTypes' /\ SyncInv(base)'
<1> USE DEF PoolNames, PoolTypes
<1>1. PICK r \in Pool!Registration, e \in Event, p \in Pools :
         /\ Pool!Change(i, r, e) /\ e.pool = p
         /\ reg[i].pool \in {"none", p} /\ r.pool \in {"none", p}
  <2>1. CASE Pool!Register(i)
    BY <2>1 DEF Pool!Register, Pool!Registration, Event
  <2>2. CASE Pool!Depart(i)
    <3>1. reg[i].pool \in Pools
      BY <2>2 DEF Pool!Depart, Pool!Registration
    <3>2. Pool!Gone \in Pool!Registration /\ Pool!Gone.pool = "none"
      BY DEF Pool!Registration, Pool!Gone
    <3> QED
      BY <2>2, <3>1, <3>2 DEF Pool!Depart, Event
  <2> QED
    BY <2>1, <2>2
<1>2. /\ reg' = [reg EXCEPT ![i] = r] /\ stream' = Append(stream, e)
      /\ row' = row /\ channel' = channel /\ run' = run
      /\ missed' = missed /\ mixed' = mixed
  BY <1>1 DEF Pool!Change
<1>3. PoolTypes'
  <2>1. reg' \in [Instances -> Pool!Registration]
    BY <1>1, <1>2
  <2>2. stream' \in Seq(Event)
    BY <1>1, <1>2, AppendProperties
  <2>3. \A x \in Pool!Runners : Sensible(run'[x])
    BY <1>2
  <2> QED
    BY <1>2, <2>1, <2>2, <2>3
<1>4. ASSUME NEW q \in Pools, Same(base, reg, q) \/ Ticket(q)
      PROVE  (Same(base, reg, q) \/ Ticket(q))'
  <2>1. CASE q = p
    <3>1. Told(stream', q)
      BY <1>1, <1>2, <2>1, ToldAppend DEF Tells
    <3> QED
      BY <3>1 DEF Ticket
  <2>2. CASE q # p
    <3>1. \A j \in Instances : (reg'[j].pool = q <=> reg[j].pool = q)
                               /\ (reg[j].pool = q => reg'[j] = reg[j])
      BY <1>1, <1>2, <2>2
    <3>2. Same(base, reg, q) => Same(base, reg', q)
      BY <3>1 DEF Same
    <3>3. Pool!Members(reg', q) = Pool!Members(reg, q)
      BY <3>1 DEF Pool!Members
    <3>4. Told(stream, q) => Told(stream', q)
      BY <1>2, ToldAppend
    <3>5. Ticket(q) => Ticket(q)'
      BY <1>2, <3>3, <3>4 DEF Ticket
    <3> QED
      BY <1>4, <3>2, <3>5
  <2> QED
    BY <2>1, <2>2
<1>5. Noticed(base)'
  BY <1>2, <1>4 DEF SyncInv, Noticed
<1>6. Carried(base)'
  BY <1>2, CarriedStays DEF SyncInv
<1> QED
  BY <1>3, <1>5, <1>6 DEF SyncInv

(* A reading is the new base.                                              *)
LEMMA ReadStep ==
    ASSUME PoolNames, PoolTypes, NEW x \in Pool!Runners, Pool!Read(x)
    PROVE  PoolTypes' /\ \E base \in [Instances -> Pool!Registration] : SyncInv(base)'
<1>1. PICK base \in [Instances -> Pool!Registration] : base = reg
  BY DEF PoolTypes
<1>2. PICK q : q = [pc |-> "writing", pool |-> "none", seen |-> base,
                    todo |-> Pool!ActivePools(base)]
  OBVIOUS
<1>3. Pool!ActivePools(base) \subseteq Pools
  BY DEF Pool!ActivePools
<1>4. /\ q \in Run /\ Sensible(q)
      /\ q.pc = "writing" /\ q.seen = base /\ q.todo = Pool!ActivePools(base)
  BY <1>2, <1>3 DEF Run, Steps, Sensible
<1>5. Becomes(x, q)
  BY <1>1, <1>2, <1>4, RunStep DEF Pool!Read
<1>6. /\ reg' = reg /\ row' = row /\ channel' = channel
      /\ stream' \in Seq(Event) /\ (~mixed' => Pool!Others(x) = {})
  <2>1. reg' = reg /\ row' = row /\ channel' = channel /\ stream' \in Seq(Event)
    BY EmptySeq DEF Pool!Read, PoolTypes
  <2>2. ~mixed' => Pool!Others(x) = {}
    BY Zenon DEF Pool!Read
  <2> QED
    BY <2>1, <2>2
<1>7. PoolTypes'
  BY <1>5, <1>6 DEF Becomes, PoolTypes
<1>8. Noticed(base)'
  BY <1>1, <1>6 DEF Noticed, Same
<1>9. Carried(base)'
  <2> SUFFICES ASSUME ~mixed'
               PROVE  Carried(base)'
    BY DEF Carried
  <2>1. \A y \in Pool!Runners : run'[y].pc \in Pool!Aligning => y = x
    BY <1>5, <1>6 DEF Becomes, Pool!Others
  <2>2. run'[x] = q /\ "writing" \in Pool!Aligning
    BY <1>5 DEF Becomes, Pool!Aligning
  <2>3. Carries(x, base)'
    BY <1>4, <2>2 DEF Carries, Written, Pool!ActivePools
  <2> QED
    BY <1>4, <2>1, <2>2, <2>3 DEF Carried
<1> QED
  BY <1>7, <1>8, <1>9 DEF SyncInv

LEMMA ReadFailsStep ==
    ASSUME PoolNames, PoolTypes, NEW base, NEW x \in Pool!Runners, Pool!ReadFails(x)
    PROVE  PoolTypes' /\ SyncInv(base)'
<1>1. /\ run' = [run EXCEPT ![x] = Pool!Idle] /\ missed'
      /\ reg' = reg /\ row' = row /\ channel' = channel /\ stream' = stream
  BY DEF Pool!ReadFails, Pool!Fail
<1>2. Becomes(x, Pool!Idle)
  BY <1>1, IdleRun, RunStep
<1> QED
  BY <1>1, <1>2, MissedExcuses DEF PoolTypes, Becomes

(* What an alignment x changes: its own step, and rows.  The rest follows  *)
(* when it carries on.                                                     *)
LEMMA AlignStep ==
    ASSUME PoolTypes, NEW base, SyncInv(base), NEW x \in Pool!Runners,
           run[x].pc \in Pool!Aligning, NEW q \in Run, Becomes(x, q),
           reg' = reg, stream' = stream, channel' = channel, mixed' = mixed,
           row' \in [Pools -> PoolRow], missed' \/ missed' = missed,
           q.pc \notin {"start", "broken", "look", "resync"},
           q.pc \in Pool!Aligning /\ Carries(x, base) /\ ~missed' => Carries(x, base)',
           q.pc \notin Pool!Aligning /\ Carries(x, base) /\ ~missed' =>
              \A p \in Pools : RowAgrees(base, p)'
    PROVE  PoolTypes' /\ SyncInv(base)'
<1>1. run[x].pc \in {"writing", "disabling"}
  BY DEF Pool!Aligning
<1>2. PoolTypes'
  BY DEF PoolTypes, Becomes
<1>3. run'[x] = q /\ \A y \in Pool!Runners \ {x} : run'[y] = run[y]
  BY DEF Becomes
<1>4. \A p \in Pools : Ticket(p) => Ticket(p)'
  BY <1>1, <1>3 DEF Ticket, Pool!Runners
<1>5. Noticed(base)'
  BY <1>4, NoticedStays DEF SyncInv
<1>6. Carried(base)'
  <2> SUFFICES ASSUME ~missed', ~mixed'
               PROVE  Carried(base)'
    BY DEF Carried
  <2>1. ~missed /\ ~mixed
    OBVIOUS
  <2>2. Carries(x, base) /\ \A y \in Pool!Runners \ {x} : run[y].pc \notin Pool!Aligning
    BY <2>1 DEF SyncInv, Carried
  <2>3. \A y \in Pool!Runners : run'[y].pc \in Pool!Aligning => y = x
    BY <1>3, <2>2
  <2>4. CASE q.pc \in Pool!Aligning
    BY <1>3, <2>2, <2>3, <2>4 DEF Carried
  <2>5. CASE q.pc \notin Pool!Aligning
    BY <1>3, <2>2, <2>3, <2>5 DEF Carried
  <2> QED
    BY <2>4, <2>5
<1> QED
  BY <1>2, <1>5, <1>6 DEF SyncInv

LEMMA UpsertStep ==
    ASSUME PoolNames, PoolTypes, NEW base, SyncInv(base), NEW x \in Pool!Runners, Pool!Upsert(x)
    PROVE  PoolTypes' /\ SyncInv(base)'
<1>1. PICK seen : seen = run[x].seen
  OBVIOUS
<1>2. PICK p \in run[x].todo : Pool!Statement(x, p, Pool!Aggregate(seen, p))
  BY <1>1 DEF Pool!Upsert
<1>3. /\ run[x] \in Run /\ Sensible(run[x]) /\ run[x].pc = "writing"
      /\ run[x].pc \in Pool!Aligning
  BY DEF Pool!Upsert, PoolTypes, Pool!Aligning
<1>4. /\ p \in Pools /\ Pool!Consistent(seen, p)
      /\ seen \in [Instances -> Pool!Registration]
  BY <1>1, <1>2, <1>3, RunFields DEF Sensible, Pool!ActivePools
<1>5. PICK value \in PoolRow : value = Pool!Aggregate(seen, p)
  BY <1>4, AggregateType
<1>6. PICK q \in Run :
         /\ Becomes(x, q)
         /\ q.pc = run[x].pc /\ q.seen = run[x].seen /\ q.todo = run[x].todo \ {p}
         /\ row' = [row EXCEPT ![p] = value] \/ (row' = row /\ missed')
  BY <1>2, <1>4, <1>5, StatementStep
<1>7. /\ reg' = reg /\ stream' = stream /\ channel' = channel /\ mixed' = mixed
      /\ missed' \/ missed' = missed
  BY <1>2 DEF Pool!Statement, Pool!Fail
<1>8. row' \in [Pools -> PoolRow]
  BY <1>4, <1>5, <1>6 DEF PoolTypes
<1>9. ASSUME Carries(x, base), ~missed'
      PROVE  Carries(x, base)'
  <2>1. seen = base /\ row' = [row EXCEPT ![p] = value] /\ run'[x] = q
    BY <1>1, <1>6, <1>9 DEF Carries, Becomes
  <2>2. row'[p] = Pool!Aggregate(base, p) /\ \A o \in Pools \ {p} : row'[o] = row[o]
    BY <1>4, <1>5, <2>1 DEF PoolTypes
  <2>3. \A o \in Pools : Written(x, base, o)'
    BY <1>3, <1>6, <1>9, <2>1, <2>2 DEF Carries, Written, RowAgrees
  <2> QED
    BY <1>3, <1>6, <1>9, <2>1, <2>3 DEF Carries
<1> QED
  BY <1>3, <1>6, <1>7, <1>8, <1>9, AlignStep

LEMMA ListMissingStep ==
    ASSUME PoolNames, PoolTypes, NEW base, SyncInv(base), NEW x \in Pool!Runners,
           Pool!ListMissing(x)
    PROVE  PoolTypes' /\ SyncInv(base)'
<1>1. PICK r \in Run : r = run[x] /\ Sensible(r)
  BY DEF PoolTypes
<1>2. r.pc = "writing" /\ r.pc \in Pool!Aligning /\ r.todo = {}
  BY <1>1 DEF Pool!ListMissing, Pool!Aligning
<1>3. /\ reg' = reg /\ stream' = stream /\ channel' = channel /\ mixed' = mixed
      /\ row' = row /\ row \in [Pools -> PoolRow]
  BY DEF Pool!ListMissing, PoolTypes
<1>4. CASE missed' = missed /\ run' = [run EXCEPT ![x].pc = "disabling",
                                                 ![x].todo = Pool!Missing(run[x].seen)]
  <2>1. PICK todo : todo = Pool!Missing(r.seen)
    OBVIOUS
  <2>2. PICK q : q = [r EXCEPT !.pc = "disabling", !.todo = todo]
    OBVIOUS
  <2>3. todo \subseteq Pools
    BY <2>1 DEF Pool!Missing
  <2>4. /\ q \in Run /\ Sensible(q)
        /\ q.pc = "disabling" /\ q.seen = r.seen /\ q.todo = todo
    BY <2>2, <2>3 DEF Run, Steps, Sensible
  <2>5. run' = [run EXCEPT ![x] = q]
    BY <1>1, <1>4, <2>1, <2>2
  <2>6. Becomes(x, q)
    BY <2>4, <2>5, RunStep
  <2>7. ASSUME Carries(x, base)
        PROVE  Carries(x, base)'
    <3>1. r.seen = base /\ run'[x] = q
      BY <1>1, <2>6, <2>7 DEF Carries, Becomes
    <3>2. \A p \in Pools : Pool!Consistent(base, p) => RowAgrees(base, p)
      BY <1>1, <1>2, <2>7 DEF Carries, Written
    <3>3. \A p \in Pools :
             p \in todo <=> row[p].status = "ENABLED" /\ ~Pool!Consistent(base, p)
      BY <2>1, <3>1 DEF Pool!Missing, Pool!ActivePools
    <3>4. \A p \in Pools : Written(x, base, p)'
      BY <1>3, <2>4, <3>1, <3>2, <3>3 DEF Written, RowAgrees
    <3>5. todo \intersect Pool!ActivePools(base) = {}
      BY <3>3 DEF Pool!ActivePools
    <3> QED
      BY <2>4, <3>1, <3>4, <3>5 DEF Carries
  <2>8. q.pc \in Pool!Aligning
    BY <2>4 DEF Pool!Aligning
  <2> QED
    BY <1>1, <1>2, <1>3, <1>4, <2>4, <2>6, <2>7, <2>8, AlignStep
<1>5. CASE missed' /\ run' = [run EXCEPT ![x] = Pool!Idle]
  <2>1. Becomes(x, Pool!Idle)
    BY <1>5, IdleRun, RunStep
  <2> QED
    BY <1>3, <1>5, <2>1, MissedExcuses DEF PoolTypes, Becomes
<1> QED
  BY <1>4, <1>5 DEF Pool!ListMissing, Pool!Fail

LEMMA DisableStep ==
    ASSUME PoolNames, PoolTypes, NEW base, SyncInv(base), NEW x \in Pool!Runners,
           Pool!DisablePool(x)
    PROVE  PoolTypes' /\ SyncInv(base)'
<1>1. /\ run[x] \in Run /\ run[x].pc = "disabling" /\ run[x].pc \in Pool!Aligning
  BY DEF Pool!DisablePool, PoolTypes, Pool!Aligning
<1>2. PICK p \in run[x].todo :
         Pool!Statement(x, p, [row[p] EXCEPT !.status = "DISABLED"])
  BY DEF Pool!DisablePool
<1>3. p \in Pools
  BY <1>1, <1>2, RunFields
<1>4. PICK value : value = [row[p] EXCEPT !.status = "DISABLED"]
  OBVIOUS
<1>5. value \in PoolRow /\ value.status = "DISABLED"
  BY <1>3, <1>4 DEF PoolTypes, PoolRow
<1>6. PICK q \in Run :
         /\ Becomes(x, q)
         /\ q.pc = run[x].pc /\ q.seen = run[x].seen /\ q.todo = run[x].todo \ {p}
         /\ row' = [row EXCEPT ![p] = value] \/ (row' = row /\ missed')
  BY <1>2, <1>3, <1>4, StatementStep
<1>7. /\ reg' = reg /\ stream' = stream /\ channel' = channel /\ mixed' = mixed
      /\ missed' \/ missed' = missed
  BY <1>2 DEF Pool!Statement, Pool!Fail
<1>8. row' \in [Pools -> PoolRow]
  BY <1>3, <1>5, <1>6 DEF PoolTypes
<1>9. ASSUME Carries(x, base), ~missed'
      PROVE  Carries(x, base)'
  <2>1. row' = [row EXCEPT ![p] = value] /\ run'[x] = q
    BY <1>6, <1>9 DEF Becomes
  <2>2. row'[p].status = "DISABLED" /\ \A o \in Pools \ {p} : row'[o] = row[o]
    BY <1>3, <1>5, <2>1 DEF PoolTypes
  <2>3. ~Pool!Consistent(base, p)
    BY <1>1, <1>2, <1>3, <1>9 DEF Carries, Pool!ActivePools
  <2>4. \A o \in Pools : Written(x, base, o)'
    BY <1>1, <1>6, <1>9, <2>1, <2>2, <2>3 DEF Carries, Written, RowAgrees
  <2> QED
    BY <1>1, <1>6, <1>9, <2>1, <2>4 DEF Carries
<1> QED
  BY <1>1, <1>6, <1>7, <1>8, <1>9, AlignStep

LEMMA EndAlignStep ==
    ASSUME PoolNames, PoolTypes, NEW base, SyncInv(base), NEW x \in Pool!Runners,
           Pool!EndAlign(x)
    PROVE  PoolTypes' /\ SyncInv(base)'
<1>1. /\ run[x].pc = "disabling" /\ run[x].todo = {} /\ run[x].pc \in Pool!Aligning
      /\ run' = [run EXCEPT ![x] = Pool!Idle]
      /\ reg' = reg /\ stream' = stream /\ channel' = channel /\ mixed' = mixed
      /\ row' = row /\ row \in [Pools -> PoolRow] /\ missed' = missed
  BY DEF Pool!EndAlign, Pool!Aligning, PoolTypes
<1>2. PICK q \in Run : q = Pool!Idle
  BY IdleRun
<1>3. Becomes(x, q) /\ q.pc = "idle" /\ q.pc \notin Pool!Aligning
  BY <1>1, <1>2, IdleRun, RunStep DEF Pool!Aligning
<1>4. Carries(x, base) => \A p \in Pools : RowAgrees(base, p)'
  BY <1>1 DEF Carries, Written, RowAgrees
<1> QED
  BY <1>1, <1>3, <1>4, AlignStep

LEMMA DeliverStep ==
    ASSUME PoolNames, PoolTypes, NEW base, SyncInv(base), Pool!Deliver
    PROVE  PoolTypes' /\ SyncInv(base)'
<1>1. /\ stream # <<>> /\ stream \in Seq(Event) /\ channel \in Seq(Event)
      /\ channel' = Append(channel, Head(stream)) /\ stream' = Tail(stream)
      /\ reg' = reg /\ row' = row /\ run' = run /\ missed' = missed /\ mixed' = mixed
  BY DEF Pool!Deliver, PoolTypes
<1>2. Head(stream) \in Event /\ Tail(stream) \in Seq(Event)
  BY <1>1
<1>3. channel' \in Seq(Event)
  BY <1>1, <1>2, AppendProperties
<1>4. ASSUME NEW p, Told(stream, p) \/ Told(channel, p)
      PROVE  Told(stream', p) \/ Told(channel', p)
  BY <1>1, <1>2, <1>4, ToldHead, ToldAppend
<1>5. \A p \in Pools : Ticket(p) => Ticket(p)'
  BY <1>1, <1>4 DEF Ticket
<1>6. PoolTypes'
  BY <1>1, <1>2, <1>3 DEF PoolTypes
<1> QED
  BY <1>1, <1>5, <1>6, NoticedStays, CarriedStays DEF SyncInv

(* A goroutine that goes to read the registry again.                       *)
LEMMA WillRead ==
    ASSUME PoolTypes, NEW base, SyncInv(base), NEW x \in Pool!Runners, NEW q \in Run,
           Becomes(x, q), q.pc \in {"broken", "resync"}, run[x].pc \notin Pool!Aligning,
           run[x].pc # "start", reg' = reg, row' = row, missed' = missed, mixed' = mixed,
           stream' \in Seq(Event), channel' \in Seq(Event)
    PROVE  PoolTypes' /\ SyncInv(base)'
<1>1. PoolTypes'
  BY DEF PoolTypes, Becomes
<1>2. run'[x] = q /\ \A y \in Pool!Runners \ {x} : run'[y] = run[y]
  BY DEF Becomes
<1>3. \A p \in Pools : Ticket(p)'
  BY <1>2 DEF Ticket
<1>4. Noticed(base)'
  BY <1>3 DEF Noticed
<1>5. q.pc \notin Pool!Aligning
  BY DEF Pool!Aligning
<1>6. Carried(base)'
  BY <1>2, <1>5, CarriedStays DEF SyncInv, Pool!Runners
<1> QED
  BY <1>1, <1>4, <1>6 DEF SyncInv

LEMMA WatchBreaksStep ==
    ASSUME PoolNames, PoolTypes, NEW base, SyncInv(base), Pool!WatchBreaks
    PROVE  PoolTypes' /\ SyncInv(base)'
<1>1. PICK r \in Run : r = run["watch"]
  BY DEF PoolTypes, Pool!Runners
<1>2. PICK q : q = [r EXCEPT !.pc = "broken"]
  OBVIOUS
<1>3. q \in Run /\ Sensible(q) /\ q.pc = "broken"
  BY <1>2, GotoRun DEF Steps
<1>4. /\ run["watch"].pc = "idle" /\ run' = [run EXCEPT !["watch"] = q]
      /\ reg' = reg /\ row' = row /\ missed' = missed /\ mixed' = mixed
      /\ stream' \in Seq(Event) /\ channel' \in Seq(Event) /\ "watch" \in Pool!Runners
  BY <1>1, <1>2 DEF Pool!WatchBreaks, Pool!Watching, Pool!Goto, Pool!At, PoolTypes,
                    Pool!Runners
<1>5. Becomes("watch", q)
  BY <1>3, <1>4, RunStep
<1>6. run["watch"].pc \notin Pool!Aligning
  BY <1>4 DEF Pool!Aligning
<1> QED
  BY <1>3, <1>4, <1>5, <1>6, WillRead

LEMMA WatchFromNowStep ==
    ASSUME PoolNames, PoolTypes, NEW base, SyncInv(base), Pool!WatchFromNow
    PROVE  PoolTypes' /\ SyncInv(base)'
<1>1. /\ stream' = <<>> /\ (missed => missed') /\ (~missed' => stream = <<>>)
      /\ reg' = reg /\ row' = row /\ run' = run /\ channel' = channel /\ mixed' = mixed
  BY DEF Pool!WatchFromNow
<1>2. PoolTypes'
  BY <1>1, EmptySeq DEF PoolTypes
<1>3. ~missed' => \A p \in Pools : Ticket(p) => Ticket(p)'
  BY <1>1 DEF Ticket
<1> QED
  BY <1>1, <1>2, <1>3, NoticedStays, CarriedStays DEF SyncInv

LEMMA TakeStep ==
    ASSUME PoolNames, PoolTypes, NEW base, SyncInv(base), Pool!Take
    PROVE  PoolTypes' /\ SyncInv(base)'
<1>1. /\ run["loop"].pc = "idle" /\ channel # <<>> /\ channel \in Seq(Event)
      /\ channel' = Tail(channel) /\ "loop" \in Pool!Runners
      /\ reg' = reg /\ row' = row /\ stream' = stream /\ stream \in Seq(Event)
      /\ missed' = missed /\ mixed' = mixed
  BY DEF Pool!Take, PoolTypes, Pool!Runners
<1>2. PICK e \in Event : e = Head(channel)
  BY <1>1
<1>3. channel' \in Seq(Event)
  BY <1>1
<1>4. PICK step \in Steps : step = IF e.kind = "put" THEN "resync" ELSE "look"
  BY DEF Steps
<1>5. PICK r \in Run : r = run["loop"]
  BY <1>1 DEF PoolTypes
<1>6. PICK pool : pool = e.pool
  OBVIOUS
<1>7. PICK q : q = [r EXCEPT !.pc = step, !.pool = pool]
  OBVIOUS
<1>8. run' = [run EXCEPT !["loop"] = q]
  BY <1>2, <1>4, <1>5, <1>6, <1>7 DEF Pool!Take
<1>9. pool \in Pools
  BY <1>6 DEF Event
<1>10. q \in Run /\ Sensible(q) /\ q.pc = step /\ q.pool = pool
  BY <1>4, <1>7, <1>9 DEF Run, Sensible
<1>11. Becomes("loop", q)
  BY <1>1, <1>8, <1>10, RunStep
<1>12. run["loop"].pc \notin Pool!Aligning /\ run["loop"].pc # "start"
  BY <1>1 DEF Pool!Aligning
<1>13. CASE e.kind = "put"
  BY <1>1, <1>3, <1>4, <1>10, <1>11, <1>12, <1>13, WillRead
<1>14. CASE e.kind # "put"
  <2>1. /\ run'["loop"] = q /\ q.pc = "look" /\ q.pc \notin Pool!Aligning
        /\ \A y \in Pool!Runners \ {"loop"} : run'[y] = run[y]
    BY <1>1, <1>4, <1>10, <1>11, <1>14 DEF Becomes, Pool!Aligning
  <2>2. ASSUME NEW p \in Pools, Ticket(p)
        PROVE  Ticket(p)'
    <3>1. CASE Told(channel, p)
      <4>1. pool = p \/ Told(channel', p)
        BY <1>1, <1>2, <1>6, <1>14, <3>1, ToldHead DEF Tells
      <4> QED
        BY <1>10, <2>1, <4>1 DEF Ticket
    <3>2. CASE ~Told(channel, p)
      <4>1. \A t \in Timers : t # "loop" /\ t \in Pool!Runners
        BY DEF PoolNames, Pool!Runners
      <4> QED
        BY <1>1, <2>1, <2>2, <3>2, <4>1 DEF Ticket
    <3> QED
      BY <3>1, <3>2
  <2>3. PoolTypes'
    BY <1>1, <1>3, <1>11 DEF PoolTypes, Becomes
  <2>4. Carried(base)'
    BY <1>1, <1>12, <2>1, CarriedStays DEF SyncInv
  <2> QED
    BY <1>1, <2>2, <2>3, <2>4, NoticedStays DEF SyncInv
<1> QED
  BY <1>13, <1>14

LEMMA FirstLookStep ==
    ASSUME PoolNames, PoolTypes, NEW base, SyncInv(base), Pool!FirstLook
    PROVE  PoolTypes' /\ SyncInv(base)'
<1>1. /\ run["loop"].pc = "look" /\ "loop" \in Pool!Runners
      /\ run["loop"].pc \notin Pool!Aligning /\ run["loop"].pc # "start"
      /\ reg' = reg /\ row' = row /\ mixed' = mixed
      /\ stream' = stream /\ channel' = channel
      /\ stream' \in Seq(Event) /\ channel' \in Seq(Event)
  BY DEF Pool!FirstLook, Pool!Aligning, Pool!Runners, PoolTypes
<1>2. PICK r \in Run : r = run["loop"]
  BY <1>1 DEF PoolTypes
<1>3. PICK pool : pool = r.pool
  OBVIOUS
<1>4. CASE missed' = missed /\ Pool!Goto("loop", Pool!AfterFirstLook)
  <2>1. PICK q : q = [r EXCEPT !.pc = "resync"]
    OBVIOUS
  <2>2. q \in Run /\ Sensible(q) /\ q.pc = "resync"
    BY <2>1, GotoRun DEF Steps
  <2>3. run' = [run EXCEPT !["loop"] = q]
    BY <1>2, <1>4, <2>1 DEF Pool!Goto, Pool!At, Pool!AfterFirstLook
  <2>4. Becomes("loop", q)
    BY <1>1, <2>2, <2>3, RunStep
  <2> QED
    BY <1>1, <1>4, <2>2, <2>4, WillRead
<1>5. ASSUME NEW t \in Timers, run[t].pc = "idle", Pool!Members(reg, pool) = {},
             run' = [run EXCEPT !["loop"] = Pool!Idle,
                                ![t] = [Pool!Idle EXCEPT !.pc = "look", !.pool = pool]],
             missed' = missed
      PROVE  PoolTypes' /\ SyncInv(base)'
  <2>1. PICK idle \in Run : idle = Pool!Idle /\ idle.pc = "idle" /\ Sensible(idle)
    BY IdleRun
  <2>2. PICK q : q = [idle EXCEPT !.pc = "look", !.pool = pool]
    OBVIOUS
  <2>3. q \in Run /\ Sensible(q) /\ q.pc = "look" /\ q.pool = pool
    BY <1>3, <2>1, <2>2 DEF Run, Steps, Sensible
  <2>4. run' = [run EXCEPT !["loop"] = idle, ![t] = q]
    BY <1>5, <2>1, <2>2
  <2>5. t # "loop" /\ t \in Pool!Runners
    BY DEF PoolNames, Pool!Runners
  <2>6. /\ run' \in [Pool!Runners -> Run] /\ run'["loop"] = idle /\ run'[t] = q
        /\ \A y \in Pool!Runners \ {"loop", t} : run'[y] = run[y]
    BY <1>1, <2>3, <2>4, <2>5 DEF PoolTypes
  <2>7. PoolTypes'
    BY <1>1, <2>1, <2>3, <2>6 DEF PoolTypes
  <2>8. idle.pc \notin Pool!Aligning /\ q.pc \notin Pool!Aligning
        /\ run[t].pc \notin Pool!Aligning
    BY <1>5, <2>1, <2>3 DEF Pool!Aligning
  <2>9. Carried(base)'
    BY <1>1, <1>5, <2>6, <2>8, CarriedStays DEF SyncInv
  <2>10. ASSUME NEW p \in Pools, Ticket(p)
         PROVE  Ticket(p)'
    <3>1. CASE p = pool
      BY <1>1, <1>5, <2>3, <2>6, <3>1 DEF Ticket
    <3>2. CASE p # pool
      <4>1. ASSUME NEW x \in Pool!Runners, run[x].pc \in {"start", "broken", "resync"}
            PROVE  Ticket(p)'
        BY <1>1, <1>5, <2>6, <4>1 DEF Ticket
      <4>2. ASSUME NEW u \in Timers, run[u].pc = "look", run[u].pool = p,
                   Pool!Members(reg, p) = {}
            PROVE  Ticket(p)'
        <5>1. u # "loop" /\ u # t /\ u \in Pool!Runners
          BY <1>5, <4>2 DEF PoolNames, Pool!Runners
        <5> QED
          BY <1>1, <2>6, <4>2, <5>1 DEF Ticket
      <4>3. CASE Told(stream, p) \/ Told(channel, p)
        BY <1>1, <4>3 DEF Ticket
      <4> QED
        BY <1>2, <1>3, <2>10, <3>2, <4>1, <4>2, <4>3 DEF Ticket
    <3> QED
      BY <3>1, <3>2
  <2> QED
    BY <1>1, <1>5, <2>7, <2>9, <2>10, NoticedStays DEF SyncInv
<1>6. CASE missed' /\ run' = [run EXCEPT !["loop"] = Pool!Idle]
  <2>1. Becomes("loop", Pool!Idle)
    BY <1>1, <1>6, IdleRun, RunStep
  <2> QED
    BY <1>1, <1>6, <2>1, MissedExcuses DEF PoolTypes, Becomes
<1> QED
  BY <1>2, <1>3, <1>4, <1>5, <1>6 DEF Pool!FirstLook, Pool!Fail

LEMMA SecondLookStep ==
    ASSUME PoolNames, PoolTypes, NEW base, SyncInv(base), NEW t \in Timers, Pool!SecondLook(t)
    PROVE  PoolTypes' /\ SyncInv(base)'
<1>1. /\ run[t].pc = "look" /\ t \in Pool!Runners /\ t # "loop"
      /\ run[t].pc \notin Pool!Aligning
      /\ reg' = reg /\ row' = row /\ mixed' = mixed
      /\ stream' = stream /\ channel' = channel
      /\ stream' \in Seq(Event) /\ channel' \in Seq(Event)
  BY DEF Pool!SecondLook, Pool!Aligning, Pool!Runners, PoolTypes, PoolNames
<1>2. PICK r \in Run : r = run[t]
  BY <1>1 DEF PoolTypes
<1>3. PICK q : q = [r EXCEPT !.pc = "resync"]
  OBVIOUS
<1>4. q \in Run /\ Sensible(q) /\ q.pc = "resync"
  BY <1>3, GotoRun DEF Steps
<1>5. CASE missed' = missed /\ run' = [run EXCEPT ![t] = q]
  <2>1. Becomes(t, q)
    BY <1>1, <1>4, <1>5, RunStep
  <2> QED
    BY <1>1, <1>4, <1>5, <2>1, WillRead
<1>6. CASE run' = [run EXCEPT ![t] = Pool!Idle]
           /\ (missed' \/ (missed' = missed /\ Pool!Members(reg, run[t].pool) # {}))
  <2>1. Becomes(t, Pool!Idle)
    BY <1>1, <1>6, IdleRun, RunStep
  <2>2. PoolTypes'
    BY <1>1, <2>1 DEF PoolTypes, Becomes
  <2>3. CASE missed'
    BY <2>2, <2>3, MissedExcuses
  <2>4. CASE missed' = missed /\ Pool!Members(reg, run[t].pool) # {}
    <3>1. /\ run'[t].pc = "idle" /\ run'[t].pc \notin Pool!Aligning
          /\ \A y \in Pool!Runners \ {t} : run'[y] = run[y]
      BY <1>1, <2>1, IdleRun DEF Becomes, Pool!Aligning
    <3>2. Carried(base)'
      BY <1>1, <2>4, <3>1, CarriedStays DEF SyncInv, Pool!Runners
    <3>3. ASSUME NEW p \in Pools, Ticket(p)
          PROVE  Ticket(p)'
      <4>1. ASSUME NEW u \in Timers, run[u].pc = "look", run[u].pool = p,
                   Pool!Members(reg, p) = {}
            PROVE  Ticket(p)'
        <5>1. u # t /\ u \in Pool!Runners
          BY <2>4, <4>1 DEF Pool!Runners
        <5> QED
          BY <1>1, <3>1, <4>1, <5>1 DEF Ticket
      <4>2. ASSUME NEW x \in Pool!Runners, run[x].pc \in {"start", "broken", "resync"}
            PROVE  Ticket(p)'
        BY <1>1, <3>1, <4>2 DEF Ticket
      <4>3. CASE run["loop"].pc = "look" /\ run["loop"].pool = p
        BY <1>1, <3>1, <4>3 DEF Ticket, Pool!Runners
      <4>4. CASE Told(stream, p) \/ Told(channel, p)
        BY <1>1, <4>4 DEF Ticket
      <4> QED
        BY <3>3, <4>1, <4>2, <4>3, <4>4 DEF Ticket
    <3> QED
      BY <1>1, <2>2, <2>4, <3>2, <3>3, NoticedStays DEF SyncInv
  <2> QED
    BY <1>6, <2>3, <2>4
<1> QED
  BY <1>2, <1>3, <1>5, <1>6 DEF Pool!SecondLook, Pool!Fail

-----------------------------------------------------------------------------
SyncedInv ==
    \E base \in [Instances -> Pool!Registration] : SyncInv(base)

LEMMA PoolStep ==
    ASSUME PoolNames, PoolTypes, SyncedInv, [Pool!Next]_(Pool!vars)
    PROVE  PoolTypes' /\ SyncedInv'
<1>1. PICK base \in [Instances -> Pool!Registration] : SyncInv(base)
  BY DEF SyncedInv
<1>2. ASSUME PoolTypes' /\ SyncInv(base)'
      PROVE  PoolTypes' /\ SyncedInv'
  BY <1>2 DEF SyncedInv
<1>3. CASE UNCHANGED Pool!vars
  <2>1. PoolTypes'
    BY <1>3 DEF Pool!vars, PoolTypes
  <2>2. SyncInv(base)'
    BY <1>1, <1>3 DEF Pool!vars, SyncInv, Noticed, Carried, Carries, Written, RowAgrees,
                      Ticket
  <2> QED
    BY <1>2, <2>1, <2>2
<1>4. ASSUME NEW x \in Pool!Runners, Pool!Align(x)
      PROVE  PoolTypes' /\ SyncedInv'
  BY <1>1, <1>2, <1>4, ReadStep, ReadFailsStep, UpsertStep, ListMissingStep,
     DisableStep, EndAlignStep DEF Pool!Align, SyncedInv
<1> QED
  BY <1>1, <1>2, <1>3, <1>4, ChangeStep, DeliverStep, WatchBreaksStep,
     WatchFromNowStep, TakeStep, FirstLookStep, SecondLookStep DEF Pool!Next

LEMMA PoolInit ==
    ASSUME PoolNames, Pool!Init
    PROVE  PoolTypes /\ SyncedInv
<1>1. PICK base \in [Instances -> Pool!Registration] : base = reg
  BY DEF Pool!Init
<1>2. PICK first : first = [Pool!Idle EXCEPT !.pc = "start"]
  OBVIOUS
<1>3. first \in Run /\ Sensible(first) /\ first.pc = "start"
  BY <1>2, IdleRun, GotoRun DEF Steps
<1>4. run = [x \in Pool!Runners |-> IF x = "loop" THEN first ELSE Pool!Idle]
  BY <1>2 DEF Pool!Init
<1>5. /\ run \in [Pool!Runners -> Run] /\ \A x \in Pool!Runners : Sensible(run[x])
      /\ \A x \in Pool!Runners : run[x].pc \in {"start", "idle"}
      /\ "loop" \in Pool!Runners /\ run["loop"].pc = "start"
  BY <1>3, <1>4, IdleRun DEF Pool!Runners
<1>6. row \in [Pools -> PoolRow]
  <2>1. Pool!NoRow \in PoolRow
    BY DEF Pool!NoRow, PoolRow
  <2>2. \A s \in {"ENABLED", "DISABLED"}, c \in Configs :
           [status |-> s, config |-> c, handlers |-> {}] \in PoolRow
    BY DEF PoolRow
  <2> QED
    BY <2>1, <2>2 DEF Pool!Init
<1>7. PoolTypes
  BY <1>5, <1>6, EmptySeq DEF PoolTypes, Pool!Init
<1>8. Noticed(base)
  BY <1>1 DEF Noticed, Same
<1>9. \A x \in Pool!Runners : run[x].pc \notin Pool!Aligning
  BY <1>5 DEF Pool!Aligning
<1>10. Carried(base)
  BY <1>5, <1>9 DEF Carried
<1> QED
  BY <1>7, <1>8, <1>10 DEF SyncedInv, SyncInv

(* The operators of PoolRows are those PoolSync uses.                      *)
LEMMA SameRows ==
    \A r, p : /\ Pool!Consistent(r, p) <=> Consistent(r, p)
              /\ Pool!Aggregate(r, p) = Aggregate(r, p)
<1>1. \A S : Pool!Cardinality(S) = Cardinality(S)
  BY Zenon DEF Pool!Cardinality, Cardinality, Pool!IsFiniteSet, IsFiniteSet
<1>2. \A r, p : Pool!ConfigsOf(r, p) = ConfigsOf(r, p)
  BY DEF Pool!ConfigsOf, ConfigsOf, Pool!Members, Members
<1>3. \A r, p : Pool!Consistent(r, p) <=> Consistent(r, p)
  BY <1>1, <1>2 DEF Pool!Consistent, Consistent
<1>4. \A r, p : Pool!Aggregate(r, p) = Aggregate(r, p)
  BY <1>2 DEF Pool!Aggregate, Aggregate, Pool!Agreed, Agreed, Pool!Members, Members
<1> QED
  BY <1>3, <1>4

(* As soon as nothing is under way, the rows of the pools agree with the   *)
(* registry, unless a failure was not made good since or two alignments    *)
(* overlapped, for any number of pools, of instances and of second looks   *)
(* (QuietAgrees).                                                          *)
THEOREM PoolQuietAgrees == Pool!Spec => []QuietAgrees
<1> PoolNames
  BY RunnersAssumption, PoolsAssumption DEF PoolNames
<1>1. Pool!Init => PoolTypes /\ SyncedInv
  BY PoolInit
<1>2. PoolTypes /\ SyncedInv /\ [Pool!Next]_(Pool!vars) => PoolTypes' /\ SyncedInv'
  BY PoolStep
<1>3. PoolTypes /\ SyncedInv => QuietAgrees
  <2> SUFFICES ASSUME PoolTypes, SyncedInv, Quiet, ~missed, ~mixed, NEW p \in Pools
               PROVE  Agrees(p)
    BY DEF QuietAgrees
  <2>1. PICK base \in [Instances -> Pool!Registration] : SyncInv(base)
    BY DEF SyncedInv
  <2>2. /\ \A x \in Pool!Runners : run[x].pc = "idle"
        /\ stream = <<>> /\ channel = <<>>
    BY DEF Quiet, Runners, Pool!Runners
  <2>3. /\ \A x \in Pool!Runners : run[x].pc \notin Pool!Aligning
        /\ run["loop"].pc # "start" /\ run["loop"].pc # "look"
        /\ \A t \in Timers : run[t].pc # "look"
    BY <2>2 DEF Pool!Runners, Pool!Aligning
  <2>4. ~Ticket(p)
    BY <2>2, <2>3, ToldNothing DEF Ticket
  <2>5. Same(base, reg, p)
    BY <2>1, <2>4 DEF SyncInv, Noticed
  <2>6. RowAgrees(base, p)
    BY <2>1, <2>3 DEF SyncInv, Carried
  <2> QED
    BY <2>5, <2>6, SameAgrees, SameRows DEF RowAgrees, Agrees
<1> QED
  BY <1>1, <1>2, <1>3, PTL DEF Pool!Spec
=============================================================================
