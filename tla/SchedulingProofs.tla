-------------------------- MODULE SchedulingProofs --------------------------
(***************************************************************************)
(* Theorems on the scheduling of one task, for any number of nodes and of  *)
(* executions.  Type correctness holds whatever may interfere.  That the   *)
(* task never runs twice at a time, nor twice for one occurrence, is       *)
(* proved where the code can keep it: nodes die, the database fails,       *)
(* events are lost and executions are cancelled, but no process outlives   *)
(* its lease and no user starts, stops or edits the task in between.       *)
(***************************************************************************)
EXTENDS Scheduling, FiniteSetTheorems, TLAPS

(* Only what the lock is meant to withstand happens.                       *)
Unattended == Disturbances \intersect {"stall", "stop", "start", "edit"} = {}

Holding == {"acquired", "create", "undo", "giveup"}

Pending(e) == done[e] # "none"

LockedBy(n) == owner = n /\ status \in {"PREEMPTED", "COMPLETED"}

(* Whoever has work in hand under the lock of a node finds that lock in    *)
(* the row: an execution that is open, a node about to create one, and the *)
(* consumer of a completion event as long as the node is up.               *)
LockIsKept ==
    /\ \A e \in Execs :
          exec[e] = "open" => lock[e] \in Nodes /\ LockedBy(lock[e])
    /\ \A n \in Nodes : pc[n] \in Holding => LockedBy(n)
    /\ \A e \in Execs :
          Pending(e) => /\ exec[e] = "final"
                        /\ lock[e] \in Nodes
                        /\ lock[e] \in up => LockedBy(lock[e])

(* And under the lock of one node, only one of them has.                   *)
OneHolder ==
    /\ \A e, f \in Execs : exec[e] = "open" /\ exec[f] = "open" => e = f
    /\ \A e \in Execs, n \in Nodes : ~(exec[e] = "open" /\ pc[n] \in Holding)
    /\ \A e, f \in Execs :
          exec[e] = "open" /\ Pending(f) => lock[e] # lock[f]
    /\ \A e \in Execs, n \in Nodes :
          Pending(e) /\ pc[n] \in Holding => lock[e] # n
    /\ \A e, f \in Execs :
          Pending(e) /\ Pending(f) /\ lock[e] = lock[f] => e = f

(* A node whose list is still fresh may take the lock.                     *)
FreshListIsSafe ==
    /\ \A n \in Nodes :
          n \in fresh =>
             /\ pc[n] = "listed" =>
                   \/ status = "ACTIVE"
                   \/ status = "PREEMPTED" /\ expired /\ Open = {}
             /\ pc[n] = "recheck" => status = "PREEMPTED" /\ expired
             /\ pc[n] \notin Holding \union {"stop"}
    /\ expired => status = "PREEMPTED" /\ owner \notin up

Alive ==
    /\ \A n \in Nodes : pc[n] # "idle" => n \in up
    /\ \A n \in Nodes : pc[n] = "create" => snapshot[n] = n

NobodyInterferes ==
    /\ status # "INACTIVE"
    /\ stopper = "idle" /\ targets = {} /\ editor = "idle"

(* What the inductive invariant says beside the types.                     *)
Locking ==
    LockIsKept /\ OneHolder /\ FreshListIsSafe /\ Alive /\ NobodyInterferes

(* Whatever interferes, a list that is still fresh shows a live task.      *)
ListedIsLive ==
    \A n \in Nodes :
       n \in fresh /\ pc[n] \in {"listed", "recheck"} =>
          status \in {"ACTIVE", "PREEMPTED"}

-----------------------------------------------------------------------------
(* The Boolean variables stay Boolean.                                     *)
LEMMA FlagsStay ==
    ASSUME FlagsOK, [Next]_vars
    PROVE  FlagsOK'
<1> USE FlagsOK
    DEF FlagsOK, Touched, task, nodes, execs, consumer, users, ghosts
<1>0. CASE UNCHANGED vars
  BY <1>0, Zenon DEF vars
<1>1. CASE NextTimeComes
  BY <1>1, Zenon DEF NextTimeComes
<1>2. CASE LeaseExpires
  BY <1>2, Zenon DEF LeaseExpires
<1>3. ASSUME NEW n \in Nodes, Renew(n)
      PROVE  FlagsOK'
  BY <1>3, Zenon DEF Renew
<1>4. ASSUME NEW n \in Nodes, List(n)
      PROVE  FlagsOK'
  BY <1>4, Zenon DEF List
<1>5. ASSUME NEW n \in Nodes, Recheck(n)
      PROVE  FlagsOK'
  BY <1>5, Zenon DEF Recheck
<1>6. ASSUME NEW n \in Nodes, Acquire(n)
      PROVE  FlagsOK'
  BY <1>6, Zenon DEF Acquire
<1>7. ASSUME NEW n \in Nodes, PlanFails(n)
      PROVE  FlagsOK'
  BY <1>7, Zenon DEF PlanFails
<1>8. ASSUME NEW n \in Nodes, BuildSnapshot(n)
      PROVE  FlagsOK'
  BY <1>8, Zenon DEF BuildSnapshot
<1>9. ASSUME NEW n \in Nodes, NEW e \in Execs, Create(n, e)
      PROVE  FlagsOK'
  BY <1>9, Zenon DEF Create
<1>10. ASSUME NEW n \in Nodes, CreateFails(n)
      PROVE  FlagsOK'
  BY <1>10, Zenon DEF CreateFails
<1>11. ASSUME NEW n \in Nodes, Undo(n)
      PROVE  FlagsOK'
  BY <1>11, Zenon DEF Undo, Release, Unlock, Forsaken
<1>12. ASSUME NEW n \in Nodes, StopFatal(n)
      PROVE  FlagsOK'
  BY <1>12, Zenon DEF StopFatal, UpdateStatus
<1>13. ASSUME NEW n \in Nodes, Crash(n)
      PROVE  FlagsOK'
  BY <1>13, Zenon DEF Crash
<1>14. ASSUME NEW e \in Execs, Complete(e)
      PROVE  FlagsOK'
  BY <1>14, Zenon DEF Complete
<1>15. ASSUME NEW e \in Execs, Settle(e)
      PROVE  FlagsOK'
  BY <1>15, Zenon DEF Settle
<1>16. ASSUME NEW e \in Execs, ReadTask(e)
      PROVE  FlagsOK'
  BY <1>16, Zenon DEF ReadTask
<1>17. ASSUME NEW e \in Execs, CompleteTask(e)
      PROVE  FlagsOK'
  BY <1>17, Zenon DEF CompleteTask, UpdateStatus
<1>18. ASSUME NEW e \in Execs, WriteNextTime(e)
      PROVE  FlagsOK'
  BY <1>18, Zenon DEF WriteNextTime, Forsaken
<1>19. ASSUME NEW e \in Execs, ReleaseTask(e)
      PROVE  FlagsOK'
  BY <1>19, Zenon DEF ReleaseTask, Release, Unlock
<1>20. ASSUME NEW e \in Execs, ConsumerDies(e)
      PROVE  FlagsOK'
  BY <1>20, Zenon DEF ConsumerDies, Forsaken
<1>21. ASSUME NEW e \in Execs, Cancel(e)
      PROVE  FlagsOK'
  BY <1>21, Zenon DEF Cancel, Cancelled, Unlock
<1>22. CASE Stop
  BY <1>22, Zenon DEF Stop, UpdateStatus
<1>23. CASE FindActive
  BY <1>23, Zenon DEF FindActive
<1>24. ASSUME NEW e \in Execs, StopExecution(e)
      PROVE  FlagsOK'
  BY <1>24, Zenon DEF StopExecution, Cancelled, Unlock
<1>25. CASE Start
  BY <1>25, Zenon DEF Start
<1>26. CASE Reschedule
  BY <1>26, Zenon DEF Reschedule
<1>27. CASE ReadForEdit
  BY <1>27, Zenon DEF ReadForEdit
<1>28. CASE WriteEdit
  BY <1>28, Zenon DEF WriteEdit, SavedTime
<1> QED
  BY <1>0, <1>1, <1>2, <1>3, <1>4, <1>5, <1>6, <1>7, <1>8, <1>9, <1>10,
     <1>11, <1>12, <1>13, <1>14, <1>15, <1>16, <1>17, <1>18, <1>19,
     <1>20, <1>21, <1>22, <1>23, <1>24, <1>25, <1>26, <1>27, <1>28
     DEF Next, Dispatch, HandleEvent, UserStep

(* All others keep their types, whatever interferes.                       *)
LEMMA StatesStay ==
    ASSUME StatesOK, [Next]_vars
    PROVE  StatesOK'
<1> USE StatesOK DEF StatesOK, Labels, Kinds, Owners, Touched, Goto,
      task, nodes, execs, consumer, users, ghosts
<1>0. CASE UNCHANGED vars
  BY <1>0 DEF vars
<1>1. CASE NextTimeComes
  BY <1>1 DEF NextTimeComes
<1>2. CASE LeaseExpires
  BY <1>2 DEF LeaseExpires
<1>3. ASSUME NEW n \in Nodes, Renew(n)
      PROVE  StatesOK'
  BY <1>3 DEF Renew
<1>4. ASSUME NEW n \in Nodes, List(n)
      PROVE  StatesOK'
  BY <1>4 DEF List
<1>5. ASSUME NEW n \in Nodes, Recheck(n)
      PROVE  StatesOK'
  BY <1>5 DEF Recheck
<1>6. ASSUME NEW n \in Nodes, Acquire(n)
      PROVE  StatesOK'
  BY <1>6 DEF Acquire
<1>7. ASSUME NEW n \in Nodes, PlanFails(n)
      PROVE  StatesOK'
  BY <1>7 DEF PlanFails
<1>8. ASSUME NEW n \in Nodes, BuildSnapshot(n)
      PROVE  StatesOK'
  BY <1>8 DEF BuildSnapshot
<1>9. ASSUME NEW n \in Nodes, NEW e \in Execs, Create(n, e)
      PROVE  StatesOK'
  BY <1>9 DEF Create
<1>10. ASSUME NEW n \in Nodes, CreateFails(n)
      PROVE  StatesOK'
  BY <1>10 DEF CreateFails
<1>11. ASSUME NEW n \in Nodes, Undo(n)
      PROVE  StatesOK'
  BY <1>11 DEF Undo, Release, Unlock, Holds
<1>12. ASSUME NEW n \in Nodes, StopFatal(n)
      PROVE  StatesOK'
  BY <1>12 DEF StopFatal, UpdateStatus, SameVersion
<1>13. ASSUME NEW n \in Nodes, Crash(n)
      PROVE  StatesOK'
  BY <1>13 DEF Crash
<1>14. ASSUME NEW e \in Execs, Complete(e)
      PROVE  StatesOK'
  BY <1>14 DEF Complete
<1>15. ASSUME NEW e \in Execs, Settle(e)
      PROVE  StatesOK'
  BY <1>15, AttemptsAssumption DEF Settle, Handle
<1>16. ASSUME NEW e \in Execs, ReadTask(e)
      PROVE  StatesOK'
  BY <1>16 DEF ReadTask, Handle
<1>17. ASSUME NEW e \in Execs, CompleteTask(e)
      PROVE  StatesOK'
  BY <1>17 DEF CompleteTask, Handle, UpdateStatus
<1>18. ASSUME NEW e \in Execs, WriteNextTime(e)
      PROVE  StatesOK'
  BY <1>18, AttemptsAssumption
     DEF WriteNextTime, Handle, SameVersion, TriesLeft, Displaced
<1>19. ASSUME NEW e \in Execs, ReleaseTask(e)
      PROVE  StatesOK'
  BY <1>19 DEF ReleaseTask, Handle, Release, Unlock, Holds
<1>20. ASSUME NEW e \in Execs, ConsumerDies(e)
      PROVE  StatesOK'
  BY <1>20 DEF ConsumerDies, Handle
<1>21. ASSUME NEW e \in Execs, Cancel(e)
      PROVE  StatesOK'
  BY <1>21 DEF Cancel, Cancelled, Unlock, Holds
<1>22. CASE Stop
  BY <1>22 DEF Stop, Request, UpdateStatus
<1>23. CASE FindActive
  BY <1>23 DEF FindActive, Open
<1>24. ASSUME NEW e \in Execs, StopExecution(e)
      PROVE  StatesOK'
  BY <1>24 DEF StopExecution, Cancelled, Unlock, Holds
<1>25. CASE Start
  BY <1>25 DEF Start, Request, Displaced
<1>26. CASE Reschedule
  BY <1>26 DEF Reschedule, Request, Displaced
<1>27. CASE ReadForEdit
  BY <1>27 DEF ReadForEdit, Request
<1>28. CASE WriteEdit
  BY <1>28 DEF WriteEdit
<1> QED
  BY <1>0, <1>1, <1>2, <1>3, <1>4, <1>5, <1>6, <1>7, <1>8, <1>9, <1>10,
     <1>11, <1>12, <1>13, <1>14, <1>15, <1>16, <1>17, <1>18, <1>19,
     <1>20, <1>21, <1>22, <1>23, <1>24, <1>25, <1>26, <1>27, <1>28
     DEF Next, Dispatch, HandleEvent, UserStep

(* Type correctness: every variable keeps its type, whatever interferes.   *)
THEOREM SchedulingTypeOK == Spec => []TypeOK
<1>1. Init => FlagsOK
  BY Zenon DEF Init, FlagsOK
<1>2. Init => StatesOK
  BY AttemptsAssumption DEF Init, StatesOK, Kinds, Owners, Labels
<1>3. TypeOK /\ [Next]_vars => TypeOK'
  BY FlagsStay, StatesStay DEF TypeOK
<1> QED
  BY <1>1, <1>2, <1>3, PTL DEF Spec, TypeOK
-----------------------------------------------------------------------------
(* Without users, their steps are impossible.                              *)
LEMMA NoUserStep ==
    ASSUME Unattended, NobodyInterferes
    PROVE  ~UserStep
BY DEF Unattended, NobodyInterferes, UserStep, Stop, FindActive,
       StopExecution, Start, Reschedule, ReadForEdit, WriteEdit, Request

(* The inductive step.                                                     *)
LEMMA LockingStep ==
    ASSUME Unattended, TypeOK, Locking, [Next]_vars
    PROVE  Locking'
<1> USE TypeOK, Locking, ReadersAssumption, NoNodeAssumption
    DEF TypeOK, StatesOK, Labels, Owners, Touched, Goto, Holding, Pending,
      LockedBy, Open, task, nodes, execs, consumer, users, ghosts,
      Locking, LockIsKept, OneHolder, FreshListIsSafe, Alive, NobodyInterferes
<1>0. CASE UNCHANGED vars
  BY <1>0 DEF vars
<1>1. CASE NextTimeComes
  BY <1>1 DEF NextTimeComes
<1>2. CASE LeaseExpires
  BY <1>2, Unattended DEF LeaseExpires, Unattended
<1>3. ASSUME NEW n \in Nodes, Renew(n)
      PROVE  Locking'
  BY <1>3 DEF Renew, Holds
<1>4. ASSUME NEW n \in Nodes, List(n)
      PROVE  Locking'
  BY <1>4 DEF List, Schedulable, SameVersion
<1>5. ASSUME NEW n \in Nodes, Recheck(n)
      PROVE  Locking'
  BY <1>5 DEF Recheck
<1>6. ASSUME NEW n \in Nodes, Acquire(n)
      PROVE  Locking'
  BY <1>6 DEF Acquire, Schedulable, SameVersion
<1>7. ASSUME NEW n \in Nodes, PlanFails(n)
      PROVE  Locking'
  BY <1>7 DEF PlanFails
<1>8. ASSUME NEW n \in Nodes, BuildSnapshot(n)
      PROVE  Locking'
  BY <1>8 DEF BuildSnapshot
<1>9. ASSUME NEW n \in Nodes, NEW e \in Execs, Create(n, e)
      PROVE  Locking'
  BY <1>9 DEF Create
<1>10. ASSUME NEW n \in Nodes, CreateFails(n)
      PROVE  Locking'
  BY <1>10 DEF CreateFails
<1>11. ASSUME NEW n \in Nodes, Undo(n)
      PROVE  Locking'
  BY <1>11 DEF Undo, Release, Unlock, Holds
<1>12. ASSUME NEW n \in Nodes, StopFatal(n)
      PROVE  Locking'
  BY <1>12 DEF StopFatal, UpdateStatus, SameVersion
<1>13. ASSUME NEW n \in Nodes, Crash(n)
      PROVE  Locking'
  BY <1>13 DEF Crash
<1>14. ASSUME NEW e \in Execs, Complete(e)
      PROVE  Locking'
  BY <1>14 DEF Complete
<1>15. ASSUME NEW e \in Execs, Settle(e)
      PROVE  Locking'
  BY <1>15 DEF Settle, Handle
<1>16. ASSUME NEW e \in Execs, ReadTask(e)
      PROVE  Locking'
  BY <1>16 DEF ReadTask, Handle
<1>17. ASSUME NEW e \in Execs, CompleteTask(e)
      PROVE  Locking'
  BY <1>17 DEF CompleteTask, Handle, UpdateStatus
<1>18. ASSUME NEW e \in Execs, WriteNextTime(e)
      PROVE  Locking'
  BY <1>18 DEF WriteNextTime, Handle, SameVersion, TriesLeft, Displaced
<1>19. ASSUME NEW e \in Execs, ReleaseTask(e)
      PROVE  Locking'
  BY <1>19 DEF ReleaseTask, Handle, Release, Unlock, Holds
<1>20. ASSUME NEW e \in Execs, ConsumerDies(e)
      PROVE  Locking'
  BY <1>20 DEF ConsumerDies, Handle
<1>21. ASSUME NEW e \in Execs, Cancel(e)
      PROVE  Locking'
  BY <1>21 DEF Cancel, Cancelled, Unlock, Holds
<1> QED
  BY NoUserStep, <1>0, <1>1, <1>2, <1>3, <1>4, <1>5, <1>6, <1>7, <1>8,
     <1>9, <1>10, <1>11, <1>12, <1>13, <1>14, <1>15, <1>16, <1>17,
     <1>18, <1>19, <1>20, <1>21
     DEF Next, Dispatch, HandleEvent

(* What holds of the lock in every state.                                  *)
LEMMA LockingAlways ==
    ASSUME Unattended
    PROVE  Spec => []Locking
<1>1. Init => Locking
  BY NoNodeAssumption
     DEF Init, Locking, LockIsKept, OneHolder, FreshListIsSafe, Alive,
         NobodyInterferes, Holding, Pending
<1>2. TypeOK /\ Locking /\ [Next]_vars => Locking'
  BY LockingStep
<1> QED
  BY <1>1, <1>2, SchedulingTypeOK, PTL DEF Spec

LEMMA OneOrNone ==
    ASSUME Locking
    PROVE  Cardinality(Open) \in {0, 1}
<1>1. CASE Open = {}
  BY <1>1, FS_EmptySet
<1>2. CASE Open # {}
  <2>1. PICK e : e \in Open
    BY <1>2
  <2>2. Open = {e}
    BY <2>1 DEF Open, Locking, OneHolder
  <2> QED
    BY <2>2, FS_Singleton
<1> QED
  BY <1>1, <1>2

(* The task never has two executions under way, with any number of nodes   *)
(* that die, lose their database or find an old list, and with any delay   *)
(* of the completion events (OneOpenExecution).                            *)
THEOREM SchedulingOneOpenExecution ==
    ASSUME Unattended
    PROVE  Spec => []OneOpenExecution
<1>1. Locking => OneOpenExecution
  BY OneOrNone DEF OneOpenExecution
<1> QED
  BY <1>1, LockingAlways, PTL

(* A task that is free to be scheduled has no execution under way: its     *)
(* lock is given back too late at worst, never too early (ActiveMeansFree).*)
THEOREM SchedulingActiveMeansFree ==
    ASSUME Unattended
    PROVE  Spec => []ActiveMeansFree
<1>1. Locking => ActiveMeansFree
  BY DEF Locking, LockIsKept, LockedBy, ActiveMeansFree, Open
<1> QED
  BY <1>1, LockingAlways, PTL

-----------------------------------------------------------------------------
(* One run for each occurrence of the schedule                             *)

(* No node has died, and the task goes on.                                 *)
Recurs == kind = "RECURRING" /\ fires /\ up = Nodes

Busy ==
    \/ \E e \in Execs : exec[e] = "open"
    \/ \E n \in Nodes : pc[n] \in Holding

(* Whoever can bring about a run, now or by giving the lock back while     *)
(* next_time has come, does so before a run of this occurrence has ended:  *)
(* ran is 0.  After that the lock stays until next_time is a later one,    *)
(* for ever if the consumer dies on the way.                               *)
OneRun ==
    /\ ran <= 1
    /\ status \in {"ACTIVE", "PREEMPTED"}
    /\ status = "PREEMPTED" => owner \in Nodes
    /\ ~expired
    /\ status = "ACTIVE" /\ due => ran = 0
    /\ Busy => due /\ ran = 0
    /\ \A e \in Execs :
          /\ done[e] # "complete"
          /\ done[e] \in {"next", "write"} => due
          /\ done[e] = "release" /\ due => ran = 0
    /\ \A n \in Nodes : n \in fresh /\ pc[n] = "listed" => due

(* Kind and cron expression stay, and a node that died does not return.    *)
LEMMA RecursBefore ==
    ASSUME Unattended, TypeOK, NobodyInterferes, [Next]_vars, Recurs'
    PROVE  Recurs
<1> USE DEF Recurs
<1>1. CASE UNCHANGED vars
  BY <1>1 DEF vars, nodes
<1>2. CASE NextTimeComes \/ LeaseExpires
  BY <1>2 DEF NextTimeComes, LeaseExpires, nodes
<1>3. ASSUME NEW n \in Nodes, Renew(n) \/ Dispatch(n) \/ Crash(n)
      PROVE  Recurs
  BY <1>3 DEF Renew, Dispatch, List, Recheck, Acquire, PlanFails, BuildSnapshot,
              Create, CreateFails, Undo, StopFatal, Crash, nodes, TypeOK, StatesOK
<1>4. ASSUME NEW e \in Execs,
             Complete(e) \/ HandleEvent(e) \/ ConsumerDies(e) \/ Cancel(e)
      PROVE  Recurs
  BY <1>4 DEF Complete, HandleEvent, Settle, ReadTask, CompleteTask, WriteNextTime,
              ReleaseTask, ConsumerDies, Cancel, nodes
<1> QED
  BY NoUserStep, <1>1, <1>2, <1>3, <1>4 DEF Next

LEMMA OneRunStep ==
    ASSUME Unattended, TypeOK, Locking, Recurs, OneRun, [Next]_vars, up' = Nodes
    PROVE  OneRun'
<1> USE TypeOK, Locking, Recurs, OneRun, ReadersAssumption, NoNodeAssumption
    DEF TypeOK, StatesOK, FlagsOK, Owners, Touched, Goto, Holding, Pending, LockedBy,
      Open, Busy, task, nodes, execs, consumer, users, ghosts, Recurs, OneRun,
      Locking, LockIsKept, OneHolder, FreshListIsSafe, Alive
<1>0. CASE UNCHANGED vars
  BY <1>0 DEF vars
<1>1. CASE NextTimeComes
  BY <1>1 DEF NextTimeComes
<1>2. CASE LeaseExpires
  BY <1>2, Unattended DEF LeaseExpires, Unattended
<1>3. ASSUME NEW n \in Nodes, Renew(n)
      PROVE  OneRun'
  BY <1>3 DEF Renew
<1>4. ASSUME NEW n \in Nodes, List(n)
      PROVE  OneRun'
  BY <1>4 DEF List, Schedulable
<1>5. ASSUME NEW n \in Nodes, Recheck(n)
      PROVE  OneRun'
  BY <1>5 DEF Recheck
<1>6. ASSUME NEW n \in Nodes, Acquire(n)
      PROVE  OneRun'
  BY <1>6 DEF Acquire, SameVersion
<1>7. ASSUME NEW n \in Nodes, PlanFails(n)
      PROVE  OneRun'
  BY <1>7 DEF PlanFails
<1>8. ASSUME NEW n \in Nodes, BuildSnapshot(n)
      PROVE  OneRun'
  BY <1>8 DEF BuildSnapshot
<1>9. ASSUME NEW n \in Nodes, NEW e \in Execs, Create(n, e)
      PROVE  OneRun'
  BY <1>9 DEF Create
<1>10. ASSUME NEW n \in Nodes, CreateFails(n)
      PROVE  OneRun'
  BY <1>10 DEF CreateFails
<1>11. ASSUME NEW n \in Nodes, Undo(n)
      PROVE  OneRun'
  BY <1>11 DEF Undo, Release, Unlock, Holds
<1>12. ASSUME NEW n \in Nodes, StopFatal(n)
      PROVE  OneRun'
  BY <1>12 DEF StopFatal, SameVersion
<1>13. ASSUME NEW n \in Nodes, Crash(n)
      PROVE  OneRun'
  BY <1>13 DEF Crash
<1>14. ASSUME NEW e \in Execs, Complete(e)
      PROVE  OneRun'
  BY <1>14 DEF Complete
<1>15. ASSUME NEW e \in Execs, Settle(e)
      PROVE  OneRun'
  BY <1>15 DEF Settle, Handle
<1>16. ASSUME NEW e \in Execs, ReadTask(e)
      PROVE  OneRun'
  BY <1>16 DEF ReadTask, NoNextTime, Handle
<1>17. ASSUME NEW e \in Execs, CompleteTask(e)
      PROVE  OneRun'
  BY <1>17 DEF CompleteTask
<1>18. ASSUME NEW e \in Execs, WriteNextTime(e)
      PROVE  OneRun'
  BY <1>18 DEF WriteNextTime, Handle
<1>19. ASSUME NEW e \in Execs, ReleaseTask(e)
      PROVE  OneRun'
  BY <1>19 DEF ReleaseTask, Handle, Release, Unlock, Holds
<1>20. ASSUME NEW e \in Execs, ConsumerDies(e)
      PROVE  OneRun'
  BY <1>20 DEF ConsumerDies, Handle
<1>21. ASSUME NEW e \in Execs, Cancel(e)
      PROVE  OneRun'
  BY <1>21 DEF Cancel, Cancelled, Unlock, Holds
<1> QED
  BY NoUserStep, <1>0, <1>1, <1>2, <1>3, <1>4, <1>5, <1>6, <1>7, <1>8,
     <1>9, <1>10, <1>11, <1>12, <1>13, <1>14, <1>15, <1>16, <1>17,
     <1>18, <1>19, <1>20, <1>21
     DEF Next, Dispatch, HandleEvent

(* One occurrence of the schedule runs the task to its end at most once,   *)
(* with any number of nodes, failed dispatches, lost completion events and *)
(* cancellations (OneRunPerOccurrence).                                    *)
THEOREM SchedulingOneRun ==
    ASSUME Unattended
    PROVE  Spec => []OneRunPerOccurrence
<1>1. Init => (Recurs => OneRun)
  BY NoNodeAssumption DEF Init, Recurs, OneRun, Busy, Holding
<1>2. TypeOK /\ Locking /\ (Recurs => OneRun) /\ [Next]_vars => (Recurs => OneRun)'
  BY RecursBefore, OneRunStep DEF Locking, Recurs
<1>3. Locking /\ TypeOK /\ (Recurs => OneRun) => OneRunPerOccurrence
  <2> SUFFICES ASSUME Locking, TypeOK, OneRun
               PROVE  ran + Cardinality(Open) <= 1
    BY DEF OneRunPerOccurrence, Recurs
  <2>1. CASE Open = {}
    BY <2>1, FS_EmptySet DEF TypeOK, StatesOK, OneRun
  <2>2. CASE Open # {}
    <3>1. ran = 0
      BY <2>2 DEF OneRun, Busy, Open
    <3> QED
      BY <3>1, OneOrNone
  <2> QED
    BY <2>1, <2>2
<1> QED
  BY <1>1, <1>2, <1>3, LockingAlways, SchedulingTypeOK, PTL
     DEF Spec

-----------------------------------------------------------------------------
(* Every write of the status raises the version, so that a list which is   *)
(* still fresh shows the status the task has.                              *)
LEMMA ListedIsLiveStep ==
    ASSUME TypeOK, ListedIsLive, [Next]_vars
    PROVE  ListedIsLive'
<1> USE TypeOK, ListedIsLive, ReadersAssumption
    DEF TypeOK, StatesOK, ListedIsLive, Touched, Goto,
        task, nodes, execs, consumer, users, ghosts
<1>0. CASE UNCHANGED vars
  BY <1>0 DEF vars
<1>1. CASE NextTimeComes
  BY <1>1 DEF NextTimeComes
<1>2. CASE LeaseExpires
  BY <1>2 DEF LeaseExpires
<1>3. ASSUME NEW n \in Nodes, Renew(n)
      PROVE  ListedIsLive'
  BY <1>3 DEF Renew
<1>4. ASSUME NEW n \in Nodes, List(n)
      PROVE  ListedIsLive'
  BY <1>4 DEF List, Schedulable
<1>5. ASSUME NEW n \in Nodes, Recheck(n)
      PROVE  ListedIsLive'
  BY <1>5 DEF Recheck
<1>6. ASSUME NEW n \in Nodes, Acquire(n)
      PROVE  ListedIsLive'
  BY <1>6 DEF Acquire
<1>7. ASSUME NEW n \in Nodes, PlanFails(n)
      PROVE  ListedIsLive'
  BY <1>7 DEF PlanFails
<1>8. ASSUME NEW n \in Nodes, BuildSnapshot(n)
      PROVE  ListedIsLive'
  BY <1>8 DEF BuildSnapshot
<1>9. ASSUME NEW n \in Nodes, NEW e \in Execs, Create(n, e)
      PROVE  ListedIsLive'
  BY <1>9 DEF Create
<1>10. ASSUME NEW n \in Nodes, CreateFails(n)
      PROVE  ListedIsLive'
  BY <1>10 DEF CreateFails
<1>11. ASSUME NEW n \in Nodes, Undo(n)
      PROVE  ListedIsLive'
  BY <1>11 DEF Undo, Release, Unlock, Holds
<1>12. ASSUME NEW n \in Nodes, StopFatal(n)
      PROVE  ListedIsLive'
  BY <1>12 DEF StopFatal, UpdateStatus
<1>13. ASSUME NEW n \in Nodes, Crash(n)
      PROVE  ListedIsLive'
  BY <1>13 DEF Crash
<1>14. ASSUME NEW e \in Execs, Complete(e)
      PROVE  ListedIsLive'
  BY <1>14 DEF Complete
<1>15. ASSUME NEW e \in Execs, Settle(e)
      PROVE  ListedIsLive'
  BY <1>15 DEF Settle
<1>16. ASSUME NEW e \in Execs, ReadTask(e)
      PROVE  ListedIsLive'
  BY <1>16 DEF ReadTask
<1>17. ASSUME NEW e \in Execs, CompleteTask(e)
      PROVE  ListedIsLive'
  BY <1>17 DEF CompleteTask, UpdateStatus
<1>18. ASSUME NEW e \in Execs, WriteNextTime(e)
      PROVE  ListedIsLive'
  BY <1>18 DEF WriteNextTime
<1>19. ASSUME NEW e \in Execs, ReleaseTask(e)
      PROVE  ListedIsLive'
  BY <1>19 DEF ReleaseTask, Release, Unlock, Holds
<1>20. ASSUME NEW e \in Execs, ConsumerDies(e)
      PROVE  ListedIsLive'
  BY <1>20 DEF ConsumerDies
<1>21. ASSUME NEW e \in Execs, Cancel(e)
      PROVE  ListedIsLive'
  BY <1>21 DEF Cancel, Cancelled, Unlock, Holds
<1>22. CASE Stop
  BY <1>22 DEF Stop, UpdateStatus
<1>23. CASE FindActive
  BY <1>23 DEF FindActive
<1>24. ASSUME NEW e \in Execs, StopExecution(e)
      PROVE  ListedIsLive'
  BY <1>24 DEF StopExecution, Cancelled, Unlock, Holds
<1>25. CASE Start
  BY <1>25 DEF Start
<1>26. CASE Reschedule
  BY <1>26 DEF Reschedule
<1>27. CASE ReadForEdit
  BY <1>27 DEF ReadForEdit
<1>28. CASE WriteEdit
  BY <1>28 DEF WriteEdit, SavedTime
<1> QED
  BY <1>0, <1>1, <1>2, <1>3, <1>4, <1>5, <1>6, <1>7, <1>8, <1>9, <1>10,
     <1>11, <1>12, <1>13, <1>14, <1>15, <1>16, <1>17, <1>18, <1>19,
     <1>20, <1>21, <1>22, <1>23, <1>24, <1>25, <1>26, <1>27, <1>28
     DEF Next, Dispatch, HandleEvent, UserStep

(* A stopped or completed task comes back only by the hand of a user,      *)
(* whatever else interferes (StoppedStaysStopped).                         *)
THEOREM SchedulingStoppedStaysStopped == Spec => StoppedStaysStopped
<1>1. Init => ListedIsLive
  BY DEF Init, ListedIsLive
<1>2. TypeOK /\ ListedIsLive /\ [Next]_vars => ListedIsLive'
  BY ListedIsLiveStep
<1>3. TypeOK /\ ListedIsLive /\ [Next]_vars
      => [(status \in {"INACTIVE", "COMPLETED"}
           /\ status' \notin {"INACTIVE", "COMPLETED"}) => ops' > ops]_vars
  <2> SUFFICES ASSUME TypeOK, ListedIsLive, Next,
                      status \in {"INACTIVE", "COMPLETED"},
                      status' \notin {"INACTIVE", "COMPLETED"}
               PROVE  ops' > ops
    OBVIOUS
  <2> USE DEF task, Touched
  <2>1. CASE NextTimeComes \/ LeaseExpires
    BY <2>1 DEF NextTimeComes, LeaseExpires
  <2>2. ASSUME NEW n \in Nodes, Renew(n) \/ Dispatch(n) \/ Crash(n)
        PROVE  FALSE
    BY <2>2 DEF Renew, Dispatch, List, Recheck, Acquire, PlanFails,
         BuildSnapshot, Create, CreateFails, Undo, StopFatal, Crash,
         Release, Holds, Unlock, UpdateStatus, SameVersion, ListedIsLive
  <2>3. ASSUME NEW e \in Execs,
               Complete(e) \/ HandleEvent(e) \/ ConsumerDies(e) \/ Cancel(e)
        PROVE  FALSE
    BY <2>3 DEF Complete, HandleEvent, Settle, ReadTask, CompleteTask,
         WriteNextTime, ReleaseTask, ConsumerDies, Cancel, Cancelled,
         Release, Holds, Unlock, UpdateStatus
  <2>4. CASE UserStep
    <3>1. CASE Start \/ Reschedule
      BY <3>1 DEF Start, Reschedule, Request, TypeOK, StatesOK
    <3>2. CASE Stop \/ FindActive \/ ReadForEdit \/ WriteEdit
      BY <3>2 DEF Stop, FindActive, ReadForEdit, WriteEdit, UpdateStatus
    <3>3. ASSUME NEW e \in Execs, StopExecution(e)
          PROVE  FALSE
      BY <3>3 DEF StopExecution, Cancelled, Holds, Unlock
    <3> QED
      BY <2>4, <3>1, <3>2, <3>3 DEF UserStep
  <2> QED
    BY <2>1, <2>2, <2>3, <2>4 DEF Next
<1> QED
  BY <1>1, <1>2, <1>3, SchedulingTypeOK, PTL DEF Spec, StoppedStaysStopped
=============================================================================
