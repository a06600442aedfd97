----------------------------- MODULE Scheduling -----------------------------
(***************************************************************************)
(* One scheduled task: how the nodes find it, lock it, create an execution *)
(* for it, and how the lock is given back when that execution ends.        *)
(*                                                                         *)
(* The row of the table tasks is the only thing the nodes share.  Its lock *)
(* is status PREEMPTED with the node's id; the lease behind it is the      *)
(* row's utime, which the owner renews; and every write raises the row's   *)
(* version, which is what optimistic writes compare.  The only question    *)
(* such a write asks of a version is whether the row was written since it  *)
(* was read, so the model keeps the set of readers for which it was not:   *)
(* fresh.  Every write empties it.                                         *)
(*                                                                         *)
(* Times are reduced to what the queries ask: whether next_time has come   *)
(* (due), and whether the lease has run out (expired).  An execution is    *)
(* open, then final, as in ExecutionOutcome; what happens in between is    *)
(* the business of ExecutionLifecycle.  The record of an execution that is *)
(* over is used again for a later one, so Execs bounds how many matter at  *)
(* the same time, not how often the task runs.                             *)
(***************************************************************************)
EXTENDS Naturals, FiniteSets

CONSTANTS
    Nodes,            \* scheduler processes; one that dies does not return
    Execs,            \* execution records in use at the same time, which
                      \* also name the consumers of their completion events
    NoNode,           \* schedule_node_id NULL
    NextTimeAttempts, \* tries of UpdateNextTime: 1 and 3 retries in the code
    Disturbances,     \* what may go wrong or interfere in this instance
    MaxOps            \* bound: requests of users

ASSUME NoNodeAssumption == NoNode \notin Nodes
ASSUME ReadersAssumption == Nodes \intersect Execs = {}
ASSUME AttemptsAssumption == NextTimeAttempts \in Nat \ {0}
ASSUME DisturbancesAssumption ==
    Disturbances \subseteq {"crash", "stall", "outage", "release", "consumer",
                            "cancel", "stop", "start", "edit"}

VARIABLES
    kind,      \* RECURRING or ONE_TIME
    fires,     \* whether the cron expression has a next occurrence
    config,    \* good, or broken: the pool is gone or not allowed
    status, owner, due, expired, fresh,             \* the task's row
    up, pc, snapshot,                               \* the nodes
    exec, lock, topic,                              \* the executions
    done, tries,                                    \* the consumer
    stopper, targets, editor, ops,                  \* users
    ran,       \* ghost: executions that ended since next_time last came
    spent,     \* ghost: a completion found that cron fires no more
    forsaken   \* ghost: who was to give the present lock back failed to

task == <<status, owner, due, expired, fresh>>
nodes == <<up, pc, snapshot>>
execs == <<exec, lock, topic>>
consumer == <<done, tries>>
users == <<stopper, targets, editor, ops>>
ghosts == <<ran, spent, forsaken>>
vars == <<kind, fires, config, task, nodes, execs, consumer, users, ghosts>>

Kinds == {"RECURRING", "ONE_TIME"}
Owners == Nodes \union {NoNode}
Open == {e \in Execs : exec[e] = "open"}

(* A task as Create leaves it: ACTIVE and unlocked.  Without a next        *)
(* occurrence next_time is 0, which is always due.                         *)
Init ==
    /\ kind \in Kinds
    /\ fires \in BOOLEAN
    /\ config \in {"good", "broken"}
    /\ status = "ACTIVE" /\ owner = NoNode
    /\ due = ~fires /\ expired = FALSE /\ fresh = {}
    /\ up = Nodes
    /\ pc = [n \in Nodes |-> "idle"]
    /\ snapshot = [n \in Nodes |-> NoNode]
    /\ exec = [e \in Execs |-> "none"]
    /\ lock = [e \in Execs |-> NoNode]
    /\ topic = {}
    /\ done = [e \in Execs |-> "none"]
    /\ tries = [e \in Execs |-> 0]
    /\ stopper = "idle" /\ targets = {} /\ editor = "idle" /\ ops = 0
    /\ ran = 0 /\ spent = FALSE /\ forsaken = FALSE

-----------------------------------------------------------------------------
(* Writes of the row.  Each sets utime and raises the version.             *)

Touched == fresh' = {} /\ expired' = FALSE

(* Faulty variant: a write that does not compare the version.              *)
SameVersion_Any(reader) == TRUE

(* WHERE version = the version the reader found in the row.                *)
SameVersion(reader) == reader \in fresh

Unlock(newStatus) ==
    /\ status' = newStatus
    /\ owner' = NoNode
    /\ Touched
    /\ UNCHANGED due

(* Faulty variant: whoever holds the lock.                                 *)
Holds_AnyNode(n) == status = "PREEMPTED"

(* Release: WHERE status = PREEMPTED AND schedule_node_id = the node.      *)
Holds(n) == status = "PREEMPTED" /\ owner = n

Release(n) == IF Holds(n) THEN Unlock("ACTIVE") ELSE UNCHANGED task

(* The one who was to give the lock of a node back does not get to it.     *)
Forsaken(n) == forsaken' = (forsaken \/ Holds(n))

(* UpdateStatus asks nothing, and leaves schedule_node_id as it is.        *)
UpdateStatus(newStatus) ==
    /\ status' = newStatus
    /\ Touched
    /\ UNCHANGED <<owner, due>>

(* An edit in progress holds the next_time it read.  A write of next_time  *)
(* leaves it with a value of its own, in the past or in the future.        *)
Displaced ==
    editor' = IF editor = "same"
              THEN IF due THEN "past" ELSE "future"
              ELSE editor

-----------------------------------------------------------------------------
(* The clock                                                               *)

NextTimeComes ==
    /\ ~due
    /\ due' = TRUE
    /\ ran' = 0
    /\ UNCHANGED <<kind, fires, config, status, owner, expired, fresh,
                   nodes, execs, consumer, users, spent, forsaken>>

(* A node that is up renews in time, unless the whole process stalls.      *)
LeaseExpires ==
    /\ status = "PREEMPTED" /\ ~expired
    /\ owner \notin up \/ "stall" \in Disturbances
    /\ expired' = TRUE
    /\ UNCHANGED <<kind, fires, config, status, owner, due, fresh,
                   nodes, execs, consumer, users, ghosts>>

(* Renew.  It raises the version, and so costs UpdateNextTime a try.       *)
Renew(n) ==
    /\ n \in up
    /\ Holds(n)
    /\ Touched
    /\ UNCHANGED <<kind, fires, config, status, owner, due,
                   nodes, execs, consumer, users, ghosts>>

-----------------------------------------------------------------------------
(* The scheduling loop of a node                                           *)

Goto(n, label) == pc' = [pc EXCEPT ![n] = label]

(* Faulty variant: nobody takes over the lock of a node that died.         *)
Schedulable_ActiveOnly == due /\ status = "ACTIVE"

(* Faulty variant: the hour is not looked at.                              *)
Schedulable_AnyTime ==
    \/ status = "ACTIVE"
    \/ status = "PREEMPTED" /\ expired /\ Open = {}

(* WHERE next_time <= now AND ...: free, or locked by a node that stopped  *)
(* renewing and left no execution behind.                                  *)
Schedulable ==
    /\ due
    /\ \/ status = "ACTIVE"
       \/ status = "PREEMPTED" /\ expired /\ Open = {}

(* FindScheduleTasks.  The node keeps the row as it was, with its version. *)
List(n) ==
    /\ n \in up /\ pc[n] = "idle"
    /\ Schedulable
    /\ fresh' = fresh \union {n}
    /\ Goto(n, IF status = "PREEMPTED" THEN "recheck" ELSE "listed")
    /\ UNCHANGED <<kind, fires, config, status, owner, due, expired,
                   up, snapshot, execs, consumer, users, ghosts>>

(* HasNonTerminalByTaskID, only for a task that was listed as PREEMPTED.   *)
Recheck(n) ==
    /\ pc[n] = "recheck"
    /\ Goto(n, IF Open = {} THEN "listed" ELSE "idle")
    /\ UNCHANGED <<kind, fires, config, task, up, snapshot,
                   execs, consumer, users, ghosts>>

(* Acquire: WHERE version = the version listed.                            *)
Acquire(n) ==
    /\ pc[n] = "listed"
    /\ IF SameVersion(n)
       THEN /\ status' = "PREEMPTED" /\ owner' = n /\ Touched
            /\ UNCHANGED due
            /\ forsaken' = FALSE
            /\ Goto(n, "acquired")
       ELSE /\ UNCHANGED <<task, forsaken>>
            /\ Goto(n, "idle")
    /\ UNCHANGED <<kind, fires, config, up, snapshot,
                   execs, consumer, users, ran, spent>>

(* No route, no pool or no program for the task: the lock goes back, and   *)
(* if no retry can help, the loop tries to stop the task.                  *)
PlanFails(n) ==
    /\ pc[n] = "acquired"
    /\ \/ config = "broken" /\ Goto(n, "giveup")
       \/ "outage" \in Disturbances /\ Goto(n, "undo")
    /\ UNCHANGED <<kind, fires, config, task, up, snapshot,
                   execs, consumer, users, ghosts>>

(* buildTaskSnapshot reads the row again: the id that the completion event *)
(* will carry is the one the row has now, not the one Acquire wrote.       *)
BuildSnapshot(n) ==
    /\ pc[n] = "acquired"
    /\ config = "good"
    /\ snapshot' = [snapshot EXCEPT ![n] = owner]
    /\ Goto(n, "create")
    /\ UNCHANGED <<kind, fires, config, task, up,
                   execs, consumer, users, ghosts>>

(* An INSERT that no condition ties to the lock.                           *)
Create(n, e) ==
    /\ pc[n] = "create"
    /\ exec[e] # "open" /\ done[e] = "none" /\ e \notin targets
    /\ exec' = [exec EXCEPT ![e] = "open"]
    /\ lock' = [lock EXCEPT ![e] = snapshot[n]]
    /\ topic' = topic \ {e}
    /\ snapshot' = [snapshot EXCEPT ![n] = NoNode]
    /\ Goto(n, "idle")
    /\ UNCHANGED <<kind, fires, config, task, up, consumer, users, ghosts>>

CreateFails(n) ==
    /\ pc[n] = "create"
    /\ "outage" \in Disturbances
    /\ snapshot' = [snapshot EXCEPT ![n] = NoNode]
    /\ Goto(n, "undo")
    /\ UNCHANGED <<kind, fires, config, task, up,
                   execs, consumer, users, ghosts>>

(* releaseTask: a Release that fails is only logged.                       *)
Undo(n) ==
    /\ pc[n] \in {"undo", "giveup"}
    /\ \/ Release(n) /\ UNCHANGED forsaken
       \/ "release" \in Disturbances /\ UNCHANGED task /\ Forsaken(n)
    /\ Goto(n, IF pc[n] = "undo" THEN "idle" ELSE "stop")
    /\ UNCHANGED <<kind, fires, config, up, snapshot,
                   execs, consumer, users, ran, spent>>

(* stopTaskWithFatalConfig compares the row's version with the one listed, *)
(* before this node's own Acquire and Release.  (The read and the write it *)
(* leads to are one step here: no reachable state gets as far as the       *)
(* write.)                                                                 *)
StopFatal(n) ==
    /\ pc[n] = "stop"
    /\ IF status \notin {"INACTIVE", "COMPLETED"} /\ SameVersion(n)
       THEN UpdateStatus("INACTIVE")
       ELSE UNCHANGED task
    /\ Goto(n, "idle")
    /\ UNCHANGED <<kind, fires, config, up, snapshot,
                   execs, consumer, users, ghosts>>

(* A process ends, at any point of its loop, and takes with it the         *)
(* handlers of completion events that happen to run there.  Its successor  *)
(* has a new id.                                                           *)
Crash(n) ==
    /\ "crash" \in Disturbances
    /\ n \in up /\ up # {n}
    /\ up' = up \ {n}
    /\ snapshot' = [snapshot EXCEPT ![n] = NoNode]
    /\ Goto(n, "idle")
    /\ \E lost \in SUBSET {e \in Execs : done[e] # "none"} :
          /\ done' = [e \in Execs |-> IF e \in lost THEN "none" ELSE done[e]]
          /\ forsaken' = (forsaken \/ \E e \in lost : Holds(lock[e]))
    /\ UNCHANGED <<kind, fires, config, task, execs, tries, users, ran, spent>>

-----------------------------------------------------------------------------
(* Executions, and the consumer of their completion events                 *)

(* The last report of the executor becomes a completion event.             *)
Complete(e) ==
    /\ exec[e] = "open" /\ e \notin topic
    /\ topic' = topic \union {e}
    /\ UNCHANGED <<kind, fires, config, task, nodes, exec, lock,
                   consumer, users, ghosts>>

Handle(e, step) == done' = [done EXCEPT ![e] = step]

(* handleTask, first write: the execution becomes final.  A repeated event *)
(* finds it final and is ignored, whatever came of the first one.          *)
Settle(e) ==
    /\ e \in topic /\ exec[e] = "open"
    /\ exec' = [exec EXCEPT ![e] = "final"]
    /\ Handle(e, "next")
    /\ tries' = [tries EXCEPT ![e] = 0]
    /\ ran' = IF ran < 2 THEN ran + 1 ELSE ran
    /\ UNCHANGED <<kind, fires, config, task, nodes, lock, topic,
                   users, spent, forsaken>>

(* CalculateNextTime is zero: cron fires no more, or need not.             *)
NoNextTime == ~fires \/ (kind = "ONE_TIME" /\ status = "COMPLETED")

(* UpdateNextTime, the read.  A one-time task whose hour has come is done; *)
(* without a next time the row stays as it is; otherwise the next time is  *)
(* written if the row keeps its version.                                   *)
ReadTask(e) ==
    LET isDone == kind = "ONE_TIME" /\ due
    IN  /\ done[e] = "next"
        /\ \/ /\ isDone
              /\ Handle(e, "complete")
              /\ UNCHANGED <<fresh, spent>>
           \/ /\ ~isDone /\ NoNextTime
              /\ Handle(e, IF status = "PREEMPTED" THEN "release" ELSE "none")
              /\ spent' = TRUE
              /\ UNCHANGED fresh
           \/ /\ ~isDone /\ ~NoNextTime
              /\ Handle(e, "write")
              /\ fresh' = fresh \union {e}
              /\ UNCHANGED spent
        /\ UNCHANGED <<kind, fires, config, status, owner, due, expired,
                       nodes, execs, tries, users, ran, forsaken>>

(* The status written is COMPLETED whatever has become of the task.        *)
CompleteTask(e) ==
    /\ done[e] = "complete"
    /\ UpdateStatus("COMPLETED")
    /\ Handle(e, "none")
    /\ UNCHANGED <<kind, fires, config, nodes, execs, tries, users, ghosts>>

TriesLeft(e) == tries[e] + 1 < NextTimeAttempts

(* WHERE version = the version read; the read is repeated on a conflict,   *)
(* and after the last try the error ends the handler.                      *)
WriteNextTime(e) ==
    /\ done[e] = "write"
    /\ IF SameVersion(e)
       THEN /\ due' = FALSE /\ Touched /\ Displaced
            /\ UNCHANGED <<status, owner>>
            /\ Handle(e, IF status = "PREEMPTED" THEN "release" ELSE "none")
            /\ UNCHANGED <<tries, forsaken>>
       ELSE /\ UNCHANGED <<task, editor>>
            /\ IF TriesLeft(e)
               THEN /\ Handle(e, "next")
                    /\ tries' = [tries EXCEPT ![e] = @ + 1]
                    /\ UNCHANGED forsaken
               ELSE /\ Handle(e, "none")
                    /\ Forsaken(lock[e])
                    /\ UNCHANGED tries
    /\ UNCHANGED <<kind, fires, config, nodes, execs,
                   stopper, targets, ops, ran, spent>>

ReleaseTask(e) ==
    /\ done[e] = "release"
    /\ Release(lock[e])
    /\ Handle(e, "none")
    /\ UNCHANGED <<kind, fires, config, nodes, execs, tries, users, ghosts>>

(* The handler fails on a database error, or its process dies; the event   *)
(* is skipped, or delivered again to no effect.                            *)
ConsumerDies(e) ==
    /\ "consumer" \in Disturbances
    /\ done[e] # "none"
    /\ Handle(e, "none")
    /\ Forsaken(lock[e])
    /\ UNCHANGED <<kind, fires, config, task, nodes, execs, tries, users,
                   ran, spent>>

(* Faulty variant: the task is left to the completion event.               *)
Cancelled_LockKept(e) ==
    /\ exec[e] = "open"
    /\ exec' = [exec EXCEPT ![e] = "final"]
    /\ UNCHANGED <<task, lock, topic>>

(* bindCancellation with releaseTaskOnCancellation, one transaction.  It   *)
(* does not look at next_time.                                             *)
Cancelled(e) ==
    /\ exec[e] = "open"
    /\ exec' = [exec EXCEPT ![e] = "final"]
    /\ IF lock[e] # NoNode /\ Holds(lock[e])
       THEN Unlock(IF kind = "ONE_TIME" THEN "COMPLETED" ELSE "ACTIVE")
       ELSE UNCHANGED task
    /\ UNCHANGED <<lock, topic>>

(* A user cancels the execution, or its deadline has passed.               *)
Cancel(e) ==
    /\ "cancel" \in Disturbances
    /\ Cancelled(e)
    /\ UNCHANGED <<kind, fires, config, nodes, consumer, users, ghosts>>

-----------------------------------------------------------------------------
(* Users                                                                   *)

Request(what) == what \in Disturbances /\ ops < MaxOps /\ ops' = ops + 1

(* The handler of Stop: stop the task, then look for its open executions,  *)
(* then cancel those it found.                                             *)
Stop ==
    /\ Request("stop")
    /\ stopper = "idle"
    /\ UpdateStatus("INACTIVE")
    /\ stopper' = "stopped"
    /\ UNCHANGED <<kind, fires, config, nodes, execs, consumer,
                   targets, editor, ghosts>>

FindActive ==
    /\ stopper = "stopped"
    /\ targets' = Open
    /\ stopper' = IF Open = {} THEN "idle" ELSE "cancelling"
    /\ UNCHANGED <<kind, fires, config, task, nodes, execs, consumer,
                   editor, ops, ghosts>>

StopExecution(e) ==
    /\ e \in targets
    /\ IF exec[e] = "open" THEN Cancelled(e) ELSE UNCHANGED <<task, execs>>
    /\ targets' = targets \ {e}
    /\ stopper' = IF targets = {e} THEN "idle" ELSE stopper
    /\ UNCHANGED <<kind, fires, config, nodes, consumer,
                   editor, ops, ghosts>>

(* Start, and RetryByID, whose version check makes its read and its write  *)
(* one step: the task is due at once.                                      *)
Start ==
    /\ Request("start")
    /\ status # "PREEMPTED"
    /\ status' = "ACTIVE" /\ owner' = NoNode /\ due' = TRUE
    /\ Touched /\ Displaced
    /\ ran' = 0
    /\ UNCHANGED <<kind, fires, config, nodes, execs, consumer,
                   stopper, targets, spent, forsaken>>

(* ResetSchedule: a one-time task gets a new time to run at.               *)
Reschedule ==
    /\ Request("start")
    /\ kind = "ONE_TIME" /\ status # "PREEMPTED"
    /\ status' = "ACTIVE" /\ owner' = NoNode /\ due' = ~fires
    /\ Touched /\ Displaced
    /\ ran' = 0
    /\ UNCHANGED <<kind, fires, config, nodes, execs, consumer,
                   stopper, targets, spent, forsaken>>

(* Update reads the row, and later writes it whatever its version.  Unless *)
(* the cron expression is a new one, it writes the next_time it read.  The *)
(* pool and the program of the new configuration exist.                    *)
ReadForEdit ==
    /\ Request("edit")
    /\ editor = "idle"
    /\ editor' = "same"
    /\ UNCHANGED <<kind, fires, config, task, nodes, execs, consumer,
                   stopper, targets, ghosts>>

(* Whether the time it read has come by now.                               *)
SavedTime ==
    {d \in BOOLEAN : (editor = "same" => d = due) /\ (editor = "past" => d)}

WriteEdit ==
    /\ editor # "idle"
    /\ kind' \in Kinds
    /\ \/ due' \in SavedTime /\ UNCHANGED <<fires, ran>>
       \/ fires' \in BOOLEAN /\ due' = ~fires' /\ ran' = 0
    /\ config' = "good"
    /\ Touched
    /\ editor' = "idle"
    /\ UNCHANGED <<status, owner, nodes, execs, consumer,
                   stopper, targets, ops, spent, forsaken>>

-----------------------------------------------------------------------------
Dispatch(n) ==
    \/ List(n) \/ Recheck(n) \/ Acquire(n) \/ PlanFails(n)
    \/ BuildSnapshot(n) \/ (\E e \in Execs : Create(n, e)) \/ CreateFails(n)
    \/ Undo(n) \/ StopFatal(n)

HandleEvent(e) ==
    \/ Settle(e) \/ ReadTask(e) \/ CompleteTask(e)
    \/ WriteNextTime(e) \/ ReleaseTask(e)

UserStep ==
    \/ Stop \/ FindActive \/ (\E e \in Execs : StopExecution(e))
    \/ Start \/ Reschedule \/ ReadForEdit \/ WriteEdit

Next ==
    \/ NextTimeComes
    \/ LeaseExpires
    \/ \E n \in Nodes : Renew(n) \/ Dispatch(n) \/ Crash(n)
    \/ \E e \in Execs :
          Complete(e) \/ HandleEvent(e) \/ ConsumerDies(e) \/ Cancel(e)
    \/ UserStep

Spec == Init /\ [][Next]_vars

(* The loops of the nodes and the consumer run for ever; an execution ends *)
(* (EventuallyFinal of ExecutionLifecycle); time passes.  Users do nothing *)
(* they need not do, but a request handler, once begun, ends.              *)
Fairness ==
    /\ WF_vars(NextTimeComes)
    /\ WF_vars(LeaseExpires)
    /\ \A n \in Nodes : WF_vars(Dispatch(n))
    /\ \A e \in Execs :
          WF_vars(Complete(e)) /\ WF_vars(HandleEvent(e))
    /\ WF_vars(FindActive \/ \E e \in Execs : StopExecution(e))

FairSpec == Spec /\ Fairness

-----------------------------------------------------------------------------
(* Properties                                                              *)

Labels == {"idle", "recheck", "listed", "acquired", "create", "undo",
           "giveup", "stop"}

FlagsOK ==
    /\ fires \in BOOLEAN
    /\ due \in BOOLEAN /\ expired \in BOOLEAN
    /\ spent \in BOOLEAN /\ forsaken \in BOOLEAN

StatesOK ==
    /\ kind \in Kinds
    /\ config \in {"good", "broken"}
    /\ status \in {"ACTIVE", "PREEMPTED", "INACTIVE", "COMPLETED"}
    /\ owner \in Owners
    /\ fresh \subseteq Nodes \union Execs
    /\ up \subseteq Nodes
    /\ pc \in [Nodes -> Labels]
    /\ snapshot \in [Nodes -> Owners]
    /\ exec \in [Execs -> {"none", "open", "final"}]
    /\ lock \in [Execs -> Owners]
    /\ topic \subseteq Execs
    /\ done \in [Execs -> {"none", "next", "complete", "write", "release"}]
    /\ tries \in [Execs -> 0 .. NextTimeAttempts - 1]
    /\ stopper \in {"idle", "stopped", "cancelling"}
    /\ targets \subseteq Execs
    /\ editor \in {"idle", "same", "past", "future"}
    /\ ops \in Nat
    /\ ran \in 0 .. 2

(* The type invariant: each variable keeps to its set of values, and       *)
(* UpdateNextTime to its number of tries.                                  *)
TypeOK == FlagsOK /\ StatesOK

(* The task never has two executions under way, although nodes work from   *)
(* stale lists, die with the lock in hand, and are taken over while their  *)
(* executions are still running or just being settled.                     *)
OneOpenExecution == Cardinality(Open) <= 1

(* The ACTIVE branch of FindScheduleTasks does not look at the executions: *)
(* it relies on the lock being given back only when none is open.          *)
ActiveMeansFree == status = "ACTIVE" => Open = {}

(* One occurrence of the schedule runs the task to its end once, and then  *)
(* no other execution is under way, as long as no node dies: failed        *)
(* dispatches, lost events and cancellations never repeat a run that was   *)
(* completed.                                                              *)
OneRunPerOccurrence ==
    kind = "RECURRING" /\ fires /\ up = Nodes
       => ran + Cardinality(Open) <= 1

(* A stopped or completed task comes back only by the hand of a user: no   *)
(* node locks it from an older list, and no late release frees it.         *)
StoppedStaysStopped ==
    [][(status \in {"INACTIVE", "COMPLETED"}
        /\ status' \notin {"INACTIVE", "COMPLETED"}) => ops' > ops]_vars

(* The lock is given back when an execution ends, when it cannot be        *)
(* created, and when the owner of the lock has died.  Only one thing keeps *)
(* it: whoever was to give it back failed to, while the owner lives and    *)
(* renews it; and that, too, ends with the owner.                          *)
LockIsReleased ==
    status = "PREEMPTED" ~>
        (status # "PREEMPTED" \/ (forsaken /\ owner \in up))

(* A task that is due and free gets an execution, unless a user stops or   *)
(* completes it first.                                                     *)
DueTaskRuns ==
    (due /\ status = "ACTIVE" /\ config = "good")
       ~> (Open # {} \/ (ops > 0 /\ status \in {"INACTIVE", "COMPLETED"}))

(* Stopping a task stops its executions: once the handler is through, none *)
(* is open while the task is stopped.  The code does not hold it: see the  *)
(* counterexamples in README.md, as for the next two.                      *)
StopReachesExecutions == status = "INACTIVE" /\ stopper = "idle" => Open = {}

(* A task whose configuration no retry can repair is stopped.              *)
BrokenTaskIsStopped == config = "broken" ~> status = "INACTIVE"

(* A recurring task that fires no more is not run again.                   *)
SpentTaskStaysDown ==
    [][spent /\ kind = "RECURRING" => Open' \subseteq Open]_vars
=============================================================================
