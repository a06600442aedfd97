------------------------------ MODULE PoolSync ------------------------------
(***************************************************************************)
(* The syncer that copies one source of the registry (etcd) into the rows  *)
(* of execution_pools: a full alignment at the start, then one for every   *)
(* event, in a loop; after the last instance of a pool left, a second look *)
(* some seconds later, in a goroutine of its own; and one more by the      *)
(* watcher when its watch breaks.                                          *)
(*                                                                         *)
(* Reading etcd is one step, and so is each statement on the database; an  *)
(* alignment is many of them, working from the one reading.  Nothing keeps *)
(* two alignments apart.  Every instance offers handlers of its own.       *)
(***************************************************************************)
EXTENDS PoolRows

CONSTANTS
    MaxChanges,   \* bound on registrations and departures
    MaxFailures   \* bound on failed readings, statements and watches

VARIABLES
    changes,
    failures

vars == <<reg, row, stream, channel, run, blind, missed, mixed, changes,
          failures>>

At(x, label) == [run[x] EXCEPT !.pc = label]

Goto(x, label) == run' = [run EXCEPT ![x] = At(x, label)]

Idle == [pc |-> "idle", pool |-> "none", seen |-> [i \in Instances |-> Gone],
         todo |-> {}]

(* Whatever an earlier process left in the table.                          *)
Init ==
    /\ reg \in [Instances -> Registration]
    /\ row \in [Pools -> {NoRow} \union {[status |-> s, config |-> c,
                 handlers |-> {}] : s \in {"ENABLED", "DISABLED"}, c \in Configs}]
    /\ stream = <<>>
    /\ channel = <<>>
    /\ run = [x \in Runners |->
                 IF x = "loop" THEN [Idle EXCEPT !.pc = "start"] ELSE Idle]
    /\ blind = FALSE
    /\ missed = FALSE
    /\ mixed = FALSE
    /\ changes = 0
    /\ failures = 0

Fail ==
    /\ failures < MaxFailures
    /\ failures' = failures + 1
    /\ missed' = TRUE

-----------------------------------------------------------------------------
(* The registry                                                            *)

Change(i, r, event) ==
    /\ changes < MaxChanges
    /\ changes' = changes + 1
    /\ reg' = [reg EXCEPT ![i] = r]
    /\ stream' = Append(stream, event)
    /\ UNCHANGED <<row, channel, run, blind, missed, mixed, failures>>

(* An instance registers, or registers anew with another configuration.    *)
Register(i) ==
    \E p \in Pools, c \in Configs :
        /\ reg[i].pool \in {"none", p}
        /\ Change(i, [pool |-> p, config |-> c], [kind |-> "put", pool |-> p])

(* It leaves, or its lease expires.                                        *)
Depart(i) ==
    /\ reg[i] # Gone
    /\ Change(i, Gone, [kind |-> "delete", pool |-> reg[i].pool])

-----------------------------------------------------------------------------
(* resyncSource                                                            *)

Aligning == {"writing", "disabling"}

Others(x) == {y \in Runners \ {x} : run[y].pc \in Aligning}

(* The reading.  That of the start and that of the watcher give the        *)
(* revision the watch goes on from.                                        *)
Read(x) ==
    /\ run[x].pc \in {"start", "broken", "resync"}
    /\ run' = [run EXCEPT ![x] = [pc |-> "writing", pool |-> "none",
                                  seen |-> reg, todo |-> ActivePools(reg)]]
    /\ missed' = FALSE
    /\ mixed' = (Others(x) # {})
    /\ stream' = IF run[x].pc = "resync" THEN stream ELSE <<>>
    /\ UNCHANGED <<reg, row, channel, blind, changes, failures>>

ReadFails(x) ==
    /\ run[x].pc \in {"start", "broken", "resync"}
    /\ Fail
    /\ run' = [run EXCEPT ![x] = Idle]
    /\ blind' = (blind \/ run[x].pc # "resync")
    /\ UNCHANGED <<reg, row, stream, channel, mixed, changes>>

(* A statement that fails is logged, and the next one is tried.            *)
Statement(x, p, value) ==
    /\ run' = [run EXCEPT ![x].todo = @ \ {p}]
    /\ \/ /\ row' = [row EXCEPT ![p] = value]
          /\ UNCHANGED <<missed, failures>>
       \/ Fail /\ UNCHANGED row
    /\ UNCHANGED <<reg, stream, channel, blind, mixed, changes>>

(* upsertPool                                                              *)
Upsert(x) ==
    /\ run[x].pc = "writing"
    /\ \E p \in run[x].todo : Statement(x, p, Aggregate(run[x].seen, p))

(* Faulty variant: pools whose instances disagree are left alone.          *)
Missing_Empty(r) ==
    {p \in Pools : row[p].status = "ENABLED" /\ Members(r, p) = {}}

Missing(r) ==
    {p \in Pools : row[p].status = "ENABLED" /\ p \notin ActivePools(r)}

(* disableMissing: ListByKind, then one UPDATE for each.                   *)
ListMissing(x) ==
    /\ run[x].pc = "writing" /\ run[x].todo = {}
    /\ \/ /\ run' = [run EXCEPT ![x].pc = "disabling",
                                ![x].todo = Missing(run[x].seen)]
          /\ UNCHANGED <<missed, failures>>
       \/ Fail /\ run' = [run EXCEPT ![x] = Idle]
    /\ UNCHANGED <<reg, row, stream, channel, blind, mixed, changes>>

DisablePool(x) ==
    /\ run[x].pc = "disabling"
    /\ \E p \in run[x].todo :
          Statement(x, p, [row[p] EXCEPT !.status = "DISABLED"])

EndAlign(x) ==
    /\ run[x].pc = "disabling" /\ run[x].todo = {}
    /\ run' = [run EXCEPT ![x] = Idle]
    /\ UNCHANGED <<reg, row, stream, channel, blind, missed, mixed, changes, failures>>

-----------------------------------------------------------------------------
(* The watcher                                                             *)

Watching == ~blind /\ run["watch"].pc = "idle" /\ run["loop"].pc # "start"

Deliver ==
    /\ Watching /\ stream # <<>>
    /\ channel' = Append(channel, Head(stream))
    /\ stream' = Tail(stream)
    /\ UNCHANGED <<reg, row, run, blind, missed, mixed, changes, failures>>

WatchBreaks ==
    /\ Watching
    /\ failures < MaxFailures
    /\ failures' = failures + 1
    /\ Goto("watch", "broken")
    /\ UNCHANGED <<reg, row, stream, channel, blind, missed, mixed, changes>>

(* Without a revision the watch starts from now.                           *)
WatchFromNow ==
    /\ blind
    /\ blind' = FALSE
    /\ stream' = <<>>
    /\ missed' = (missed \/ stream # <<>>)
    /\ UNCHANGED <<reg, row, channel, run, mixed, changes, failures>>

-----------------------------------------------------------------------------
(* The loop and the second look                                            *)

(* handleEvent                                                             *)
Take ==
    /\ run["loop"].pc = "idle" /\ channel # <<>>
    /\ LET e == Head(channel)
       IN  run' = [run EXCEPT !["loop"] =
                      [@ EXCEPT !.pc = IF e.kind = "put" THEN "resync"
                                       ELSE "look",
                                !.pool = e.pool]]
    /\ channel' = Tail(channel)
    /\ UNCHANGED <<reg, row, stream, blind, missed, mixed, changes, failures>>

(* Faulty variant: while instances are left there is nothing to do.        *)
AfterFirstLook_Left == "idle"

(* disableIfNoInstances, while instances are left: align.                  *)
AfterFirstLook == "resync"

FirstLook ==
    /\ run["loop"].pc = "look"
    /\ LET p == run["loop"].pool
       IN  \/ /\ Members(reg, p) # {}
              /\ Goto("loop", AfterFirstLook)
              /\ UNCHANGED <<missed, failures>>
           \/ /\ Members(reg, p) = {}
              /\ \E t \in Timers :
                    /\ run[t].pc = "idle"
                    /\ run' = [run EXCEPT !["loop"] = Idle,
                                          ![t] = [Idle EXCEPT !.pc = "look",
                                                              !.pool = p]]
              /\ UNCHANGED <<missed, failures>>
           \/ Fail /\ run' = [run EXCEPT !["loop"] = Idle]
    /\ UNCHANGED <<reg, row, stream, channel, blind, mixed, changes>>

(* After disableGracePeriod.  Instances that came back have brought an     *)
(* event of their own.                                                     *)
SecondLook(t) ==
    /\ run[t].pc = "look"
    /\ \/ /\ run' = [run EXCEPT ![t] =
                        IF Members(reg, run[t].pool) = {}
                        THEN [@ EXCEPT !.pc = "resync"] ELSE Idle]
          /\ UNCHANGED <<missed, failures>>
       \/ Fail /\ run' = [run EXCEPT ![t] = Idle]
    /\ UNCHANGED <<reg, row, stream, channel, blind, mixed, changes>>

Align(x) == Read(x) \/ ReadFails(x) \/ Upsert(x) \/ ListMissing(x)
            \/ DisablePool(x) \/ EndAlign(x)

Next ==
    \/ \E i \in Instances : Register(i) \/ Depart(i)
    \/ \E x \in Runners : Align(x)
    \/ Deliver \/ WatchBreaks \/ WatchFromNow
    \/ Take \/ FirstLook \/ \E t \in Timers : SecondLook(t)

Spec == Init /\ [][Next]_vars

(* The goroutines go on; the registry need not change, nor anything fail.  *)
FairSpec ==
    /\ Spec
    /\ \A x \in Runners : WF_vars(Align(x))
    /\ WF_vars(Deliver) /\ WF_vars(WatchFromNow)
    /\ WF_vars(Take) /\ WF_vars(FirstLook)
    /\ \A t \in Timers : WF_vars(SecondLook(t))

-----------------------------------------------------------------------------
(* Properties                                                              *)

(* Once the registry is quiet the table comes to agree with it, whatever   *)
(* order the events, the second looks and a broken watch took; unless      *)
(* something failed since, or the last reading was taken while an older    *)
(* alignment was still writing.                                            *)
Converges == <>[](missed \/ mixed \/ \A p \in Pools : Agrees(p))
=============================================================================
