------------------------------ MODULE PoolRows ------------------------------
(***************************************************************************)
(* The registry (etcd), the rows of execution_pools that PoolSync keeps in *)
(* step with it, and what is on its way from the one to the other.         *)
(***************************************************************************)
EXTENDS Naturals, Sequences, FiniteSets

CONSTANTS
    Pools,
    Instances,
    Configs,      \* what instances of a pool must agree on
    NoConfig,
    Timers        \* bound on second looks that wait at the same time

ASSUME NoConfigAssumption == NoConfig \notin Configs
ASSUME RunnersAssumption == "loop" \notin Timers /\ "watch" \notin Timers
ASSUME PoolsAssumption == "none" \notin Pools

VARIABLES
    reg,        \* the registry: pool and configuration of each instance
    row,        \* execution_pools
    stream,     \* etcd's events that the watch has not delivered
    channel,    \* events, the queue of the loop
    run,        \* each goroutine: its step, reading, work left
    blind,      \* the watch is lost, and with it its revision
    missed,     \* ghost: a failure that no later reading has made good
    mixed       \* ghost: the last reading was taken during another alignment

Runners == {"loop", "watch"} \union Timers

Gone == [pool |-> "none", config |-> NoConfig]
Registration == [pool : Pools, config : Configs] \union {Gone}

NoRow == [status |-> "absent", config |-> NoConfig, handlers |-> {}]

-----------------------------------------------------------------------------
(* aggregatePoolInstances                                                  *)

Members(r, p) == {i \in Instances : r[i].pool = p}

ConfigsOf(r, p) == {r[i].config : i \in Members(r, p)}

Consistent(r, p) == Cardinality(ConfigsOf(r, p)) = 1

ActivePools(r) == {p \in Pools : Consistent(r, p)}

(* Any of them: they are all the same.                                     *)
Agreed(configs) == CHOOSE c \in configs : TRUE

Aggregate(r, p) ==
    [status |-> "ENABLED",
     config |-> Agreed(ConfigsOf(r, p)),
     handlers |-> Members(r, p)]

-----------------------------------------------------------------------------
(* A pool is enabled exactly when it has instances that agree, with their  *)
(* configuration and the handlers of those that are there.                 *)
Agrees(p) ==
    IF Consistent(reg, p) THEN row[p] = Aggregate(reg, p)
    ELSE row[p].status # "ENABLED"

(* Nobody has anything left to do.                                         *)
Quiet ==
    /\ stream = <<>> /\ channel = <<>> /\ ~blind
    /\ \A x \in Runners : run[x].pc = "idle"

(* In every moment of rest the rows agree with the registry, unless a      *)
(* failure was not made good since or the last reading was taken while an  *)
(* older alignment was still writing: one undisturbed alignment makes good *)
(* whatever earlier failures and earlier overlaps have left.               *)
QuietAgrees == Quiet => missed \/ mixed \/ \A p \in Pools : Agrees(p)
=============================================================================
