---------------------------- MODULE MCScheduling ----------------------------
(* Scheduling on small instances; execution records are interchangeable.   *)
EXTENDS Scheduling, TLC

Symmetry == Permutations(Nodes) \union Permutations(Execs)
=============================================================================
