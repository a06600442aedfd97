----------------------- MODULE MCExecutionLifecycle -------------------------
(* The lifecycle on small instances: the nodes and the concurrent calls    *)
(* are interchangeable.                                                    *)
EXTENDS ExecutionLifecycle, TLC

Symmetry == Permutations(Workers) \union Permutations(Compensators)
=============================================================================
