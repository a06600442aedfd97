-------------------------- MODULE ExecutionOutcome --------------------------
(***************************************************************************)
(* What an execution promises to the rest of the system, whoever takes     *)
(* part in it: it is open, then it is decided once, for good.  A task that *)
(* waits for it is given back with the decision, when it is cancelled, or  *)
(* later by the one who decided, who may fail to; and by nobody else.      *)
(***************************************************************************)
EXTENDS ExecutionRow, Naturals

VARIABLES
    outcome,   \* "open", or the final state
    hasTask,   \* whether a task of the scheduler waits for the execution
    released,  \* how often that task was given back
    duty       \* giving it back is "due", was "dropped", or is no issue

vars == <<outcome, hasTask, released, duty>>

Init == outcome = "open" /\ hasTask \in BOOLEAN /\ released = 0 /\ duty = "none"

Decide(final) ==
    /\ outcome = "open"
    /\ outcome' = final
    /\ \/ ~hasTask /\ UNCHANGED <<released, duty>>
       \/ hasTask /\ duty' = "due" /\ UNCHANGED released
       \/ /\ hasTask /\ final = "CANCELLED"
          /\ released' = released + 1
          /\ UNCHANGED duty
    /\ UNCHANGED hasTask

GiveBack ==
    /\ duty = "due"
    /\ duty' = "none" /\ released' = released + 1
    /\ UNCHANGED <<outcome, hasTask>>

Drop ==
    /\ duty = "due"
    /\ duty' = "dropped"
    /\ UNCHANGED <<outcome, hasTask, released>>

Next == GiveBack \/ Drop \/ \E final \in Terminal : Decide(final)

Spec == Init /\ [][Next]_vars
=============================================================================
