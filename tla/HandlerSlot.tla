----------------------------- MODULE HandlerSlot -----------------------------
(***************************************************************************)
(* What a process that executes promises for one execution, however often  *)
(* and by whomever it is told to run it: one handler at a time; none while *)
(* a termination is remembered, nor after one that settled the execution;  *)
(* and a handler that was terminated before its end was entered counts as  *)
(* cancelled.  What is over may be forgotten, and a process that dies      *)
(* forgets everything.                                                     *)
(***************************************************************************)
CONSTANT Starters

VARIABLES
    working,   \* who runs a handler
    barred,    \* a termination is remembered
    verdict    \* what is entered: none, own (settled), again (may be
               \* attempted anew), cancelled

vars == <<working, barred, verdict>>

Init ==
    /\ working = {}
    /\ barred = FALSE
    /\ verdict = "none"

Start(s) ==
    /\ working = {} /\ ~barred /\ verdict \in {"none", "again"}
    /\ working' = {s}
    /\ verdict' = "none"
    /\ UNCHANGED barred

(* Where nothing is at work or entered, the answer may be entered at once. *)
Terminate ==
    /\ barred' = TRUE
    /\ \/ UNCHANGED verdict
       \/ working = {} /\ verdict = "none" /\ verdict' = "cancelled"
    /\ UNCHANGED working

Refuse ==
    /\ working = {} /\ barred /\ verdict = "none"
    /\ verdict' = "cancelled"
    /\ UNCHANGED <<working, barred>>

End(s) ==
    /\ working = {s}
    /\ working' = {}
    /\ verdict' \in IF barred THEN {"cancelled"} ELSE {"own", "again"}
    /\ UNCHANGED barred

(* The termination and the verdict each by its own age, but never the      *)
(* termination alone where it was the verdict.                             *)
Forget ==
    /\ working = {}
    /\ barred' \in {barred, FALSE}
    /\ verdict' \in {verdict, "none"}
    /\ verdict' = "cancelled" => barred'
    /\ UNCHANGED working

Crash ==
    /\ working' = {}
    /\ barred' = FALSE
    /\ verdict' = "none"

Next ==
    \/ \E s \in Starters : Start(s) \/ End(s)
    \/ Terminate \/ Refuse \/ Forget \/ Crash

Spec == Init /\ [][Next]_vars
=============================================================================
