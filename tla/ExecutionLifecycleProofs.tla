---------------------- MODULE ExecutionLifecycleProofs ----------------------
(***************************************************************************)
(* Theorems on the life of one execution, for any number of concurrent     *)
(* reports, of scheduler nodes, of retries and of failures.                *)
(***************************************************************************)
EXTENDS ExecutionLifecycle, FiniteSetTheorems, TLAPS

USE DEF Terminal, Recoverable, NonTerminal, Status, Reported, HasDeadline,
        Idle, Sources, Held, OwnTask, CompletionFrom, NextRetryCount

(* The conditional writes stay within the states of the row.               *)
LEMMA WritesKeepStatus ==
    ASSUME NEW s \in Status, NEW expected, NEW new \in Status
    PROVE  /\ WithExecutionStatusCAS(s, expected, new) \in Status
           /\ SetRunningState(s) \in Status
           /\ RequeuePull(s) \in Status
           /\ s \in Terminal => /\ SetRunningState(s) = s
                                /\ RequeuePull(s) = s
BY DEF WithExecutionStatusCAS, SetRunningState, RequeuePull

(* A completion event carries a final state, and becomes that state.       *)
LEMMA CompletionIsFinal ==
    ASSUME NEW s \in Terminal \union Recoverable
    PROVE  CompletionState(s) \in Terminal /\ SingleAttempt(s) \in Terminal
BY DEF CompletionState, SingleAttempt

(* A report in progress has read a state that was not final.               *)
LEMMA CallTypes ==
    ASSUME TypeOK, NEW w \in Workers
    PROVE  /\ calls[w].report \in Reported \union {"none"}
           /\ calls[w].sawStatus \in NonTerminal \union {"none"}
           /\ calls[w].sawRetries \in Nat
           /\ status = calls[w].sawStatus => status \in NonTerminal
BY DEF TypeOK

-----------------------------------------------------------------------------
(* Type correctness: every variable of the lifecycle keeps its type.       *)
THEOREM LifecycleTypeOK == Spec => []TypeOK
<1>1. Init => TypeOK
  BY SurplusAssumption DEF Init, TypeOK
<1>2. ASSUME TypeOK, [Next]_vars
      PROVE  TypeOK'
  <2> USE TypeOK
  <2>0. CASE UNCHANGED vars
    BY <2>0 DEF TypeOK, vars, row, task, executors
  <2>1. ASSUME NEW w \in Workers, NEW report \in Reports, Receive(w, report)
        PROVE  TypeOK'
    BY <2>1, ReportsAssumption DEF Receive, TypeOK, row, task, executors
  <2>2. ASSUME NEW w \in Workers, Drop(w)
        PROVE  TypeOK'
    BY <2>2 DEF Drop, Finish, TypeOK, row, task, executors
  <2>3. ASSUME NEW w \in Workers, ReportRunning(w)
        PROVE  TypeOK'
    BY <2>3, WritesKeepStatus DEF ReportRunning, Finish, TypeOK, row, task, executors
  <2>4. ASSUME NEW w \in Workers, RecordRetry(w)
        PROVE  TypeOK'
    BY <2>4, CallTypes, SurplusAssumption
       DEF RecordRetry, Finish, FailureRecorded, TypeOK, task
  <2>5. ASSUME NEW w \in Workers, ExhaustRetries(w)
        PROVE  TypeOK'
    BY <2>5 DEF ExhaustRetries, Finish, TypeOK, row, task, executors
  <2>6. ASSUME NEW w \in Workers, RecordReschedule(w)
        PROVE  TypeOK'
    BY <2>6, SurplusAssumption
       DEF RecordReschedule, Finish, FailureRecorded, TypeOK, task
  <2>7. ASSUME NEW w \in Workers, SendCompletedEvent(w)
        PROVE  TypeOK'
    BY <2>7, CompletionIsFinal DEF SendCompletedEvent, Finish, TypeOK, row, task, executors
  <2>8. ASSUME NEW w \in Workers, FinishPreview(w)
        PROVE  TypeOK'
    BY <2>8, CompletionIsFinal, WritesKeepStatus
       DEF FinishPreview, Finish, TypeOK, row, task, executors
  <2>9. ASSUME NEW reported \in Terminal, Settle(reported)
        PROVE  TypeOK'
    BY <2>9, CompletionIsFinal, WritesKeepStatus
       DEF Settle, TypeOK, executors
  <2>10. CASE Cancel
    BY <2>10 DEF Cancel, Cancelled, ReleaseTask, TypeOK, executors
  <2>11. CASE ClaimPullTask
    BY <2>11, SurplusAssumption DEF ClaimPullTask, HandOut, TypeOK, task
  <2>12. ASSUME NEW c \in Compensators,
                NEW what \in {"retry", "reschedule", "timeout"}, Find(c, what)
         PROVE  TypeOK'
    BY <2>12 DEF Find, Hold, TypeOK, row, task, executors
  <2>13. ASSUME NEW c \in Compensators, Requeue(c)
         PROVE  TypeOK'
    BY <2>13, WritesKeepStatus DEF Requeue, Hold, TypeOK, task, executors
  <2>14. ASSUME NEW c \in Compensators, ClaimForDispatch(c)
         PROVE  TypeOK'
    BY <2>14, WritesKeepStatus DEF ClaimForDispatch, Hold, TypeOK, task, executors
  <2>15. ASSUME NEW c \in Compensators, Invoke(c)
         PROVE  TypeOK'
    BY <2>15, SurplusAssumption DEF Invoke, HandOut, Hold, TypeOK, row, task
  <2>16. ASSUME NEW c \in Compensators, Interrupt(c)
         PROVE  TypeOK'
    BY <2>16 DEF Interrupt, Cancelled, ReleaseTask, Hold, TypeOK, executors
  <2>17. ASSUME NEW c \in Compensators, CompensatorDies(c)
         PROVE  TypeOK'
    BY <2>17 DEF CompensatorDies, Hold, TypeOK, row, task, executors
  <2>18. CASE GiveBack \/ GiveUp
    <3>1. releases' \in Nat /\ handback' \in {"none", "due", "dropped"}
      BY <2>18 DEF GiveBack, GiveUp, TypeOK
    <3>2. UNCHANGED <<row, calls, scans, topic, executors>>
      BY <2>18 DEF GiveBack, GiveUp
    <3>3. QED
      BY <3>1, <3>2 DEF TypeOK, row, executors
  <2>19. QED
    BY <1>2, <2>0, <2>1, <2>2, <2>3, <2>4, <2>5, <2>6, <2>7, <2>8, <2>9,
       <2>10, <2>11, <2>12, <2>13, <2>14, <2>15, <2>16, <2>17, <2>18
       DEF Next, WorkerStep, CompensatorStep, Act
<1>3. QED
  BY <1>1, <1>2, PTL DEF Spec

-----------------------------------------------------------------------------
(* Every step leaves the row alone, moves it among the open states, ends   *)
(* the execution with its task given back or owed, or pays what is owed;   *)
(* only an attempt of a task is ever recorded as a recoverable failure.    *)
Move ==
    /\ source' = source
    /\ source # "TASK" => status' = status \/ status' \notin Recoverable
    /\ retryCount' = retryCount \/ MayRetry(MaxRetries, retryCount')
    /\ \/ UNCHANGED <<status, retryCount, task>>
       \/ /\ status \in NonTerminal /\ status' \in NonTerminal
          /\ UNCHANGED task
       \/ /\ status \in NonTerminal /\ status' \in Terminal
          /\ UNCHANGED retryCount
          /\ \/ source # "TASK" /\ UNCHANGED task
             \/ /\ source = "TASK" /\ handback' = "due"
                /\ UNCHANGED releases
             \/ /\ source = "TASK" /\ status' = "CANCELLED"
                /\ releases' = releases + 1
                /\ UNCHANGED handback
       \/ /\ UNCHANGED <<status, retryCount>> /\ handback = "due"
          /\ \/ handback' = "none" /\ releases' = releases + 1
             \/ handback' = "dropped" /\ UNCHANGED releases

LEMMA StepMoves ==
    ASSUME TypeOK, [Next]_vars
    PROVE  Move
<1>0. CASE UNCHANGED vars
  BY <1>0 DEF vars, row, task, executors, Move
<1>1. ASSUME NEW w \in Workers, NEW report \in Reports, Receive(w, report)
      PROVE  Move
  BY <1>1 DEF Receive, row, task, executors, Move
<1>2. ASSUME NEW w \in Workers, Drop(w)
      PROVE  Move
  BY <1>2 DEF Drop, row, task, executors, Move
<1>3. ASSUME NEW w \in Workers, ReportRunning(w)
      PROVE  Move
  BY <1>3 DEF ReportRunning, TypeOK, task, executors, Move,
              SetRunningState, WithExecutionStatusCAS
<1>4. ASSUME NEW w \in Workers, RecordRetry(w)
      PROVE  Move
  BY <1>4, CallTypes DEF RecordRetry, Move
<1>5. ASSUME NEW w \in Workers, ExhaustRetries(w)
      PROVE  Move
  BY <1>5 DEF ExhaustRetries, row, task, executors, Move
<1>6. ASSUME NEW w \in Workers, RecordReschedule(w)
      PROVE  Move
  BY <1>6, CallTypes DEF RecordReschedule, Move
<1>7. ASSUME NEW w \in Workers, SendCompletedEvent(w)
      PROVE  Move
  BY <1>7 DEF SendCompletedEvent, row, task, executors, Move
<1>8. ASSUME NEW w \in Workers, FinishPreview(w)
      PROVE  Move
  BY <1>8, CallTypes, CompletionIsFinal
     DEF FinishPreview, task, executors, Move, WithExecutionStatusCAS
<1>9. ASSUME NEW reported \in Terminal, Settle(reported)
      PROVE  Move
  BY <1>9, CompletionIsFinal
     DEF Settle, task, TypeOK, Move, WithExecutionStatusCAS
<1>10. CASE Cancel
  BY <1>10 DEF Cancel, Cancelled, ReleaseTask, task, Move
<1>11. CASE ClaimPullTask
  BY <1>11 DEF ClaimPullTask, Move
<1>12. ASSUME NEW c \in Compensators,
              NEW what \in {"retry", "reschedule", "timeout"}, Find(c, what)
       PROVE  Move
  BY <1>12 DEF Find, row, task, executors, Move
<1>13. ASSUME NEW c \in Compensators, Requeue(c)
       PROVE  Move
  BY <1>13 DEF Requeue, RequeuePull, WithExecutionStatusCAS, Move
<1>14. ASSUME NEW c \in Compensators, ClaimForDispatch(c)
       PROVE  Move
  BY <1>14 DEF ClaimForDispatch, WithExecutionStatusCAS, Move
<1>15. ASSUME NEW c \in Compensators, Invoke(c)
       PROVE  Move
  BY <1>15 DEF Invoke, row, Move
<1>16. ASSUME NEW c \in Compensators, Interrupt(c)
       PROVE  Move
  BY <1>16 DEF Interrupt, Cancelled, ReleaseTask, task, Move
<1>17. ASSUME NEW c \in Compensators, CompensatorDies(c)
       PROVE  Move
  BY <1>17 DEF CompensatorDies, row, task, executors, Move
<1>18. CASE GiveBack \/ GiveUp
  BY <1>18 DEF GiveBack, GiveUp, row, Move
<1>19. QED
  BY <1>0, <1>1, <1>2, <1>3, <1>4, <1>5, <1>6, <1>7, <1>8, <1>9,
     <1>10, <1>11, <1>12, <1>13, <1>14, <1>15, <1>16, <1>17, <1>18
     DEF Next, WorkerStep, CompensatorStep, Act

(* A final state is never left, nor its retry count changed.               *)
THEOREM LifecycleTerminalStable == Spec => TerminalStable
<1>1. ASSUME TypeOK, [Next]_vars
      PROVE  [(status \in Terminal) => UNCHANGED <<status, retryCount>>]_vars
  BY <1>1, StepMoves DEF Move
<1>2. QED
  BY <1>1, LifecycleTypeOK, PTL DEF Spec, TerminalStable

(* The parent task of a final execution was given back once, or the one    *)
(* handler that settled owes it or gave up, and nobody else does either.   *)
THEOREM LifecycleReleasedOnce == Spec => []ReleasedOnce
<1>1. Init => ReleasedOnce
  BY DEF Init, ReleasedOnce
<1>2. ASSUME TypeOK, ReleasedOnce, [Next]_vars
      PROVE  ReleasedOnce'
  <2>1. releases \in Nat
    BY <1>2 DEF TypeOK
  <2>2. QED
    BY <1>2, <2>1, StepMoves DEF Move, ReleasedOnce, task
<1>3. QED
  BY <1>1, <1>2, LifecycleTypeOK, PTL DEF Spec

(* The lifecycle implements the abstract outcome: an execution is decided  *)
(* once, and only who decided it comes to give its task back.              *)
THEOREM LifecycleImplementsOutcome == Spec => ImplementsOutcome
<1>1. Init => Outcome!Init
  BY DEF Init, Outcome!Init
<1>2. ASSUME TypeOK, [Next]_vars
      PROVE  [Outcome!Next]_(Outcome!vars)
  <2>1. CASE status \in NonTerminal /\ status' \in Terminal
    <3>1. Outcome!Decide(status')
      BY <1>2, <2>1, StepMoves DEF Move, task, Outcome!Decide
    <3>2. QED
      BY <2>1, <3>1 DEF Outcome!Next, Outcome!Terminal
  <2>2. CASE ~(status \in NonTerminal /\ status' \in Terminal)
    BY <1>2, <2>2, StepMoves
       DEF Move, TypeOK, task, Outcome!vars, Outcome!Next, Outcome!GiveBack,
           Outcome!Drop
  <2>3. QED
    BY <2>1, <2>2
<1>3. QED
  BY <1>1, <1>2, LifecycleTypeOK, PTL DEF Spec, ImplementsOutcome, Outcome!Spec

-----------------------------------------------------------------------------
(* Claims that were won and not yet carried out.                           *)
Claims == {c \in Compensators : scans[c] = "dispatch"}

(* One dispatch is owed by a row that failed or waits to be pulled.        *)
Owed(s) == IF s \in Recoverable \union {"WAITING_PULL"} THEN 1 ELSE 0

(* What is unanswered, what a node is about to dispatch and what is owed   *)
(* never exceed one attempt.  Without the claims and the debt the bound on *)
(* dispatches is not inductive.                                            *)
DispatchBudget == unanswered + Cardinality(Claims) + Owed(status) <= 1

(* Taking and dropping a claim moves the number of claims by one.          *)
LEMMA ClaimCount ==
    ASSUME TypeOK, NEW c \in Compensators, NEW what \in Held, Hold(c, what)
    PROVE  /\ Cardinality(Claims) \in Nat
           /\ Cardinality(Claims') \in Nat
           /\ scans[c] # "dispatch" /\ what = "dispatch"
                => Cardinality(Claims') = Cardinality(Claims) + 1
           /\ scans[c] = "dispatch" /\ what # "dispatch"
                => Cardinality(Claims') = Cardinality(Claims) - 1
           /\ scans[c] # "dispatch" /\ what # "dispatch"
                => Claims' = Claims
<1>1. IsFiniteSet(Claims) /\ IsFiniteSet(Claims')
  <2>1. Claims \subseteq Compensators /\ Claims' \subseteq Compensators
    BY DEF Claims
  <2>2. QED
    BY <2>1, CompensatorsAssumption, FS_Subset
<1>2. ASSUME scans[c] # "dispatch", what = "dispatch"
      PROVE  Claims' = Claims \union {c} /\ c \notin Claims
  BY <1>2 DEF Claims, Hold, TypeOK
<1>3. ASSUME scans[c] = "dispatch", what # "dispatch"
      PROVE  Claims' = Claims \ {c} /\ c \in Claims
  BY <1>3 DEF Claims, Hold, TypeOK
<1>4. ASSUME scans[c] # "dispatch", what # "dispatch"
      PROVE  Claims' = Claims
  BY <1>4 DEF Claims, Hold, TypeOK
<1>5. QED
  BY <1>1, <1>2, <1>3, <1>4, FS_CardinalityType, FS_AddElement, FS_RemoveElement

(* A node has one claim at most, so the claims never exceed the surplus    *)
(* from which on failures are not counted.                                 *)
LEMMA ClaimsType ==
    Cardinality(Claims) \in Nat /\ Cardinality(Claims) <= Surplus
<1>1. Claims \subseteq Compensators
  BY DEF Claims
<1>2. /\ Cardinality(Claims) \in Nat
      /\ Cardinality(Compensators) \in Nat
      /\ Cardinality(Claims) <= Cardinality(Compensators)
  BY <1>1, CompensatorsAssumption, FS_Subset, FS_CardinalityType
<1>3. QED
  BY <1>2, SurplusAssumption

(* The number of dispatches is bounded by the failures.                    *)
THEOREM LifecycleDispatchPerFailure == Spec => []DispatchPerFailure
<1>1. Init => DispatchBudget
  <2> SUFFICES ASSUME Init
               PROVE  DispatchBudget
    OBVIOUS
  <2>1. Claims = {}
    BY DEF Claims, Init
  <2>2. QED
    BY <2>1, FS_EmptySet DEF Init, DispatchBudget, Owed
<1>2. ASSUME TypeOK, DispatchBudget, [Next]_vars
      PROVE  DispatchBudget'
  <2> USE TypeOK, DispatchBudget
  <2>n. /\ Cardinality(Claims) \in Nat /\ Cardinality(Claims) <= Surplus
        /\ unanswered \in Int /\ Surplus \in Nat
    BY ClaimsType, SurplusAssumption DEF TypeOK
  <2> USE <2>n
  <2>0. CASE UNCHANGED vars
    BY <2>0 DEF vars, row, task, executors, DispatchBudget, Claims, Owed
  <2>1. ASSUME NEW w \in Workers, NEW report \in Reports, Receive(w, report)
        PROVE  DispatchBudget'
    BY <2>1 DEF Receive, row, task, executors, DispatchBudget, Claims, Owed
  <2>2. ASSUME NEW w \in Workers, Drop(w)
        PROVE  DispatchBudget'
    BY <2>2 DEF Drop, row, task, executors, DispatchBudget, Claims, Owed
  <2>3. ASSUME NEW w \in Workers, ReportRunning(w)
        PROVE  DispatchBudget'
    <3>1. Claims' = Claims /\ Owed(status)' <= Owed(status)
      BY <2>3 DEF ReportRunning, Claims, Owed, SetRunningState,
                  WithExecutionStatusCAS
    <3>2. QED
      BY <2>3, <3>1 DEF ReportRunning, task, executors, DispatchBudget, Owed
  <2>4. ASSUME NEW w \in Workers, RecordRetry(w)
        PROVE  DispatchBudget'
    <3>1. Claims' = Claims
      BY <2>4 DEF RecordRetry, Claims
    <3>2. QED
      BY <2>4, <3>1 DEF RecordRetry, FailureRecorded, DispatchBudget, Owed
  <2>5. ASSUME NEW w \in Workers, ExhaustRetries(w)
        PROVE  DispatchBudget'
    BY <2>5 DEF ExhaustRetries, row, task, executors, DispatchBudget, Claims, Owed
  <2>6. ASSUME NEW w \in Workers, RecordReschedule(w)
        PROVE  DispatchBudget'
    <3>1. Claims' = Claims
      BY <2>6 DEF RecordReschedule, Claims
    <3>2. QED
      BY <2>6, <3>1 DEF RecordReschedule, FailureRecorded, DispatchBudget, Owed
  <2>7. ASSUME NEW w \in Workers, SendCompletedEvent(w)
        PROVE  DispatchBudget'
    BY <2>7 DEF SendCompletedEvent, row, task, executors, DispatchBudget, Claims, Owed
  <2>8. ASSUME NEW w \in Workers, FinishPreview(w)
        PROVE  DispatchBudget'
    <3>1. Claims' = Claims /\ Owed(status)' <= Owed(status)
      BY <2>8, CompletionIsFinal
         DEF FinishPreview, Claims, Owed, WithExecutionStatusCAS
    <3>2. QED
      BY <2>8, <3>1 DEF FinishPreview, task, executors, DispatchBudget, Owed
  <2>9. ASSUME NEW reported \in Terminal, Settle(reported)
        PROVE  DispatchBudget'
    <3>1. Claims' = Claims /\ Owed(status)' <= Owed(status)
      BY <2>9, CompletionIsFinal DEF Settle, Claims, Owed, WithExecutionStatusCAS
    <3>2. QED
      BY <2>9, <3>1 DEF Settle, executors, DispatchBudget, Owed
  <2>10. CASE Cancel
    <3>1. Claims' = Claims
      BY <2>10 DEF Cancel, Claims
    <3>2. QED
      BY <2>10, <3>1 DEF Cancel, Cancelled, executors, DispatchBudget, Owed
  <2>11. CASE ClaimPullTask
    <3>1. Claims' = Claims
      BY <2>11 DEF ClaimPullTask, Claims
    <3>2. QED
      BY <2>11, <3>1 DEF ClaimPullTask, HandOut, DispatchBudget, Owed
  <2>12. ASSUME NEW c \in Compensators,
                NEW what \in {"retry", "reschedule", "timeout"}, Find(c, what)
         PROVE  DispatchBudget'
    <3>1. Claims' = Claims
      BY <2>12, ClaimCount DEF Find
    <3>2. QED
      BY <2>12, <3>1 DEF Find, row, task, executors, DispatchBudget, Owed
  <2>13. ASSUME NEW c \in Compensators, Requeue(c)
         PROVE  DispatchBudget'
    <3>1. Claims' = Claims
      BY <2>13, ClaimCount DEF Requeue
    <3>2. QED
      BY <2>13, <3>1 DEF Requeue, RequeuePull, WithExecutionStatusCAS,
                         executors, DispatchBudget, Owed
  <2>14. ASSUME NEW c \in Compensators, ClaimForDispatch(c)
         PROVE  DispatchBudget'
    <3>1. scans[c] # "dispatch"
      BY <2>14 DEF ClaimForDispatch
    <3>2. CASE status' = status
      <4>1. Claims' = Claims
        BY <2>14, <3>1, <3>2, ClaimCount DEF ClaimForDispatch
      <4>2. QED
        BY <2>14, <3>2, <4>1 DEF ClaimForDispatch, executors, DispatchBudget, Owed
    <3>3. CASE status' # status
      <4>1. Cardinality(Claims') = Cardinality(Claims) + 1
        BY <2>14, <3>1, <3>3, ClaimCount DEF ClaimForDispatch
      <4>2. Owed(status) = 1 /\ Owed(status)' = 0
        BY <2>14, <3>3 DEF ClaimForDispatch, WithExecutionStatusCAS, Owed
      <4>3. unanswered' = unanswered
        BY <2>14 DEF ClaimForDispatch, executors
      <4>4. QED
        BY <4>1, <4>2, <4>3 DEF DispatchBudget
    <3>4. QED
      BY <3>2, <3>3
  <2>15. ASSUME NEW c \in Compensators, Invoke(c)
         PROVE  DispatchBudget'
    <3>1. Cardinality(Claims') = Cardinality(Claims) - 1
      BY <2>15, ClaimCount DEF Invoke
    <3>2. QED
      BY <2>15, <3>1 DEF Invoke, HandOut, row, DispatchBudget, Owed
  <2>16. ASSUME NEW c \in Compensators, Interrupt(c)
         PROVE  DispatchBudget'
    <3>1. Claims' = Claims
      BY <2>16, ClaimCount DEF Interrupt
    <3>2. QED
      BY <2>16, <3>1 DEF Interrupt, Cancelled, executors, DispatchBudget, Owed
  <2>17. ASSUME NEW c \in Compensators, CompensatorDies(c)
         PROVE  DispatchBudget'
    <3>1. Cardinality(Claims') \in Nat /\ Cardinality(Claims') <= Cardinality(Claims)
      <4>1. CASE scans[c] = "dispatch"
        BY <2>17, <4>1, ClaimCount DEF CompensatorDies
      <4>2. CASE scans[c] # "dispatch"
        BY <2>17, <4>2, ClaimCount DEF CompensatorDies
      <4>3. QED
        BY <4>1, <4>2
    <3>2. QED
      BY <2>17, <3>1 DEF CompensatorDies, row, task, executors, DispatchBudget, Owed
  <2>18. CASE GiveBack \/ GiveUp
    BY <2>18 DEF GiveBack, GiveUp, row, executors, DispatchBudget, Claims, Owed
  <2>19. QED
    BY <1>2, <2>0, <2>1, <2>2, <2>3, <2>4, <2>5, <2>6, <2>7, <2>8, <2>9,
       <2>10, <2>11, <2>12, <2>13, <2>14, <2>15, <2>16, <2>17, <2>18
       DEF Next, WorkerStep, CompensatorStep, Act
<1>3. TypeOK /\ DispatchBudget => DispatchPerFailure
  BY ClaimsType DEF TypeOK, DispatchBudget, DispatchPerFailure, Owed
<1>4. QED
  BY <1>1, <1>2, <1>3, LifecycleTypeOK, PTL DEF Spec

(* The retries of the configuration are never exceeded.                    *)
THEOREM LifecycleRetryLimit == Spec => []RetryLimit
<1>1. Init => RetryLimit
  BY MaxRetriesAssumption DEF Init, RetryLimit
<1>2. ASSUME TypeOK, RetryLimit, [Next]_vars
      PROVE  RetryLimit'
  BY <1>2, StepMoves DEF Move, RetryLimit, MayRetry
<1>3. QED
  BY <1>1, <1>2, LifecycleTypeOK, PTL DEF Spec

(* Workflows and previews are attempted once.  That they never count as    *)
(* recoverable is inductive; that they are dispatched once then follows    *)
(* from the bound on dispatches.                                           *)
THEOREM LifecycleSingleAttempt == Spec => []SingleAttemptSources
<1> DEFINE NoFailure == source # "TASK" => status \notin Recoverable
<1>1. Init => NoFailure
  BY DEF Init
<1>2. ASSUME TypeOK, NoFailure, [Next]_vars
      PROVE  NoFailure'
  BY <1>2, StepMoves DEF Move
<1>3. NoFailure /\ DispatchPerFailure => SingleAttemptSources
  BY DEF DispatchPerFailure, SingleAttemptSources
<1>4. QED
  <2> HIDE DEF NoFailure
  <2>1. QED
    BY <1>1, <1>2, <1>3, LifecycleTypeOK, LifecycleDispatchPerFailure, PTL
       DEF Spec
=============================================================================
