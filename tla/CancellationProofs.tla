------------------------- MODULE CancellationProofs -------------------------
(***************************************************************************)
(* Theorems on the cancellation of one execution, for any number of        *)
(* submissions, requests and compensators, of crashes and of failures.     *)
(* Liveness is left to TLC.                                                *)
(***************************************************************************)
EXTENDS Cancellation, TLAPS

(* Nothing has happened to an execution that does not exist.               *)
Unborn ==
    exec = "none" =>
       /\ handler = "none" /\ starts = 0
       /\ \A s \in Submissions : submission[s] \in {"idle", "create", "dead"}

(* While a request that found no execution holds the row, nobody has got   *)
(* past Attach, and no signal is scheduled.                                *)
LockIsEarly ==
    lockedBy # NoOne =>
       /\ delivery \in {"none", "WAITING_EXECUTION"}
       /\ \A s \in Submissions : submission[s] \notin {"invoke", "done"}

(* What the other properties rest on.                                      *)
RowOrder == Unborn /\ LockIsEarly /\ ScheduledMeansCancelled

Creating == {"created", "invoke"}

(* One submission has created the execution, and it alone may invoke it.   *)
OneCreator ==
    /\ starts <= 1
    /\ handler \in {"called", "verified"} => starts = 0
    /\ \A s, t \in Submissions :
          submission[s] \in Creating /\ submission[t] \in Creating => s = t
    /\ \A s \in Submissions :
          /\ submission[s] = "invoke" => mode = "PUSH"
          /\ submission[s] \in Creating /\ mode = "PUSH" =>
                handler = "none" /\ starts = 0
    /\ mode = "PULL" /\ handler = "none" => starts = 0

(* Once an early cancellation has its row, no submission gets to invoke a  *)
(* pushed execution.                                                       *)
EarlyBlocks ==
    /\ early # {} => delivery # "none"
    /\ mode = "PUSH" /\ (lockedBy # NoOne \/ early # {}) =>
          /\ handler = "none" /\ starts = 0
          /\ \A s \in Submissions : submission[s] # "invoke"

-----------------------------------------------------------------------------
(* Every variable keeps its type.                                          *)
LEMMA TypesStay ==
    ASSUME TypeOK, [Next]_vars
    PROVE  TypeOK'
<1> USE TypeOK DEF TypeOK, cancellation
<1>0. CASE UNCHANGED vars
  BY <1>0 DEF vars
<1>1. ASSUME NEW s \in Submissions, Submit(s)
      PROVE  TypeOK'
  BY <1>1 DEF Submit, Goto
<1>2. ASSUME NEW s \in Submissions, Create(s)
      PROVE  TypeOK'
  BY <1>2 DEF Create, Goto, Created
<1>3. ASSUME NEW s \in Submissions, Attach(s)
      PROVE  TypeOK'
  BY <1>3 DEF Attach, Goto, RowIsFree, AfterAttach, Bind, ScheduledStatus
<1>4. ASSUME NEW s \in Submissions, Invoke(s)
      PROVE  TypeOK'
  BY <1>4 DEF Invoke, Goto
<1>5. ASSUME NEW s \in Submissions, InvokeFails(s)
      PROVE  TypeOK'
  BY <1>5 DEF InvokeFails, Goto
<1>6. ASSUME NEW s \in Submissions, Crash(s)
      PROVE  TypeOK'
  BY <1>6 DEF Crash, Goto
<1>7. CASE Claim
  BY <1>7 DEF Claim
<1>8. CASE LookUp
  BY <1>8 DEF LookUp
<1>9. CASE Begin
  BY <1>9 DEF Begin
<1>10. CASE Finish
  BY <1>10 DEF Finish
<1>11. CASE Settle
  BY <1>11 DEF Settle
<1>12. ASSUME NEW r \in Requests, RequestFound(r)
      PROVE  TypeOK'
  BY <1>12 DEF RequestFound, RowIsFree, Bind, ScheduledStatus
<1>13. ASSUME NEW r \in Requests, RequestEarly(r)
      PROVE  TypeOK'
  BY <1>13 DEF RequestEarly, RowIsFree
<1>14. ASSUME NEW r \in Requests, KeepWaiting(r)
      PROVE  TypeOK'
  BY <1>14 DEF KeepWaiting
<1>15. ASSUME NEW d \in Deliverers, List(d)
      PROVE  TypeOK'
  BY <1>15 DEF List
<1>16. ASSUME NEW d \in Deliverers, Deliver(d)
      PROVE  TypeOK'
  BY <1>16 DEF Deliver, RowIsFree, MarkSent
<1>17. ASSUME NEW d \in Deliverers, DeliverFails(d)
      PROVE  TypeOK'
  BY <1>17 DEF DeliverFails, RowIsFree, MarkFailed
<1>18. ASSUME NEW d \in Deliverers, DelivererDies(d)
      PROVE  TypeOK'
  BY <1>18 DEF DelivererDies
<1>19. CASE BackoffEnds
  BY <1>19 DEF BackoffEnds
<1> QED
  BY <1>0, <1>1, <1>2, <1>3, <1>4, <1>5, <1>6, <1>7, <1>8, <1>9, <1>10,
     <1>11, <1>12, <1>13, <1>14, <1>15, <1>16, <1>17, <1>18, <1>19 DEF Next

(* Type correctness: every variable of the model keeps its type.           *)
THEOREM CancellationTypeOK == Spec => []TypeOK
<1>1. Init => TypeOK
  BY DEF Init, TypeOK
<1>2. TypeOK /\ [Next]_vars => TypeOK'
  BY TypesStay
<1> QED
  BY <1>1, <1>2, PTL DEF Spec

(* Each step keeps the order in which rows come to be.                     *)
LEMMA OrderStays ==
    ASSUME TypeOK, RowOrder, [Next]_vars
    PROVE  RowOrder'
<1> USE TypeOK, RowOrder DEF TypeOK, RowOrder, Unborn, LockIsEarly,
      ScheduledMeansCancelled, cancellation
<1>0. CASE UNCHANGED vars
  BY <1>0 DEF vars
<1>1. ASSUME NEW s \in Submissions, Submit(s)
      PROVE  RowOrder'
  BY <1>1 DEF Submit, Goto
<1>2. ASSUME NEW s \in Submissions, Create(s)
      PROVE  RowOrder'
  BY <1>2 DEF Create, Goto, Created
<1>3. ASSUME NEW s \in Submissions, Attach(s)
      PROVE  RowOrder'
  BY <1>3 DEF Attach, Goto, RowIsFree, AfterAttach, Bind, ScheduledStatus
<1>4. ASSUME NEW s \in Submissions, Invoke(s)
      PROVE  RowOrder'
  BY <1>4 DEF Invoke, Goto
<1>5. ASSUME NEW s \in Submissions, InvokeFails(s)
      PROVE  RowOrder'
  BY <1>5 DEF InvokeFails, Goto
<1>6. ASSUME NEW s \in Submissions, Crash(s)
      PROVE  RowOrder'
  BY <1>6 DEF Crash, Goto
<1>7. CASE Claim
  BY <1>7 DEF Claim
<1>8. CASE LookUp
  BY <1>8 DEF LookUp
<1>9. CASE Begin
  BY <1>9 DEF Begin
<1>10. CASE Finish
  BY <1>10 DEF Finish
<1>11. CASE Settle
  BY <1>11 DEF Settle
<1>12. ASSUME NEW r \in Requests, RequestFound(r)
      PROVE  RowOrder'
  BY <1>12 DEF RequestFound, RowIsFree, Bind, ScheduledStatus
<1>13. ASSUME NEW r \in Requests, RequestEarly(r)
      PROVE  RowOrder'
  BY <1>13 DEF RequestEarly, RowIsFree
<1>14. ASSUME NEW r \in Requests, KeepWaiting(r)
      PROVE  RowOrder'
  BY <1>14, NoOneAssumption DEF KeepWaiting
<1>15. ASSUME NEW d \in Deliverers, List(d)
      PROVE  RowOrder'
  BY <1>15 DEF List
<1>16. ASSUME NEW d \in Deliverers, Deliver(d)
      PROVE  RowOrder'
  BY <1>16 DEF Deliver, RowIsFree, MarkSent
<1>17. ASSUME NEW d \in Deliverers, DeliverFails(d)
      PROVE  RowOrder'
  BY <1>17 DEF DeliverFails, RowIsFree, MarkFailed
<1>18. ASSUME NEW d \in Deliverers, DelivererDies(d)
      PROVE  RowOrder'
  BY <1>18 DEF DelivererDies
<1>19. CASE BackoffEnds
  BY <1>19 DEF BackoffEnds
<1> QED
  BY <1>0, <1>1, <1>2, <1>3, <1>4, <1>5, <1>6, <1>7, <1>8, <1>9, <1>10,
     <1>11, <1>12, <1>13, <1>14, <1>15, <1>16, <1>17, <1>18, <1>19 DEF Next

(* The types and the order hold in every state.                            *)
LEMMA OrderAlways == Spec => [](TypeOK /\ RowOrder)
<1>1. Init => TypeOK /\ RowOrder
  BY DEF Init, TypeOK, RowOrder, Unborn, LockIsEarly,
     ScheduledMeansCancelled
<1>2. TypeOK /\ RowOrder /\ [Next]_vars => (TypeOK /\ RowOrder)'
  BY TypesStay, OrderStays
<1> QED
  BY <1>1, <1>2, PTL DEF Spec

(* A signal is scheduled only for an execution cancelled with it: Attach   *)
(* and Request cancel and schedule in one transaction, and no report moves *)
(* a cancelled execution.                                                  *)
THEOREM CancellationScheduledMeansCancelled ==
    Spec => []ScheduledMeansCancelled
  BY OrderAlways, PTL DEF RowOrder

(* A signal that was sent is never sent again: the one statement that sets *)
(* WAITING_EXECUTION runs under a lock no sent row has.                    *)
THEOREM CancellationSentStays == Spec => SentStays
<1>1. TypeOK /\ RowOrder /\ [Next]_vars
         => [delivery = "SENT" => delivery' = "SENT"]_delivery
  <2> SUFFICES ASSUME TypeOK, RowOrder, [Next]_vars, delivery = "SENT"
               PROVE  delivery' = "SENT"
    OBVIOUS
  <2> USE DEF cancellation
  <2>1. CASE UNCHANGED vars
    BY <2>1 DEF vars
  <2>2. ASSUME NEW s \in Submissions,
               \/ Submit(s) \/ Create(s) \/ Attach(s)
               \/ Invoke(s) \/ InvokeFails(s) \/ Crash(s)
        PROVE  delivery' = "SENT"
    BY <2>2 DEF Submit, Create, Attach, Invoke, InvokeFails, Crash, Bind,
       ScheduledStatus
  <2>3. CASE Claim \/ LookUp \/ Begin \/ Finish \/ Settle \/ BackoffEnds
    BY <2>3 DEF Claim, LookUp, Begin, Finish, Settle, BackoffEnds
  <2>4. ASSUME NEW r \in Requests, RequestFound(r) \/ RequestEarly(r)
        PROVE  delivery' = "SENT"
    BY <2>4 DEF RequestFound, RequestEarly, Bind, ScheduledStatus
  <2>5. ASSUME NEW r \in Requests, KeepWaiting(r)
        PROVE  delivery' = "SENT"
    BY <2>5, NoOneAssumption DEF KeepWaiting, RowOrder, LockIsEarly
  <2>6. ASSUME NEW d \in Deliverers,
               List(d) \/ Deliver(d) \/ DeliverFails(d) \/ DelivererDies(d)
        PROVE  delivery' = "SENT"
    BY <2>6 DEF List, Deliver, DeliverFails, DelivererDies, MarkSent,
       MarkFailed
  <2> QED
    BY <2>1, <2>2, <2>3, <2>4, <2>5, <2>6 DEF Next
<1> QED
  BY <1>1, OrderAlways, PTL DEF Spec, SentStays

(* Each step keeps the creator alone.                                      *)
LEMMA CreatorStays ==
    ASSUME TypeOK, Unborn, OneCreator, [Next]_vars
    PROVE  OneCreator'
<1> USE TypeOK, Unborn, OneCreator, ModesAssumption DEF TypeOK, Unborn,
      OneCreator, Creating, cancellation
<1>0. CASE UNCHANGED vars
  BY <1>0 DEF vars
<1>1. ASSUME NEW s \in Submissions, Submit(s)
      PROVE  OneCreator'
  BY <1>1 DEF Submit, Goto
<1>2. ASSUME NEW s \in Submissions, Create(s)
      PROVE  OneCreator'
  BY <1>2 DEF Create, Goto, Created
<1>3. ASSUME NEW s \in Submissions, Attach(s)
      PROVE  OneCreator'
  BY <1>3 DEF Attach, Goto, RowIsFree, AfterAttach, Bind, ScheduledStatus
<1>4. ASSUME NEW s \in Submissions, Invoke(s)
      PROVE  OneCreator'
  BY <1>4 DEF Invoke, Goto
<1>5. ASSUME NEW s \in Submissions, InvokeFails(s)
      PROVE  OneCreator'
  BY <1>5 DEF InvokeFails, Goto
<1>6. ASSUME NEW s \in Submissions, Crash(s)
      PROVE  OneCreator'
  BY <1>6 DEF Crash, Goto
<1>7. CASE Claim
  BY <1>7 DEF Claim
<1>8. CASE LookUp
  BY <1>8 DEF LookUp
<1>9. CASE Begin
  BY <1>9 DEF Begin
<1>10. CASE Finish
  BY <1>10 DEF Finish
<1>11. CASE Settle
  BY <1>11 DEF Settle
<1>12. ASSUME NEW r \in Requests, RequestFound(r)
      PROVE  OneCreator'
  BY <1>12 DEF RequestFound, RowIsFree, Bind, ScheduledStatus
<1>13. ASSUME NEW r \in Requests, RequestEarly(r)
      PROVE  OneCreator'
  BY <1>13 DEF RequestEarly, RowIsFree
<1>14. ASSUME NEW r \in Requests, KeepWaiting(r)
      PROVE  OneCreator'
  BY <1>14 DEF KeepWaiting
<1>15. ASSUME NEW d \in Deliverers, List(d)
      PROVE  OneCreator'
  BY <1>15 DEF List
<1>16. ASSUME NEW d \in Deliverers, Deliver(d)
      PROVE  OneCreator'
  BY <1>16 DEF Deliver, RowIsFree, MarkSent
<1>17. ASSUME NEW d \in Deliverers, DeliverFails(d)
      PROVE  OneCreator'
  BY <1>17 DEF DeliverFails, RowIsFree, MarkFailed
<1>18. ASSUME NEW d \in Deliverers, DelivererDies(d)
      PROVE  OneCreator'
  BY <1>18 DEF DelivererDies
<1>19. CASE BackoffEnds
  BY <1>19 DEF BackoffEnds
<1> QED
  BY <1>0, <1>1, <1>2, <1>3, <1>4, <1>5, <1>6, <1>7, <1>8, <1>9, <1>10,
     <1>11, <1>12, <1>13, <1>14, <1>15, <1>16, <1>17, <1>18, <1>19 DEF Next

(* The handler starts at most once, whoever submits the request again: the *)
(* unique index lets one INSERT win, and only its caller invokes.          *)
THEOREM CancellationOneStart == Spec => []OneStart
<1>1. Init => OneCreator
  BY DEF Init, OneCreator, Creating
<1>2. TypeOK /\ Unborn /\ OneCreator /\ [Next]_vars => OneCreator'
  BY CreatorStays
<1>3. OneCreator => OneStart
  BY DEF OneCreator, OneStart
<1> QED
  BY <1>1, <1>2, <1>3, OrderAlways, PTL DEF Spec, RowOrder

(* Each step of a pushed execution keeps early cancellations effective.    *)
LEMMA EarlyStays ==
    ASSUME TypeOK, RowOrder, EarlyBlocks, [Next]_vars
    PROVE  EarlyBlocks'
<1> USE TypeOK, RowOrder, EarlyBlocks DEF TypeOK, RowOrder, Unborn,
      LockIsEarly, EarlyBlocks, cancellation
<1>0. CASE UNCHANGED vars
  BY <1>0 DEF vars
<1>1. ASSUME NEW s \in Submissions, Submit(s)
      PROVE  EarlyBlocks'
  BY <1>1 DEF Submit, Goto
<1>2. ASSUME NEW s \in Submissions, Create(s)
      PROVE  EarlyBlocks'
  BY <1>2 DEF Create, Goto, Created
<1>3. ASSUME NEW s \in Submissions, Attach(s)
      PROVE  EarlyBlocks'
  BY <1>3 DEF Attach, Goto, RowIsFree, AfterAttach, Bind, ScheduledStatus
<1>4. ASSUME NEW s \in Submissions, Invoke(s)
      PROVE  EarlyBlocks'
  BY <1>4 DEF Invoke, Goto
<1>5. ASSUME NEW s \in Submissions, InvokeFails(s)
      PROVE  EarlyBlocks'
  BY <1>5 DEF InvokeFails, Goto
<1>6. ASSUME NEW s \in Submissions, Crash(s)
      PROVE  EarlyBlocks'
  BY <1>6 DEF Crash, Goto
<1>7. CASE Claim
  BY <1>7 DEF Claim
<1>8. CASE LookUp
  BY <1>8 DEF LookUp
<1>9. CASE Begin
  BY <1>9 DEF Begin
<1>10. CASE Finish
  BY <1>10 DEF Finish
<1>11. CASE Settle
  BY <1>11 DEF Settle
<1>12. ASSUME NEW r \in Requests, RequestFound(r)
      PROVE  EarlyBlocks'
  BY <1>12 DEF RequestFound, RowIsFree, Bind, ScheduledStatus
<1>13. ASSUME NEW r \in Requests, RequestEarly(r)
      PROVE  EarlyBlocks'
  BY <1>13 DEF RequestEarly, RowIsFree
<1>14. ASSUME NEW r \in Requests, KeepWaiting(r)
      PROVE  EarlyBlocks'
  BY <1>14, NoOneAssumption DEF KeepWaiting
<1>15. ASSUME NEW d \in Deliverers, List(d)
      PROVE  EarlyBlocks'
  BY <1>15 DEF List
<1>16. ASSUME NEW d \in Deliverers, Deliver(d)
      PROVE  EarlyBlocks'
  BY <1>16 DEF Deliver, RowIsFree, MarkSent
<1>17. ASSUME NEW d \in Deliverers, DeliverFails(d)
      PROVE  EarlyBlocks'
  BY <1>17 DEF DeliverFails, RowIsFree, MarkFailed
<1>18. ASSUME NEW d \in Deliverers, DelivererDies(d)
      PROVE  EarlyBlocks'
  BY <1>18 DEF DelivererDies
<1>19. CASE BackoffEnds
  BY <1>19 DEF BackoffEnds
<1> QED
  BY <1>0, <1>1, <1>2, <1>3, <1>4, <1>5, <1>6, <1>7, <1>8, <1>9, <1>10,
     <1>11, <1>12, <1>13, <1>14, <1>15, <1>16, <1>17, <1>18, <1>19 DEF Next

(* A pushed execution cancelled before it existed never starts: a request  *)
(* that found none locks the row, and Attach, which precedes the call of   *)
(* the executor, waits for that lock.                                      *)
THEOREM CancellationEarlyCancelPreventsStart ==
    Spec => []EarlyCancelPreventsStart
<1>1. Init => EarlyBlocks
  BY DEF Init, EarlyBlocks
<1>2. TypeOK /\ RowOrder /\ EarlyBlocks /\ [Next]_vars => EarlyBlocks'
  BY EarlyStays
<1>3. EarlyBlocks => EarlyCancelPreventsStart
  BY DEF EarlyBlocks, EarlyCancelPreventsStart
<1> QED
  BY <1>1, <1>2, <1>3, OrderAlways, PTL DEF Spec

(* Each step leaves no cancellation waiting behind a submission.           *)
LEMMA WaitingStays ==
    ASSUME TypeOK, RowOrder, WaitingIsApplied, [Next]_vars
    PROVE  WaitingIsApplied'
<1> USE TypeOK, RowOrder, WaitingIsApplied DEF TypeOK, RowOrder, Unborn,
      LockIsEarly, WaitingIsApplied, cancellation
<1>0. CASE UNCHANGED vars
  BY <1>0 DEF vars
<1>1. ASSUME NEW s \in Submissions, Submit(s)
      PROVE  WaitingIsApplied'
  BY <1>1 DEF Submit, Goto
<1>2. ASSUME NEW s \in Submissions, Create(s)
      PROVE  WaitingIsApplied'
  BY <1>2 DEF Create, Goto, Created
<1>3. ASSUME NEW s \in Submissions, Attach(s)
      PROVE  WaitingIsApplied'
  BY <1>3 DEF Attach, Goto, RowIsFree, AfterAttach, Bind, ScheduledStatus
<1>4. ASSUME NEW s \in Submissions, Invoke(s)
      PROVE  WaitingIsApplied'
  BY <1>4 DEF Invoke, Goto
<1>5. ASSUME NEW s \in Submissions, InvokeFails(s)
      PROVE  WaitingIsApplied'
  BY <1>5 DEF InvokeFails, Goto
<1>6. ASSUME NEW s \in Submissions, Crash(s)
      PROVE  WaitingIsApplied'
  BY <1>6 DEF Crash, Goto
<1>7. CASE Claim
  BY <1>7 DEF Claim
<1>8. CASE LookUp
  BY <1>8 DEF LookUp
<1>9. CASE Begin
  BY <1>9 DEF Begin
<1>10. CASE Finish
  BY <1>10 DEF Finish
<1>11. CASE Settle
  BY <1>11 DEF Settle
<1>12. ASSUME NEW r \in Requests, RequestFound(r)
      PROVE  WaitingIsApplied'
  BY <1>12 DEF RequestFound, RowIsFree, Bind, ScheduledStatus
<1>13. ASSUME NEW r \in Requests, RequestEarly(r)
      PROVE  WaitingIsApplied'
  BY <1>13 DEF RequestEarly, RowIsFree
<1>14. ASSUME NEW r \in Requests, KeepWaiting(r)
      PROVE  WaitingIsApplied'
  BY <1>14, NoOneAssumption DEF KeepWaiting
<1>15. ASSUME NEW d \in Deliverers, List(d)
      PROVE  WaitingIsApplied'
  BY <1>15 DEF List
<1>16. ASSUME NEW d \in Deliverers, Deliver(d)
      PROVE  WaitingIsApplied'
  BY <1>16 DEF Deliver, RowIsFree, MarkSent
<1>17. ASSUME NEW d \in Deliverers, DeliverFails(d)
      PROVE  WaitingIsApplied'
  BY <1>17 DEF DeliverFails, RowIsFree, MarkFailed
<1>18. ASSUME NEW d \in Deliverers, DelivererDies(d)
      PROVE  WaitingIsApplied'
  BY <1>18 DEF DelivererDies
<1>19. CASE BackoffEnds
  BY <1>19 DEF BackoffEnds
<1> QED
  BY <1>0, <1>1, <1>2, <1>3, <1>4, <1>5, <1>6, <1>7, <1>8, <1>9, <1>10,
     <1>11, <1>12, <1>13, <1>14, <1>15, <1>16, <1>17, <1>18, <1>19 DEF Next

(* A cancellation waits no longer once a submission has got past Attach:   *)
(* Attach reads the row under its lock and applies what it finds.          *)
THEOREM CancellationWaitingIsApplied == Spec => []WaitingIsApplied
<1>1. Init => WaitingIsApplied
  BY DEF Init, WaitingIsApplied
<1>2. TypeOK /\ RowOrder /\ WaitingIsApplied /\ [Next]_vars
         => WaitingIsApplied'
  BY WaitingStays
<1> QED
  BY <1>1, <1>2, OrderAlways, PTL DEF Spec
=============================================================================
