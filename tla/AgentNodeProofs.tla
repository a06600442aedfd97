--------------------------- MODULE AgentNodeProofs ---------------------------
(***************************************************************************)
(* Theorems on the agent's process, for any number of workers and however  *)
(* often the command is repeated.  That terminations end is left to TLC.   *)
(***************************************************************************)
EXTENDS AgentNode, TLAPS

(* An entry that is open has an owner whom a termination can tell.         *)
Owned == Active => entry.owner \in Workers

(* A termination that is remembered has reached who works, or is on its    *)
(* way: also who has not begun its handler.                                *)
ToldToStop ==
    \A w \in Workers : tomb /\ pc[w] \in Working =>
        /\ entry.terminated
        /\ pc[w] \in {"begun", "running"} => stopped[w] \/ w \in held

(* Who works or waits does so for the entry that is there.                 *)
OfThisEntry ==
    \A w \in Workers :
        pc[w] \in Working \union {"waiting"} =>
            entry.state = "open" /\ round[w] = entry.no

(* The answers with an entry's outcome: published, and about to be.        *)
Telling == {"heard", "publish"}

AnswerOf(w) == [no |-> round[w], outcome |-> answer[w], by |-> "entry"]

Answers ==
    {r \in results : r.by = "entry"}
        \union {AnswerOf(w) : w \in {v \in Workers : pc[v] \in Telling}}

(* The others are failures.                                                *)
OwnFailures ==
    /\ \A r \in results : r.by = "self" => r.outcome = "FAILED"
    /\ \A w \in Workers : pc[w] \in {"unfit", "apart"} => answer[w] = "FAILED"

(* An answer is not to an entry to come; if it is to this one, that one is *)
(* over, and if it is still there it has the same outcome.                 *)
AnswersEntry(a) ==
    /\ a.no <= entry.no
    /\ a.no = entry.no => /\ entry.state # "open"
                          /\ entry.state = "done" => a.outcome = entry.outcome

AnswersAgree ==
    \A a \in Answers :
        /\ AnswersEntry(a)
        /\ \A b \in Answers : a.no = b.no => a.outcome = b.outcome

-----------------------------------------------------------------------------
(* What the steps do to the entry, as its four fields.                     *)
LEMMA AgentEntries ==
    ASSUME TypeOK
    PROVE  /\ MarkEntry =>
                /\ entry' \in [state : {"none", "open", "done"}, no : Nat,
                              owner : Workers \union {NoWorker},
                              terminated : BOOLEAN, outcome : Outcome]
                /\ entry'.state = entry.state /\ entry'.no = entry.no
                /\ entry'.owner = entry.owner
                /\ entry'.outcome = entry.outcome
                /\ entry.terminated \/ Active => entry'.terminated
           /\ entry' = NoEntry(entry.no) =>
                /\ entry' \in [state : {"none", "open", "done"}, no : Nat,
                              owner : Workers \union {NoWorker},
                              terminated : BOOLEAN, outcome : Outcome]
                /\ entry'.state = "none" /\ entry'.no = entry.no
<1>1. ASSUME MarkEntry
      PROVE  /\ entry'.state = entry.state /\ entry'.no = entry.no
             /\ entry'.owner = entry.owner
             /\ entry'.outcome = entry.outcome
             /\ entry'.terminated = (entry.terminated \/ Active)
  BY <1>1 DEF TypeOK, MarkEntry
<1>2. ASSUME MarkEntry
      PROVE  entry' \in [state : {"none", "open", "done"}, no : Nat,
                         owner : Workers \union {NoWorker},
                         terminated : BOOLEAN, outcome : Outcome]
  <2>1. CASE entry.terminated \/ Active
    <3>1. entry' = [entry EXCEPT !.terminated = TRUE]
      BY <1>2, <2>1 DEF TypeOK, MarkEntry
    <3> QED
      BY <3>1 DEF TypeOK
  <2>2. CASE ~(entry.terminated \/ Active)
    <3>1. entry' = [entry EXCEPT !.terminated = FALSE]
      BY <1>2, <2>2 DEF TypeOK, MarkEntry
    <3> QED
      BY <3>1 DEF TypeOK
  <2> QED
    BY <2>1, <2>2
<1>3. ASSUME entry' = NoEntry(entry.no)
      PROVE  /\ entry' \in [state : {"none", "open", "done"}, no : Nat,
                            owner : Workers \union {NoWorker},
                            terminated : BOOLEAN, outcome : Outcome]
             /\ entry'.state = "none" /\ entry'.no = entry.no
  BY <1>3 DEF TypeOK, NoEntry, Outcome
<1> QED
  BY <1>1, <1>2, <1>3

(* Every step keeps the types.                                             *)
LEMMA AgentTypesStay ==
    ASSUME TypeOK, Owned, [Next]_vars
    PROVE  TypeOK' /\ Owned'
<1> USE TypeOK, Owned, NoWorkerAssumption
    DEF TypeOK, Owned, Outcome, Goto, Active
<1>0. CASE UNCHANGED vars
  BY <1>0 DEF vars
<1>1. ASSUME NEW w \in Workers, Begin(w)
      PROVE  TypeOK' /\ Owned'
  <2>1. CASE JoinEntry(w)
    BY <1>1, <2>1 DEF Begin, JoinEntry
  <2>2. CASE RefuseEntry(w)
    BY <1>1, <2>2 DEF Begin, RefuseEntry
  <2>3. CASE OwnEntry(w)
    BY <1>1, <2>3 DEF Begin, OwnEntry
  <2> QED
    BY <1>1, <2>1, <2>2, <2>3 DEF Begin
<1>2. ASSUME NEW w \in Workers, LookUp(w)
      PROVE  TypeOK' /\ Owned'
  <2>1. CASE MarkEntry /\ tomb' = TRUE
             /\ answer' = [answer EXCEPT ![w] = "CANCELLED"]
             /\ pc' = [pc EXCEPT ![w] = "ended"]
    <3>1. entry' \in [state : {"none", "open", "done"}, no : Nat,
                     owner : Workers \union {NoWorker},
                     terminated : BOOLEAN, outcome : Outcome]
          /\ entry'.state = entry.state /\ entry'.owner = entry.owner
      BY <2>1, AgentEntries
    <3>2. /\ tomb' \in BOOLEAN
          /\ answer' \in [Workers -> Outcome]
          /\ pc' \in [Workers -> {"idle", "waiting", "heard", "begun", "running",
                                 "ended", "unfit", "publish", "apart", "gone"}]
          /\ UNCHANGED <<row, stopping, signalled, stopped, round, held, results>>
      BY <1>2, <2>1 DEF LookUp
    <3> QED
      BY <3>1, <3>2
  <2>2. CASE UNCHANGED <<answer, entry, tomb>>
             /\ pc' = [pc EXCEPT ![w] = "running"]
    BY <1>2, <2>2 DEF LookUp
  <2>3. CASE UNCHANGED <<entry, tomb>>
             /\ answer' = [answer EXCEPT ![w] = "FAILED"]
             /\ \/ pc' = [pc EXCEPT ![w] = "ended"]
                \/ pc' = [pc EXCEPT ![w] = "unfit"]
    BY <1>2, <2>3 DEF LookUp
  <2> QED
    BY <1>2, <2>1, <2>2, <2>3 DEF LookUp
<1>3. ASSUME NEW w \in Workers, HandlerEnds(w)
      PROVE  TypeOK' /\ Owned'
  BY <1>3 DEF HandlerEnds
<1>4. ASSUME NEW w \in Workers, Finish(w)
      PROVE  TypeOK' /\ Owned'
  <2>1. Verdict(w) \in Outcome
    BY DEF Verdict
  <2> QED
    BY <1>4, <2>1 DEF Finish
<1>5. ASSUME NEW w \in Workers, Publish(w)
      PROVE  TypeOK' /\ Owned'
  BY <1>5 DEF Publish
<1>6. CASE CleanUp
  BY <1>6, AgentEntries DEF CleanUp
<1>7. CASE TerminateBySignal
  <2>1. entry' \in [state : {"none", "open", "done"}, no : Nat,
                   owner : Workers \union {NoWorker},
                   terminated : BOOLEAN, outcome : Outcome]
        /\ Owned'
    BY <1>7, AgentEntries DEF TerminateBySignal
  <2>2. held' \subseteq Workers
    BY <1>7 DEF TerminateBySignal
  <2> QED
    BY <1>7, <2>1, <2>2 DEF TerminateBySignal
<1>8. CASE CallCancel
  BY <1>8 DEF CallCancel
<1>9. CASE Cancel \/ Signal \/ Decide
  BY <1>9 DEF Cancel, Signal, Decide
<1>10. CASE Restart
  <2>1. entry' \in [state : {"none", "open", "done"}, no : Nat,
                   owner : Workers \union {NoWorker},
                   terminated : BOOLEAN, outcome : Outcome]
        /\ entry'.state = "none"
    BY <1>10, AgentEntries DEF Restart
  <2> QED
    BY <1>10, <2>1 DEF Restart
<1>11. ASSUME NEW w \in Workers, Leave(w)
       PROVE  TypeOK' /\ Owned'
  BY <1>11 DEF Leave
<1>12. CASE ShutDown
  <2>1. stopped' \in [Workers -> BOOLEAN]
    BY <1>12 DEF ShutDown, Working
  <2> QED
    BY <1>12, <2>1 DEF ShutDown
<1> QED
  BY <1>0, <1>1, <1>2, <1>3, <1>4, <1>5, <1>6, <1>7, <1>8, <1>9, <1>10, <1>11,
     <1>12 DEF Next

(* One handler at a time, and the entry is its own.                        *)
LEMMA OneHandlerStays ==
    ASSUME TypeOK, OneHandler, [Next]_vars
    PROVE  OneHandler'
<1> USE TypeOK, OneHandler DEF TypeOK, OneHandler, Working, Goto, Active
<1>0. CASE UNCHANGED vars
  BY <1>0 DEF vars
<1>1. ASSUME NEW w \in Workers, Begin(w)
      PROVE  OneHandler'
  BY <1>1 DEF Begin, JoinEntry, RefuseEntry, OwnEntry
<1>2. ASSUME NEW w \in Workers, LookUp(w)
      PROVE  OneHandler'
  <2>1. entry'.state = entry.state /\ entry'.owner = entry.owner
    BY <1>2, AgentEntries DEF LookUp
  <2>2. \A v \in Workers : pc'[v] \in Working => pc[v] \in Working
    BY <1>2 DEF LookUp
  <2> QED
    BY <2>1, <2>2
<1>3. ASSUME NEW w \in Workers, HandlerEnds(w)
      PROVE  OneHandler'
  BY <1>3 DEF HandlerEnds
<1>4. ASSUME NEW w \in Workers, Finish(w)
      PROVE  OneHandler'
  <2>1. \A v \in Workers : pc'[v] \notin Working
    BY <1>4 DEF Finish, Woken
  <2> QED
    BY <2>1
<1>5. ASSUME NEW w \in Workers, Publish(w)
      PROVE  OneHandler'
  BY <1>5 DEF Publish
<1>6. CASE CleanUp
  BY <1>6 DEF CleanUp, Forgettable
<1>7. CASE TerminateBySignal
  BY <1>7, AgentEntries DEF TerminateBySignal
<1>8. CASE CallCancel \/ Cancel \/ Signal \/ Decide
  BY <1>8 DEF CallCancel, Cancel, Signal, Decide
<1>9. CASE Restart
  BY <1>9 DEF Restart
<1>10. ASSUME NEW w \in Workers, Leave(w)
       PROVE  OneHandler'
  BY <1>10 DEF Leave
<1>11. CASE ShutDown
  BY <1>11 DEF ShutDown
<1> QED
  BY <1>0, <1>1, <1>2, <1>3, <1>4, <1>5, <1>6, <1>7, <1>8, <1>9,
     <1>10, <1>11 DEF Next

(* Who works or will work has been told, or is about to be.                *)
LEMMA ToldToStopStays ==
    ASSUME TypeOK, OneHandler, ToldToStop, [Next]_vars
    PROVE  ToldToStop'
<1> USE TypeOK, OneHandler, ToldToStop
    DEF TypeOK, OneHandler, ToldToStop, Working, Goto, Active
<1>0. CASE UNCHANGED vars
  BY <1>0 DEF vars
<1>1. ASSUME NEW w \in Workers, Begin(w)
      PROVE  ToldToStop'
  <2>1. CASE JoinEntry(w)
    BY <1>1, <2>1 DEF Begin, JoinEntry
  <2>2. CASE RefuseEntry(w)
    BY <1>1, <2>2 DEF Begin, RefuseEntry
  <2>3. CASE OwnEntry(w)
    BY <1>1, <2>3 DEF Begin, OwnEntry, Refused
  <2> QED
    BY <1>1, <2>1, <2>2, <2>3 DEF Begin
<1>2. ASSUME NEW w \in Workers, LookUp(w)
      PROVE  ToldToStop'
  <2>1. CASE MarkEntry /\ pc' = [pc EXCEPT ![w] = "ended"]
    <3>1. entry'.terminated
      BY <1>2, <2>1, AgentEntries DEF LookUp
    <3> QED
      BY <1>2, <2>1, <3>1 DEF LookUp
  <2>2. CASE UNCHANGED <<entry, tomb>>
    BY <1>2, <2>2 DEF LookUp
  <2> QED
    BY <1>2, <2>1, <2>2 DEF LookUp
<1>3. ASSUME NEW w \in Workers, HandlerEnds(w)
      PROVE  ToldToStop'
  BY <1>3 DEF HandlerEnds
<1>4. ASSUME NEW w \in Workers, Finish(w)
      PROVE  ToldToStop'
  <2>1. \A v \in Workers : pc'[v] \notin Working
    BY <1>4 DEF Finish, Woken
  <2> QED
    BY <2>1
<1>5. ASSUME NEW w \in Workers, Publish(w)
      PROVE  ToldToStop'
  BY <1>5 DEF Publish
<1>6. CASE CleanUp
  BY <1>6 DEF CleanUp, Forgettable
<1>7. CASE TerminateBySignal
  <2>1. \A w \in Workers : pc[w] \in Working =>
           entry'.terminated /\ w \in held'
    BY <1>7, AgentEntries DEF TerminateBySignal
  <2> QED
    BY <1>7, <2>1 DEF TerminateBySignal
<1>8. CASE CallCancel
  BY <1>8 DEF CallCancel
<1>9. CASE Cancel \/ Signal \/ Decide
  BY <1>9 DEF Cancel, Signal, Decide
<1>10. CASE Restart
  BY <1>10 DEF Restart
<1>11. ASSUME NEW w \in Workers, Leave(w)
       PROVE  ToldToStop'
  BY <1>11 DEF Leave
<1>12. CASE ShutDown
  BY <1>12 DEF ShutDown
<1> QED
  BY <1>0, <1>1, <1>2, <1>3, <1>4, <1>5, <1>6, <1>7, <1>8, <1>9, <1>10,
     <1>11, <1>12 DEF Next

(* Who works or waits does so for the entry that is there.                 *)
LEMMA OfThisEntryStays ==
    ASSUME TypeOK, OneHandler, OfThisEntry, [Next]_vars
    PROVE  OfThisEntry'
<1> USE TypeOK, OneHandler, OfThisEntry
    DEF TypeOK, OneHandler, OfThisEntry, Working, Goto, Active
<1>0. CASE UNCHANGED vars
  BY <1>0 DEF vars
<1>1. ASSUME NEW w \in Workers, Begin(w)
      PROVE  OfThisEntry'
  <2>1. CASE JoinEntry(w)
    BY <1>1, <2>1 DEF Begin, JoinEntry
  <2>2. CASE RefuseEntry(w)
    BY <1>1, <2>2 DEF Begin, RefuseEntry
  <2>3. CASE OwnEntry(w)
    BY <1>1, <2>3 DEF Begin, OwnEntry
  <2> QED
    BY <1>1, <2>1, <2>2, <2>3 DEF Begin
<1>2. ASSUME NEW w \in Workers, LookUp(w)
      PROVE  OfThisEntry'
  <2>1. entry'.state = entry.state /\ entry'.no = entry.no
    BY <1>2, AgentEntries DEF LookUp
  <2>2. \A v \in Workers :
           pc'[v] \in Working \union {"waiting"} =>
             pc[v] \in Working \union {"waiting"}
    BY <1>2 DEF LookUp
  <2>3. round' = round
    BY <1>2 DEF LookUp
  <2> QED
    BY <2>1, <2>2, <2>3
<1>3. ASSUME NEW w \in Workers, HandlerEnds(w)
      PROVE  OfThisEntry'
  BY <1>3 DEF HandlerEnds
<1>4. ASSUME NEW w \in Workers, Finish(w)
      PROVE  OfThisEntry'
  <2>1. \A v \in Workers : pc'[v] \notin Working \union {"waiting"}
    BY <1>4 DEF Finish, Woken
  <2> QED
    BY <2>1
<1>5. ASSUME NEW w \in Workers, Publish(w)
      PROVE  OfThisEntry'
  BY <1>5 DEF Publish
<1>6. CASE CleanUp
  BY <1>6 DEF CleanUp, Forgettable
<1>7. CASE TerminateBySignal
  BY <1>7, AgentEntries DEF TerminateBySignal
<1>8. CASE CallCancel \/ Cancel \/ Signal \/ Decide
  BY <1>8 DEF CallCancel, Cancel, Signal, Decide
<1>9. CASE Restart
  BY <1>9 DEF Restart
<1>10. ASSUME NEW w \in Workers, Leave(w)
       PROVE  OfThisEntry'
  BY <1>10 DEF Leave
<1>11. CASE ShutDown
  BY <1>11 DEF ShutDown
<1> QED
  BY <1>0, <1>1, <1>2, <1>3, <1>4, <1>5, <1>6, <1>7, <1>8, <1>9,
     <1>10, <1>11 DEF Next

(* A step that gives no answer but the present entry's, and leaves the old *)
(* answers in order with the entry, keeps them all in order.               *)
LEMMA NewAnswersAgree ==
    ASSUME AnswersAgree,
           \A a \in Answers : AnswersEntry(a)',
           \A a \in Answers' :
              \/ a \in Answers
              \/ /\ entry'.state = "done"
                 /\ a.no = entry'.no /\ a.outcome = entry'.outcome,
           entry'.no \in Nat
    PROVE  AnswersAgree'
BY DEF AnswersAgree, AnswersEntry

(* Where nobody newly has an entry's outcome to tell, none is added.       *)
LEMMA NoNewAnswer ==
    ASSUME \A r \in results' : r.by = "entry" => r \in Answers,
           \A v \in Workers : pc'[v] \in Telling =>
              pc[v] \in Telling /\ answer'[v] = answer[v] /\ round'[v] = round[v]
    PROVE  \A a \in Answers' : a \in Answers
BY DEF Answers, AnswerOf

(* The answers given and to be given stay in order.                        *)
LEMMA AnswersAgreeStays ==
    ASSUME TypeOK, OneHandler, OfThisEntry, AnswersAgree, [Next]_vars, TypeOK'
    PROVE  AnswersAgree'
<1> USE TypeOK DEF TypeOK, Goto, Telling
<1>n. entry'.no \in Nat
  BY TypeOK'
<1>a. \A a \in Answers : a.no \in Nat /\ AnswersEntry(a)
  BY AnswersAgree DEF AnswersAgree, Answers, AnswerOf
<1>b. ASSUME entry'.state = entry.state, entry'.no = entry.no,
             entry'.outcome = entry.outcome
      PROVE  \A a \in Answers : AnswersEntry(a)'
  BY <1>a, <1>b DEF AnswersEntry
<1>c. ASSUME results' = results
      PROVE  \A r \in results' : r.by = "entry" => r \in Answers
  BY <1>c DEF Answers
<1>d. ASSUME UNCHANGED <<pc, answer, round, results>>
      PROVE  \A a \in Answers' : a \in Answers
  BY <1>d, <1>c, NoNewAnswer
<1>0. CASE UNCHANGED vars
  BY <1>0, <1>b, <1>d, <1>n, NewAnswersAgree DEF vars
<1>1. ASSUME NEW w \in Workers, Begin(w)
      PROVE  AnswersAgree'
  <2>0. results' = results
    BY <1>1 DEF Begin
  <2>1. CASE JoinEntry(w) /\ Active
    <3>1. \A v \in Workers : pc'[v] \in Telling =>
             pc[v] \in Telling /\ answer'[v] = answer[v] /\ round'[v] = round[v]
      BY <1>1, <2>1 DEF Begin, JoinEntry
    <3>2. \A a \in Answers' : a \in Answers
      BY <1>c, <2>0, <3>1, NoNewAnswer
    <3> QED
      BY <1>n, <1>b, <2>1, <3>2, NewAnswersAgree DEF JoinEntry
  <2>2. CASE JoinEntry(w) /\ ~Active
    <3>1. \A v \in Workers : pc'[v] \in Telling =>
             \/ /\ pc[v] \in Telling
                /\ answer'[v] = answer[v] /\ round'[v] = round[v]
             \/ round'[v] = entry.no /\ answer'[v] = entry.outcome
      BY <1>1, <2>2 DEF Begin, JoinEntry
    <3>2. \A a \in Answers' :
             \/ a \in Answers
             \/ a = [no |-> entry.no, outcome |-> entry.outcome, by |-> "entry"]
      BY <2>0, <3>1 DEF Answers, AnswerOf
    <3>3. entry.state = "done" /\ entry' = entry
      BY <2>2 DEF JoinEntry, Active
    <3> QED
      BY <1>n, <1>b, <3>2, <3>3, NewAnswersAgree
  <2>3. CASE RefuseEntry(w)
    <3>1. \A v \in Workers : pc'[v] \in Telling =>
             \/ /\ pc[v] \in Telling
                /\ answer'[v] = answer[v] /\ round'[v] = round[v]
             \/ round'[v] = entry'.no /\ answer'[v] = "CANCELLED"
      BY <1>1, <2>3 DEF Begin, RefuseEntry
    <3>2. \A a \in Answers' :
             \/ a \in Answers
             \/ a = [no |-> entry'.no, outcome |-> "CANCELLED", by |-> "entry"]
      BY <2>0, <3>1 DEF Answers, AnswerOf
    <3>3. /\ entry'.state = "done" /\ entry'.no = entry.no + 1
          /\ entry'.outcome = "CANCELLED"
      BY <2>3 DEF RefuseEntry
    <3>4. \A a \in Answers : AnswersEntry(a)'
      BY <1>a, <3>3 DEF AnswersEntry
    <3> QED
      BY <1>n, <3>2, <3>3, <3>4, NewAnswersAgree
  <2>4. CASE OwnEntry(w)
    <3>1. \A v \in Workers : pc'[v] \in Telling =>
             pc[v] \in Telling /\ answer'[v] = answer[v] /\ round'[v] = round[v]
      BY <1>1, <2>4 DEF Begin, OwnEntry
    <3>2. \A a \in Answers' : a \in Answers
      BY <1>c, <2>0, <3>1, NoNewAnswer
    <3>3. entry'.state = "open" /\ entry'.no = entry.no + 1
      BY <2>4 DEF OwnEntry
    <3>4. \A a \in Answers : AnswersEntry(a)'
      BY <1>a, <3>3 DEF AnswersEntry
    <3> QED
      BY <1>n, <3>2, <3>4, NewAnswersAgree
  <2> QED
    BY <1>1, <2>1, <2>2, <2>3, <2>4 DEF Begin
<1>2. ASSUME NEW w \in Workers, LookUp(w)
      PROVE  AnswersAgree'
  <2>1. \A v \in Workers : pc'[v] \in Telling =>
           pc[v] \in Telling /\ answer'[v] = answer[v] /\ round'[v] = round[v]
    BY <1>2 DEF LookUp
  <2>2. \A a \in Answers' : a \in Answers
    BY <1>2, <1>c, <2>1, NoNewAnswer DEF LookUp
  <2>3. /\ entry'.state = entry.state /\ entry'.no = entry.no
        /\ entry'.outcome = entry.outcome
    BY <1>2, AgentEntries DEF LookUp
  <2> QED
    BY <1>n, <1>b, <2>2, <2>3, NewAnswersAgree
<1>3. ASSUME NEW w \in Workers, HandlerEnds(w) \/ Leave(w)
      PROVE  AnswersAgree'
  <2>1. \A v \in Workers : pc'[v] \in Telling =>
           pc[v] \in Telling /\ answer'[v] = answer[v] /\ round'[v] = round[v]
    BY <1>3 DEF HandlerEnds, Leave
  <2>2. results' = results /\ entry' = entry
    BY <1>3 DEF HandlerEnds, Leave
  <2>3. \A a \in Answers' : a \in Answers
    BY <1>c, <2>1, <2>2, NoNewAnswer
  <2> QED
    BY <1>n, <1>b, <2>2, <2>3, NewAnswersAgree
<1>4. ASSUME NEW w \in Workers, Finish(w)
      PROVE  AnswersAgree'
  <2>1. entry.state = "open" /\ \A v \in Woken \union {w} : round[v] = entry.no
    BY <1>4, OneHandler, OfThisEntry
       DEF Finish, OneHandler, OfThisEntry, Working, Woken
  <2>2. /\ entry'.state = "done" /\ entry'.no = entry.no
        /\ entry'.outcome = Verdict(w)
    BY <1>4 DEF Finish
  <2>3. round' = round /\ results' = results
    BY <1>4 DEF Finish
  <2>4. \A v \in Workers : pc'[v] \in Telling =>
           \/ /\ pc[v] \in Telling
              /\ answer'[v] = answer[v] /\ round'[v] = round[v]
           \/ round'[v] = entry.no /\ answer'[v] = Verdict(w)
    BY <1>4, <2>1, <2>3 DEF Finish, Woken
  <2>5. \A a \in Answers' :
           \/ a \in Answers
           \/ a = [no |-> entry.no, outcome |-> Verdict(w), by |-> "entry"]
    BY <2>3, <2>4 DEF Answers, AnswerOf
  <2>6. \A a \in Answers : AnswersEntry(a)'
    BY <1>a, <2>1, <2>2 DEF AnswersEntry
  <2> QED
    BY <1>n, <2>2, <2>5, <2>6, NewAnswersAgree
<1>5. ASSUME NEW w \in Workers, Publish(w)
      PROVE  AnswersAgree'
  <2>1. \A v \in Workers : pc'[v] \in Telling =>
           pc[v] \in Telling /\ answer'[v] = answer[v] /\ round'[v] = round[v]
    BY <1>5 DEF Publish
  <2>2. \A r \in results' : r.by = "entry" => r \in results \/ r = AnswerOf(w)
    BY <1>5 DEF Publish, AnswerOf
  <2>3. \A r \in results' : r.by = "entry" /\ r \notin results =>
           pc[w] \in Telling
    BY <1>5 DEF Publish
  <2>4. \A r \in results' : r.by = "entry" => r \in Answers
    BY <2>2, <2>3 DEF Answers
  <2>5. \A a \in Answers' : a \in Answers
    BY <2>1, <2>4, NoNewAnswer
  <2> QED
    BY <1>5, <1>n, <1>b, <2>5, NewAnswersAgree DEF Publish
<1>6. CASE CleanUp
  <2>1. \A a \in Answers' : a \in Answers
    BY <1>6, <1>d DEF CleanUp
  <2>2. CASE UNCHANGED entry
    BY <1>n, <1>b, <2>1, <2>2, NewAnswersAgree
  <2>3. CASE entry' = NoEntry(entry.no)
    <3>1. entry'.state = "none" /\ entry'.no = entry.no
      BY <2>3, AgentEntries
    <3>2. \A a \in Answers : AnswersEntry(a)'
      BY <1>a, <3>1 DEF AnswersEntry
    <3> QED
      BY <1>n, <2>1, <3>2, NewAnswersAgree
  <2> QED
    BY <1>6, <2>2, <2>3 DEF CleanUp
<1>7. CASE TerminateBySignal
  <2>1. \A a \in Answers' : a \in Answers
    BY <1>7, <1>d DEF TerminateBySignal
  <2> QED
    BY <1>7, <1>n, <1>b, <2>1, AgentEntries, NewAnswersAgree
       DEF TerminateBySignal
<1>8. CASE CallCancel \/ Cancel \/ Signal \/ Decide \/ ShutDown
  <2>1. UNCHANGED <<entry, pc, answer, round, results>>
    BY <1>8 DEF CallCancel, Cancel, Signal, Decide, ShutDown
  <2>2. \A a \in Answers' : a \in Answers
    BY <1>d, <2>1
  <2> QED
    BY <1>n, <1>b, <2>1, <2>2, NewAnswersAgree
<1>9. CASE Restart
  <2>1. \A v \in Workers : pc'[v] \notin Telling
    BY <1>9 DEF Restart
  <2>2. \A a \in Answers' : a \in Answers
    BY <1>9, <1>c, <2>1, NoNewAnswer DEF Restart
  <2>3. entry'.state = "none" /\ entry'.no = entry.no
    BY <1>9, AgentEntries DEF Restart
  <2>4. \A a \in Answers : AnswersEntry(a)'
    BY <1>a, <2>3 DEF AnswersEntry
  <2> QED
    BY <1>n, <2>2, <2>4, NewAnswersAgree
<1> QED
  BY <1>0, <1>1, <1>2, <1>3, <1>4, <1>5, <1>6, <1>7, <1>8, <1>9 DEF Next

(* Who answers on its own goes on reporting a failure.                     *)
LEMMA OwnFailuresStay ==
    ASSUME TypeOK, OneHandler, OwnFailures, [Next]_vars
    PROVE  OwnFailures'
<1> USE TypeOK, OwnFailures DEF TypeOK, OwnFailures, Goto
<1>0. CASE UNCHANGED vars
  BY <1>0 DEF vars
<1>1. ASSUME NEW w \in Workers, Begin(w)
      PROVE  OwnFailures'
  BY <1>1 DEF Begin, JoinEntry, RefuseEntry, OwnEntry
<1>2. ASSUME NEW w \in Workers, LookUp(w) \/ HandlerEnds(w) \/ Leave(w)
      PROVE  OwnFailures'
  BY <1>2 DEF LookUp, HandlerEnds, Leave
<1>3. ASSUME NEW w \in Workers, Finish(w)
      PROVE  OwnFailures'
  <2>1. results' = results
    BY <1>3 DEF Finish
  <2>2. ASSUME NEW v \in Workers, pc'[v] \in {"unfit", "apart"}
        PROVE  answer'[v] = "FAILED"
    <3>1. CASE v = w
      BY <1>3, <2>2, <3>1 DEF Finish, Woken
    <3>2. CASE v # w
      BY <1>3, <2>2, <3>2 DEF Finish, Woken
    <3> QED
      BY <3>1, <3>2
  <2> QED
    BY <2>1, <2>2
<1>4. ASSUME NEW w \in Workers, Publish(w)
      PROVE  OwnFailures'
  <2>1. \A v \in Workers : pc'[v] \in {"unfit", "apart"} => answer'[v] = "FAILED"
    BY <1>4 DEF Publish
  <2>2. \A r \in results' : r \notin results =>
           /\ r.outcome = answer[w]
           /\ r.by = "self" => pc[w] = "apart"
    BY <1>4 DEF Publish
  <2>3. \A r \in results' : r.by = "self" => r.outcome = "FAILED"
    BY <2>2
  <2> QED
    BY <2>1, <2>3
<1>5. CASE CleanUp \/ TerminateBySignal \/ CallCancel \/ Cancel \/ Signal
           \/ Decide \/ ShutDown
  BY <1>5 DEF CleanUp, TerminateBySignal, CallCancel, Cancel, Signal, Decide,
              ShutDown
<1>6. CASE Restart
  BY <1>6 DEF Restart
<1> QED
  BY <1>0, <1>1, <1>2, <1>3, <1>4, <1>5, <1>6 DEF Next

-----------------------------------------------------------------------------
AgentInv == /\ TypeOK /\ Owned /\ OneHandler /\ ToldToStop
            /\ OfThisEntry /\ AnswersAgree /\ OwnFailures

(* The invariant holds at first and every step keeps it.                   *)
LEMMA AgentInvHolds == Spec => []AgentInv
<1>1. Init => AgentInv
  <2>1. ASSUME Init
        PROVE  TypeOK /\ Owned
    BY <2>1 DEF Init, TypeOK, Owned, Active, NoEntry, Outcome
  <2>2. ASSUME Init
        PROVE  OneHandler /\ ToldToStop /\ OfThisEntry
    BY <2>2 DEF Init, OneHandler, ToldToStop, OfThisEntry, Working
  <2>3. ASSUME Init
        PROVE  AnswersAgree /\ OwnFailures
    BY <2>3 DEF Init, AnswersAgree, Answers, Telling, OwnFailures
  <2> QED
    BY <2>1, <2>2, <2>3 DEF AgentInv
<1>2. AgentInv /\ [Next]_vars => AgentInv'
  <2> SUFFICES ASSUME AgentInv, [Next]_vars PROVE AgentInv'
    OBVIOUS
  <2>1. TypeOK' /\ Owned'
    BY AgentTypesStay DEF AgentInv
  <2>2. OneHandler' /\ ToldToStop' /\ OfThisEntry'
    BY OneHandlerStays, ToldToStopStays, OfThisEntryStays DEF AgentInv
  <2>3. AnswersAgree' /\ OwnFailures'
    BY <2>1, AnswersAgreeStays, OwnFailuresStay DEF AgentInv
  <2> QED
    BY <2>1, <2>2, <2>3 DEF AgentInv
<1> QED
  BY <1>1, <1>2, PTL DEF Spec

(* The variables of the agent's process keep their types.                  *)
THEOREM AgentTypeOK == Spec => []TypeOK
<1>1. AgentInv => TypeOK
  BY DEF AgentInv
<1> QED
  BY <1>1, AgentInvHolds, PTL

(* However many workers take the command, one runs its handler at a time.  *)
THEOREM AgentOneHandler == Spec => []OneHandler
<1>1. AgentInv => OneHandler
  BY DEF AgentInv
<1> QED
  BY <1>1, AgentInvHolds, PTL

(* No handler runs on that a remembered termination has not marked, and    *)
(* told to stop or is about to.                                            *)
THEOREM AgentNoDeafHandler == Spec => []NoDeafHandler
<1>1. AgentInv => NoDeafHandler
  BY DEF AgentInv, ToldToStop, NoDeafHandler, Working
<1> QED
  BY <1>1, AgentInvHolds, PTL

(* All that was ever published about one entry says the same, but for the  *)
(* failures that workers report on their own.                              *)
THEOREM AgentOneAnswer == Spec => []OneAnswer
<1>1. ASSUME AgentInv
      PROVE  OneAnswer
  <2>1. \A r \in results : r.by # "entry" => r.by = "self" /\ r.outcome = "FAILED"
    BY <1>1 DEF AgentInv, TypeOK, OwnFailures
  <2>2. \A r1, r2 \in results :
           r1.by = "entry" /\ r2.by = "entry" /\ r1.no = r2.no =>
              r1.outcome = r2.outcome
    BY <1>1 DEF AgentInv, AnswersAgree, Answers
  <2> QED
    BY <2>1, <2>2 DEF OneAnswer
<1> QED
  BY <1>1, AgentInvHolds, PTL

-----------------------------------------------------------------------------
(* An entry that is open has its owner at work; one that is not there was  *)
(* not terminated; and who says the handler was cancelled has marked it.   *)
EntryIsOwned ==
    /\ Active => entry.owner \in Workers /\ pc[entry.owner] \in Working
    /\ entry.state = "none" => ~entry.terminated
    /\ entry.state = "done" =>
          (entry.terminated <=> entry.outcome = "CANCELLED")
    /\ \A w \in Workers :
          pc[w] \in {"ended", "unfit"} /\ answer[w] = "CANCELLED" =>
             entry.terminated

(* Every step keeps that.                                                  *)
LEMMA EntryIsOwnedStays ==
    ASSUME TypeOK, OneHandler, EntryIsOwned, [Next]_vars
    PROVE  EntryIsOwned'
<1> USE TypeOK, OneHandler, EntryIsOwned
    DEF TypeOK, OneHandler, EntryIsOwned, Working, Goto, Active
<1>0. CASE UNCHANGED vars
  BY <1>0 DEF vars
<1>1. ASSUME NEW w \in Workers, Begin(w)
      PROVE  EntryIsOwned'
  <2>1. CASE JoinEntry(w)
    BY <1>1, <2>1 DEF Begin, JoinEntry
  <2>2. CASE RefuseEntry(w)
    BY <1>1, <2>2 DEF Begin, RefuseEntry
  <2>3. CASE OwnEntry(w)
    BY <1>1, <2>3 DEF Begin, OwnEntry
  <2> QED
    BY <1>1, <2>1, <2>2, <2>3 DEF Begin
<1>2. ASSUME NEW w \in Workers, LookUp(w)
      PROVE  EntryIsOwned'
  <2>1. pc[w] = "begun" /\ Active /\ entry.owner = w
    BY <1>2 DEF LookUp
  <2>2. CASE MarkEntry /\ pc' = [pc EXCEPT ![w] = "ended"]
    <3>1. /\ entry'.state = entry.state /\ entry'.owner = entry.owner
          /\ entry'.terminated
      BY <2>1, <2>2, AgentEntries
    <3> QED
      BY <2>1, <2>2, <3>1
  <2>3. CASE UNCHANGED <<answer, entry, tomb>> /\ pc' = [pc EXCEPT ![w] = "running"]
    BY <2>1, <2>3
  <2>4. CASE /\ UNCHANGED <<entry, tomb>>
             /\ \/ pc' = [pc EXCEPT ![w] = "ended"]
                \/ pc' = [pc EXCEPT ![w] = "unfit"]
             /\ answer' = [answer EXCEPT ![w] = "FAILED"]
    BY <2>1, <2>4
  <2> QED
    BY <1>2, <2>2, <2>3, <2>4 DEF LookUp
<1>3. ASSUME NEW w \in Workers, HandlerEnds(w)
      PROVE  EntryIsOwned'
  BY <1>3 DEF HandlerEnds
<1>4. ASSUME NEW w \in Workers, Finish(w)
      PROVE  EntryIsOwned'
  <2>1. Active /\ entry.owner = w
        /\ (answer[w] = "CANCELLED" => entry.terminated)
    BY <1>4 DEF Finish
  <2>2. /\ entry'.state = "done" /\ entry'.outcome = Verdict(w)
        /\ entry'.terminated = entry.terminated
    BY <1>4 DEF Finish
  <2>3. Verdict(w) = "CANCELLED" <=> entry.terminated
    BY <2>1 DEF Verdict
  <2>4. \A v \in Workers : pc'[v] \notin {"ended", "unfit"}
    BY <1>4 DEF Finish, Woken
  <2> QED
    BY <2>2, <2>3, <2>4
<1>5. ASSUME NEW w \in Workers, Publish(w)
      PROVE  EntryIsOwned'
  BY <1>5 DEF Publish
<1>6. CASE CleanUp
  <2>1. CASE Forgettable /\ entry' = NoEntry(entry.no)
    <3>1. /\ entry'.state = "none" /\ ~entry'.terminated
          /\ UNCHANGED <<pc, answer>>
      BY <1>6, <2>1 DEF CleanUp, NoEntry
    <3>2. \A w \in Workers : pc[w] \notin {"ended", "unfit"}
      BY <2>1 DEF Forgettable
    <3> QED
      BY <3>1, <3>2
  <2>2. CASE UNCHANGED entry
    BY <1>6, <2>2 DEF CleanUp
  <2> QED
    BY <1>6, <2>1, <2>2 DEF CleanUp
<1>7. CASE TerminateBySignal
  <2>1. /\ entry'.state = entry.state /\ entry'.owner = entry.owner
        /\ entry'.outcome = entry.outcome
        /\ entry'.terminated <=> entry.terminated \/ Active
    BY <1>7 DEF TerminateBySignal, MarkEntry
  <2>2. UNCHANGED <<pc, answer>>
    BY <1>7 DEF TerminateBySignal
  <2> QED
    BY <2>1, <2>2
<1>8. CASE CallCancel \/ Cancel \/ Signal \/ Decide
  BY <1>8 DEF CallCancel, Cancel, Signal, Decide
<1>9. CASE Restart
  BY <1>9 DEF Restart, NoEntry
<1>10. ASSUME NEW w \in Workers, Leave(w)
       PROVE  EntryIsOwned'
  BY <1>10 DEF Leave
<1>11. CASE ShutDown
  BY <1>11 DEF ShutDown
<1> QED
  BY <1>0, <1>1, <1>2, <1>3, <1>4, <1>5, <1>6, <1>7, <1>8, <1>9,
     <1>10, <1>11 DEF Next

(* Every step of the process is one that HandlerSlot allows, or none.      *)
LEMMA AgentSlotStep ==
    ASSUME TypeOK, OneHandler, ToldToStop, EntryIsOwned, [Next]_vars
    PROVE  [Slot!Next]_(Slot!vars)
<1> DEFINE hands == {w \in Workers : pc[w] \in Working}
<1>1. ASSUME hands' = hands, UNCHANGED <<entry, tomb>>
      PROVE  [Slot!Next]_(Slot!vars)
  BY <1>1 DEF Slot!vars
<1>2. ASSUME MarkEntry, tomb' = TRUE, hands' = hands
      PROVE  [Slot!Next]_(Slot!vars)
  <2>1. entry'.state = entry.state /\ entry'.outcome = entry.outcome
    BY <1>2, AgentEntries
  <2>2. Slot!Terminate
    BY <1>2, <2>1 DEF Slot!Terminate
  <2> QED
    BY <2>2 DEF Slot!Next
<1>3. ASSUME entry.state # "open"
      PROVE  hands = {}
  BY <1>3 DEF OneHandler
<1>4. ASSUME NEW w \in Workers, Begin(w)
      PROVE  [Slot!Next]_(Slot!vars)
  <2>1. CASE JoinEntry(w)
    <3>1. hands' = hands
      BY <1>4, <2>1 DEF Begin, JoinEntry, Goto, Working, TypeOK
    <3> QED
      BY <1>1, <1>4, <2>1, <3>1 DEF Begin, JoinEntry
  <2>2. CASE RefuseEntry(w)
    <3>1. /\ entry.state = "none" /\ tomb /\ UNCHANGED tomb
          /\ entry' = [state |-> "done", no |-> entry.no + 1,
                       owner |-> NoWorker, terminated |-> TRUE,
                       outcome |-> "CANCELLED"]
          /\ pc' = [pc EXCEPT ![w] = "heard"]
      BY <1>4, <2>2 DEF Begin, RefuseEntry, Refused, Goto
    <3>2. hands = {}
      BY <1>3, <3>1
    <3>3. hands' = {}
      BY <3>1, <3>2 DEF Working, TypeOK
    <3>4. Slot!Refuse
      BY <3>1, <3>2, <3>3 DEF Slot!Refuse
    <3> QED
      BY <3>4 DEF Slot!Next
  <2>3. CASE OwnEntry(w)
    <3>1. /\ entry.state = "none" /\ ~tomb /\ UNCHANGED tomb
          /\ entry'.state = "open" /\ ~entry'.terminated
          /\ pc' = [pc EXCEPT ![w] = "begun"]
      BY <1>4, <2>3 DEF Begin, OwnEntry, Refused, Goto
    <3>2. hands = {} /\ ~entry.terminated
      BY <1>3, <3>1 DEF EntryIsOwned
    <3>3. hands' = {w}
      BY <3>1, <3>2 DEF Working, TypeOK
    <3>4. Slot!Start(w)
      BY <3>1, <3>2, <3>3 DEF Slot!Start
    <3> QED
      BY <3>4 DEF Slot!Next
  <2> QED
    BY <1>4, <2>1, <2>2, <2>3 DEF Begin
<1>5. ASSUME NEW w \in Workers, LookUp(w)
      PROVE  [Slot!Next]_(Slot!vars)
  <2>1. hands' = hands
    BY <1>5 DEF LookUp, Goto, Working, TypeOK
  <2>2. CASE MarkEntry /\ tomb' = TRUE
    BY <1>2, <2>1, <2>2
  <2>3. CASE UNCHANGED <<entry, tomb>>
    BY <1>1, <2>1, <2>3
  <2> QED
    BY <1>5, <2>2, <2>3 DEF LookUp
<1>6. ASSUME NEW w \in Workers, HandlerEnds(w) \/ Leave(w)
      PROVE  [Slot!Next]_(Slot!vars)
  <2>1. hands' = hands
    BY <1>6 DEF HandlerEnds, Leave, Goto, Working, TypeOK
  <2> QED
    BY <1>1, <1>6, <2>1 DEF HandlerEnds, Leave
<1>7. ASSUME NEW w \in Workers, Finish(w)
      PROVE  [Slot!Next]_(Slot!vars)
  <2>1. pc[w] \in {"ended", "unfit"} /\ UNCHANGED tomb
    BY <1>7 DEF Finish
  <2>2. hands = {w}
    BY <2>1 DEF OneHandler, Working
  <2>3. hands' = {}
    BY <1>7, <2>2 DEF Finish, Woken, Working, TypeOK
  <2>4. tomb => entry.terminated
    BY <2>1 DEF ToldToStop, Working
  <2>5. /\ entry'.state = "done" /\ entry'.outcome = Verdict(w)
        /\ entry'.terminated = entry.terminated /\ entry.state = "open"
    BY <1>7, <2>1 DEF Finish, TypeOK, OneHandler, Working
  <2>6. Verdict(w) = "CANCELLED" <=> entry.terminated
    BY <2>1 DEF Verdict, EntryIsOwned
  <2>7. Slot!End(w)
    BY <2>1, <2>2, <2>3, <2>4, <2>5, <2>6 DEF Slot!End
  <2> QED
    BY <2>7 DEF Slot!Next
<1>8. ASSUME NEW w \in Workers, Publish(w)
      PROVE  [Slot!Next]_(Slot!vars)
  <2>1. hands' = hands
    BY <1>8 DEF Publish, Goto, Working, TypeOK
  <2> QED
    BY <1>1, <1>8, <2>1 DEF Publish
<1>9. CASE CleanUp
  <2>1. hands' = hands
    BY <1>9 DEF CleanUp
  <2>2. CASE Forgettable /\ entry' = NoEntry(entry.no) /\ tomb' \in {tomb, FALSE}
    <3>1. hands = {}
      BY <1>3, <2>2 DEF Forgettable
    <3>2. entry'.state = "none" /\ ~entry'.terminated
      BY <2>2 DEF NoEntry
    <3>3. Slot!Forget
      BY <2>1, <2>2, <3>1, <3>2 DEF Slot!Forget, TypeOK
    <3> QED
      BY <3>3 DEF Slot!Next
  <2>3. CASE tomb /\ tomb' = FALSE /\ UNCHANGED entry /\ Active
    <3>1. entry.terminated
      BY <2>3 DEF EntryIsOwned, ToldToStop
    <3> QED
      BY <2>1, <2>3, <3>1 DEF Slot!vars
  <2>4. CASE tomb /\ tomb' = FALSE /\ UNCHANGED entry /\ ~Active
    <3>1. hands = {}
      BY <1>3, <2>4 DEF Active
    <3>2. entry.state = "done" /\ entry.outcome = "CANCELLED" => entry.terminated
      BY DEF EntryIsOwned
    <3>3. Slot!Forget
      BY <2>1, <2>4, <3>1, <3>2 DEF Slot!Forget, TypeOK
    <3> QED
      BY <3>3 DEF Slot!Next
  <2> QED
    BY <1>9, <2>2, <2>3, <2>4 DEF CleanUp
<1>10. CASE TerminateBySignal
  BY <1>2, <1>10 DEF TerminateBySignal
<1>11. CASE CallCancel \/ Cancel \/ Signal \/ Decide \/ ShutDown
  BY <1>1, <1>11 DEF CallCancel, Cancel, Signal, Decide, ShutDown
<1>12. CASE Restart
  <2>1. hands' = {}
    BY <1>12 DEF Restart, Working
  <2>2. entry'.state = "none" /\ ~entry'.terminated /\ ~tomb'
    BY <1>12 DEF Restart, NoEntry
  <2>3. Slot!Crash
    BY <2>1, <2>2 DEF Slot!Crash
  <2> QED
    BY <2>3 DEF Slot!Next
<1>13. CASE UNCHANGED vars
  BY <1>1, <1>13 DEF vars
<1> QED
  BY <1>4, <1>5, <1>6, <1>7, <1>8, <1>9, <1>10, <1>11, <1>12, <1>13 DEF Next

(* The process keeps the promise of HandlerSlot, whatever is repeated,     *)
(* terminated, forgotten and lost with the process.                        *)
THEOREM AgentImplementsSlot == Spec => ImplementsSlot
<1>1. Init => EntryIsOwned /\ Slot!Init
  BY DEF Init, NoEntry, EntryIsOwned, Active, Working, Slot!Init
<1>2. AgentInv /\ EntryIsOwned /\ [Next]_vars => EntryIsOwned'
  BY EntryIsOwnedStays DEF AgentInv
<1>3. AgentInv /\ EntryIsOwned /\ [Next]_vars => [Slot!Next]_(Slot!vars)
  BY AgentSlotStep DEF AgentInv
<1> QED
  BY <1>1, <1>2, <1>3, AgentInvHolds, PTL DEF Spec, ImplementsSlot, Slot!Spec
=============================================================================
