-------------------------- MODULE ResultEventsProofs --------------------------
(***************************************************************************)
(* Theorems on the result events, for any number of nodes, lines, messages *)
(* and mishaps.                                                            *)
(***************************************************************************)
EXTENDS ResultEvents, SequenceTheorems, TLAPS

Messages == [id : Nat, lines : Seq(Nat)]

USE DEF decision

-----------------------------------------------------------------------------
(* Sequences                                                               *)

(* What is in two sequences joined is what is in each.                     *)
LEMMA SetOfConcat ==
    ASSUME NEW S, NEW s \in Seq(S), NEW t \in Seq(S)
    PROVE  ToSet(s \o t) = ToSet(s) \union ToSet(t)
<1>1. /\ s \o t \in Seq(S) /\ Len(s \o t) = Len(s) + Len(t)
      /\ Len(s) \in Nat /\ Len(t) \in Nat
      /\ DOMAIN s = 1..Len(s) /\ DOMAIN t = 1..Len(t)
      /\ DOMAIN (s \o t) = 1..(Len(s) + Len(t))
  BY ConcatProperties, LenProperties
<1>2. \A i \in 1..Len(s) : (s \o t)[i] = s[i]
  BY <1>1, ConcatProperties
<1>3. \A i \in 1..Len(t) : (s \o t)[Len(s) + i] = t[i]
  BY <1>1, ConcatProperties
<1>4. \A i \in 1..(Len(s) + Len(t)) :
         (s \o t)[i] = IF i <= Len(s) THEN s[i] ELSE t[i - Len(s)]
  BY ConcatProperties
<1>5. ToSet(s \o t) \subseteq ToSet(s) \union ToSet(t)
  BY <1>1, <1>4 DEF ToSet
<1>6. ToSet(s) \subseteq ToSet(s \o t)
  BY <1>1, <1>2 DEF ToSet
<1>7. ToSet(t) \subseteq ToSet(s \o t)
  <2>1. \A i \in 1..Len(t) : Len(s) + i \in 1..(Len(s) + Len(t))
    BY <1>1
  <2> QED
    BY <1>1, <1>3, <2>1 DEF ToSet
<1> QED
  BY <1>5, <1>6, <1>7

(* The set of a sequence with one more element.                            *)
LEMMA SetOfAppend ==
    ASSUME NEW S, NEW s \in Seq(S), NEW e \in S
    PROVE  ToSet(Append(s, e)) = ToSet(s) \union {e}
<1>1. PICK t \in Seq(S) : t = Append(s, e)
  BY AppendProperties
<1>2. /\ Len(s) \in Nat /\ DOMAIN s = 1..Len(s) /\ DOMAIN t = 1..(Len(s) + 1)
      /\ \A i \in 1..Len(s) : t[i] = s[i]
      /\ t[Len(s) + 1] = e
  BY <1>1, AppendProperties, LenProperties
<1>3. 1..(Len(s) + 1) = 1..Len(s) \union {Len(s) + 1}
  BY <1>2
<1>4. ToSet(t) = ToSet(s) \union {e}
  BY <1>2, <1>3 DEF ToSet
<1> QED
  BY <1>1, <1>4

(* The topic only grows, and what comes is the message that was sent.      *)
LEMMA TopicGrows ==
    ASSUME TypeOK, NEW m \in Messages, Sent(m)
    PROVE  /\ topic' \in Seq(Messages)
           /\ Len(topic') >= Len(topic)
           /\ \A i \in 1..Len(topic) : topic'[i] = topic[i]
           /\ \A i \in 1..Len(topic') : i > Len(topic) => topic'[i] = m
<1>1. topic \in Seq(Messages)
  BY DEF TypeOK, Messages
<1>2. PICK copies \in {<<m>>, <<m, m>>} : topic' = topic \o copies
  BY DEF Sent
<1>3. copies \in Seq(Messages) /\ \A i \in 1..Len(copies) : copies[i] = m
  BY <1>2
<1>4. /\ topic' \in Seq(Messages)
      /\ Len(topic') = Len(topic) + Len(copies)
      /\ \A i \in 1..(Len(topic) + Len(copies)) :
            topic'[i] = IF i <= Len(topic) THEN topic[i]
                        ELSE copies[i - Len(topic)]
  BY <1>1, <1>2, <1>3, ConcatProperties
<1>5. Len(topic) \in Nat /\ Len(copies) \in Nat
  BY <1>1, <1>3, LenProperties
<1>6. ASSUME NEW i \in 1..Len(topic'), i > Len(topic)
      PROVE  topic'[i] = m
  <2>1. i - Len(topic) \in 1..Len(copies)
    BY <1>4, <1>5, <1>6
  <2> QED
    BY <1>3, <1>4, <1>5, <1>6, <2>1
<1>7. \A i \in 1..Len(topic) : topic'[i] = topic[i]
  BY <1>4, <1>5
<1> QED
  BY <1>4, <1>5, <1>6, <1>7

-----------------------------------------------------------------------------
(* Types, part by part                                                     *)

LoggerTypes ==
    /\ logged \in Nat /\ sequence \in Nat
    /\ buffer \in Seq(Nat) /\ batch \in Seq(Nat)
    /\ agent \in {"running", "closing", "last", "closed", "finished"}

TopicTypes ==
    topic \in Seq(Messages) /\ offset \in 0..Len(topic) /\ reader \in Nodes

Handling == [step : {"none", "append", "find", "update"},
             id : Nat, lines : Seq(Nat)]

HandlerTypes ==
    processed \in [Nodes -> SUBSET Nat] /\ doing \in [Nodes -> Handling]

RowTypes ==
    /\ stored \in Seq(Nat) /\ row \in {"open", "reported", "other"}
    /\ completion \in {"none", "sent", "direct"}
    /\ mishaps \subseteq Kinds /\ count \in Nat

(* The parts make the whole.                                               *)
LEMMA TypesByPart ==
    TypeOK <=> LoggerTypes /\ TopicTypes /\ HandlerTypes /\ RowTypes
BY DEF TypeOK, LoggerTypes, TopicTypes, HandlerTypes, RowTypes, Messages, Handling

(* Messages and what a node does with them are made of their parts.        *)
LEMMA MessageParts ==
    /\ \A id \in Nat, lines \in Seq(Nat) :
          /\ Message(id, lines) \in Messages
          /\ Message(id, lines).id = id /\ Message(id, lines).lines = lines
    /\ \A m \in Messages : m.id \in Nat /\ m.lines \in Seq(Nat)
BY DEF Message, Messages

LEMMA HandlingParts ==
    /\ \A s \in {"none", "append", "find", "update"} :
       \A id \in Nat, lines \in Seq(Nat) :
          [step |-> s, id |-> id, lines |-> lines] \in Handling
    /\ \A d \in Handling, s \in {"none", "append", "find", "update"} :
          /\ [d EXCEPT !.step = s] \in Handling
          /\ [d EXCEPT !.step = s].step = s
          /\ [d EXCEPT !.step = s].id = d.id
          /\ [d EXCEPT !.step = s].lines = d.lines
    /\ \A d \in Handling : /\ d.step \in {"none", "append", "find", "update"}
                           /\ d.id \in Nat /\ d.lines \in Seq(Nat)
BY DEF Handling

(* A node that rests.                                                      *)
LEMMA RestingType == Resting \in Handling /\ Resting.step = "none"
BY DEF Resting, Handling, FinishedID

(* The logger's part.                                                      *)
LEMMA LoggerTypesStay ==
    ASSUME LoggerTypes, [Next]_vars
    PROVE  LoggerTypes'
<1> USE LoggerTypes DEF LoggerTypes, logger
<1>1. CASE Log
  BY <1>1 DEF Log
<1>2. CASE TakeBatch \/ Close \/ LastFlush
  BY <1>2 DEF TakeBatch, Close, LastFlush
<1>3. CASE SendBatch
  <2>1. sequence' \in Nat /\ batch' \in Seq(Nat)
    <3>1. <<>> \in Seq(Nat) /\ sequence + 1 \in Nat
      OBVIOUS
    <3>2. batch' = <<>> /\ sequence' \in {sequence, sequence + 1}
      BY <1>3 DEF SendBatch
    <3> QED
      BY <3>1, <3>2
  <2>2. buffer' \in Seq(Nat)
    <3>1. batch \o buffer \in Seq(Nat)
      BY ConcatProperties
    <3> QED
      BY <1>3, <3>1 DEF SendBatch, PutBack
  <2> QED
    BY <1>3, <2>1, <2>2 DEF SendBatch
<1>4. ASSUME NEW who \in Reporting, Finish(who)
      PROVE  LoggerTypes'
  BY <1>4 DEF Finish
<1>5. ASSUME NEW n \in Nodes,
             \/ Consume(n) \/ AppendExecutionLogs(n) \/ FindByID(n)
             \/ UpdateState(n) \/ Fail(n) \/ Reassign(n)
      PROVE  LoggerTypes'
  BY <1>5 DEF Consume, AppendExecutionLogs, FindByID, UpdateState, Fail, Reassign
<1>6. CASE Decide \/ Complete \/ UNCHANGED vars
  BY <1>6 DEF Decide, Complete, vars
<1> QED
  BY <1>1, <1>2, <1>3, <1>4, <1>5, <1>6 DEF Next

(* What an agent sends is a message.                                       *)
LEMMA SentIsMessage ==
    ASSUME LoggerTypes
    PROVE  /\ Message(sequence + 1, batch) \in Messages
           /\ \A who \in Reporting : Message(FinishedID, Pending(who)) \in Messages
<1>1. \A who \in Reporting : Pending(who) \in Seq(Nat)
  BY DEF LoggerTypes, Pending
<1>2. FinishedID \in Nat /\ sequence + 1 \in Nat
  BY DEF LoggerTypes, FinishedID
<1> QED
  BY <1>1, <1>2, MessageParts DEF LoggerTypes

(* The topic's part.                                                       *)
LEMMA TopicTypesStay ==
    ASSUME TypeOK, [Next]_vars
    PROVE  TopicTypes'
<1>0. LoggerTypes /\ TopicTypes
  BY TypesByPart
<1>1. ASSUME UNCHANGED messages
      PROVE  TopicTypes'
  BY <1>0, <1>1 DEF TopicTypes, messages
<1>2. ASSUME NEW m \in Messages, Sent(m) \/ UNCHANGED topic,
             UNCHANGED <<offset, reader>>
      PROVE  TopicTypes'
  <2>1. topic' \in Seq(Messages) /\ Len(topic') >= Len(topic)
    BY <1>0, <1>2, TopicGrows DEF TopicTypes
  <2> QED
    BY <1>0, <1>2, <2>1 DEF TopicTypes
<1>3. CASE SendBatch
  <2>1. PICK m \in Messages : m = Message(sequence + 1, batch)
    BY <1>0, SentIsMessage
  <2> QED
    BY <1>2, <1>3, <2>1 DEF SendBatch
<1>4. ASSUME NEW who \in Reporting, Finish(who)
      PROVE  TopicTypes'
  <2>1. PICK m \in Messages : m = Message(FinishedID, Pending(who))
    BY <1>0, SentIsMessage
  <2> QED
    BY <1>2, <1>4, <2>1 DEF Finish
<1>5. ASSUME NEW n \in Nodes, Consume(n) \/ Reassign(n)
      PROVE  TopicTypes'
  BY <1>0, <1>5 DEF Consume, Reassign, TopicTypes
<1>6. ASSUME NEW n \in Nodes,
             AppendExecutionLogs(n) \/ FindByID(n) \/ UpdateState(n) \/ Fail(n)
      PROVE  TopicTypes'
  BY <1>1, <1>6 DEF AppendExecutionLogs, FindByID, UpdateState, Fail
<1>7. CASE Log \/ TakeBatch \/ Close \/ LastFlush \/ Decide \/ Complete \/ UNCHANGED vars
  BY <1>1, <1>7 DEF Log, TakeBatch, Close, LastFlush, Decide, Complete, vars, messages
<1> QED
  BY <1>3, <1>4, <1>5, <1>6, <1>7 DEF Next

(* The part of the nodes.                                                  *)
LEMMA HandlerTypesStay ==
    ASSUME TypeOK, [Next]_vars
    PROVE  HandlerTypes'
<1>0. TopicTypes /\ HandlerTypes
  BY TypesByPart
<1>1. ASSUME UNCHANGED handlers
      PROVE  HandlerTypes'
  BY <1>0, <1>1 DEF HandlerTypes, handlers
<1>2. ASSUME NEW n \in Nodes, Consume(n)
      PROVE  HandlerTypes'
  <2>1. PICK m \in Messages : m = topic[offset + 1]
    BY <1>0, <1>2 DEF TopicTypes, Consume
  <2>2. [step |-> Steps(m), id |-> m.id, lines |-> m.lines] \in Handling
        /\ m.id \in Nat
    BY MessageParts, HandlingParts DEF Steps
  <2> QED
    BY <1>0, <1>1, <1>2, <2>1, <2>2 DEF HandlerTypes, Consume
<1>3. ASSUME NEW n \in Nodes,
             AppendExecutionLogs(n) \/ FindByID(n) \/ UpdateState(n)
      PROVE  HandlerTypes'
  <2>1. PICK d \in Handling : d = doing[n]
    BY <1>0 DEF HandlerTypes
  <2>2. \E e \in Handling : doing' = [doing EXCEPT ![n] = e]
    <3>1. /\ [d EXCEPT !.step = "find"] \in Handling
          /\ [d EXCEPT !.step = "update"] \in Handling
      BY HandlingParts
    <3> QED
      BY <1>3, <2>1, <3>1, RestingType
         DEF AppendExecutionLogs, FindByID, UpdateState, Done
  <2>3. processed' = processed
    BY <1>3 DEF AppendExecutionLogs, FindByID, UpdateState
  <2> QED
    BY <1>0, <2>2, <2>3 DEF HandlerTypes
<1>4. ASSUME NEW n \in Nodes, Fail(n)
      PROVE  HandlerTypes'
  BY <1>0, <1>4, RestingType DEF HandlerTypes, Fail, Forget, Done
<1>5. ASSUME NEW n \in Nodes, Reassign(n)
      PROVE  HandlerTypes'
  BY <1>0, <1>5, RestingType DEF HandlerTypes, Reassign, handlers
<1>6. ASSUME NEW who \in Reporting, Finish(who)
      PROVE  HandlerTypes'
  BY <1>1, <1>6 DEF Finish
<1>7. CASE Log \/ TakeBatch \/ SendBatch \/ Close \/ LastFlush \/ Decide
           \/ Complete \/ UNCHANGED vars
  BY <1>1, <1>7
     DEF Log, TakeBatch, SendBatch, Close, LastFlush, Decide, Complete, vars, handlers
<1> QED
  BY <1>2, <1>3, <1>4, <1>5, <1>6, <1>7 DEF Next

(* The database's part, and the mishaps.                                   *)
LEMMA RowTypesStay ==
    ASSUME TypeOK, [Next]_vars
    PROVE  RowTypes'
<1>0. HandlerTypes /\ RowTypes
  BY TypesByPart
<1> USE <1>0 DEF RowTypes, faults
<1>m. ASSUME \/ \E what \in Kinds : Mishap(what)
             \/ UNCHANGED faults
      PROVE  mishaps' \subseteq Kinds /\ count' \in Nat
  BY <1>m DEF Mishap
<1>k. /\ "ack lost" \in Kinds /\ "repeat" \in Kinds
      /\ "append failed" \in Kinds /\ "append unanswered" \in Kinds
      /\ "update failed" \in Kinds /\ "reassigned" \in Kinds
  BY DEF Kinds
<1>1. CASE SendBatch
  <2>1. (\E what \in Kinds : Mishap(what)) \/ UNCHANGED faults
    BY <1>1, <1>k DEF SendBatch
  <2> QED
    BY <1>1, <1>m, <2>1 DEF SendBatch
<1>2. ASSUME NEW who \in Reporting, Finish(who)
      PROVE  RowTypes'
  <2>1. (\E what \in Kinds : Mishap(what)) \/ UNCHANGED faults
    BY <1>2, <1>k DEF Finish
  <2> QED
    BY <1>2, <1>m, <2>1 DEF Finish
<1>3. ASSUME NEW n \in Nodes, AppendExecutionLogs(n)
      PROVE  RowTypes'
  <2>1. doing[n].lines \in Seq(Nat)
    BY HandlingParts DEF HandlerTypes
  <2>2. stored \o doing[n].lines \in Seq(Nat)
    BY <2>1, ConcatProperties
  <2> QED
    BY <1>3, <2>2 DEF AppendExecutionLogs
<1>4. ASSUME NEW n \in Nodes, Consume(n) \/ FindByID(n) \/ UpdateState(n)
      PROVE  RowTypes'
  BY <1>4 DEF Consume, FindByID, UpdateState, Updated
<1>5. ASSUME NEW n \in Nodes, Fail(n) \/ Reassign(n)
      PROVE  RowTypes'
  <2>1. \E what \in Kinds : Mishap(what)
    BY <1>5, <1>k DEF Fail, Reassign
  <2>2. doing[n].lines \in Seq(Nat)
    BY HandlingParts DEF HandlerTypes
  <2>3. stored' \in Seq(Nat)
    BY <1>5, <2>2, ConcatProperties DEF Fail, Reassign
  <2>4. /\ row' \in {"open", "reported", "other"}
        /\ completion' \in {"none", "sent", "direct"}
    BY <1>5 DEF Fail, Reassign, Updated
  <2> QED
    BY <1>m, <2>1, <2>3, <2>4
<1>6. CASE Log \/ TakeBatch \/ Close \/ LastFlush \/ Decide \/ Complete \/ UNCHANGED vars
  BY <1>6 DEF Log, TakeBatch, Close, LastFlush, Decide, Complete, vars
<1> QED
  BY <1>1, <1>2, <1>3, <1>4, <1>5, <1>6 DEF Next

LEMMA ResultTypesStay ==
    ASSUME TypeOK, [Next]_vars
    PROVE  TypeOK'
<1>1. TopicTypes' /\ HandlerTypes' /\ RowTypes'
  BY TopicTypesStay, HandlerTypesStay, RowTypesStay
<1>2. LoggerTypes'
  BY TypesByPart, LoggerTypesStay
<1>3. TypeOK' <=> LoggerTypes' /\ TopicTypes' /\ HandlerTypes' /\ RowTypes'
  BY DEF TypeOK, LoggerTypes, TopicTypes, HandlerTypes, RowTypes, Messages,
         Handling
<1> QED
  BY <1>1, <1>2, <1>3

-----------------------------------------------------------------------------
(* What steps leave behind                                                 *)

(* Nothing is taken out of the topic.                                      *)
LEMMA TopicKept ==
    ASSUME TypeOK, [Next]_vars
    PROVE  /\ Len(topic) <= Len(topic')
           /\ \A i \in 1..Len(topic) : topic'[i] = topic[i]
<1>0. LoggerTypes /\ topic \in Seq(Messages)
  BY TypesByPart DEF TopicTypes
<1>1. CASE topic' = topic
  BY <1>0, <1>1
<1>2. CASE SendBatch
  <2>1. PICK m \in Messages : m = Message(sequence + 1, batch)
    BY <1>0, SentIsMessage
  <2> QED
    BY <1>1, <1>2, <2>1, TopicGrows DEF SendBatch
<1>3. ASSUME NEW who \in Reporting, Finish(who)
      PROVE  /\ Len(topic) <= Len(topic')
             /\ \A i \in 1..Len(topic) : topic'[i] = topic[i]
  <2>1. PICK m \in Messages : m = Message(FinishedID, Pending(who))
    BY <1>0, SentIsMessage
  <2> QED
    BY <1>1, <1>3, <2>1, TopicGrows DEF Finish
<1>4. ASSUME NEW n \in Nodes,
             \/ Consume(n) \/ AppendExecutionLogs(n) \/ FindByID(n)
             \/ UpdateState(n) \/ Fail(n) \/ Reassign(n)
      PROVE  topic' = topic
  BY <1>4 DEF Consume, AppendExecutionLogs, FindByID, UpdateState, Fail,
              Reassign, messages
<1>5. CASE Log \/ TakeBatch \/ Close \/ LastFlush \/ Decide \/ Complete \/ UNCHANGED vars
  <2>1. topic' = topic
    BY <1>5 DEF Log, TakeBatch, Close, LastFlush, Decide, Complete, vars, messages
  <2> QED
    BY <1>1, <2>1
<1> QED
  BY <1>1, <1>2, <1>3, <1>4, <1>5 DEF Next

(* Both lengths are numbers.                                               *)
LEMMA TopicLengths ==
    ASSUME TypeOK, [Next]_vars
    PROVE  Len(topic) \in Nat /\ Len(topic') \in Nat
<1>1. topic \in Seq(Messages) /\ topic' \in Seq(Messages)
  BY TypesByPart, TopicTypesStay DEF TopicTypes
<1> QED
  BY <1>1, LenProperties

(* Nor out of the stored lines, and nobody opens the execution again.      *)
LEMMA StoredKept ==
    ASSUME TypeOK, [Next]_vars
    PROVE  /\ ToSet(stored) \subseteq ToSet(stored')
           /\ row # "open" => row' = row
           /\ completion = "sent" => completion' = "sent"
<1> DEFINE Lasts == /\ row # "open" => row' = row
                    /\ completion = "sent" => completion' = "sent"
<1>a. ASSUME NEW n \in Nodes, stored' = stored \o doing[n].lines
      PROVE  ToSet(stored) \subseteq ToSet(stored')
  <2>1. stored \in Seq(Nat) /\ doing[n].lines \in Seq(Nat)
    BY TypesByPart, HandlingParts DEF RowTypes, HandlerTypes
  <2>2. ToSet(stored \o doing[n].lines)
           = ToSet(stored) \union ToSet(doing[n].lines)
    BY <2>1, SetOfConcat
  <2> QED
    BY <1>a, <2>2
<1>1. ASSUME NEW n \in Nodes, AppendExecutionLogs(n)
      PROVE  ToSet(stored) \subseteq ToSet(stored') /\ Lasts
  BY <1>1, <1>a DEF AppendExecutionLogs
<1>2. ASSUME NEW n \in Nodes,
             Consume(n) \/ FindByID(n) \/ UpdateState(n) \/ Reassign(n)
      PROVE  stored' = stored /\ Lasts
  BY <1>2 DEF Consume, FindByID, UpdateState, Updated, Reassign
<1>3. ASSUME NEW n \in Nodes, Fail(n)
      PROVE  ToSet(stored) \subseteq ToSet(stored') /\ Lasts
  <2>1. stored' = stored \/ stored' = stored \o doing[n].lines
    BY <1>3 DEF Fail
  <2>2. Lasts
    BY <1>3 DEF Fail, Updated
  <2> QED
    BY <1>a, <2>1, <2>2
<1>4. ASSUME NEW who \in Reporting, Finish(who)
      PROVE  stored' = stored /\ Lasts
  BY <1>4 DEF Finish
<1>5. CASE Log \/ TakeBatch \/ SendBatch \/ Close \/ LastFlush \/ Decide
           \/ Complete \/ UNCHANGED vars
  <2>1. stored' = stored /\ Lasts
    BY <1>5
       DEF Log, TakeBatch, SendBatch, Close, LastFlush, Decide, Complete, vars
  <2> QED
    BY <2>1
<1> QED
  BY <1>1, <1>2, <1>3, <1>4, <1>5 DEF Next

-----------------------------------------------------------------------------
(* Remembered events                                                       *)

(* A message with that id has had its effect.                              *)
HadEffect(id) ==
    \/ id = FinishedID /\ (row # "open" \/ completion = "sent")
    \/ \E i \in 1..Len(topic) :
          /\ topic[i].id = id /\ id # FinishedID
          /\ ToSet(topic[i].lines) \subseteq ToSet(stored)

AtWorkOn(n, id) == doing[n].step # "none" /\ doing[n].id = id

(* A node that appends lines has them from the topic, and after that it is *)
(* at the final report.                                                    *)
HasRead(n) ==
    /\ doing[n].step = "append" /\ doing[n].id # FinishedID =>
          \E i \in 1..Len(topic) : /\ topic[i].id = doing[n].id
                                  /\ topic[i].lines = doing[n].lines
    /\ doing[n].step \in {"find", "update"} => doing[n].id = FinishedID

DoingIsRead == \A n \in Nodes : HasRead(n)

(* An effect lasts.                                                        *)
LEMMA EffectStays ==
    ASSUME TypeOK, [Next]_vars, NEW id, HadEffect(id)
    PROVE  HadEffect(id)'
<1>1. CASE id = FinishedID /\ (row # "open" \/ completion = "sent")
  BY <1>1, StoredKept DEF HadEffect
<1>2. ASSUME NEW i \in 1..Len(topic),
             topic[i].id = id, id # FinishedID,
             ToSet(topic[i].lines) \subseteq ToSet(stored)
      PROVE  HadEffect(id)'
  <2>1. Len(topic) \in Nat /\ Len(topic') \in Nat
    BY TopicLengths
  <2>2. i \in 1..Len(topic') /\ topic'[i] = topic[i]
    BY <2>1, TopicKept
  <2> QED
    BY <1>2, <2>2, StoredKept DEF HadEffect
<1> QED
  BY <1>1, <1>2 DEF HadEffect

(* What is remembered without an effect is at work.                        *)
LEMMA RememberedByWork ==
    RememberedIsDone <=>
       \A n \in Nodes : \A id \in processed[n] : AtWorkOn(n, id) \/ HadEffect(id)
BY DEF RememberedIsDone, AtWorkOn, HadEffect

(* What a node has read goes on being in the topic.                        *)
LEMMA DoingIsReadStays ==
    ASSUME TypeOK, DoingIsRead, [Next]_vars
    PROVE  DoingIsRead'
<1>0. Len(topic) \in Nat /\ Len(topic') \in Nat /\ HandlerTypes
  BY TopicLengths, TypesByPart
<1>1. ASSUME NEW n \in Nodes, doing'[n] = doing[n]
      PROVE  HasRead(n)'
  BY <1>0, <1>1, TopicKept DEF DoingIsRead, HasRead
<1>2. ASSUME NEW n \in Nodes, doing'[n] = Resting
      PROVE  HasRead(n)'
  BY <1>2, RestingType DEF HasRead, Resting
<1>3. ASSUME NEW n \in Nodes, Consume(n)
      PROVE  HasRead(n)'
  <2>1. PICK m \in Messages : m = topic[offset + 1]
    BY <1>3, TypesByPart DEF TopicTypes, Consume
  <2>2. CASE Refused(n, m.id)
    BY <1>1, <1>3, <2>1, <2>2 DEF Consume, handlers
  <2>3. CASE ~Refused(n, m.id)
    <3>1. doing'[n] = [step |-> Steps(m), id |-> m.id, lines |-> m.lines]
      BY <1>0, <1>3, <2>1, <2>3 DEF Consume, HandlerTypes
    <3>2. offset + 1 \in 1..Len(topic) /\ topic' = topic
      BY <1>3, TypesByPart DEF Consume, TopicTypes
    <3> QED
      BY <2>1, <3>1, <3>2 DEF HasRead, Steps
  <2> QED
    BY <2>2, <2>3
<1>4. ASSUME NEW n \in Nodes,
             AppendExecutionLogs(n) \/ FindByID(n) \/ UpdateState(n)
      PROVE  HasRead(n)'
  <2>1. PICK d \in Handling : d = doing[n]
    BY <1>0 DEF HandlerTypes
  <2>2. CASE doing'[n] = Resting
    BY <1>2, <2>2
  <2>3. CASE doing'[n].id = FinishedID /\ doing'[n].step # "append"
    BY <2>3 DEF HasRead
  <2>4. CASE d.id = FinishedID /\ doing'[n] = [d EXCEPT !.step = "find"]
    BY <2>1, <2>3, <2>4, HandlingParts
  <2>5. CASE d.id = FinishedID /\ doing'[n] = [d EXCEPT !.step = "update"]
    BY <2>1, <2>3, <2>5, HandlingParts
  <2>6. d.step = "find" => d.id = FinishedID
    BY <2>1 DEF DoingIsRead, HasRead
  <2> QED
    BY <1>0, <1>4, <2>1, <2>2, <2>4, <2>5, <2>6
       DEF AppendExecutionLogs, FindByID, UpdateState, AtStep, Done, HandlerTypes
<1>5. ASSUME NEW n \in Nodes, Fail(n)
      PROVE  HasRead(n)'
  BY <1>0, <1>2, <1>5 DEF Fail, Done, HandlerTypes
<1>6. ASSUME NEW n \in Nodes, Reassign(n)
      PROVE  DoingIsRead'
  BY <1>0, <1>1, <1>2, <1>6 DEF Reassign, DoingIsRead, HandlerTypes, handlers
<1>7. ASSUME NEW n \in Nodes, NEW k \in Nodes, k # n,
             \/ Consume(n) \/ AppendExecutionLogs(n) \/ FindByID(n)
             \/ UpdateState(n) \/ Fail(n)
      PROVE  doing'[k] = doing[k]
  BY <1>0, <1>7
     DEF Consume, AppendExecutionLogs, FindByID, UpdateState, Fail, Done,
         HandlerTypes, handlers
<1>8. ASSUME NEW n \in Nodes,
             \/ Consume(n) \/ AppendExecutionLogs(n) \/ FindByID(n)
             \/ UpdateState(n) \/ Fail(n)
      PROVE  DoingIsRead'
  <2> SUFFICES ASSUME NEW k \in Nodes
               PROVE  HasRead(k)'
    BY DEF DoingIsRead
  <2>1. CASE k = n
    BY <1>3, <1>4, <1>5, <1>8, <2>1
  <2>2. CASE k # n
    BY <1>1, <1>7, <1>8, <2>2
  <2> QED
    BY <2>1, <2>2
<1>9. CASE doing' = doing
  BY <1>1, <1>9 DEF DoingIsRead
<1>10. ASSUME NEW who \in Reporting, Finish(who)
       PROVE  doing' = doing
  BY <1>10 DEF Finish, handlers
<1>11. CASE Log \/ TakeBatch \/ SendBatch \/ Close \/ LastFlush \/ Decide
            \/ Complete \/ UNCHANGED vars
  BY <1>9, <1>11
     DEF Log, TakeBatch, SendBatch, Close, LastFlush, Decide, Complete, vars, handlers
<1> QED
  BY <1>6, <1>8, <1>9, <1>10, <1>11 DEF Next

(* What a node remembers has had its effect, or is at work.                *)
LEMMA RememberedStays ==
    ASSUME TypeOK, DoingIsRead, RememberedIsDone, [Next]_vars
    PROVE  RememberedIsDone'
<1>0. HandlerTypes /\ HandlerTypes'
  BY TypesByPart, HandlerTypesStay
<1> DEFINE Kept(n) == \A id \in processed'[n] :
                         AtWorkOn(n, id)' \/ HadEffect(id)'
<1>k. ASSUME NEW n \in Nodes, NEW id \in processed[n]
      PROVE  AtWorkOn(n, id) \/ HadEffect(id)'
  <2>1. AtWorkOn(n, id) \/ HadEffect(id)
    BY RememberedByWork
  <2>2. HadEffect(id) => HadEffect(id)'
    BY EffectStays
  <2> QED
    BY <2>1, <2>2
<1>a. ASSUME NEW n \in Nodes, doing'[n] = doing[n], processed'[n] = processed[n]
      PROVE  Kept(n)
  <2> SUFFICES ASSUME NEW id \in processed'[n]
               PROVE  AtWorkOn(n, id)' \/ HadEffect(id)'
    OBVIOUS
  <2>1. AtWorkOn(n, id) => AtWorkOn(n, id)'
    BY <1>a DEF AtWorkOn
  <2> QED
    BY <1>a, <1>k, <2>1
<1>b. ASSUME NEW n \in Nodes, NEW e, doing[n].id = e,
             processed'[n] \subseteq processed[n],
             e \in processed'[n] => AtWorkOn(n, e)' \/ HadEffect(e)'
      PROVE  Kept(n)
  <2> SUFFICES ASSUME NEW id \in processed'[n]
               PROVE  AtWorkOn(n, id)' \/ HadEffect(id)'
    OBVIOUS
  <2>1. AtWorkOn(n, id) => id = e
    BY <1>b DEF AtWorkOn
  <2> QED
    BY <1>b, <1>k, <2>1
<1>1. ASSUME NEW n \in Nodes, Consume(n)
      PROVE  Kept(n)
  <2>1. PICK m \in Messages : m = topic[offset + 1]
    BY <1>1, TypesByPart DEF TopicTypes, Consume
  <2>2. CASE Refused(n, m.id)
    BY <1>1, <1>a, <2>1, <2>2 DEF Consume, handlers
  <2>3. CASE ~Refused(n, m.id)
    <3>1. /\ doing'[n] = [step |-> Steps(m), id |-> m.id, lines |-> m.lines]
          /\ processed'[n] = processed[n] \union {m.id}
          /\ doing[n].step = "none"
      BY <1>0, <1>1, <2>1, <2>3 DEF Consume, HandlerTypes
    <3>2. AtWorkOn(n, m.id)'
      BY <3>1 DEF AtWorkOn, Steps
    <3>3. ASSUME NEW id \in processed[n]
          PROVE  HadEffect(id)'
      BY <1>k, <3>1 DEF AtWorkOn
    <3>4. ASSUME NEW id \in processed'[n]
          PROVE  AtWorkOn(n, id)' \/ HadEffect(id)'
      BY <3>1, <3>2, <3>3, <3>4
    <3> QED
      BY <3>4
  <2> QED
    BY <2>2, <2>3
<1>2. ASSUME NEW n \in Nodes, AppendExecutionLogs(n)
      PROVE  Kept(n)
  <2>1. processed' = processed /\ doing[n].step = "append"
    BY <1>2 DEF AppendExecutionLogs, AtStep
  <2>2. PICK e \in Nat : e = doing[n].id
    BY <1>0, HandlingParts DEF HandlerTypes
  <2>3. CASE e = FinishedID
    <3>1. AtWorkOn(n, e)'
      BY <1>0, <1>2, <2>2, <2>3
         DEF AppendExecutionLogs, AtWorkOn, HandlerTypes, Handling
    <3> QED
      BY <1>b, <2>1, <2>2, <3>1
  <2>4. CASE e # FinishedID
    <3>1. PICK i \in 1..Len(topic) : /\ topic[i].id = e
                                    /\ topic[i].lines = doing[n].lines
      BY <2>1, <2>2, <2>4 DEF DoingIsRead, HasRead
    <3>2. stored \in Seq(Nat) /\ doing[n].lines \in Seq(Nat)
      BY TypesByPart, HandlingParts DEF RowTypes, HandlerTypes
    <3>3. ToSet(doing[n].lines) \subseteq ToSet(stored \o doing[n].lines)
      BY <3>2, SetOfConcat
    <3>4. topic' = topic /\ stored' = stored \o doing[n].lines
      BY <1>2 DEF AppendExecutionLogs, messages
    <3>5. ToSet(topic[i].lines) \subseteq ToSet(stored')
      BY <3>1, <3>3, <3>4
    <3>6. HadEffect(e)'
      BY <2>4, <3>1, <3>4, <3>5 DEF HadEffect
    <3> QED
      BY <1>b, <2>1, <2>2, <3>6
  <2> QED
    BY <2>3, <2>4
<1>3. ASSUME NEW n \in Nodes, FindByID(n)
      PROVE  Kept(n)
  <2>1. /\ processed' = processed /\ doing[n].step = "find"
        /\ row' = row /\ doing[n].id = FinishedID
    BY <1>3 DEF FindByID, AtStep, DoingIsRead, HasRead
  <2>2. CASE row = "open"
    <3>1. AtWorkOn(n, FinishedID)'
      BY <1>0, <1>3, <2>1, <2>2 DEF FindByID, AtWorkOn, HandlerTypes, Handling
    <3> QED
      BY <1>b, <2>1, <3>1
  <2>3. CASE row # "open"
    <3>1. HadEffect(FinishedID)'
      BY <2>1, <2>3 DEF HadEffect
    <3> QED
      BY <1>b, <2>1, <3>1
  <2> QED
    BY <2>2, <2>3
<1>4. ASSUME NEW n \in Nodes, UpdateState(n)
      PROVE  Kept(n)
  <2>1. /\ processed' = processed /\ doing[n].id = FinishedID
        /\ row' # "open" \/ completion' = "sent"
    BY <1>4 DEF UpdateState, Updated, AtStep, DoingIsRead, HasRead
  <2>2. HadEffect(FinishedID)'
    BY <2>1 DEF HadEffect
  <2> QED
    BY <1>b, <2>1, <2>2
<1>5. ASSUME NEW n \in Nodes, Fail(n)
      PROVE  Kept(n)
  <2>1. PICK e \in Nat : e = doing[n].id
    BY <1>0, HandlingParts DEF HandlerTypes
  <2>2. processed'[n] = processed[n] \ {e}
    BY <1>0, <1>5, <2>1 DEF Fail, Forget, HandlerTypes
  <2> QED
    BY <1>b, <2>1, <2>2
<1>6. ASSUME NEW n \in Nodes, Reassign(n), NEW k \in Nodes
      PROVE  Kept(k)
  <2>1. CASE UNCHANGED handlers
    BY <1>a, <2>1 DEF handlers
  <2>2. CASE /\ processed' = [processed EXCEPT ![reader] = {}]
             /\ doing' = [doing EXCEPT ![reader] = Resting]
    BY <1>0, <1>a, <2>2 DEF HandlerTypes
  <2> QED
    BY <1>6, <2>1, <2>2 DEF Reassign
<1>7. ASSUME NEW n \in Nodes, NEW k \in Nodes, k # n,
             \/ Consume(n) \/ AppendExecutionLogs(n) \/ FindByID(n)
             \/ UpdateState(n) \/ Fail(n)
      PROVE  doing'[k] = doing[k] /\ processed'[k] = processed[k]
  BY <1>0, <1>7
     DEF Consume, AppendExecutionLogs, FindByID, UpdateState, Fail, Done,
         Forget, HandlerTypes, handlers
<1>8. ASSUME NEW n \in Nodes, NEW k \in Nodes,
             \/ Consume(n) \/ AppendExecutionLogs(n) \/ FindByID(n)
             \/ UpdateState(n) \/ Fail(n)
      PROVE  Kept(k)
  <2>1. CASE k = n
    BY <1>1, <1>2, <1>3, <1>4, <1>5, <1>8, <2>1
  <2>2. CASE k # n
    BY <1>a, <1>7, <1>8, <2>2
  <2> QED
    BY <2>1, <2>2
<1>9. ASSUME NEW who \in Reporting, Finish(who)
      PROVE  UNCHANGED handlers
  BY <1>9 DEF Finish
<1>10. ASSUME \/ Log \/ TakeBatch \/ SendBatch \/ Close \/ LastFlush \/ Decide
              \/ Complete \/ UNCHANGED vars
       PROVE  UNCHANGED handlers
  BY <1>10
     DEF Log, TakeBatch, SendBatch, Close, LastFlush, Decide, Complete, vars, handlers
<1>11. ASSUME NEW k \in Nodes, UNCHANGED handlers
       PROVE  Kept(k)
  BY <1>a, <1>11 DEF handlers
<1>12. ASSUME NEW k \in Nodes
       PROVE  Kept(k)
  <2>1. CASE \E n \in Nodes :
                \/ Consume(n) \/ AppendExecutionLogs(n) \/ FindByID(n)
                \/ UpdateState(n) \/ Fail(n)
    BY <1>8, <2>1
  <2>2. CASE \E n \in Nodes : Reassign(n)
    BY <1>6, <2>2
  <2> QED
    BY <1>9, <1>10, <1>11, <2>1, <2>2 DEF Next
<1>13. \A k \in Nodes : \A id \in processed'[k] :
          AtWorkOn(k, id)' \/ HadEffect(id)'
  BY <1>12
<1> QED
  BY <1>13 DEF RememberedIsDone, AtWorkOn, HadEffect

-----------------------------------------------------------------------------
(* Decisions and lines, as long as nothing but an update has failed        *)

Calm == mishaps \subseteq {"update failed"}

InTopic(l) == \E i \in 1..Len(topic) : l \in ToSet(topic[i].lines)

(* A line that was logged is kept by the agent or was sent.                *)
NothingLost ==
    \A l \in 1..logged : l \in ToSet(buffer) \/ l \in ToSet(batch) \/ InTopic(l)

(* After the last flush nothing is on its way.                             *)
ClosedHasNoBatch == agent \in {"closed", "finished"} => batch = <<>>

(* Nothing but its repetitions comes after the final report, and it takes  *)
(* along what the agent has kept.                                          *)
ReportIsLast ==
    \A i \in 1..Len(topic) : topic[i].id = FinishedID =>
        /\ agent = "finished" /\ topic[i].lines = buffer
        /\ \A j \in 1..Len(topic) : j > i => topic[j].id = FinishedID

(* Messages of one id are copies of one message.                           *)
CopiesAreEqual ==
    /\ \A i \in 1..Len(topic) : topic[i].id <= sequence
    /\ \A i, j \in 1..Len(topic) :
          topic[i].id = topic[j].id => topic[i].lines = topic[j].lines

SenderInv == NothingLost /\ ClosedHasNoBatch /\ ReportIsLast /\ CopiesAreEqual

(* A node that is not assigned the partition does nothing.                 *)
OneReader == \A n \in Nodes : n # reader => doing[n].step = "none"

(* What was read is stored, or being stored.                               *)
ReadIsStored ==
    \A i \in 1..offset :
        \/ ToSet(topic[i].lines) \subseteq ToSet(stored)
        \/ doing[reader].step = "append" /\ doing[reader].lines = topic[i].lines

RememberedIsRead ==
    \A id \in processed[reader] : \E i \in 1..offset : topic[i].id = id

ReportIsRead ==
    doing[reader].step # "none" /\ doing[reader].id = FinishedID =>
       \E i \in 1..offset : topic[i].id = FinishedID

ReaderInv == OneReader /\ ReadIsStored /\ RememberedIsRead /\ ReportIsRead

(* Once the agent's report has decided, or its completion event is there,  *)
(* the lines are stored.                                                   *)
DecidedInv ==
    row = "reported" \/ completion = "sent" =>
        agent = "finished" /\ 1..logged \subseteq ToSet(stored)

(* What went wrong is not forgotten.                                       *)
LEMMA MishapsGrow ==
    ASSUME [Next]_vars
    PROVE  mishaps \subseteq mishaps'
<1>1. ASSUME (\E what : Mishap(what)) \/ UNCHANGED faults
      PROVE  mishaps \subseteq mishaps'
  BY <1>1 DEF Mishap, faults
<1>2. ASSUME NEW who \in Reporting, Finish(who)
      PROVE  (\E what : Mishap(what)) \/ UNCHANGED faults
  BY <1>2 DEF Finish
<1>3. ASSUME NEW n \in Nodes,
             \/ Consume(n) \/ AppendExecutionLogs(n) \/ FindByID(n)
             \/ UpdateState(n) \/ Fail(n) \/ Reassign(n)
      PROVE  (\E what : Mishap(what)) \/ UNCHANGED faults
  BY <1>3 DEF Consume, AppendExecutionLogs, FindByID, UpdateState, Fail, Reassign
<1>4. ASSUME \/ Log \/ TakeBatch \/ SendBatch \/ Close \/ LastFlush
             \/ Decide \/ Complete \/ UNCHANGED vars
      PROVE  (\E what : Mishap(what)) \/ UNCHANGED faults
  BY <1>4 DEF Log, TakeBatch, SendBatch, Close, LastFlush, Decide, Complete, vars, faults
<1> QED
  BY <1>1, <1>2, <1>3, <1>4 DEF Next

(* A step after which it is calm was taken in the calm, and was none of    *)
(* those that bring trouble.                                               *)
LEMMA CalmSteps ==
    ASSUME [Next]_vars, Calm'
    PROVE  /\ Calm
           /\ SendBatch =>
                 \/ Sent(Message(sequence + 1, batch)) /\ UNCHANGED buffer
                       /\ sequence' = sequence + 1
                 \/ UNCHANGED <<topic, sequence>> /\ PutBack
           /\ \A who \in Reporting : Finish(who) => who = "owner"
           /\ \A n \in Nodes : Fail(n) => doing[n].step # "append"
           /\ \A n \in Nodes : ~Reassign(n)
<1>1. ASSUME NEW what, what # "update failed"
      PROVE  ~Mishap(what)
  BY <1>1 DEF Calm, Mishap
<1>3. Calm
  BY MishapsGrow DEF Calm
<1>4. SendBatch =>
         \/ Sent(Message(sequence + 1, batch)) /\ UNCHANGED buffer
               /\ sequence' = sequence + 1
         \/ UNCHANGED <<topic, sequence>> /\ PutBack
  BY <1>1 DEF SendBatch
<1>5. \A who \in Reporting : Finish(who) => who = "owner"
  BY <1>1 DEF Finish, Reporting
<1>6. \A n \in Nodes : Fail(n) => doing[n].step # "append"
  BY <1>1 DEF Fail, AtStep
<1>7. \A n \in Nodes : ~Reassign(n)
  BY <1>1 DEF Reassign
<1> QED
  BY <1>3, <1>4, <1>5, <1>6, <1>7

(* A message is added to the topic.                                        *)
LEMMA InTopicStays ==
    ASSUME TypeOK, [Next]_vars, NEW l, InTopic(l)
    PROVE  InTopic(l)'
<1>1. PICK i \in 1..Len(topic) : l \in ToSet(topic[i].lines)
  BY DEF InTopic
<1>2. i \in 1..Len(topic') /\ topic'[i] = topic[i]
  BY TopicKept, TopicLengths
<1> QED
  BY <1>1, <1>2 DEF InTopic

(* No line is lost.                                                        *)
LEMMA NothingLostStays ==
    ASSUME TypeOK, NothingLost, [Next]_vars, Calm'
    PROVE  NothingLost'
<1>0. LoggerTypes
  BY TypesByPart
<1>a. ASSUME UNCHANGED logged,
             ToSet(buffer) \union ToSet(batch)
               \subseteq ToSet(buffer') \union ToSet(batch')
      PROVE  NothingLost'
  <2> SUFFICES ASSUME NEW l \in 1..logged
               PROVE  \/ l \in ToSet(buffer') \/ l \in ToSet(batch')
                      \/ InTopic(l)'
    BY <1>a DEF NothingLost
  <2>1. InTopic(l) => InTopic(l)'
    BY InTopicStays
  <2> QED
    BY <1>a, <2>1 DEF NothingLost
<1>e. ToSet(<<>>) = {}
  BY DEF ToSet
<1>1. CASE Log
  <2>1. ToSet(buffer') = ToSet(buffer) \union {logged + 1} /\ batch' = batch
        /\ logged' = logged + 1
    BY <1>0, <1>1, SetOfAppend DEF Log, LoggerTypes
  <2> SUFFICES ASSUME NEW l \in 1..(logged + 1)
               PROVE  \/ l \in ToSet(buffer') \/ l \in ToSet(batch')
                      \/ InTopic(l)'
    BY <2>1 DEF NothingLost
  <2>2. InTopic(l) => InTopic(l)'
    BY InTopicStays
  <2> QED
    BY <1>0, <2>1, <2>2 DEF NothingLost, LoggerTypes
<1>2. CASE TakeBatch \/ LastFlush
  BY <1>2, <1>a, <1>e DEF TakeBatch, LastFlush
<1>3. CASE SendBatch
  <2>1. CASE Sent(Message(sequence + 1, batch)) /\ UNCHANGED buffer
    <3>1. PICK m \in Messages : m = Message(sequence + 1, batch)
      BY <1>0, SentIsMessage
    <3>2. m.lines = batch
      BY <1>0, <3>1, MessageParts DEF LoggerTypes
    <3>3. \E i \in 1..Len(topic') : topic'[i] = m
      <4>1. PICK copies \in {<<m>>, <<m, m>>} : topic' = topic \o copies
        BY <2>1, <3>1 DEF Sent
      <4>2. copies \in Seq(Messages) /\ topic \in Seq(Messages)
            /\ Len(copies) \in {1, 2} /\ copies[1] = m
        BY <4>1, TypesByPart DEF TopicTypes
      <4>3. Len(topic) \in Nat /\ Len(topic') = Len(topic) + Len(copies)
            /\ topic'[Len(topic) + 1] = copies[1]
        BY <4>1, <4>2, ConcatProperties, LenProperties
      <4> QED
        BY <4>2, <4>3
    <3>4. \A l \in ToSet(batch) : InTopic(l)'
      BY <3>2, <3>3 DEF InTopic
    <3>5. logged' = logged
      BY <1>3 DEF SendBatch
    <3> SUFFICES ASSUME NEW l \in 1..logged
                 PROVE  \/ l \in ToSet(buffer') \/ l \in ToSet(batch')
                        \/ InTopic(l)'
      BY <3>5 DEF NothingLost
    <3>6. InTopic(l) => InTopic(l)'
      BY InTopicStays
    <3> QED
      BY <2>1, <3>4, <3>6 DEF NothingLost
  <2>2. CASE PutBack
    <3>1. ToSet(buffer') = ToSet(batch) \union ToSet(buffer)
      BY <1>0, <2>2, SetOfConcat DEF PutBack, LoggerTypes
    <3> QED
      BY <1>3, <1>a, <3>1 DEF SendBatch
  <2> QED
    BY <1>3, <2>1, <2>2, CalmSteps
<1>4. ASSUME UNCHANGED logger
      PROVE  NothingLost'
  BY <1>4, <1>a DEF logger
<1>5. ASSUME NEW who \in Reporting, Finish(who)
      PROVE  NothingLost'
  BY <1>4, <1>5 DEF Finish
<1>6. ASSUME NEW n \in Nodes,
             \/ Consume(n) \/ AppendExecutionLogs(n) \/ FindByID(n)
             \/ UpdateState(n) \/ Fail(n) \/ Reassign(n)
      PROVE  NothingLost'
  BY <1>4, <1>6
     DEF Consume, AppendExecutionLogs, FindByID, UpdateState, Fail, Reassign
<1>7. CASE Close \/ Decide \/ Complete \/ UNCHANGED vars
  BY <1>4, <1>7 DEF Close, Decide, Complete, vars, logger
<1> QED
  BY <1>1, <1>2, <1>3, <1>5, <1>6, <1>7 DEF Next

(* After the last flush nothing goes on its way.                           *)
LEMMA ClosedHasNoBatchStays ==
    ASSUME ClosedHasNoBatch, [Next]_vars
    PROVE  ClosedHasNoBatch'
<1> USE ClosedHasNoBatch DEF ClosedHasNoBatch, logger
<1>1. CASE Log \/ TakeBatch \/ Close \/ LastFlush \/ Decide \/ Complete \/ UNCHANGED vars
  BY <1>1 DEF Log, TakeBatch, Close, LastFlush, Decide, Complete, vars
<1>2. CASE SendBatch
  BY <1>2 DEF SendBatch
<1>3. ASSUME NEW who \in Reporting, Finish(who)
      PROVE  ClosedHasNoBatch'
  BY <1>3 DEF Finish
<1>4. ASSUME NEW n \in Nodes,
             \/ Consume(n) \/ AppendExecutionLogs(n) \/ FindByID(n)
             \/ UpdateState(n) \/ Fail(n) \/ Reassign(n)
      PROVE  ClosedHasNoBatch'
  BY <1>4 DEF Consume, AppendExecutionLogs, FindByID, UpdateState, Fail, Reassign
<1> QED
  BY <1>1, <1>2, <1>3, <1>4 DEF Next

(* Which steps the agent's messages depend on.                             *)
LEMMA SenderSteps ==
    ASSUME [Next]_vars
    PROVE  \/ SendBatch
           \/ \E who \in Reporting : Finish(who)
           \/ /\ UNCHANGED <<topic, sequence>>
              /\ \/ agent # "finished" /\ agent' # "finished"
                 \/ UNCHANGED <<agent, buffer>>
<1> USE DEF logger, messages
<1>1. CASE Log \/ TakeBatch \/ Close \/ LastFlush
  BY <1>1 DEF Log, TakeBatch, Close, LastFlush
<1>2. CASE Decide \/ Complete \/ UNCHANGED vars
  BY <1>2 DEF Decide, Complete, vars
<1>3. ASSUME NEW n \in Nodes,
             \/ Consume(n) \/ AppendExecutionLogs(n) \/ FindByID(n)
             \/ UpdateState(n) \/ Fail(n) \/ Reassign(n)
      PROVE  UNCHANGED <<topic, sequence, agent, buffer>>
  BY <1>3 DEF Consume, AppendExecutionLogs, FindByID, UpdateState, Fail, Reassign
<1> QED
  BY <1>1, <1>2, <1>3 DEF Next

(* The order of the messages and the equality of copies stay.              *)
LEMMA ReportIsLastStays ==
    ASSUME TypeOK, ClosedHasNoBatch, ReportIsLast, CopiesAreEqual,
           [Next]_vars, Calm'
    PROVE  ReportIsLast' /\ CopiesAreEqual'
<1>0. LoggerTypes /\ topic \in Seq(Messages) /\ topic' \in Seq(Messages)
      /\ Len(topic) \in Nat /\ Len(topic') \in Nat
  BY TypesByPart, TopicTypesStay, TopicLengths DEF TopicTypes
<1>1. CASE UNCHANGED <<topic, sequence>>
           /\ (agent # "finished" \/ UNCHANGED <<agent, buffer>>)
  BY <1>1 DEF ReportIsLast, CopiesAreEqual
<1>2. ASSUME NEW m \in Messages, Sent(m), agent # "finished",
             m.id = sequence + 1, sequence' = sequence + 1
      PROVE  ReportIsLast' /\ CopiesAreEqual'
  <2>1. \A i \in 1..Len(topic) : topic[i].id # FinishedID
    BY <1>2 DEF ReportIsLast
  <2>2. \A i \in 1..Len(topic') :
           \/ i \in 1..Len(topic) /\ topic'[i] = topic[i]
           \/ topic'[i] = m
    BY <1>0, <1>2, TopicGrows
  <2>3. sequence \in Nat /\ \A i \in 1..Len(topic) : topic[i].id \in Nat
    BY <1>0, MessageParts DEF LoggerTypes
  <2>4. m.id # FinishedID
    BY <1>2, <2>3 DEF FinishedID
  <2>5. ReportIsLast'
    BY <2>1, <2>2, <2>4 DEF ReportIsLast
  <2>6. \A i \in 1..Len(topic') : topic'[i].id <= sequence'
    BY <1>2, <2>2, <2>3 DEF CopiesAreEqual
  <2>7. ASSUME NEW i \in 1..Len(topic'), NEW j \in 1..Len(topic'),
               topic'[i].id = topic'[j].id
        PROVE  topic'[i].lines = topic'[j].lines
    <3>1. \A k \in 1..Len(topic) : topic[k].id # m.id
      BY <1>2, <2>3 DEF CopiesAreEqual
    <3> QED
      BY <2>2, <2>7, <3>1 DEF CopiesAreEqual
  <2> QED
    BY <2>5, <2>6, <2>7 DEF CopiesAreEqual
<1>3. CASE SendBatch
  <2>1. PICK m \in Messages : m = Message(sequence + 1, batch)
    BY <1>0, SentIsMessage
  <2>2. m.id = sequence + 1
    BY <1>0, <2>1, MessageParts DEF LoggerTypes
  <2>3. agent # "finished"
    BY <1>3 DEF SendBatch, ClosedHasNoBatch
  <2> QED
    BY <1>1, <1>2, <1>3, <2>1, <2>2, <2>3, CalmSteps
<1>4. ASSUME NEW who \in Reporting, Finish(who)
      PROVE  ReportIsLast' /\ CopiesAreEqual'
  <2>1. agent = "closed" /\ agent' = "finished" /\ UNCHANGED logger
        /\ Pending(who) = buffer
    BY <1>4, CalmSteps DEF Finish, Pending
  <2>2. \A i \in 1..Len(topic) : topic[i].id # FinishedID
    BY <2>1 DEF ReportIsLast
  <2>3. CASE UNCHANGED topic
    BY <2>1, <2>2, <2>3 DEF ReportIsLast, CopiesAreEqual, logger
  <2>4. CASE Sent(Message(FinishedID, Pending(who)))
    <3>1. PICK m \in Messages : m = Message(FinishedID, Pending(who))
      BY <1>0, SentIsMessage
    <3>2. m.id = FinishedID /\ m.lines = buffer
      BY <1>0, <2>1, <3>1, MessageParts DEF LoggerTypes, FinishedID
    <3>3. \A i \in 1..Len(topic') :
             \/ i \in 1..Len(topic) /\ topic'[i] = topic[i]
             \/ i > Len(topic) /\ topic'[i] = m
      BY <1>0, <2>4, <3>1, TopicGrows
    <3>4. buffer' = buffer /\ sequence' = sequence /\ sequence \in Nat
      BY <1>0, <2>1 DEF logger, LoggerTypes
    <3>5. ReportIsLast'
      BY <1>0, <2>1, <2>2, <3>2, <3>3, <3>4 DEF ReportIsLast
    <3>6. FinishedID <= sequence
      BY <3>4 DEF FinishedID
    <3>7. \A i \in 1..Len(topic') : topic'[i].id <= sequence'
      BY <3>2, <3>3, <3>4, <3>6 DEF CopiesAreEqual
    <3>8. ASSUME NEW i \in 1..Len(topic'), NEW j \in 1..Len(topic'),
                 topic'[i].id = topic'[j].id
          PROVE  topic'[i].lines = topic'[j].lines
      <4>1. CASE topic'[i] = m /\ topic'[j] = m
        BY <4>1
      <4>2. CASE /\ i \in 1..Len(topic) /\ topic'[i] = topic[i]
                 /\ j \in 1..Len(topic) /\ topic'[j] = topic[j]
        BY <3>8, <4>2 DEF CopiesAreEqual
      <4> QED
        BY <2>2, <3>2, <3>3, <3>8, <4>1, <4>2
    <3>9. CopiesAreEqual'
      BY <3>7, <3>8 DEF CopiesAreEqual
    <3> QED
      BY <3>5, <3>9
  <2> QED
    BY <1>4, <2>3, <2>4 DEF Finish
<1> QED
  BY <1>1, <1>3, <1>4, SenderSteps

(* The consumer's part: only the reader works, on what it has read.        *)
LEMMA ReaderInvStays ==
    ASSUME TypeOK, DoingIsRead, CopiesAreEqual, ReaderInv, [Next]_vars, Calm'
    PROVE  ReaderInv'
<1>0. /\ topic \in Seq(Messages) /\ Len(topic) \in Nat /\ Len(topic') \in Nat
      /\ offset \in 0..Len(topic) /\ reader \in Nodes
      /\ HandlerTypes /\ HandlerTypes' /\ stored \in Seq(Nat)
  BY TypesByPart, HandlerTypesStay, TopicLengths DEF TopicTypes, RowTypes
<1> USE DEF ReaderInv, OneReader, ReadIsStored, RememberedIsRead, ReportIsRead
<1>1. ASSUME UNCHANGED <<handlers, offset, reader, stored>>
      PROVE  ReaderInv'
  <2>1. \A i \in 1..offset : topic'[i] = topic[i]
    BY <1>0, TopicKept
  <2> QED
    BY <1>1, <2>1 DEF handlers
<1>2. ASSUME NEW n \in Nodes,
             \/ Consume(n) \/ AppendExecutionLogs(n) \/ FindByID(n)
             \/ UpdateState(n) \/ Fail(n)
      PROVE  /\ n = reader /\ reader' = reader /\ topic' = topic
             /\ \A k \in Nodes : k # reader => doing'[k] = doing[k]
  <2>1. n = reader
    BY <1>2 DEF Consume, AppendExecutionLogs, FindByID, UpdateState, Fail, AtStep
  <2>2. reader' = reader /\ topic' = topic
    BY <1>2 DEF Consume, AppendExecutionLogs, FindByID, UpdateState, Fail,
                messages
  <2>3. \A k \in Nodes : k # n => doing'[k] = doing[k]
    BY <1>0, <1>2
       DEF Consume, AppendExecutionLogs, FindByID, UpdateState, Fail, Done,
           HandlerTypes, handlers
  <2> QED
    BY <2>1, <2>2, <2>3
<1>3. ASSUME NEW n \in Nodes, Consume(n)
      PROVE  ReaderInv'
  <2>1. /\ n = reader /\ reader' = reader /\ topic' = topic /\ OneReader'
    BY <1>2, <1>3
  <2>2. /\ offset' = offset + 1 /\ stored' = stored /\ doing[n].step = "none"
        /\ offset + 1 \in 1..Len(topic)
    BY <1>0, <1>3 DEF Consume
  <2>3. PICK m \in Messages : m = topic[offset + 1]
    BY <1>0, <2>2
  <2>4. \A i \in 1..offset : ToSet(topic[i].lines) \subseteq ToSet(stored)
    BY <2>1, <2>2
  <2>5. \A i \in 1..offset' : i \in 1..offset \/ i = offset + 1
    BY <1>0, <2>2
  <2>6. offset + 1 \in 1..offset' /\ \A i \in 1..offset : i \in 1..offset'
    BY <1>0, <2>2
  <2>7. CASE Refused(n, m.id)
    <3>1. UNCHANGED handlers
      BY <1>3, <2>3, <2>7 DEF Consume
    <3>2. PICK j \in 1..offset : topic[j].id = m.id
      BY <2>1, <2>7 DEF Refused
    <3>3. topic[j].lines = m.lines
      BY <1>0, <2>2, <2>3, <3>2 DEF CopiesAreEqual
    <3>4. ReadIsStored'
      BY <2>1, <2>2, <2>3, <2>4, <2>5, <3>3
    <3>5. RememberedIsRead'
      BY <2>1, <2>6, <3>1 DEF handlers
    <3>6. ReportIsRead'
      BY <2>1, <2>2, <3>1 DEF handlers
    <3> QED
      BY <2>1, <3>4, <3>5, <3>6
  <2>8. CASE ~Refused(n, m.id)
    <3>1. /\ doing'[n] = [step |-> Steps(m), id |-> m.id, lines |-> m.lines]
          /\ processed'[n] = processed[n] \union {m.id}
      BY <1>0, <1>3, <2>3, <2>8 DEF Consume, HandlerTypes
    <3>2. ToSet(<<>>) = {}
      BY DEF ToSet
    <3>3. \/ ToSet(m.lines) \subseteq ToSet(stored)
          \/ doing'[n].step = "append" /\ doing'[n].lines = m.lines
      BY <3>1, <3>2 DEF Steps
    <3>4. ReadIsStored'
      BY <2>1, <2>2, <2>3, <2>4, <2>5, <3>3
    <3>5. RememberedIsRead'
      BY <2>1, <2>3, <2>6, <3>1
    <3>6. ReportIsRead'
      BY <2>1, <2>3, <2>6, <3>1
    <3> QED
      BY <2>1, <3>4, <3>5, <3>6
  <2> QED
    BY <2>7, <2>8
<1>4. ASSUME NEW n \in Nodes, AppendExecutionLogs(n)
      PROVE  ReaderInv'
  <2>1. /\ n = reader /\ reader' = reader /\ topic' = topic /\ OneReader'
    BY <1>2, <1>4
  <2>2. /\ offset' = offset /\ stored' = stored \o doing[n].lines
        /\ processed' = processed /\ doing[n].step = "append"
    BY <1>4 DEF AppendExecutionLogs, AtStep, messages
  <2>3. doing[n].lines \in Seq(Nat)
    BY <1>0, HandlingParts DEF HandlerTypes
  <2>4. ToSet(stored') = ToSet(stored) \union ToSet(doing[n].lines)
    BY <1>0, <2>2, <2>3, SetOfConcat
  <2>5. \A i \in 1..offset : ToSet(topic[i].lines) \subseteq ToSet(stored')
    BY <2>1, <2>4
  <2>6. ReadIsStored'
    BY <2>1, <2>2, <2>5
  <2>7. RememberedIsRead'
    BY <2>1, <2>2
  <2>8. doing'[n].step # "none" => doing[n].id = FinishedID
    BY <1>0, <1>4 DEF AppendExecutionLogs, Done, Resting, HandlerTypes
  <2>9. ReportIsRead'
    BY <2>1, <2>2, <2>8
  <2> QED
    BY <2>1, <2>6, <2>7, <2>9
<1>5. ASSUME NEW n \in Nodes, FindByID(n) \/ UpdateState(n) \/ Fail(n)
      PROVE  ReaderInv'
  <2>1. /\ n = reader /\ reader' = reader /\ topic' = topic /\ OneReader'
    BY <1>2, <1>5, RestingType
  <2>3. doing[n].step # "append"
    BY <1>5, CalmSteps DEF FindByID, UpdateState, AtStep
  <2>2. offset' = offset /\ stored' = stored
    BY <1>5, <2>3 DEF FindByID, UpdateState, Fail, AtStep, messages
  <2>4. processed'[n] \subseteq processed[n]
    BY <1>0, <1>5 DEF FindByID, UpdateState, Fail, Forget, HandlerTypes
  <2>5. doing[n].step = "find" => doing[n].id = FinishedID
    BY DEF DoingIsRead, HasRead
  <2>6. doing'[n].step # "none" => doing[n].step # "none" /\ doing[n].id = FinishedID
    BY <1>0, <1>5, <2>5, RestingType
       DEF FindByID, UpdateState, Fail, Done, AtStep, HandlerTypes
  <2>7. ReadIsStored' /\ RememberedIsRead' /\ ReportIsRead'
    BY <2>1, <2>2, <2>3, <2>4, <2>6
  <2> QED
    BY <2>1, <2>7
<1>6. ASSUME NEW n \in Nodes
      PROVE  ~Reassign(n)
  BY CalmSteps
<1>7. ASSUME NEW who \in Reporting, Finish(who)
      PROVE  ReaderInv'
  BY <1>1, <1>7 DEF Finish
<1>8. CASE Log \/ TakeBatch \/ SendBatch \/ Close \/ LastFlush \/ Decide
           \/ Complete \/ UNCHANGED vars
  BY <1>1, <1>8
     DEF Log, TakeBatch, SendBatch, Close, LastFlush, Decide, Complete, vars, handlers,
         messages
<1> QED
  BY <1>3, <1>4, <1>5, <1>6, <1>7, <1>8 DEF Next

(* When the report decides, every line is stored.                          *)
LEMMA DecidedInvStays ==
    ASSUME TypeOK, DoingIsRead, SenderInv, ReaderInv, DecidedInv,
           [Next]_vars, Calm'
    PROVE  DecidedInv'
<1> USE DEF DecidedInv
<1>0. ToSet(stored) \subseteq ToSet(stored')
  BY StoredKept
<1>1. ASSUME NEW n \in Nodes, AtStep(n, "update"), UNCHANGED stored,
             UNCHANGED <<agent, logger>>
      PROVE  DecidedInv'
  <2>1. n = reader /\ doing[n].step = "update" /\ doing[n].id = FinishedID
    BY <1>1 DEF AtStep, ReaderInv, OneReader, DoingIsRead, HasRead
  <2>2. PICK i \in 1..offset : topic[i].id = FinishedID
    BY <2>1 DEF ReaderInv, ReportIsRead
  <2>3. /\ offset \in Nat /\ Len(topic) \in Nat /\ offset <= Len(topic)
    BY TypesByPart, TopicLengths DEF TopicTypes
  <2>4. \A j \in 1..offset : ToSet(topic[j].lines) \subseteq ToSet(stored)
    BY <2>1 DEF ReaderInv, ReadIsStored
  <2>5. /\ agent = "finished" /\ topic[i].lines = buffer
        /\ \A j \in 1..Len(topic) : j > i => topic[j].id = FinishedID
    BY <2>2, <2>3 DEF SenderInv, ReportIsLast
  <2>6. batch = <<>>
    BY <2>5 DEF SenderInv, ClosedHasNoBatch
  <2>7. \A j \in 1..Len(topic) : j > i => topic[j].lines = buffer
    BY <2>5 DEF SenderInv, ReportIsLast
  <2>8. \A j \in 1..Len(topic) : ToSet(topic[j].lines) \subseteq ToSet(stored)
    BY <2>2, <2>3, <2>4, <2>5, <2>7
  <2>9. ToSet(buffer) \subseteq ToSet(stored)
    BY <2>4, <2>5
  <2>10. ToSet(batch) = {}
    BY <2>6 DEF ToSet
  <2>11. 1..logged \subseteq ToSet(stored)
    BY <2>8, <2>9, <2>10 DEF SenderInv, NothingLost, InTopic
  <2>12. agent' = agent /\ logged' = logged /\ stored' = stored
    BY <1>1 DEF logger
  <2> QED
    BY <2>5, <2>11, <2>12
<1>2. ASSUME NEW n \in Nodes,
             \/ Consume(n) \/ AppendExecutionLogs(n) \/ FindByID(n)
             \/ Reassign(n) \/ UNCHANGED <<agent, logger, decision>>
      PROVE  agent' = agent /\ logged' = logged /\ UNCHANGED decision
  BY <1>2 DEF Consume, AppendExecutionLogs, FindByID, Reassign, logger
<1>6. ASSUME NEW n \in Nodes, UpdateState(n)
      PROVE  DecidedInv'
  BY <1>1, <1>6 DEF UpdateState
<1>7. ASSUME NEW n \in Nodes, Fail(n)
      PROVE  DecidedInv'
  <2>1. UNCHANGED <<agent, logger>> /\ ~AtStep(n, "append")
    BY <1>7, CalmSteps DEF Fail, AtStep
  <2>2. CASE UNCHANGED decision
    BY <1>0, <1>2, <2>1, <2>2
  <2>3. CASE AtStep(n, "update") /\ UNCHANGED stored
    BY <1>1, <2>1, <2>3
  <2> QED
    BY <1>7, <2>1, <2>2, <2>3 DEF Fail
<1>3. ASSUME NEW who \in Reporting, Finish(who)
      PROVE  /\ logged' = logged /\ UNCHANGED decision
             /\ agent = "finished" => agent' = "finished"
  BY <1>3 DEF Finish, logger
<1>4. CASE Log \/ Close \/ TakeBatch \/ LastFlush \/ Decide \/ Complete \/ UNCHANGED vars
  BY <1>0, <1>4 DEF Log, Close, TakeBatch, LastFlush, Decide, Complete, vars, logger
<1>5. CASE SendBatch
  BY <1>0, <1>5 DEF SendBatch
<1> QED
  BY <1>0, <1>2, <1>3, <1>4, <1>5, <1>6, <1>7 DEF Next

-----------------------------------------------------------------------------
(* Order, as long as acknowledgements arrive, updates succeed and one node *)
(* reads                                                                   *)

Steady ==
    Without({"ack lost", "append unanswered", "update failed", "reassigned"})

Increasing(s) == \A i, j \in 1..Len(s) : i < j => s[i] < s[j]

Below(s, t) == \A a \in ToSet(s), b \in ToSet(t) : a < b

(* The lines on their way out are in order.                                *)
KeptInOrder ==
    /\ Increasing(batch) /\ Increasing(buffer) /\ Below(batch, buffer)
    /\ \A l \in ToSet(batch) \union ToSet(buffer) : l <= logged

(* A batch that was sent precedes all that is kept; a report has nothing   *)
(* or what is kept.                                                        *)
SentInOrder ==
    \A i \in 1..Len(topic) :
        IF topic[i].id = FinishedID
        THEN agent \in {"closed", "finished"} /\ topic[i].lines \in {<<>>, buffer}
        ELSE /\ topic[i].id <= sequence /\ Increasing(topic[i].lines)
             /\ Below(topic[i].lines, batch) /\ Below(topic[i].lines, buffer)
             /\ \A l \in ToSet(topic[i].lines) : l <= logged

(* Among batches, the earlier precedes the later or is a copy of it; no    *)
(* batch comes after a report.                                             *)
BatchesInOrder ==
    \A i, j \in 1..Len(topic) :
        i < j /\ topic[j].id # FinishedID =>
           /\ topic[i].id # FinishedID
           /\ topic[i].id = topic[j].id \/ Below(topic[i].lines, topic[j].lines)

OrderInv == KeptInOrder /\ SentInOrder /\ BatchesInOrder

(* The reader is at the last message read, and remembers it.               *)
AtLastRead ==
    doing[reader].step # "none" =>
        /\ offset >= 1 /\ topic[offset].id = doing[reader].id
        /\ doing[reader].id \in processed[reader]
        /\ doing[reader].step = "append" =>
              doing[reader].lines = topic[offset].lines

(* A line is stored because a message was processed, and not the one that  *)
(* is being stored.                                                        *)
StoredByProcessed ==
    \A l \in ToSet(stored) : \E i \in 1..offset :
        /\ l \in ToSet(topic[i].lines) /\ topic[i].id \in processed[reader]
        /\ doing[reader].step = "append" => topic[i].id # doing[reader].id

StoreInv == /\ OneReader /\ AtLastRead /\ StoredByProcessed
            /\ Increasing(stored)

(* Two sequences in order, one below the other, make one in order.         *)
LEMMA IncreasingConcat ==
    ASSUME NEW s \in Seq(Nat), NEW t \in Seq(Nat),
           Increasing(s), Increasing(t), Below(s, t)
    PROVE  Increasing(s \o t)
<1>1. /\ Len(s) \in Nat /\ Len(t) \in Nat
      /\ Len(s \o t) = Len(s) + Len(t)
      /\ \A i \in 1..(Len(s) + Len(t)) :
            (s \o t)[i] = IF i <= Len(s) THEN s[i] ELSE t[i - Len(s)]
  BY ConcatProperties, LenProperties
<1>2. /\ \A i \in 1..Len(s) : s[i] \in ToSet(s)
      /\ \A i \in 1..Len(t) : t[i] \in ToSet(t)
  BY LenProperties DEF ToSet
<1> SUFFICES ASSUME NEW i \in 1..(Len(s) + Len(t)),
                    NEW j \in 1..(Len(s) + Len(t)), i < j
             PROVE  (s \o t)[i] < (s \o t)[j]
  BY <1>1 DEF Increasing
<1>3. CASE j <= Len(s)
  BY <1>1, <1>3 DEF Increasing
<1>4. CASE i <= Len(s) /\ j > Len(s)
  <2>1. j - Len(s) \in 1..Len(t)
    BY <1>1, <1>4
  <2>2. (s \o t)[i] = s[i] /\ s[i] \in ToSet(s)
    BY <1>1, <1>2, <1>4
  <2>3. (s \o t)[j] = t[j - Len(s)]
    BY <1>1, <1>4
  <2>4. t[j - Len(s)] \in ToSet(t)
    BY <1>2, <2>1
  <2>5. s[i] < t[j - Len(s)]
    BY <2>2, <2>4 DEF Below
  <2> QED
    BY <2>2, <2>3, <2>5
<1>5. CASE i > Len(s)
  <2>1. i - Len(s) \in 1..Len(t) /\ j - Len(s) \in 1..Len(t)
        /\ i - Len(s) < j - Len(s)
    BY <1>1, <1>5
  <2>2. (s \o t)[i] = t[i - Len(s)] /\ (s \o t)[j] = t[j - Len(s)]
    BY <1>1, <1>5
  <2>3. t[i - Len(s)] < t[j - Len(s)]
    BY <2>1 DEF Increasing
  <2> QED
    BY <2>2, <2>3
<1> QED
  BY <1>1, <1>3, <1>4, <1>5

(* A line that comes last is above the others.                             *)
LEMMA IncreasingAppend ==
    ASSUME NEW s \in Seq(Nat), NEW e \in Nat, Increasing(s),
           \A l \in ToSet(s) : l < e
    PROVE  Increasing(Append(s, e))
<1>1. <<e>> \in Seq(Nat) /\ Append(s, e) = s \o <<e>>
  BY AppendIsConcat
<1>2. Increasing(<<e>>)
  BY DEF Increasing
<1>3. ToSet(<<e>>) = {e}
  BY DEF ToSet
<1>4. Below(s, <<e>>)
  BY <1>3 DEF Below
<1> QED
  BY <1>1, <1>2, <1>4, IncreasingConcat

(* No lines are in any order.                                              *)
LEMMA EmptyInOrder ==
    Increasing(<<>>) /\ \A s : Below(<<>>, s) /\ Below(s, <<>>)
<1>1. ToSet(<<>>) = {}
  BY DEF ToSet
<1> QED
  BY <1>1 DEF Increasing, Below

(* Steps after which all is steady.                                        *)
LEMMA SteadySteps ==
    ASSUME [Next]_vars, Steady'
    PROVE  /\ Steady
           /\ SendBatch =>
                 \/ Sent(Message(sequence + 1, batch)) /\ UNCHANGED buffer
                       /\ sequence' = sequence + 1
                 \/ UNCHANGED <<topic, sequence>> /\ PutBack
           /\ \A n \in Nodes : Fail(n) => doing[n].step = "append"
                                           /\ UNCHANGED <<stored, decision>>
           /\ \A n \in Nodes : ~Reassign(n)
<1>1. ASSUME NEW what \in {"ack lost", "append unanswered", "update failed",
                           "reassigned"}
      PROVE  ~Mishap(what)
  BY <1>1 DEF Steady, Without, Mishap
<1>2. Steady
  BY MishapsGrow DEF Steady, Without
<1>3. SendBatch =>
         \/ Sent(Message(sequence + 1, batch)) /\ UNCHANGED buffer
               /\ sequence' = sequence + 1
         \/ UNCHANGED <<topic, sequence>> /\ PutBack
  BY <1>1 DEF SendBatch
<1>4. \A n \in Nodes : Fail(n) => doing[n].step = "append"
                                 /\ UNCHANGED <<stored, decision>>
  BY <1>1 DEF Fail
<1>5. \A n \in Nodes : ~Reassign(n)
  BY <1>1 DEF Reassign
<1> QED
  BY <1>2, <1>3, <1>4, <1>5

(* The lines on their way out stay in order.                               *)
LEMMA KeptInOrderStays ==
    ASSUME TypeOK, ClosedHasNoBatch, KeptInOrder, [Next]_vars, Steady'
    PROVE  KeptInOrder'
<1>0. LoggerTypes
  BY TypesByPart
<1>e. ToSet(<<>>) = {}
  BY DEF ToSet
<1> USE DEF KeptInOrder
<1>1. CASE Log
  <2>1. logged \in Nat /\ logged' = logged + 1 /\ batch' = batch
        /\ buffer' = Append(buffer, logged + 1)
        /\ buffer \in Seq(Nat) /\ batch \in Seq(Nat)
    BY <1>0, <1>1 DEF Log, LoggerTypes
  <2>2. PICK e \in Nat : e = logged + 1
    BY <2>1
  <2>3. \A l \in ToSet(buffer) \union ToSet(batch) : l \in Nat /\ l < e
    <3>1. ToSet(buffer) \subseteq Nat /\ ToSet(batch) \subseteq Nat
      BY <2>1 DEF ToSet
    <3> QED
      BY <2>1, <2>2, <3>1
  <2>4. ToSet(buffer') = ToSet(buffer) \union {e}
    BY <2>1, <2>2, SetOfAppend
  <2>5. Increasing(Append(buffer, e))
    BY <2>1, <2>3, IncreasingAppend
  <2>6. Below(batch', buffer')
    BY <2>1, <2>3, <2>4 DEF Below
  <2>7. \A l \in ToSet(batch') \union ToSet(buffer') : l <= logged'
    BY <2>1, <2>2, <2>3, <2>4
  <2> QED
    BY <2>1, <2>2, <2>5, <2>6, <2>7
<1>2. CASE TakeBatch \/ LastFlush
  <2>1. batch' = buffer /\ buffer' = <<>> /\ logged' = logged
    BY <1>2 DEF TakeBatch, LastFlush
  <2> QED
    BY <1>e, <2>1, EmptyInOrder
<1>3. CASE SendBatch
  <2>1. batch' = <<>> /\ logged' = logged
    BY <1>3 DEF SendBatch
  <2>2. CASE UNCHANGED buffer
    BY <1>e, <2>1, <2>2, EmptyInOrder
  <2>3. CASE PutBack
    <3>1. ToSet(batch \o buffer) = ToSet(batch) \union ToSet(buffer)
      BY <1>0, SetOfConcat DEF LoggerTypes
    <3>2. Increasing(batch \o buffer)
      BY <1>0, IncreasingConcat DEF LoggerTypes
    <3> QED
      BY <1>e, <2>1, <2>3, <3>1, <3>2, EmptyInOrder DEF PutBack
  <2> QED
    BY <1>3, <2>2, <2>3, SteadySteps
<1>4. CASE UNCHANGED logger
  BY <1>4 DEF logger
<1>5. ASSUME NEW who \in Reporting, Finish(who)
      PROVE  UNCHANGED logger
  BY <1>5 DEF Finish
<1>6. ASSUME NEW n \in Nodes,
             \/ Consume(n) \/ AppendExecutionLogs(n) \/ FindByID(n)
             \/ UpdateState(n) \/ Fail(n) \/ Reassign(n)
      PROVE  UNCHANGED logger
  BY <1>6 DEF Consume, AppendExecutionLogs, FindByID, UpdateState, Fail, Reassign
<1>7. ASSUME Close \/ Decide \/ Complete \/ UNCHANGED vars
      PROVE  UNCHANGED logger
  BY <1>7 DEF Close, Decide, Complete, vars, logger
<1> QED
  BY <1>1, <1>2, <1>3, <1>4, <1>5, <1>6, <1>7 DEF Next

(* What SentInOrder says of one message.                                    *)
Ordered(m) ==
    IF m.id = FinishedID
    THEN agent \in {"closed", "finished"} /\ m.lines \in {<<>>, buffer}
    ELSE /\ m.id <= sequence /\ Increasing(m.lines)
         /\ Below(m.lines, batch) /\ Below(m.lines, buffer)
         /\ \A l \in ToSet(m.lines) : l <= logged

(* What is sent stays in order with what is kept.                          *)
LEMMA SentInOrderStays ==
    ASSUME TypeOK, ClosedHasNoBatch, OrderInv, [Next]_vars, Steady'
    PROVE  SentInOrder' /\ BatchesInOrder'
<1>0. LoggerTypes /\ topic \in Seq(Messages) /\ topic' \in Seq(Messages)
      /\ Len(topic) \in Nat /\ Len(topic') \in Nat
  BY TypesByPart, TopicTypesStay, TopicLengths DEF TopicTypes
<1>e. ToSet(<<>>) = {}
  BY DEF ToSet
<1>i. \A i \in 1..Len(topic) :
         /\ topic[i].id \in Nat /\ topic[i].lines \in Seq(Nat)
         /\ ToSet(topic[i].lines) \subseteq Nat
  <2>1. \A i \in 1..Len(topic) : topic[i].id \in Nat /\ topic[i].lines \in Seq(Nat)
    BY <1>0, MessageParts
  <2> QED
    BY <2>1 DEF ToSet
<1>a. \A i \in 1..Len(topic) : Ordered(topic[i])
  BY DEF OrderInv, SentInOrder, Ordered
<1>1. ASSUME topic' = topic, sequence' = sequence,
             logged' \in Nat, logged' >= logged,
             \/ /\ agent \notin {"closed", "finished"}
                /\ \A i \in 1..Len(topic) : topic[i].id # FinishedID =>
                      /\ Below(topic[i].lines, batch')
                      /\ Below(topic[i].lines, buffer')
             \/ /\ UNCHANGED <<batch, buffer>>
                /\ agent \in {"closed", "finished"} =>
                      agent' \in {"closed", "finished"}
      PROVE  SentInOrder' /\ BatchesInOrder'
  <2>1. logged \in Nat
    BY <1>0 DEF LoggerTypes
  <2>2. ASSUME NEW i \in 1..Len(topic), NEW l \in ToSet(topic[i].lines), l <= logged
        PROVE  l <= logged'
    <3>1. l \in Nat
      BY <1>i
    <3> QED
      BY <1>1, <2>1, <2>2, <3>1
  <2>3. SentInOrder'
    BY <1>1, <2>2 DEF OrderInv, SentInOrder
  <2> QED
    BY <1>1, <2>3 DEF OrderInv, BatchesInOrder
<1>2. CASE Log
  <2>1. /\ topic' = topic /\ sequence' = sequence /\ batch' = batch
        /\ logged' = logged + 1 /\ logged \in Nat
        /\ agent = "running" /\ buffer' = Append(buffer, logged + 1)
    BY <1>0, <1>2 DEF Log, messages, LoggerTypes
  <2>2. PICK e \in Nat : e = logged + 1
    BY <2>1
  <2>3. ToSet(buffer') = ToSet(buffer) \union {e}
    BY <1>0, <2>1, <2>2, SetOfAppend DEF LoggerTypes
  <2>4. ASSUME NEW i \in 1..Len(topic), topic[i].id # FinishedID
        PROVE  Below(topic[i].lines, batch') /\ Below(topic[i].lines, buffer')
    <3>1. /\ Below(topic[i].lines, batch) /\ Below(topic[i].lines, buffer)
          /\ \A l \in ToSet(topic[i].lines) : l <= logged /\ l \in Nat
      BY <1>i, <2>4 DEF OrderInv, SentInOrder
    <3>2. \A l \in ToSet(topic[i].lines) : l < e
      BY <2>1, <2>2, <3>1
    <3> QED
      BY <2>1, <2>3, <3>1, <3>2 DEF Below
  <2> QED
    BY <1>1, <2>1, <2>4
<1>3. CASE TakeBatch \/ LastFlush
  <2>1. /\ topic' = topic /\ sequence' = sequence /\ batch' = buffer
        /\ buffer' = <<>> /\ logged' = logged
        /\ agent \notin {"closed", "finished"}
    BY <1>3 DEF TakeBatch, LastFlush, messages
  <2>2. logged \in Nat
    BY <1>0 DEF LoggerTypes
  <2>3. \A i \in 1..Len(topic) : topic[i].id # FinishedID =>
           Below(topic[i].lines, batch') /\ Below(topic[i].lines, buffer')
    BY <2>1, EmptyInOrder DEF OrderInv, SentInOrder
  <2> QED
    BY <1>1, <2>1, <2>2, <2>3
<1>4. CASE SendBatch
  <2>1. /\ batch' = <<>> /\ logged' = logged /\ logged \in Nat
        /\ agent \notin {"closed", "finished"}
    BY <1>0, <1>4 DEF SendBatch, ClosedHasNoBatch, LoggerTypes
  <2>2. CASE UNCHANGED <<topic, sequence>> /\ PutBack
    <3>1. ToSet(buffer') = ToSet(batch) \union ToSet(buffer)
      BY <1>0, <2>2, SetOfConcat DEF PutBack, LoggerTypes
    <3>2. \A i \in 1..Len(topic) : topic[i].id # FinishedID =>
             Below(topic[i].lines, batch') /\ Below(topic[i].lines, buffer')
      BY <2>1, <3>1, EmptyInOrder DEF OrderInv, SentInOrder, Below
    <3> QED
      BY <1>1, <2>1, <2>2, <3>2
  <2>3. CASE /\ Sent(Message(sequence + 1, batch)) /\ UNCHANGED buffer
             /\ sequence' = sequence + 1
    <3>1. PICK m \in Messages : m = Message(sequence + 1, batch)
      BY <1>0, SentIsMessage
    <3>2. m.id = sequence + 1 /\ m.lines = batch /\ m.id # FinishedID
          /\ sequence \in Nat
      BY <1>0, <3>1, MessageParts DEF LoggerTypes, FinishedID
    <3>3. \A i \in 1..Len(topic') :
             \/ i \in 1..Len(topic) /\ topic'[i] = topic[i]
             \/ i > Len(topic) /\ topic'[i] = m
      BY <1>0, <2>3, <3>1, TopicGrows
    <3>4. \A i \in 1..Len(topic) : topic[i].id # FinishedID
      BY <2>1 DEF OrderInv, SentInOrder
    <3>5. Ordered(m)'
      BY <2>1, <2>3, <3>2, EmptyInOrder DEF OrderInv, KeptInOrder, Ordered
    <3>6. ASSUME NEW i \in 1..Len(topic)
          PROVE  /\ topic[i].id # FinishedID /\ topic[i].id <= sequence'
                 /\ Increasing(topic[i].lines)
                 /\ Below(topic[i].lines, batch') /\ Below(topic[i].lines, buffer')
                 /\ \A l \in ToSet(topic[i].lines) : l <= logged'
      <4>1. /\ topic[i].id # FinishedID /\ topic[i].id <= sequence
            /\ topic[i].id \in Nat
            /\ Increasing(topic[i].lines) /\ Below(topic[i].lines, buffer)
            /\ \A l \in ToSet(topic[i].lines) : l <= logged
        BY <1>i, <3>4 DEF OrderInv, SentInOrder
      <4> QED
        BY <2>1, <2>3, <3>2, <4>1, EmptyInOrder
    <3>7. SentInOrder'
      <4> SUFFICES ASSUME NEW i \in 1..Len(topic')
                   PROVE  /\ topic'[i].id # FinishedID
                          /\ topic'[i].id <= sequence'
                          /\ Increasing(topic'[i].lines)
                          /\ Below(topic'[i].lines, batch')
                          /\ Below(topic'[i].lines, buffer')
                          /\ \A l \in ToSet(topic'[i].lines) : l <= logged'
        BY DEF SentInOrder
      <4>1. /\ m.id # FinishedID /\ m.id <= sequence' /\ Increasing(m.lines)
            /\ Below(m.lines, batch') /\ Below(m.lines, buffer')
            /\ \A l \in ToSet(m.lines) : l <= logged'
        BY <3>2, <3>5 DEF Ordered
      <4> QED
        BY <3>3, <3>6, <4>1
    <3>8. \A i \in 1..Len(topic) : Below(topic[i].lines, m.lines)
      BY <3>2, <3>4 DEF OrderInv, SentInOrder
    <3>9. BatchesInOrder'
      BY <1>0, <3>2, <3>3, <3>4, <3>8 DEF OrderInv, BatchesInOrder
    <3> QED
      BY <3>7, <3>9
  <2> QED
    BY <1>4, <2>2, <2>3, SteadySteps
<1>5. ASSUME NEW who \in Reporting, Finish(who)
      PROVE  SentInOrder' /\ BatchesInOrder'
  <2>1. /\ UNCHANGED logger /\ logged \in Nat
        /\ agent \in {"closed", "finished"} /\ agent' \in {"closed", "finished"}
        /\ Pending(who) \in {<<>>, buffer}
    BY <1>0, <1>5 DEF Finish, Pending, LoggerTypes
  <2>2. CASE UNCHANGED topic
    BY <1>1, <2>1, <2>2 DEF logger
  <2>3. CASE Sent(Message(FinishedID, Pending(who)))
    <3>1. PICK m \in Messages : m = Message(FinishedID, Pending(who))
      BY <1>0, SentIsMessage
    <3>2. m.id = FinishedID /\ m.lines \in {<<>>, buffer}
      <4>1. m.id = FinishedID /\ m.lines = Pending(who)
        BY <3>1 DEF Message
      <4> QED
        BY <2>1, <4>1
    <3>3. \A i \in 1..Len(topic') :
             \/ i \in 1..Len(topic) /\ topic'[i] = topic[i]
             \/ i > Len(topic) /\ topic'[i] = m
      BY <1>0, <2>3, <3>1, TopicGrows
    <3>4. SentInOrder'
      BY <2>1, <3>2, <3>3 DEF OrderInv, SentInOrder, logger
    <3>5. BatchesInOrder'
      BY <1>0, <3>2, <3>3 DEF OrderInv, BatchesInOrder
    <3> QED
      BY <3>4, <3>5
  <2> QED
    BY <1>5, <2>2, <2>3 DEF Finish
<1>6. ASSUME NEW n \in Nodes,
             \/ Consume(n) \/ AppendExecutionLogs(n) \/ FindByID(n)
             \/ UpdateState(n) \/ Fail(n) \/ Reassign(n)
      PROVE  UNCHANGED <<logger, topic, agent>>
  BY <1>6 DEF Consume, AppendExecutionLogs, FindByID, UpdateState, Fail,
              Reassign, messages
<1>7. ASSUME Decide \/ Complete \/ UNCHANGED vars
      PROVE  UNCHANGED <<logger, topic, agent>>
  BY <1>7 DEF Decide, Complete, vars, logger, messages
<1>8. CASE UNCHANGED <<logger, topic, agent>>
  BY <1>0, <1>1, <1>8 DEF logger, LoggerTypes
<1>9. CASE Close
  BY <1>0, <1>1, <1>9 DEF Close, logger, messages, LoggerTypes
<1> QED
  BY <1>2, <1>3, <1>4, <1>5, <1>6, <1>7, <1>8, <1>9 DEF Next

(* What is being stored follows on what is stored.                         *)
LEMMA ComingFollows ==
    ASSUME TypeOK, OrderInv, StoreInv, doing[reader].step = "append"
    PROVE  Below(stored, doing[reader].lines) /\ Increasing(doing[reader].lines)
<1>0. /\ topic \in Seq(Messages) /\ Len(topic) \in Nat
      /\ offset \in 0..Len(topic) /\ reader \in Nodes
  BY TypesByPart DEF TopicTypes
<1>1. /\ offset \in 1..Len(topic) /\ topic[offset].id = doing[reader].id
      /\ topic[offset].lines = doing[reader].lines
  BY <1>0 DEF StoreInv, AtLastRead
<1>2. PICK m : m = topic[offset]
  OBVIOUS
<1>3. m.id = FinishedID => m.lines \in {<<>>, buffer}
  BY <1>1, <1>2 DEF OrderInv, SentInOrder
<1>4. Increasing(m.lines)
  <2>1. m.id # FinishedID => Increasing(m.lines)
    BY <1>1, <1>2 DEF OrderInv, SentInOrder
  <2> QED
    BY <1>3, <2>1, EmptyInOrder DEF OrderInv, KeptInOrder
<1>5. ASSUME NEW l \in ToSet(stored), NEW b \in ToSet(m.lines)
      PROVE  l < b
  <2>1. PICK i \in 1..offset : l \in ToSet(topic[i].lines) /\ topic[i].id # m.id
    BY <1>1, <1>2, <1>5 DEF StoreInv, StoredByProcessed
  <2>2. i \in 1..Len(topic) /\ i < offset
    BY <1>0, <1>2, <2>1
  <2>3. Below(topic[i].lines, m.lines)
    <3>1. CASE m.id # FinishedID
      BY <1>1, <1>2, <2>1, <2>2, <3>1 DEF OrderInv, BatchesInOrder
    <3>2. CASE m.id = FinishedID
      <4>1. Below(topic[i].lines, buffer)
        BY <2>1, <2>2, <3>2 DEF OrderInv, SentInOrder
      <4> QED
        BY <1>3, <3>2, <4>1, EmptyInOrder
    <3> QED
      BY <3>1, <3>2
  <2> QED
    BY <1>5, <2>1, <2>3 DEF Below
<1> QED
  BY <1>1, <1>2, <1>4, <1>5 DEF Below

(* The store stays in order, and what is in it remembered.                 *)
LEMMA StoreInvStays ==
    ASSUME TypeOK, DoingIsRead, OrderInv, StoreInv, [Next]_vars, Steady'
    PROVE  StoreInv'
<1>0. /\ topic \in Seq(Messages) /\ Len(topic) \in Nat /\ Len(topic') \in Nat
      /\ offset \in 0..Len(topic) /\ reader \in Nodes
      /\ HandlerTypes /\ HandlerTypes' /\ stored \in Seq(Nat)
  BY TypesByPart, HandlerTypesStay, TopicLengths DEF TopicTypes, RowTypes
<1> USE DEF StoreInv, OneReader, AtLastRead, StoredByProcessed
<1>1. ASSUME UNCHANGED <<handlers, offset, reader, stored>>
      PROVE  StoreInv'
  <2>1. \A i \in 1..offset : topic'[i] = topic[i]
    BY <1>0, TopicKept
  <2>2. offset >= 1 => topic'[offset] = topic[offset]
    BY <1>0, <2>1
  <2>3. UNCHANGED <<doing, processed, offset, reader, stored>>
    BY <1>1 DEF handlers
  <2>4. AtLastRead'
    BY <2>2, <2>3
  <2>5. StoredByProcessed'
    BY <2>1, <2>3
  <2> QED
    BY <2>3, <2>4, <2>5
<1>2. ASSUME NEW n \in Nodes,
             \/ Consume(n) \/ AppendExecutionLogs(n) \/ FindByID(n)
             \/ UpdateState(n) \/ Fail(n)
      PROVE  /\ n = reader /\ reader' = reader /\ topic' = topic
             /\ \A k \in Nodes : k # reader => doing'[k] = doing[k]
  <2>1. n = reader
    BY <1>2 DEF Consume, AppendExecutionLogs, FindByID, UpdateState, Fail, AtStep
  <2>2. reader' = reader /\ topic' = topic
    BY <1>2 DEF Consume, AppendExecutionLogs, FindByID, UpdateState, Fail,
                messages
  <2>3. \A k \in Nodes : k # n => doing'[k] = doing[k]
    BY <1>0, <1>2
       DEF Consume, AppendExecutionLogs, FindByID, UpdateState, Fail, Done,
           HandlerTypes, handlers
  <2> QED
    BY <2>1, <2>2, <2>3
<1>3. ASSUME NEW n \in Nodes, Consume(n)
      PROVE  StoreInv'
  <2>1. /\ n = reader /\ reader' = reader /\ topic' = topic /\ OneReader'
    BY <1>2, <1>3
  <2>2. /\ offset' = offset + 1 /\ stored' = stored /\ doing[n].step = "none"
        /\ offset + 1 \in 1..Len(topic)
    BY <1>0, <1>3 DEF Consume
  <2>3. PICK m \in Messages : m = topic[offset + 1]
    BY <1>0, <2>2
  <2>4. \A l \in ToSet(stored) : \E i \in 1..offset :
           l \in ToSet(topic[i].lines) /\ topic[i].id \in processed[n]
    BY <2>1
  <2>5. \A i \in 1..offset : i \in 1..offset'
    BY <1>0, <2>2
  <2>6. CASE Refused(n, m.id)
    <3>1. doing' = doing /\ processed' = processed
      BY <1>3, <2>3, <2>6 DEF Consume, handlers
    <3>2. AtLastRead'
      BY <2>1, <2>2, <3>1
    <3>3. StoredByProcessed'
      BY <2>1, <2>2, <2>4, <2>5, <3>1
    <3> QED
      BY <2>1, <2>2, <3>2, <3>3
  <2>7. CASE ~Refused(n, m.id)
    <3>1. /\ doing'[n] = [step |-> Steps(m), id |-> m.id, lines |-> m.lines]
          /\ processed'[n] = processed[n] \union {m.id}
      BY <1>0, <1>3, <2>3, <2>7 DEF Consume, HandlerTypes
    <3>2. doing'[n].id = m.id /\ doing'[n].lines = m.lines
      BY <3>1
    <3>3. AtLastRead'
      BY <1>0, <2>1, <2>2, <2>3, <3>1, <3>2
    <3>4. \A i \in 1..offset : topic[i].id \in processed[n] =>
             topic[i].id \in processed'[n] /\ topic[i].id # m.id
      BY <2>7, <3>1 DEF Refused
    <3>5. StoredByProcessed'
      BY <2>1, <2>2, <2>4, <2>5, <3>2, <3>4
    <3> QED
      BY <2>1, <2>2, <3>3, <3>5
  <2> QED
    BY <2>6, <2>7
<1>4. ASSUME NEW n \in Nodes, AppendExecutionLogs(n)
      PROVE  StoreInv'
  <2>1. /\ n = reader /\ reader' = reader /\ topic' = topic /\ OneReader'
    BY <1>2, <1>4
  <2>2. /\ offset' = offset /\ stored' = stored \o doing[n].lines
        /\ processed' = processed /\ doing[n].step = "append"
    BY <1>4 DEF AppendExecutionLogs, AtStep, messages
  <2>3. doing[n].lines \in Seq(Nat)
    BY <1>0, HandlingParts DEF HandlerTypes
  <2>4. ToSet(stored') = ToSet(stored) \union ToSet(doing[n].lines)
    BY <1>0, <2>2, <2>3, SetOfConcat
  <2>5. Increasing(stored')
    <3>1. Increasing(stored \o doing[n].lines)
      BY <1>0, <2>1, <2>2, <2>3, ComingFollows, IncreasingConcat
    <3> QED
      BY <2>2, <3>1
  <2>6. /\ doing'[n].step # "append"
        /\ doing'[n].step # "none" => doing'[n].id = doing[n].id
    <3>1. doing[n] \in Handling
      BY <1>0 DEF HandlerTypes
    <3>2. \/ doing'[n] = Resting
          \/ doing'[n] = [doing[n] EXCEPT !.step = "find"]
      BY <1>0, <1>4 DEF AppendExecutionLogs, Done, HandlerTypes
    <3>3. PICK d \in Handling : d = doing[n]
      BY <3>1
    <3>4. /\ [d EXCEPT !.step = "find"].step = "find"
          /\ [d EXCEPT !.step = "find"].id = d.id
      BY <3>3, HandlingParts
    <3> QED
      BY <3>2, <3>3, <3>4, RestingType
  <2>7. AtLastRead'
    BY <2>1, <2>2, <2>6
  <2>8. /\ offset \in 1..offset /\ doing[n].lines = topic[offset].lines
        /\ topic[offset].id \in processed[n]
    BY <1>0, <2>1, <2>2
  <2>9. StoredByProcessed'
    BY <2>1, <2>2, <2>4, <2>6, <2>8
  <2> QED
    BY <2>1, <2>5, <2>7, <2>9
<1>5. ASSUME NEW n \in Nodes, FindByID(n) \/ UpdateState(n)
      PROVE  StoreInv'
  <2>1. /\ n = reader /\ reader' = reader /\ topic' = topic /\ OneReader'
    BY <1>2, <1>5
  <2>2. /\ offset' = offset /\ stored' = stored /\ processed' = processed
        /\ doing[n].step \in {"find", "update"}
    BY <1>5 DEF FindByID, UpdateState, AtStep, messages
  <2>3. /\ doing'[n].step # "append"
        /\ doing'[n].step # "none" => doing'[n].id = doing[n].id
    <3>1. doing[n] \in Handling
      BY <1>0 DEF HandlerTypes
    <3>2. \/ doing'[n] = Resting
          \/ doing'[n] = [doing[n] EXCEPT !.step = "update"]
      BY <1>0, <1>5 DEF FindByID, UpdateState, Done, HandlerTypes
    <3>3. PICK d \in Handling : d = doing[n]
      BY <3>1
    <3>4. /\ [d EXCEPT !.step = "update"].step = "update"
          /\ [d EXCEPT !.step = "update"].id = d.id
      BY <3>3, HandlingParts
    <3> QED
      BY <3>2, <3>3, <3>4, RestingType
  <2>4. AtLastRead'
    BY <2>1, <2>2, <2>3
  <2>5. StoredByProcessed'
    BY <2>1, <2>2, <2>3
  <2> QED
    BY <2>1, <2>2, <2>4, <2>5
<1>6. ASSUME NEW n \in Nodes, Fail(n)
      PROVE  StoreInv'
  <2>1. /\ n = reader /\ reader' = reader /\ topic' = topic /\ OneReader'
    BY <1>2, <1>6, RestingType
  <2>2. /\ offset' = offset /\ stored' = stored /\ doing[n].step = "append"
        /\ processed'[n] = processed[n] \ {doing[n].id}
    BY <1>0, <1>6, SteadySteps DEF Fail, Forget, HandlerTypes, messages
  <2>3. doing'[n].step = "none"
    BY <1>0, <1>6, RestingType DEF Fail, Done, HandlerTypes
  <2>4. StoredByProcessed'
    BY <2>1, <2>2, <2>3
  <2> QED
    BY <2>1, <2>2, <2>3, <2>4
<1>7. ASSUME NEW n \in Nodes
      PROVE  ~Reassign(n)
  BY SteadySteps
<1>8. ASSUME NEW who \in Reporting, Finish(who)
      PROVE  StoreInv'
  BY <1>1, <1>8 DEF Finish
<1>9. CASE Log \/ TakeBatch \/ SendBatch \/ Close \/ LastFlush \/ Decide
           \/ Complete \/ UNCHANGED vars
  BY <1>1, <1>9
     DEF Log, TakeBatch, SendBatch, Close, LastFlush, Decide, Complete, vars, handlers,
         messages
<1> QED
  BY <1>3, <1>4, <1>5, <1>6, <1>7, <1>8, <1>9 DEF Next

-----------------------------------------------------------------------------
CalmInv == Calm => SenderInv /\ ReaderInv /\ DecidedInv

SteadyInv == Steady => OrderInv /\ StoreInv

ResultInv == /\ TypeOK /\ DoingIsRead /\ RememberedIsDone
             /\ ClosedHasNoBatch /\ CalmInv /\ SteadyInv

(* The invariant holds at first and every step keeps it.                   *)
LEMMA ResultInvHolds == Spec => []ResultInv
<1>1. Init => ResultInv
  <2> SUFFICES ASSUME Init PROVE ResultInv
    OBVIOUS
  <2>1. TypeOK
    <3>1. doing \in [Nodes -> Handling] /\ processed \in [Nodes -> SUBSET Nat]
      BY RestingType DEF Init
    <3>2. LoggerTypes /\ TopicTypes /\ RowTypes
      BY DEF Init, LoggerTypes, TopicTypes, RowTypes
    <3> QED
      BY <3>1, <3>2, TypesByPart DEF HandlerTypes
  <2>2. \A n \in Nodes : doing[n].step = "none" /\ processed[n] = {}
    BY RestingType DEF Init
  <2>3. DoingIsRead /\ RememberedIsDone /\ ClosedHasNoBatch
    BY <2>2 DEF Init, DoingIsRead, HasRead, RememberedIsDone, ClosedHasNoBatch
  <2>4. NothingLost /\ ReportIsLast /\ CopiesAreEqual /\ DecidedInv
    BY DEF Init, NothingLost, ReportIsLast, CopiesAreEqual, DecidedInv
  <2>5. ReaderInv
    BY <2>2 DEF Init, ReaderInv, OneReader, ReadIsStored, RememberedIsRead,
                ReportIsRead
  <2>6. /\ topic = <<>> /\ buffer = <<>> /\ batch = <<>> /\ stored = <<>>
        /\ ToSet(<<>>) = {}
    BY DEF Init, ToSet
  <2>7. OrderInv
    BY <2>6, EmptyInOrder
       DEF OrderInv, KeptInOrder, SentInOrder, BatchesInOrder
  <2>8. StoreInv
    BY <2>2, <2>5, <2>6, EmptyInOrder
       DEF Init, ReaderInv, StoreInv, AtLastRead, StoredByProcessed
  <2> QED
    BY <2>1, <2>3, <2>4, <2>5, <2>7, <2>8
       DEF ResultInv, CalmInv, SteadyInv, SenderInv
<1>2. ResultInv /\ [Next]_vars => ResultInv'
  <2> SUFFICES ASSUME ResultInv, [Next]_vars PROVE ResultInv'
    OBVIOUS
  <2>1. TypeOK /\ DoingIsRead /\ RememberedIsDone /\ ClosedHasNoBatch
    BY DEF ResultInv
  <2>2. TypeOK' /\ DoingIsRead' /\ RememberedIsDone' /\ ClosedHasNoBatch'
    BY <2>1, ResultTypesStay, DoingIsReadStays, RememberedStays,
       ClosedHasNoBatchStays
  <2>3. ASSUME Calm'
        PROVE  SenderInv' /\ ReaderInv' /\ DecidedInv'
    <3>1. SenderInv /\ ReaderInv /\ DecidedInv
      BY <2>3, CalmSteps DEF ResultInv, CalmInv
    <3>2. NothingLost /\ ReportIsLast /\ CopiesAreEqual
      BY <3>1 DEF SenderInv
    <3>3. NothingLost'
      BY <2>1, <2>3, <3>2, NothingLostStays
    <3>4. ReportIsLast' /\ CopiesAreEqual'
      BY <2>1, <2>3, <3>2, ReportIsLastStays
    <3>5. ReaderInv'
      BY <2>1, <2>3, <3>1, <3>2, ReaderInvStays
    <3>6. DecidedInv'
      BY <2>1, <2>3, <3>1, DecidedInvStays
    <3> QED
      BY <2>2, <3>3, <3>4, <3>5, <3>6 DEF SenderInv
  <2>4. ASSUME Steady'
        PROVE  OrderInv' /\ StoreInv'
    <3>1. OrderInv /\ StoreInv
      BY <2>4, SteadySteps DEF ResultInv, SteadyInv
    <3>2. KeptInOrder'
      BY <2>1, <2>4, <3>1, KeptInOrderStays DEF OrderInv
    <3>3. SentInOrder' /\ BatchesInOrder'
      BY <2>1, <2>4, <3>1, SentInOrderStays
    <3>4. StoreInv'
      BY <2>1, <2>4, <3>1, StoreInvStays
    <3> QED
      BY <3>2, <3>3, <3>4 DEF OrderInv
  <2> QED
    BY <2>2, <2>3, <2>4 DEF ResultInv, CalmInv, SteadyInv
<1> QED
  BY <1>1, <1>2, PTL DEF Spec

(* The variables of logger, topic, nodes and row keep their types.         *)
THEOREM ResultTypeOK == Spec => []TypeOK
<1>1. ResultInv => TypeOK
  BY DEF ResultInv
<1> QED
  BY <1>1, ResultInvHolds, PTL

(* What any node remembers as processed has had its effect, or is at work, *)
(* whatever goes wrong.                                                    *)
THEOREM ResultRememberedIsDone == Spec => []RememberedIsDone
<1>1. ResultInv => RememberedIsDone
  BY DEF ResultInv
<1> QED
  BY <1>1, ResultInvHolds, PTL

(* An execution that its agent's report has decided has all its lines in   *)
(* the database, however batches were refused, sent again and repeated,    *)
(* and however often the update failed.                                    *)
THEOREM ResultDecidedAfterLines == Spec => []DecidedAfterLines
<1>1. ResultInv => DecidedAfterLines
  BY TypesByPart
     DEF ResultInv, CalmInv, Calm, DecidedInv, DecidedAfterLines, Without, RowTypes
<1> QED
  BY <1>1, ResultInvHolds, PTL

(* While every batch is acknowledged or refused, nobody else is assigned    *)
(* the partition and no update fails, lines are stored in the order they    *)
(* were logged and each once, however often messages are repeated, appends  *)
(* fail and finished commands are delivered again.                          *)
THEOREM ResultInOrderOnce == Spec => []InOrderOnce
<1>1. ResultInv => InOrderOnce
  BY DEF ResultInv, SteadyInv, Steady, StoreInv, Increasing, InOrderOnce
<1> QED
  BY <1>1, ResultInvHolds, PTL

=============================================================================
