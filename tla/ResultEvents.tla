----------------------------- MODULE ResultEvents -----------------------------
(***************************************************************************)
(* The lines a handler logs and the state it ends in, on their way from an *)
(* agent through the topic execution_result_events into the database.      *)
(*                                                                         *)
(* One dispatch: the agent's logger with its buffer, the publisher, the    *)
(* topic (one partition), the scheduler nodes that may be assigned it, each *)
(* with its table of processed events, and the execution's row.            *)
(***************************************************************************)
EXTENDS Integers, SequencesExt

CONSTANTS
    Nodes,     \* scheduler nodes
    MaxLines,  \* bound: lines the handler logs
    MaxTopic,  \* bound: messages in the topic
    MaxMishaps \* bound: times something else than a refusal goes wrong

ASSUME BoundsAssumption == {MaxLines, MaxTopic, MaxMishaps} \subseteq Nat

VARIABLES
    logged,    \* lines logged so far; a line is its number
    buffer,    \* Logger.buffer
    batch,     \* what flush has taken out and is sending
    sequence,  \* kafkaLogSink.sequence
    agent,     \* running, closing, last, closed, finished
    topic,     \* the messages, oldest first
    offset,    \* messages read by the group
    reader,    \* the node that is assigned the partition
    processed, \* EventConsumer.processed of each node
    doing,     \* what each node does with the message it read
    stored,    \* the lines in the database
    row,       \* the execution: open, decided by its agent, or by others
    completion,\* the completion event: none or sent; direct for a preview,
               \* which needs none
    mishaps,   \* ghost: what went wrong so far
    count      \* how often

logger == <<logged, buffer, batch, sequence>>
messages == <<topic, offset, reader>>
handlers == <<processed, doing>>
vars == <<logged, buffer, batch, sequence, agent, topic, offset, reader,
          processed, doing, stored, row, completion, mishaps, count>>

decision == <<row, completion>>
faults == <<mishaps, count>>

(* Event ids: FinishedEventID is 0, LogEventID the sequence number.        *)
FinishedID == 0

Message(id, lines) == [id |-> id, lines |-> lines]

Resting == [step |-> "none", id |-> FinishedID, lines |-> <<>>]

Init ==
    /\ logged = 0 /\ buffer = <<>> /\ batch = <<>> /\ sequence = 0
    /\ agent = "running"
    /\ topic = <<>> /\ offset = 0 /\ reader \in Nodes
    /\ processed = [n \in Nodes |-> {}]
    /\ doing = [n \in Nodes |-> Resting]
    /\ stored = <<>> /\ row = "open" /\ completion \in {"none", "direct"}
    /\ mishaps = {} /\ count = 0

Mishap(what) ==
    /\ count < MaxMishaps
    /\ count' = count + 1
    /\ mishaps' = mishaps \union {what}

-----------------------------------------------------------------------------
(* The agent's logger                                                      *)

Log ==
    /\ agent = "running" /\ logged < MaxLines
    /\ logged' = logged + 1
    /\ buffer' = Append(buffer, logged + 1)
    /\ UNCHANGED <<batch, sequence, agent, messages, handlers, stored, decision,
                   faults>>

(* flush takes the whole buffer; one goroutine flushes.                    *)
TakeBatch ==
    /\ agent \in {"running", "closing"}
    /\ batch = <<>> /\ buffer # <<>>
    /\ batch' = buffer
    /\ buffer' = <<>>
    /\ UNCHANGED <<logged, sequence, agent, messages, handlers, stored,
                   decision, faults>>

(* Close waits for a last flush, after which nothing is sent.              *)
Close ==
    /\ agent = "running"
    /\ agent' = "closing"
    /\ UNCHANGED <<logger, messages, handlers, stored, decision, faults>>

LastFlush ==
    /\ agent = "closing" /\ batch = <<>>
    /\ batch' = buffer
    /\ buffer' = <<>>
    /\ agent' = IF buffer = <<>> THEN "closed" ELSE "last"
    /\ UNCHANGED <<logged, sequence, messages, handlers, stored, decision,
                   faults>>

(* Faulty variant: the batch goes behind what came since.                  *)
PutBack_Behind == buffer' = buffer \o batch

(* A batch that was not accepted goes back before what came meanwhile.     *)
PutBack == buffer' = batch \o buffer

(* The broker may store a message more than once.                          *)
Sent(message) ==
    \E copies \in {<<message>>, <<message, message>>} :
        /\ Len(topic) + Len(copies) <= MaxTopic
        /\ topic' = topic \o copies

(* WriteBatch: the sequence moves on only with an acknowledgement.         *)
SendBatch ==
    /\ batch # <<>>
    /\ batch' = <<>>
    /\ agent' = IF agent = "last" THEN "closed" ELSE agent
    /\ \/ /\ Sent(Message(sequence + 1, batch))           \* acknowledged
          /\ sequence' = sequence + 1
          /\ UNCHANGED <<buffer, faults>>
       \/ /\ UNCHANGED <<topic, sequence, faults>>       \* refused
          /\ PutBack
       \/ /\ Sent(Message(sequence + 1, batch))           \* stored, no answer
          /\ Mishap("ack lost")
          /\ PutBack
          /\ UNCHANGED sequence
    /\ UNCHANGED <<logged, offset, reader, handlers, stored, decision>>

(* A command that was delivered twice waits for the first and then reports *)
(* as well, with the same event id and no lines of its own.                *)
Reporting == {"owner", "repeat"}

(* Faulty variant: the report does not take the lines left over along.     *)
Pending_None(who) == <<>>

Pending(who) == IF who = "owner" THEN buffer ELSE <<>>

Finish(who) ==
    /\ \/ agent = "closed" /\ who = "owner" /\ agent' = "finished"
       \/ /\ agent \in {"closed", "finished"} /\ who = "repeat"
          /\ UNCHANGED agent
    /\ \/ Sent(Message(FinishedID, Pending(who)))
       \/ UNCHANGED topic                                  \* refused
    /\ IF who = "repeat" THEN Mishap("repeat") ELSE UNCHANGED faults
    /\ UNCHANGED <<logger, offset, reader, handlers, stored, decision>>

-----------------------------------------------------------------------------
(* The consumer of one node                                                *)

(* begin: the first to see an event handles it; a repeated one has been    *)
(* handled, as a node handles one message at a time.                       *)
Refused(n, id) == id \in processed[n]

Steps(message) ==
    IF message.id # FinishedID \/ message.lines # <<>> THEN "append" ELSE "find"

Consume(n) ==
    /\ reader = n /\ doing[n].step = "none" /\ offset < Len(topic)
    /\ offset' = offset + 1
    /\ LET message == topic[offset + 1] IN
         IF Refused(n, message.id)
         THEN UNCHANGED handlers
         ELSE /\ processed' = [processed EXCEPT ![n] = @ \union {message.id}]
              /\ doing' = [doing EXCEPT ![n] =
                             [step |-> Steps(message),
                              id |-> message.id, lines |-> message.lines]]
    /\ UNCHANGED <<logger, agent, topic, reader, stored, decision, faults>>

(* Faulty variant: a failed event stays in the table.                      *)
Forget_Never(n) == UNCHANGED processed

(* finish with an error: a repetition may try again.                       *)
Forget(n) == processed' = [processed EXCEPT ![n] = @ \ {doing[n].id}]

AtStep(n, step) == n \in Nodes /\ doing[n].step = step

Done(n) == doing' = [doing EXCEPT ![n] = Resting]

AppendExecutionLogs(n) ==
    /\ AtStep(n, "append")
    /\ stored' = stored \o doing[n].lines
    /\ IF doing[n].id = FinishedID
       THEN doing' = [doing EXCEPT ![n].step = "find"]
       ELSE Done(n)
    /\ UNCHANGED <<logger, agent, messages, processed, decision, faults>>

(* FindByID: a final execution needs no report.                            *)
FindByID(n) ==
    /\ AtStep(n, "find")
    /\ IF row = "open" THEN doing' = [doing EXCEPT ![n].step = "update"]
       ELSE Done(n)
    /\ UNCHANGED <<logger, agent, messages, processed, stored, decision,
                   faults>>

(* A preview is decided at once; for another execution a completion event  *)
(* is produced.  One that is final meanwhile is left alone.                *)
Updated ==
    \/ /\ row # "open"
       /\ UNCHANGED decision
    \/ /\ row = "open" /\ completion = "direct"
       /\ row' = "reported"
       /\ UNCHANGED completion
    \/ /\ row = "open" /\ completion # "direct"
       /\ completion' = "sent"
       /\ UNCHANGED row

UpdateState(n) ==
    /\ AtStep(n, "update")
    /\ Updated
    /\ Done(n)
    /\ UNCHANGED <<logger, agent, messages, processed, stored, faults>>

(* A step reports an error, before or after it took effect, and the        *)
(* message is not read again.                                              *)
Fail(n) ==
    /\ \/ /\ doing[n].step # "none"
          /\ Mishap(IF doing[n].step = "append" THEN "append failed"
                    ELSE "update failed")
          /\ UNCHANGED <<stored, decision>>
       \/ /\ AtStep(n, "append")
          /\ Mishap("append unanswered")
          /\ stored' = stored \o doing[n].lines
          /\ UNCHANGED decision
       \/ /\ AtStep(n, "update")
          /\ Mishap("update failed")
          /\ Updated
          /\ UNCHANGED stored
    /\ Forget(n)
    /\ Done(n)
    /\ UNCHANGED <<logger, agent, messages>>

-----------------------------------------------------------------------------
(* The environment                                                         *)

(* Another node is assigned the partition, and begins behind, or with, the *)
(* last message read.  The old one may still be at work, or have died.     *)
Reassign(n) ==
    /\ Mishap("reassigned")
    /\ reader' = n
    /\ offset' \in 0..offset
    /\ \/ UNCHANGED handlers
       \/ /\ processed' = [processed EXCEPT ![reader] = {}]
          /\ doing' = [doing EXCEPT ![reader] = Resting]
    /\ UNCHANGED <<logger, agent, topic, stored, decision>>

(* A cancellation or a timeout decides the execution.                      *)
Decide ==
    /\ row = "open"
    /\ row' = "other"
    /\ UNCHANGED <<logger, agent, messages, handlers, stored, completion,
                   faults>>

(* The consumer of completion events settles the execution.  An event that *)
(* is lost, or whose handling fails, never gets here.                      *)
Complete ==
    /\ row = "open" /\ completion = "sent"
    /\ row' = "reported"
    /\ UNCHANGED <<logger, agent, messages, handlers, stored, completion,
                   faults>>

Next ==
    \/ Log \/ TakeBatch \/ SendBatch \/ Close \/ LastFlush
    \/ \E who \in Reporting : Finish(who)
    \/ \E n \in Nodes :
          \/ Consume(n) \/ AppendExecutionLogs(n) \/ FindByID(n)
          \/ UpdateState(n) \/ Fail(n) \/ Reassign(n)
    \/ Decide \/ Complete

Spec == Init /\ [][Next]_vars

-----------------------------------------------------------------------------
(* Properties                                                              *)

Kinds == {"ack lost", "repeat", "append failed", "append unanswered",
          "update failed", "reassigned"}

(* The variables have the values the code gives them.                      *)
TypeOK ==
    /\ logged \in Nat /\ sequence \in Nat /\ offset \in 0..Len(topic)
    /\ buffer \in Seq(Nat) /\ batch \in Seq(Nat) /\ stored \in Seq(Nat)
    /\ agent \in {"running", "closing", "last", "closed", "finished"}
    /\ topic \in Seq([id : Nat, lines : Seq(Nat)])
    /\ reader \in Nodes
    /\ processed \in [Nodes -> SUBSET Nat]
    /\ doing \in [Nodes -> [step : {"none", "append", "find", "update"},
                            id : Nat, lines : Seq(Nat)]]
    /\ row \in {"open", "reported", "other"}
    /\ completion \in {"none", "sent", "direct"}
    /\ mishaps \subseteq Kinds /\ count \in Nat

Without(kinds) == mishaps \intersect kinds = {}

(* Lines are stored in the order they were logged, each once: batches that *)
(* were refused and sent again with the next lines, repeated messages, and *)
(* lines that come with the final report included.                         *)
InOrderOnce ==
    Without({"ack lost", "append unanswered", "update failed", "reassigned"})
       => \A i, j \in 1..Len(stored) : i < j => stored[i] < stored[j]

(* Whoever sees the execution decided by its agent finds all its lines.    *)
DecidedAfterLines ==
    row = "reported" /\ Without(Kinds \ {"update failed"})
       => 1..logged \subseteq ToSet(stored)

(* An event is remembered as processed, and its repetitions ignored, only  *)
(* when a message of that id had its effect: its lines are stored, or the  *)
(* execution is decided by somebody or has its completion event produced   *)
(* (which is not yet a decision, and may come to nothing).  This holds     *)
(* whatever goes wrong.                                                    *)
RememberedIsDone ==
    \A n \in Nodes : \A id \in processed[n] :
       \/ doing[n].step # "none" /\ doing[n].id = id
       \/ id = FinishedID /\ (row # "open" \/ completion = "sent")
       \/ \E i \in 1..Len(topic) :
             /\ topic[i].id = id /\ id # FinishedID
             /\ ToSet(topic[i].lines) \subseteq ToSet(stored)

=============================================================================
