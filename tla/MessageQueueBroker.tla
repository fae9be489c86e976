------------------------- MODULE MessageQueueBroker -------------------------
(***************************************************************************)
(* projects/05-message-queue: class MessageQueueBroker, an in-memory broker*)
(* with visibility locks, committed offsets per consumer, retry counts and *)
(* a dead-letter queue, together with the workers that use it.             *)
(*                                                                         *)
(* The broker's methods are synchronous, so each is one step.  A message   *)
(* is identified by its topic and offset (the code's random id is unique   *)
(* per publish); a topic's array is the set of the offsets in it, in       *)
(* increasing order, and a message object's fields are functions of the    *)
(* message, because the topic, the dead-letter queue and the workers share *)
(* one object.  Names are sequences of parts: the key of a committed       *)
(* offset joins the topic's and the consumer's names.                      *)
(*                                                                         *)
(* A worker handles one message at a time, as consume returns one.  It may *)
(* settle it, in time or after its lock expired, give it up when its lock  *)
(* expires, or crash and restart under its name with the lock still held.  *)
(***************************************************************************)
EXTENDS Integers, Sequences, FiniteSets

CONSTANTS
  Topics, Consumers,     \* names: sequences of parts
  visibilityTimeout, maxRetries,
  MaxMessages,           \* bound: messages published per topic
  MaxTime                \* bound: the clock stops here

ASSUME BrokerAssumption ==
  /\ visibilityTimeout \in Nat \ {0}
  /\ maxRetries \in Nat \ {0}
  /\ MaxMessages \in [Topics -> Nat]
  /\ MaxTime \in Nat
(* Somebody consumes, and no two pairs of a topic and a consumer share the *)
(* key of their committed offset (no name holds the separator).            *)
ASSUME NamesAssumption ==
  /\ Consumers # {}
  /\ \A t, u \in Topics, c, d \in Consumers : t \o c = u \o d => t = u /\ c = d

VARIABLES
  topics,                \* offsets of the messages in each topic's array
  topicSequence,
  retryCount, visibleAfter,
  dlq,
  consumerOffsets,
  clock,
  worker,                \* what each worker is handling, or Free
  acked,                 \* history: <<consumer, message>> acknowledged
  nacked,                \* history: rejections of each message
  nackedLate,            \* history: messages rejected after the lock expired
  orphaned               \* history: messages locked by a worker that crashed

brokerVars == <<topics, topicSequence, retryCount, visibleAfter, dlq, consumerOffsets>>
histVars == <<acked, nacked, nackedLate, orphaned>>
vars == <<brokerVars, clock, worker, histVars>>
-----------------------------------------------------------------------------
OffsetsOf(t) == 0..(MaxMessages[t] - 1)
Messages == UNION {{<<t, o>> : o \in OffsetsOf(t)} : t \in Topics}
Free == [msg |-> <<>>, until |-> 0]

KeyWithoutTopic(t, c) == c   \* mutant
Key(t, c) == t \o c
Keys == {Key(t, c) : t \in Topics, c \in Consumers}

Larger(a, b) == IF a > b THEN a ELSE b

Init ==
  /\ topics = [t \in Topics |-> {}]
  /\ topicSequence = [t \in Topics |-> 0]
  /\ retryCount = [m \in Messages |-> 0]
  /\ visibleAfter = [m \in Messages |-> 0]
  /\ dlq = <<>>
  /\ consumerOffsets = [k \in Keys |-> 0]
  /\ clock = 0
  /\ worker = [c \in Consumers |-> Free]
  /\ acked = {}
  /\ nacked = [m \in Messages |-> 0]
  /\ nackedLate = {}
  /\ orphaned = {}
-----------------------------------------------------------------------------
(* publish(): the next logical offset, unlocked.                           *)
Publish(t) ==
  /\ topicSequence[t] < MaxMessages[t]
  /\ topics' = [topics EXCEPT ![t] = @ \cup {topicSequence[t]}]
  /\ topicSequence' = [topicSequence EXCEPT ![t] = @ + 1]
  /\ UNCHANGED <<retryCount, visibleAfter, dlq, consumerOffsets, clock, worker, histVars>>

VisibleIgnoringLocks(t, c) == {o \in topics[t] : o >= consumerOffsets[Key(t, c)]}   \* mutant
VisibleAfterOffset(t, c) ==   \* mutant
  {o \in topics[t] : o > consumerOffsets[Key(t, c)] /\ visibleAfter[<<t, o>>] <= clock}
Visible(t, c) ==
  {o \in topics[t] : o >= consumerOffsets[Key(t, c)] /\ visibleAfter[<<t, o>>] <= clock}

(* consume(): the first visible message at or after the committed offset   *)
(* is locked for everybody.                                                *)
Consume(t, c) ==
  /\ worker[c] = Free
  /\ \E o \in Visible(t, c) :
       /\ \A p \in Visible(t, c) : o <= p
       /\ visibleAfter' = [visibleAfter EXCEPT ![<<t, o>>] = clock + visibilityTimeout]
       /\ worker' = [worker EXCEPT ![c] = [msg |-> <<t, o>>, until |-> clock + visibilityTimeout]]
  /\ UNCHANGED <<topics, topicSequence, retryCount, dlq, consumerOffsets, clock, histVars>>

(* A worker settles the message it handles; the broker does not ask whether*)
(* the worker still has the lock.                                          *)
Settles(c, t, o) ==
  /\ worker[c].msg = <<t, o>>
  /\ worker' = [worker EXCEPT ![c] = Free]

(* ack(): commits the offset if the message is still in the topic.         *)
Ack(c, t, o) ==
  /\ Settles(c, t, o)
  /\ IF o \in topics[t]
     THEN /\ consumerOffsets' =
               [consumerOffsets EXCEPT ![Key(t, c)] = Larger(@, o + 1)]
          /\ acked' = acked \cup {<<c, <<t, o>>>>}
     ELSE UNCHANGED <<consumerOffsets, acked>>
  /\ UNCHANGED <<topics, topicSequence, retryCount, visibleAfter, dlq, clock, nacked, nackedLate, orphaned>>

ExhaustedOneLate(n) == n > maxRetries   \* mutant
Exhausted(n) == n >= maxRetries

(* nack(): unlocks and counts, whoever holds the lock; the last retry      *)
(* moves the message to the dead-letter queue.                             *)
Nack(c, t, o) ==
  /\ Settles(c, t, o)
  /\ IF o \in topics[t]
     THEN /\ visibleAfter' = [visibleAfter EXCEPT ![<<t, o>>] = 0]
          /\ retryCount' = [retryCount EXCEPT ![<<t, o>>] = @ + 1]
          /\ nacked' = [nacked EXCEPT ![<<t, o>>] = @ + 1]
          /\ IF Exhausted(retryCount'[<<t, o>>])
             THEN /\ dlq' = Append(dlq, <<t, o>>)
                  /\ topics' = [topics EXCEPT ![t] = @ \ {o}]
             ELSE UNCHANGED <<dlq, topics>>
     ELSE UNCHANGED <<visibleAfter, retryCount, nacked, dlq, topics>>
  /\ nackedLate' = IF clock < worker[c].until THEN nackedLate ELSE nackedLate \cup {<<t, o>>}
  /\ UNCHANGED <<topicSequence, consumerOffsets, clock, acked, orphaned>>
-----------------------------------------------------------------------------
(* The lock expires while the worker is still handling the message; the    *)
(* worker gives it up.  The broker takes no part in this.                  *)
Lapse(c) ==
  /\ worker[c] # Free
  /\ clock >= worker[c].until
  /\ worker' = [worker EXCEPT ![c] = Free]
  /\ UNCHANGED <<brokerVars, clock, histVars>>

(* A worker restarts with the same consumer id and without its message.    *)
Crash(c) ==
  /\ worker[c] # Free
  /\ worker' = [worker EXCEPT ![c] = Free]
  /\ orphaned' = orphaned \cup {worker[c].msg}
  /\ UNCHANGED <<brokerVars, clock, acked, nacked, nackedLate>>

Advance ==
  /\ clock < MaxTime
  /\ clock' = clock + 1
  /\ UNCHANGED <<brokerVars, worker, histVars>>

Next ==
  \/ Advance
  \/ \E t \in Topics : Publish(t)
  \/ \E c \in Consumers : Lapse(c) \/ Crash(c)
  \/ \E c \in Consumers, t \in Topics : Consume(t, c)
  \/ \E c \in Consumers, t \in Topics : \E o \in OffsetsOf(t) : Ack(c, t, o) \/ Nack(c, t, o)

Spec == Init /\ [][Next]_vars
-----------------------------------------------------------------------------
TypeOK ==
  /\ \A t \in Topics :
       /\ topics[t] \subseteq OffsetsOf(t)
       /\ topicSequence[t] \in 0..MaxMessages[t]
       /\ \A c \in Consumers : consumerOffsets[Key(t, c)] \in 0..MaxMessages[t]
  /\ retryCount \in [Messages -> Nat]
  /\ visibleAfter \in [Messages -> Nat]
  /\ dlq \in Seq(Messages)
  /\ clock \in Nat
  /\ \A c \in Consumers :
       worker[c] = Free \/ worker[c] \in [msg : Messages, until : Nat]
  /\ acked \subseteq Consumers \X Messages
  /\ nacked \in [Messages -> Nat]
  /\ nackedLate \subseteq Messages
  /\ orphaned \subseteq Messages

(* README 106: visibility locks ensure that a message is handled by one    *)
(* worker at a time.  Two workers never both hold an unexpired lock, unless*)
(* the message was rejected by a worker whose lock had expired: nack frees *)
(* whatever lock there is.                                                 *)
ExclusiveLock ==
  \A c, d \in Consumers :
    /\ worker[c] # Free
    /\ worker[c].msg = worker[d].msg
    /\ clock < worker[c].until
    /\ clock < worker[d].until
    => c = d \/ worker[c].msg \in nackedLate

(* README 108: offsets let the system recover without data loss.  A        *)
(* message nobody acknowledged and that is not in the dead-letter queue    *)
(* can still reach some consumer: not every offset has passed it.          *)
StillReachable(t, o) ==
  \/ \E c \in Consumers : <<c, <<t, o>>>> \in acked
  \/ \E c \in Consumers : consumerOffsets[Key(t, c)] <= o
NothingLost == \A t \in Topics : \A o \in topics[t] : StillReachable(t, o)

(* The same for the messages that no crashed worker had locked: neither    *)
(* expired locks, late settlements nor acknowledgements out of order by    *)
(* other workers make every consumer pass a message.                       *)
NothingSkipped ==
  \A t \in Topics : \A o \in topics[t] : <<t, o>> \in orphaned \/ StillReachable(t, o)

(* A published message is in the topic with fewer rejections than allowed, *)
(* or in the dead-letter queue, once, with exactly as many: no late or     *)
(* repeated settlement by another worker loses it or moves it twice.       *)
DeadLetterExact ==
  /\ \A t \in Topics : \A o \in topics[t] : nacked[<<t, o>>] < maxRetries
  /\ \A i \in DOMAIN dlq :
       /\ nacked[dlq[i]] = maxRetries
       /\ dlq[i][2] \notin topics[dlq[i][1]]
       /\ \A j \in DOMAIN dlq : dlq[i] = dlq[j] => i = j
  /\ \A t \in Topics : \A o \in OffsetsOf(t) :
       o < topicSequence[t] => o \in topics[t] \/ \E i \in DOMAIN dlq : dlq[i] = <<t, o>>

(* README 50: a committed offset is one past the greatest offset that this *)
(* consumer acknowledged in this topic.                                    *)
CommittedByOwnAcks ==
  \A t \in Topics, c \in Consumers :
    consumerOffsets[Key(t, c)] > 0 =>
      <<c, <<t, consumerOffsets[Key(t, c)] - 1>>>> \in acked

(* Types and offsets, in every state.                                      *)
Consistent == TypeOK /\ CommittedByOwnAcks
=============================================================================
