---------------------- MODULE MessageQueueBrokerProofs ----------------------
(***************************************************************************)
(* Proofs about MessageQueueBroker for any topics, consumers, timeouts and *)
(* retry limits, and for workers that are late, give up or crash.          *)
(*                                                                         *)
(* TypeInv and PublishedInv say what may refer to an offset before it is   *)
(* published: nothing.  On them rest three arguments of their own: that a  *)
(* committed offset is owed to an acknowledgement (OffsetInv), that a lock *)
(* is the lock of one worker (LockInv) and that some worker still stands   *)
(* before every unsettled message (ReachInv); and the account of the       *)
(* dead-letter queue (DeadLetterInv).                                      *)
(***************************************************************************)
EXTENDS MessageQueueBroker, TLAPS

(* What TypeOK says of applications, said of the functions themselves.     *)
FunctionTypes ==
  /\ topics \in [Topics -> SUBSET Nat]
  /\ topicSequence \in [Topics -> Nat]
  /\ consumerOffsets \in [Keys -> Nat]
  /\ worker \in [Consumers -> [msg : Messages \cup {<<>>}, until : Nat]]
TypeInv == TypeOK /\ FunctionTypes

(* Worker c is handling the message at offset o of topic t.                *)
Handles(c, t, o) == worker[c].msg = <<t, o>>

(* Nothing refers to an offset that is not published yet.                  *)
PublishedInv ==
  \A t \in Topics :
    /\ \A o \in topics[t] : o < topicSequence[t]
    /\ \A c \in Consumers :
         /\ consumerOffsets[Key(t, c)] <= topicSequence[t]
         /\ \A o \in OffsetsOf(t) : Handles(c, t, o) => o < topicSequence[t]
    /\ \A o \in OffsetsOf(t) :
         o >= topicSequence[t] => visibleAfter[<<t, o>>] = 0 /\ nacked[<<t, o>>] = 0

(* A worker has not passed the message it is handling.                     *)
OffsetInv ==
  /\ CommittedByOwnAcks
  /\ \A t \in Topics, c \in Consumers : \A o \in OffsetsOf(t) :
       Handles(c, t, o) => consumerOffsets[Key(t, c)] <= o

(* Only one worker believes it has the lock of a message, and the message  *)
(* is locked as long as its worker believes it is.                         *)
LockInv ==
  /\ \A t \in Topics, c, d \in Consumers : \A o \in OffsetsOf(t) :
       Handles(c, t, o) /\ Handles(d, t, o) /\ clock < worker[c].until /\ clock < worker[d].until
         => c = d \/ <<t, o>> \in nackedLate
  /\ \A t \in Topics, c \in Consumers : \A o \in OffsetsOf(t) :
       Handles(c, t, o) /\ clock < worker[c].until /\ <<t, o>> \notin nackedLate
         => visibleAfter[<<t, o>>] = worker[c].until

(* Worker c has not passed offset o and is not about to: it handles nothing*)
(* beyond it.  While an unsettled message is locked, somebody handles it.  *)
StandsBefore(c, t, o) ==
  /\ consumerOffsets[Key(t, c)] <= o
  /\ \A p \in OffsetsOf(t) : Handles(c, t, p) => p <= o
LockHasHolder(t, o) ==
  visibleAfter[<<t, o>>] > clock =>
    \E c \in Consumers : Handles(c, t, o) /\ worker[c].until = visibleAfter[<<t, o>>]
Settled(t, o) == <<t, o>> \in orphaned \/ \E c \in Consumers : <<c, <<t, o>>>> \in acked
Reachable(t, o) ==
  Settled(t, o) \/ (LockHasHolder(t, o) /\ \E c \in Consumers : StandsBefore(c, t, o))
ReachInv == \A t \in Topics : \A o \in topics[t] : Reachable(t, o)

DeadLetterInv == DeadLetterExact /\ retryCount = nacked
-----------------------------------------------------------------------------
LEMMA MessageType ==
  /\ \A t \in Topics : \A o \in OffsetsOf(t) : <<t, o>> \in Messages /\ o \in Nat
  /\ \A m \in Messages : \E t \in Topics : \E o \in OffsetsOf(t) : m = <<t, o>>
  BY BrokerAssumption DEF Messages, OffsetsOf

LEMMA FreeIsNoMessage ==
  /\ Free \in [msg : Messages \cup {<<>>}, until : Nat]
  /\ \A t, o : Free.msg # <<t, o>>
  /\ Free.msg = <<>> /\ <<>> \notin Messages
  BY MessageType DEF Free

LEMMA KeyType ==
  /\ \A t \in Topics, c \in Consumers : Key(t, c) \in Keys
  /\ \A t, u \in Topics, c, d \in Consumers : Key(t, c) = Key(u, d) => t = u /\ c = d
<1>1. \A t \in Topics, c \in Consumers : Key(t, c) \in Keys
  BY DEF Keys
<1>2. \A t, u \in Topics, c, d \in Consumers : Key(t, c) = Key(u, d) => t = u /\ c = d
  BY NamesAssumption, Zenon DEF Key
<1> QED
  BY <1>1, <1>2

LEMMA AppendFacts ==
  ASSUME NEW S, NEW s \in Seq(S), NEW e \in S
  PROVE  /\ Append(s, e) \in Seq(S)
         /\ DOMAIN s = 1..Len(s) /\ Len(s) \in Nat
         /\ DOMAIN Append(s, e) = 1..(Len(s) + 1)
         /\ Append(s, e)[Len(s) + 1] = e
         /\ \A i \in 1..Len(s) : Append(s, e)[i] = s[i]
  OBVIOUS

(* What settling a message does to the workers.                            *)
LEMMA SettlesEffect ==
  ASSUME TypeInv, NEW c \in Consumers, NEW t \in Topics, NEW o \in OffsetsOf(t),
         Settles(c, t, o)
  PROVE  /\ Handles(c, t, o)
         /\ worker'[c] = Free
         /\ \A d \in Consumers \ {c} : worker'[d] = worker[d]
         /\ worker' \in [Consumers -> [msg : Messages \cup {<<>>}, until : Nat]]
  BY FreeIsNoMessage DEF TypeInv, FunctionTypes, Settles, Handles

(* What an acknowledgement does to the committed offsets.                  *)
LEMMA AckEffect ==
  ASSUME TypeInv, NEW c \in Consumers, NEW t \in Topics, NEW o \in OffsetsOf(t),
         Ack(c, t, o), o \in topics[t]
  PROVE  /\ consumerOffsets' \in [Keys -> Nat]
         /\ consumerOffsets'[Key(t, c)] = Larger(consumerOffsets[Key(t, c)], o + 1)
         /\ \A u \in Topics, d \in Consumers :
              ~(u = t /\ d = c) => consumerOffsets'[Key(u, d)] = consumerOffsets[Key(u, d)]
         /\ acked' = acked \cup {<<c, <<t, o>>>>}
<1> DEFINE k == Key(t, c)
           n == Larger(consumerOffsets[k], o + 1)
<1>1. k \in Keys /\ \A u \in Topics, d \in Consumers : Key(u, d) \in Keys
  BY KeyType
<1>2. o \in Nat /\ consumerOffsets \in [Keys -> Nat]
  BY MessageType DEF TypeInv, FunctionTypes
<1>3. n \in Nat
  BY <1>1, <1>2 DEF Larger
<1>4. consumerOffsets' = [consumerOffsets EXCEPT ![k] = n] /\ acked' = acked \cup {<<c, <<t, o>>>>}
  BY DEF Ack
<1>5. \A u \in Topics, d \in Consumers : Key(u, d) = k => u = t /\ d = c
  BY KeyType
<1> HIDE DEF k, n
<1>6. /\ consumerOffsets' \in [Keys -> Nat] /\ consumerOffsets'[k] = n
      /\ \A u \in Topics, d \in Consumers :
           ~(u = t /\ d = c) => consumerOffsets'[Key(u, d)] = consumerOffsets[Key(u, d)]
  BY <1>1, <1>2, <1>3, <1>4, <1>5
<1> QED
  BY <1>4, <1>6 DEF k, n

(* What locking a message does.                                            *)
LEMMA ConsumeEffect ==
  ASSUME TypeInv, NEW c \in Consumers, NEW t \in Topics, Consume(t, c)
  PROVE  \E o \in OffsetsOf(t) :
           /\ o \in Visible(t, c)
           /\ \A p \in Visible(t, c) : o <= p
           /\ visibleAfter' \in [Messages -> Nat]
           /\ visibleAfter'[<<t, o>>] = clock + visibilityTimeout
           /\ \A m \in Messages \ {<<t, o>>} : visibleAfter'[m] = visibleAfter[m]
           /\ worker' \in [Consumers -> [msg : Messages \cup {<<>>}, until : Nat]]
           /\ worker'[c] = [msg |-> <<t, o>>, until |-> clock + visibilityTimeout]
           /\ \A d \in Consumers \ {c} : worker'[d] = worker[d]
<1>1. PICK o \in Visible(t, c) :
        /\ \A p \in Visible(t, c) : o <= p
        /\ visibleAfter' = [visibleAfter EXCEPT ![<<t, o>>] = clock + visibilityTimeout]
        /\ worker' = [worker EXCEPT ![c] = [msg |-> <<t, o>>, until |-> clock + visibilityTimeout]]
  BY DEF Consume
<1>2. o \in OffsetsOf(t) /\ <<t, o>> \in Messages
  BY MessageType DEF Visible, TypeInv, TypeOK
<1>3. clock + visibilityTimeout \in Nat
  BY BrokerAssumption DEF TypeInv, TypeOK
<1>4. visibleAfter \in [Messages -> Nat]
      /\ worker \in [Consumers -> [msg : Messages \cup {<<>>}, until : Nat]]
  BY DEF TypeInv, TypeOK, FunctionTypes
<1> QED
  BY <1>1, <1>2, <1>3, <1>4

(* What a rejection does to the message's fields, the topic and the queue. *)
LEMMA NackEffect ==
  ASSUME TypeInv, NEW c \in Consumers, NEW t \in Topics, NEW o \in OffsetsOf(t),
         Nack(c, t, o)
  PROVE  /\ visibleAfter' \in [Messages -> Nat]
         /\ retryCount' \in [Messages -> Nat]
         /\ nacked' \in [Messages -> Nat]
         /\ nackedLate' \subseteq Messages /\ dlq' \in Seq(Messages)
         /\ topics' \in [Topics -> SUBSET Nat]
         /\ \A u \in Topics : topics'[u] \subseteq topics[u]
         /\ \A n \in Messages \ {<<t, o>>} :
              /\ visibleAfter'[n] = visibleAfter[n]
              /\ retryCount'[n] = retryCount[n]
              /\ nacked'[n] = nacked[n]
         /\ o \in topics[t] =>
              /\ visibleAfter'[<<t, o>>] = 0
              /\ retryCount'[<<t, o>>] = retryCount[<<t, o>>] + 1
              /\ nacked'[<<t, o>>] = nacked[<<t, o>>] + 1
         /\ \A u \in Topics : \A p \in topics[u] : <<u, p>> # <<t, o>> => p \in topics'[u]
<1> DEFINE m == <<t, o>>
<1>1. m \in Messages
  BY MessageType
<1>2. /\ retryCount \in [Messages -> Nat] /\ visibleAfter \in [Messages -> Nat]
      /\ nacked \in [Messages -> Nat] /\ nackedLate \subseteq Messages /\ dlq \in Seq(Messages)
      /\ topics \in [Topics -> SUBSET Nat]
  BY DEF TypeInv, TypeOK, FunctionTypes
<1>3. nackedLate' = nackedLate \/ nackedLate' = nackedLate \cup {m}
  BY DEF Nack
<1>4. nackedLate' \subseteq Messages
  BY <1>1, <1>2, <1>3
<1>5. CASE o \in topics[t]
  <2>1. /\ visibleAfter' = [visibleAfter EXCEPT ![m] = 0]
        /\ retryCount' = [retryCount EXCEPT ![m] = retryCount[m] + 1]
        /\ nacked' = [nacked EXCEPT ![m] = nacked[m] + 1]
        /\ \/ dlq' = dlq /\ topics' = topics
           \/ dlq' = Append(dlq, m) /\ topics' = [topics EXCEPT ![t] = topics[t] \ {o}]
    BY <1>5 DEF Nack
  <2>2. topics[t] \ {o} \in SUBSET Nat
    BY <1>2
  <2>3. \A u \in Topics : \A p \in topics[u] : <<u, p>> # <<t, o>> => p \in topics'[u]
    BY <1>2, <2>1, <2>2
  <2>4. topics' \in [Topics -> SUBSET Nat] /\ \A u \in Topics : topics'[u] \subseteq topics[u]
    BY <1>2, <2>1, <2>2
  <2> HIDE DEF m
  <2>5. /\ visibleAfter' \in [Messages -> Nat] /\ visibleAfter'[m] = 0
        /\ retryCount' \in [Messages -> Nat] /\ retryCount'[m] = retryCount[m] + 1
        /\ nacked' \in [Messages -> Nat] /\ nacked'[m] = nacked[m] + 1
        /\ \A n \in Messages \ {m} :
             /\ visibleAfter'[n] = visibleAfter[n]
             /\ retryCount'[n] = retryCount[n]
             /\ nacked'[n] = nacked[n]
    BY <1>1, <1>2, <2>1
  <2>6. dlq' \in Seq(Messages)
    <3>1. Append(dlq, m) \in Seq(Messages)
      BY <1>1, <1>2, AppendFacts
    <3> QED
      BY <1>2, <2>1, <3>1
  <2> QED
    BY <1>4, <1>5, <2>3, <2>4, <2>5, <2>6 DEF m
<1>6. CASE o \notin topics[t]
  BY <1>2, <1>4, <1>6 DEF Nack
<1> QED
  BY <1>5, <1>6
-----------------------------------------------------------------------------
LEMMA InitTypes == Init => TypeInv
<1> SUFFICES ASSUME Init PROVE TypeInv
  OBVIOUS
<1>1. FunctionTypes
  BY FreeIsNoMessage DEF Init, FunctionTypes
<1>2. TypeOK
  BY BrokerAssumption, KeyType DEF Init, TypeOK
<1> QED
  BY <1>1, <1>2 DEF TypeInv

(* The part of TypeInv that is about the workers.                          *)
LEMMA WorkerType ==
  ASSUME FunctionTypes', \A c \in Consumers : worker'[c].msg = <<>> => worker'[c] = Free
  PROVE  \A c \in Consumers : worker'[c] = Free \/ worker'[c] \in [msg : Messages, until : Nat]
  BY DEF FunctionTypes

LEMMA TypeStep == TypeInv /\ [Next]_vars => TypeInv'
<1> SUFFICES ASSUME TypeInv, [Next]_vars PROVE TypeInv'
  OBVIOUS
<1> USE BrokerAssumption, MessageType, FreeIsNoMessage
<1>1. ASSUME NEW t \in Topics, Publish(t) PROVE TypeInv'
  <2>1. /\ topics \in [Topics -> SUBSET Nat] /\ topicSequence \in [Topics -> Nat]
        /\ topicSequence[t] < MaxMessages[t]
        /\ topics' = [topics EXCEPT ![t] = topics[t] \cup {topicSequence[t]}]
        /\ topicSequence' = [topicSequence EXCEPT ![t] = topicSequence[t] + 1]
        /\ UNCHANGED <<retryCount, visibleAfter, dlq, consumerOffsets, clock, worker, histVars>>
    BY <1>1 DEF Publish, TypeInv, FunctionTypes
  <2>2. topics' \in [Topics -> SUBSET Nat] /\ topicSequence' \in [Topics -> Nat]
    BY <2>1
  <2>3. topicSequence[t] \in OffsetsOf(t) /\ topicSequence[t] + 1 \in 0..MaxMessages[t]
    BY <2>1 DEF OffsetsOf
  <2>4. \A u \in Topics : topics'[u] \subseteq OffsetsOf(u) /\ topicSequence'[u] \in 0..MaxMessages[u]
    BY <2>1, <2>3 DEF TypeInv, TypeOK
  <2> QED
    BY <2>1, <2>2, <2>4 DEF histVars, TypeInv, TypeOK, FunctionTypes
<1>2. ASSUME NEW c \in Consumers, NEW t \in Topics, Consume(t, c) PROVE TypeInv'
  <2>1. PICK o \in OffsetsOf(t) :
          /\ visibleAfter' \in [Messages -> Nat]
          /\ worker' \in [Consumers -> [msg : Messages \cup {<<>>}, until : Nat]]
          /\ worker'[c] = [msg |-> <<t, o>>, until |-> clock + visibilityTimeout]
          /\ \A d \in Consumers \ {c} : worker'[d] = worker[d]
    BY <1>2, ConsumeEffect
  <2>2. clock + visibilityTimeout \in Nat /\ <<t, o>> \in Messages
    BY DEF TypeInv, TypeOK
  <2>3. worker'[c] \in [msg : Messages, until : Nat]
    BY <2>1, <2>2
  <2>4. \A d \in Consumers : worker'[d] = Free \/ worker'[d] \in [msg : Messages, until : Nat]
    BY <2>1, <2>3 DEF TypeInv, TypeOK
  <2> QED
    BY <1>2, <2>1, <2>4 DEF Consume, histVars, TypeInv, TypeOK, FunctionTypes
<1>3. ASSUME NEW c \in Consumers, NEW t \in Topics, NEW o \in OffsetsOf(t), Ack(c, t, o)
      PROVE  TypeInv'
  <2>1. /\ worker'[c] = Free
        /\ \A d \in Consumers \ {c} : worker'[d] = worker[d]
        /\ worker' \in [Consumers -> [msg : Messages \cup {<<>>}, until : Nat]]
    BY <1>3, SettlesEffect DEF Ack
  <2>2. /\ consumerOffsets' \in [Keys -> Nat] /\ acked' \subseteq Consumers \X Messages
        /\ \A u \in Topics, d \in Consumers : consumerOffsets'[Key(u, d)] \in 0..MaxMessages[u]
    <3>1. CASE o \in topics[t]
      <4>1. o + 1 \in 0..MaxMessages[t]
        BY DEF OffsetsOf
      <4>2. Larger(consumerOffsets[Key(t, c)], o + 1) \in 0..MaxMessages[t]
        BY <4>1 DEF Larger, TypeInv, TypeOK
      <4>3. /\ consumerOffsets' \in [Keys -> Nat]
            /\ consumerOffsets'[Key(t, c)] \in 0..MaxMessages[t]
            /\ \A u \in Topics, d \in Consumers :
                 ~(u = t /\ d = c) => consumerOffsets'[Key(u, d)] = consumerOffsets[Key(u, d)]
            /\ acked' = acked \cup {<<c, <<t, o>>>>}
        BY <1>3, <3>1, <4>2, AckEffect
      <4>4. acked' \subseteq Consumers \X Messages
        BY <4>3 DEF TypeInv, TypeOK
      <4>5. ASSUME NEW u \in Topics, NEW d \in Consumers
            PROVE  consumerOffsets'[Key(u, d)] \in 0..MaxMessages[u]
        <5>1. consumerOffsets[Key(u, d)] \in 0..MaxMessages[u]
          BY DEF TypeInv, TypeOK
        <5> QED
          BY <4>3, <5>1
      <4> QED
        BY <4>3, <4>4, <4>5
    <3>2. CASE o \notin topics[t]
      BY <1>3, <3>2 DEF Ack, TypeInv, TypeOK, FunctionTypes
    <3> QED
      BY <3>1, <3>2
  <2> QED
    BY <1>3, <2>1, <2>2 DEF Ack, TypeInv, TypeOK, FunctionTypes
<1>4. ASSUME NEW c \in Consumers, NEW t \in Topics, NEW o \in OffsetsOf(t), Nack(c, t, o)
      PROVE  TypeInv'
  <2>1. /\ worker'[c] = Free
        /\ \A d \in Consumers \ {c} : worker'[d] = worker[d]
        /\ worker' \in [Consumers -> [msg : Messages \cup {<<>>}, until : Nat]]
    BY <1>4, SettlesEffect DEF Nack
  <2>2. /\ retryCount' \in [Messages -> Nat] /\ visibleAfter' \in [Messages -> Nat]
        /\ nacked' \in [Messages -> Nat] /\ nackedLate' \subseteq Messages
        /\ dlq' \in Seq(Messages)
        /\ topics' \in [Topics -> SUBSET Nat] /\ \A u \in Topics : topics'[u] \subseteq topics[u]
    BY <1>4, NackEffect
  <2> QED
    BY <1>4, <2>1, <2>2 DEF Nack, TypeInv, TypeOK, FunctionTypes
<1>5. ASSUME NEW c \in Consumers, Lapse(c) \/ Crash(c) PROVE TypeInv'
  <2>1. /\ worker' = [worker EXCEPT ![c] = Free] /\ worker[c] \in [msg : Messages, until : Nat]
        /\ UNCHANGED <<brokerVars, clock, acked, nacked, nackedLate>>
        /\ orphaned' \in {orphaned, orphaned \cup {worker[c].msg}}
    BY <1>5 DEF Lapse, Crash, histVars, TypeInv, TypeOK
  <2> QED
    BY <2>1 DEF brokerVars, TypeInv, TypeOK, FunctionTypes
<1>6. CASE Advance
  BY <1>6 DEF Advance, brokerVars, histVars, TypeInv, TypeOK, FunctionTypes
<1>7. CASE UNCHANGED vars
  BY <1>7 DEF vars, brokerVars, histVars, TypeInv, TypeOK, FunctionTypes
<1> QED
  BY <1>1, <1>2, <1>3, <1>4, <1>5, <1>6, <1>7 DEF Next

LEMMA TypeInvariant == Spec => []TypeInv
  BY InitTypes, TypeStep, PTL DEF Spec

(* The messages of one topic are those of that topic.                      *)
LEMMA WorkerAfter ==
  ASSUME TypeInv, NEW c \in Consumers, NEW t \in Topics, NEW o \in OffsetsOf(t),
         worker'[c] = Free, \A d \in Consumers \ {c} : worker'[d] = worker[d]
  PROVE  \A d \in Consumers, u \in Topics : \A p \in OffsetsOf(u) :
           Handles(d, u, p)' => d # c /\ Handles(d, u, p)
  BY FreeIsNoMessage DEF Handles

LEMMA FreedWorker ==
  ASSUME TypeInv, NEW c \in Consumers, worker' = [worker EXCEPT ![c] = Free]
  PROVE  \A d \in Consumers : \A u, p : Handles(d, u, p)' => Handles(d, u, p) /\ worker'[d] = worker[d] /\ d # c
  BY FreeIsNoMessage DEF Handles, TypeInv, FunctionTypes
-----------------------------------------------------------------------------
(* PublishedInv: only publish moves topicSequence, and no other method has *)
(* an offset to work on that is not in the topic or with a worker.         *)
LEMMA PublishedPublish ==
  ASSUME TypeInv, PublishedInv, NEW t \in Topics, Publish(t)
  PROVE  PublishedInv'
<1>1. /\ topics' = [topics EXCEPT ![t] = topics[t] \cup {topicSequence[t]}]
      /\ topicSequence' = [topicSequence EXCEPT ![t] = topicSequence[t] + 1]
      /\ UNCHANGED <<visibleAfter, consumerOffsets, worker, nacked>>
      /\ topics \in [Topics -> SUBSET Nat] /\ topicSequence \in [Topics -> Nat]
      /\ consumerOffsets \in [Keys -> Nat]
  BY DEF Publish, histVars, TypeInv, FunctionTypes
<1>2. SUFFICES ASSUME NEW u \in Topics
      PROVE  /\ \A o \in topics'[u] : o < topicSequence'[u]
             /\ \A c \in Consumers :
                  /\ consumerOffsets[Key(u, c)] <= topicSequence'[u]
                  /\ \A o \in OffsetsOf(u) : Handles(c, u, o) => o < topicSequence'[u]
             /\ \A o \in OffsetsOf(u) :
                  o >= topicSequence'[u] => visibleAfter[<<u, o>>] = 0 /\ nacked[<<u, o>>] = 0
  BY <1>1 DEF PublishedInv, Handles
<1>3. topicSequence'[u] \in {topicSequence[u], topicSequence[u] + 1}
      /\ topicSequence[u] \in Nat /\ topicSequence'[u] \in Nat
  BY <1>1
<1>4. \A o \in topics'[u] : o \in Nat /\ o < topicSequence'[u]
  <2>1. CASE u = t
    <3>1. topics'[u] = topics[u] \cup {topicSequence[u]} /\ topicSequence'[u] = topicSequence[u] + 1
      BY <1>1, <2>1
    <3>2. \A o \in topics[u] : o \in Nat /\ o < topicSequence[u]
      BY <1>1 DEF PublishedInv
    <3> QED
      BY <1>3, <3>1, <3>2
  <2>2. CASE u # t
    BY <1>1, <2>2 DEF PublishedInv
  <2> QED
    BY <2>1, <2>2
<1>5. \A c \in Consumers : consumerOffsets[Key(u, c)] <= topicSequence'[u]
  <2>1. \A c \in Consumers : consumerOffsets[Key(u, c)] <= topicSequence[u]
                              /\ consumerOffsets[Key(u, c)] \in Nat
    BY <1>1, KeyType DEF PublishedInv
  <2> QED
    BY <1>3, <2>1
<1>6. ASSUME NEW o \in OffsetsOf(u), NEW c \in Consumers, Handles(c, u, o)
      PROVE  o < topicSequence'[u]
  <2>1. o \in Nat /\ o < topicSequence[u]
    BY <1>6, MessageType DEF PublishedInv
  <2> QED
    BY <1>3, <2>1
<1>7. ASSUME NEW o \in OffsetsOf(u), o >= topicSequence'[u]
      PROVE  visibleAfter[<<u, o>>] = 0 /\ nacked[<<u, o>>] = 0
  <2>1. o \in Nat
    BY MessageType
  <2>2. o >= topicSequence[u]
    BY <1>3, <1>7, <2>1
  <2> QED
    BY <2>2 DEF PublishedInv
<1> QED
  BY <1>4, <1>5, <1>6, <1>7

(* A step that publishes nothing, starts no worker on an offset nobody     *)
(* handled and changes no field of an unpublished message.                 *)
LEMMA PublishedSame ==
  ASSUME PublishedInv, topicSequence' = topicSequence,
         \A u \in Topics :
           /\ topics'[u] \subseteq topics[u]
           /\ \A d \in Consumers :
                /\ consumerOffsets'[Key(u, d)] <= topicSequence[u]
                /\ \A p \in OffsetsOf(u) : Handles(d, u, p)' => p < topicSequence[u]
           /\ \A p \in OffsetsOf(u) :
                p >= topicSequence[u] =>
                  /\ visibleAfter'[<<u, p>>] = visibleAfter[<<u, p>>]
                  /\ nacked'[<<u, p>>] = nacked[<<u, p>>]
  PROVE  PublishedInv'
  BY DEF PublishedInv

LEMMA PublishedStep == TypeInv /\ PublishedInv /\ [Next]_vars => PublishedInv'
<1> SUFFICES ASSUME TypeInv, PublishedInv, [Next]_vars PROVE PublishedInv'
  OBVIOUS
<1>0. /\ topicSequence \in [Topics -> Nat]
      /\ \A u \in Topics, d \in Consumers : consumerOffsets[Key(u, d)] <= topicSequence[u]
      /\ \A u \in Topics, d \in Consumers : \A p \in OffsetsOf(u) :
           Handles(d, u, p) => p < topicSequence[u]
  BY DEF PublishedInv, TypeInv, FunctionTypes
<1>1. ASSUME NEW t \in Topics, Publish(t) PROVE PublishedInv'
  BY <1>1, PublishedPublish
<1>2. ASSUME NEW c \in Consumers, NEW t \in Topics, Consume(t, c) PROVE PublishedInv'
  <2>1. PICK o \in OffsetsOf(t) :
          /\ o \in Visible(t, c)
          /\ \A m \in Messages \ {<<t, o>>} : visibleAfter'[m] = visibleAfter[m]
          /\ worker'[c] = [msg |-> <<t, o>>, until |-> clock + visibilityTimeout]
          /\ \A d \in Consumers \ {c} : worker'[d] = worker[d]
    BY <1>2, ConsumeEffect
  <2>2. /\ worker'[c].msg = <<t, o>>
        /\ o < topicSequence[t] /\ o \in Nat
        /\ UNCHANGED <<topics, topicSequence, consumerOffsets, nacked>>
    BY <1>2, <2>1, MessageType DEF Visible, PublishedInv, Consume, histVars
  <2>3. \A u \in Topics, d \in Consumers : \A p \in OffsetsOf(u) :
          Handles(d, u, p)' => p < topicSequence[u]
    BY <1>0, <2>1, <2>2 DEF Handles
  <2>4. \A u \in Topics : \A p \in OffsetsOf(u) :
          p >= topicSequence[u] => visibleAfter'[<<u, p>>] = visibleAfter[<<u, p>>]
    <3> SUFFICES ASSUME NEW u \in Topics, NEW p \in OffsetsOf(u), p >= topicSequence[u]
                 PROVE  visibleAfter'[<<u, p>>] = visibleAfter[<<u, p>>]
      OBVIOUS
    <3>1. <<u, p>> # <<t, o>> /\ <<u, p>> \in Messages
      <4>1. ~(u = t /\ p = o)
        BY <1>0, <2>2
      <4> QED
        BY <4>1, MessageType
    <3> QED
      BY <2>1, <3>1
  <2> QED
    BY <1>0, <2>2, <2>3, <2>4, PublishedSame
<1>3. ASSUME NEW c \in Consumers, NEW t \in Topics, NEW o \in OffsetsOf(t), Ack(c, t, o)
      PROVE  PublishedInv'
  <2>1. /\ Handles(c, t, o) /\ o \in Nat
        /\ \A d \in Consumers, u \in Topics : \A p \in OffsetsOf(u) :
             Handles(d, u, p)' => Handles(d, u, p)
    BY <1>3, SettlesEffect, WorkerAfter, MessageType DEF Ack
  <2>2. UNCHANGED <<topics, topicSequence, visibleAfter, nacked>>
    BY <1>3 DEF Ack
  <2>3. \A u \in Topics, d \in Consumers : consumerOffsets'[Key(u, d)] <= topicSequence[u]
    <3>1. CASE o \in topics[t]
      <4>1. o + 1 <= topicSequence[t] /\ consumerOffsets[Key(t, c)] <= topicSequence[t]
        BY <1>0, <2>1
      <4>2. Larger(consumerOffsets[Key(t, c)], o + 1) <= topicSequence[t]
        BY <4>1 DEF Larger
      <4> QED
        BY <1>0, <1>3, <3>1, <4>2, AckEffect
    <3>2. CASE o \notin topics[t]
      BY <1>0, <1>3, <3>2 DEF Ack
    <3> QED
      BY <3>1, <3>2
  <2> QED
    BY <1>0, <2>1, <2>2, <2>3, PublishedSame
<1>4. ASSUME NEW c \in Consumers, NEW t \in Topics, NEW o \in OffsetsOf(t), Nack(c, t, o)
      PROVE  PublishedInv'
  <2>1. /\ Handles(c, t, o) /\ o \in Nat
        /\ \A d \in Consumers, u \in Topics : \A p \in OffsetsOf(u) :
             Handles(d, u, p)' => Handles(d, u, p)
    BY <1>4, SettlesEffect, WorkerAfter, MessageType DEF Nack
  <2>2. /\ topicSequence' = topicSequence /\ consumerOffsets' = consumerOffsets
        /\ \A u \in Topics : topics'[u] \subseteq topics[u]
        /\ \A n \in Messages \ {<<t, o>>} : visibleAfter'[n] = visibleAfter[n] /\ nacked'[n] = nacked[n]
    BY <1>4, NackEffect DEF Nack
  <2>3. ASSUME NEW u \in Topics, NEW p \in OffsetsOf(u), p >= topicSequence[u]
        PROVE  visibleAfter'[<<u, p>>] = visibleAfter[<<u, p>>] /\ nacked'[<<u, p>>] = nacked[<<u, p>>]
    <3>1. ~(u = t /\ p = o)
      BY <1>0, <2>1, <2>3
    <3>2. <<u, p>> # <<t, o>> /\ <<u, p>> \in Messages
      BY <3>1, MessageType
    <3> QED
      BY <2>2, <3>2
  <2> QED
    BY <1>0, <2>1, <2>2, <2>3, PublishedSame
<1>5. ASSUME NEW c \in Consumers, Lapse(c) \/ Crash(c) PROVE PublishedInv'
  <2>1. \A d \in Consumers : \A u, p : Handles(d, u, p)' => Handles(d, u, p)
    BY <1>5, FreedWorker DEF Lapse, Crash
  <2>2. UNCHANGED <<topics, topicSequence, visibleAfter, nacked, consumerOffsets>>
    BY <1>5 DEF Lapse, Crash, brokerVars, histVars
  <2> QED
    BY <1>0, <2>1, <2>2, PublishedSame
<1>6. CASE Advance \/ UNCHANGED vars
  <2>1. UNCHANGED <<topics, topicSequence, visibleAfter, nacked, consumerOffsets, worker>>
    BY <1>6 DEF Advance, vars, brokerVars, histVars
  <2> QED
    BY <1>0, <2>1, PublishedSame DEF Handles
<1> QED
  BY <1>1, <1>2, <1>3, <1>4, <1>5, <1>6 DEF Next

LEMMA PublishedInvariant == Spec => []PublishedInv
<1>1. Init => PublishedInv
  <2> SUFFICES ASSUME Init PROVE PublishedInv
    OBVIOUS
  <2>1. \A t \in Topics, c \in Consumers : consumerOffsets[Key(t, c)] = 0
    BY KeyType DEF Init
  <2>2. \A t \in Topics, c \in Consumers : \A o \in OffsetsOf(t) : ~Handles(c, t, o)
    BY FreeIsNoMessage DEF Init, Handles
  <2> QED
    BY <2>1, <2>2, MessageType DEF Init, PublishedInv
<1> QED
  BY <1>1, PublishedStep, TypeInvariant, PTL DEF Spec
-----------------------------------------------------------------------------
(* OffsetInv: only an acknowledgement commits, and only its own worker's   *)
(* offset in its own topic; a worker takes messages from its offset on.    *)
LEMMA OffsetSame ==
  ASSUME OffsetInv, UNCHANGED <<consumerOffsets, acked>>,
         \A d \in Consumers, u \in Topics : \A p \in OffsetsOf(u) :
           Handles(d, u, p)' => Handles(d, u, p)
  PROVE  OffsetInv'
  BY DEF OffsetInv, CommittedByOwnAcks

LEMMA OffsetConsume ==
  ASSUME TypeInv, OffsetInv, NEW c \in Consumers, NEW t \in Topics, Consume(t, c)
  PROVE  OffsetInv'
<1>1. PICK o \in OffsetsOf(t) :
        /\ o \in Visible(t, c)
        /\ worker'[c] = [msg |-> <<t, o>>, until |-> clock + visibilityTimeout]
        /\ \A d \in Consumers \ {c} : worker'[d] = worker[d]
  BY ConsumeEffect
<1>2. /\ worker'[c].msg = <<t, o>> /\ consumerOffsets[Key(t, c)] <= o
      /\ UNCHANGED <<consumerOffsets, acked>>
  <2>1. consumerOffsets[Key(t, c)] \in Nat /\ o \in Nat /\ o >= consumerOffsets[Key(t, c)]
    BY <1>1, KeyType, MessageType DEF Visible, TypeInv, FunctionTypes
  <2> QED
    BY <1>1, <2>1 DEF Consume, histVars
<1>3. CommittedByOwnAcks'
  BY <1>2 DEF OffsetInv, CommittedByOwnAcks
<1>4. ASSUME NEW u \in Topics, NEW d \in Consumers, NEW p \in OffsetsOf(u), Handles(d, u, p)'
      PROVE  consumerOffsets'[Key(u, d)] <= p
  <2>1. CASE d = c
    <3>1. <<u, p>> = <<t, o>>
      BY <1>2, <1>4, <2>1 DEF Handles
    <3>2. u = t /\ p = o
      BY <3>1
    <3> QED
      BY <1>2, <2>1, <3>2
  <2>2. CASE d # c
    BY <1>1, <1>2, <1>4, <2>2 DEF OffsetInv, Handles
  <2> QED
    BY <2>1, <2>2
<1> QED
  BY <1>3, <1>4 DEF OffsetInv

LEMMA OffsetAck ==
  ASSUME TypeInv, OffsetInv, NEW c \in Consumers, NEW t \in Topics, NEW o \in OffsetsOf(t),
         Ack(c, t, o), o \in topics[t]
  PROVE  OffsetInv'
<1> DEFINE k == consumerOffsets[Key(t, c)]
<1>1. /\ consumerOffsets'[Key(t, c)] = Larger(k, o + 1)
      /\ \A u \in Topics, d \in Consumers :
           ~(u = t /\ d = c) => consumerOffsets'[Key(u, d)] = consumerOffsets[Key(u, d)]
      /\ acked' = acked \cup {<<c, <<t, o>>>>}
  BY AckEffect
<1>2. o \in Nat /\ k \in Nat
  BY MessageType, KeyType DEF TypeInv, FunctionTypes
<1>3. ASSUME NEW u \in Topics, NEW d \in Consumers, consumerOffsets'[Key(u, d)] > 0
      PROVE  <<d, <<u, consumerOffsets'[Key(u, d)] - 1>>>> \in acked'
  <2>1. CASE u = t /\ d = c
    <3>1. CASE k > o + 1
      <4>1. Larger(k, o + 1) = k /\ k > 0
        BY <1>2, <3>1 DEF Larger
      <4>2. <<c, <<t, k - 1>>>> \in acked
        BY <4>1 DEF OffsetInv, CommittedByOwnAcks
      <4> QED
        BY <1>1, <2>1, <4>1, <4>2
    <3>2. CASE ~(k > o + 1)
      <4>1. Larger(k, o + 1) = o + 1 /\ (o + 1) - 1 = o
        BY <1>2, <3>2 DEF Larger
      <4> QED
        BY <1>1, <2>1, <4>1
    <3> QED
      BY <3>1, <3>2
  <2>2. CASE ~(u = t /\ d = c)
    <3>1. consumerOffsets'[Key(u, d)] = consumerOffsets[Key(u, d)]
      BY <1>1, <2>2
    <3>2. <<d, <<u, consumerOffsets[Key(u, d)] - 1>>>> \in acked
      BY <1>3, <3>1 DEF OffsetInv, CommittedByOwnAcks
    <3> QED
      BY <1>1, <3>1, <3>2
  <2> QED
    BY <2>1, <2>2
<1>4. ASSUME NEW u \in Topics, NEW d \in Consumers, NEW p \in OffsetsOf(u), Handles(d, u, p)'
      PROVE  consumerOffsets'[Key(u, d)] <= p
  <2>1. d # c /\ Handles(d, u, p)
    BY <1>4, SettlesEffect, WorkerAfter DEF Ack
  <2> QED
    BY <1>1, <2>1 DEF OffsetInv
<1>5. CommittedByOwnAcks'
  BY <1>3 DEF CommittedByOwnAcks
<1> QED
  BY <1>4, <1>5 DEF OffsetInv

(* A method other than consume leaves a worker with its message or free.   *)
LEMMA OnlyConsumeHands ==
  ASSUME TypeInv, [Next]_vars, \A t \in Topics, c \in Consumers : ~Consume(t, c)
  PROVE  \A d \in Consumers, u \in Topics : \A p \in OffsetsOf(u) :
           Handles(d, u, p)' => Handles(d, u, p) /\ worker'[d] = worker[d]
<1> SUFFICES ASSUME NEW d \in Consumers, NEW u \in Topics, NEW p \in OffsetsOf(u), Handles(d, u, p)'
             PROVE  Handles(d, u, p) /\ worker'[d] = worker[d]
  OBVIOUS
<1>1. ASSUME NEW c \in Consumers, NEW t \in Topics, NEW o \in OffsetsOf(t), Ack(c, t, o) \/ Nack(c, t, o)
      PROVE  Handles(d, u, p) /\ worker'[d] = worker[d]
  <2>1. worker'[c] = Free /\ \A e \in Consumers \ {c} : worker'[e] = worker[e]
    BY <1>1, SettlesEffect DEF Ack, Nack
  <2>2. d # c /\ Handles(d, u, p)
    BY <2>1, WorkerAfter
  <2> QED
    BY <2>1, <2>2
<1>2. ASSUME NEW c \in Consumers, Lapse(c) \/ Crash(c) PROVE Handles(d, u, p) /\ worker'[d] = worker[d]
  BY <1>2, FreedWorker DEF Lapse, Crash
<1>3. CASE Advance \/ UNCHANGED vars \/ \E t \in Topics : Publish(t)
  BY <1>3 DEF Advance, vars, Publish, Handles
<1> QED
  BY <1>1, <1>2, <1>3 DEF Next

LEMMA OffsetStep == TypeInv /\ OffsetInv /\ [Next]_vars => OffsetInv'
<1> SUFFICES ASSUME TypeInv, OffsetInv, [Next]_vars PROVE OffsetInv'
  OBVIOUS
<1>1. CASE \E t \in Topics, c \in Consumers : Consume(t, c)
  BY <1>1, OffsetConsume
<1>2. CASE \A t \in Topics, c \in Consumers : ~Consume(t, c)
  <2>1. \A d \in Consumers, u \in Topics : \A p \in OffsetsOf(u) : Handles(d, u, p)' => Handles(d, u, p)
    BY <1>2, OnlyConsumeHands
  <2>2. ASSUME NEW c \in Consumers, NEW t \in Topics, NEW o \in OffsetsOf(t), Ack(c, t, o) PROVE OffsetInv'
    <3>1. CASE o \in topics[t]
      BY <2>2, <3>1, OffsetAck
    <3>2. CASE o \notin topics[t]
      BY <2>1, <2>2, <3>2, OffsetSame DEF Ack
    <3> QED
      BY <3>1, <3>2
  <2>3. ASSUME NEW c \in Consumers, NEW t \in Topics, NEW o \in OffsetsOf(t), Nack(c, t, o) PROVE OffsetInv'
    BY <2>1, <2>3, OffsetSame DEF Nack
  <2>4. ASSUME NEW c \in Consumers, Lapse(c) \/ Crash(c) PROVE OffsetInv'
    BY <2>1, <2>4, OffsetSame DEF Lapse, Crash, brokerVars, histVars
  <2>5. CASE Advance \/ UNCHANGED vars \/ \E t \in Topics : Publish(t)
    BY <2>1, <2>5, OffsetSame DEF Advance, vars, Publish, brokerVars, histVars
  <2> QED
    BY <1>2, <2>2, <2>3, <2>4, <2>5 DEF Next
<1> QED
  BY <1>1, <1>2

LEMMA OffsetInvariant == Spec => []OffsetInv
<1>1. Init => OffsetInv
  <2> SUFFICES ASSUME Init PROVE OffsetInv
    OBVIOUS
  <2>1. \A t \in Topics, c \in Consumers : consumerOffsets[Key(t, c)] = 0
    BY KeyType DEF Init
  <2>2. \A t \in Topics, c \in Consumers : \A o \in OffsetsOf(t) : ~Handles(c, t, o)
    BY FreeIsNoMessage DEF Init, Handles
  <2> QED
    BY <2>1, <2>2 DEF OffsetInv, CommittedByOwnAcks
<1> QED
  BY <1>1, OffsetStep, TypeInvariant, PTL DEF Spec

(* The broker's fields have their types in every state, and a committed    *)
(* offset is one past an offset which the same consumer acknowledged in    *)
(* the same topic.                                                         *)
THEOREM AlwaysConsistent == Spec => []Consistent
<1>1. TypeInv /\ OffsetInv => Consistent
  BY DEF TypeInv, OffsetInv, Consistent
<1> QED
  BY <1>1, TypeInvariant, OffsetInvariant, PTL
-----------------------------------------------------------------------------
(* LockInv: only consume locks, and only what is not locked; only nack     *)
(* unlocks, and if its worker still had the lock then nobody else did.     *)
LEMMA LockSame ==
  ASSUME TypeInv, LockInv, visibleAfter' = visibleAfter, clock' \in Nat, clock' >= clock,
         nackedLate \subseteq nackedLate',
         \A d \in Consumers, u \in Topics : \A p \in OffsetsOf(u) :
           Handles(d, u, p)' => Handles(d, u, p) /\ worker'[d] = worker[d]
  PROVE  LockInv'
<1>1. clock \in Nat /\ worker \in [Consumers -> [msg : Messages \cup {<<>>}, until : Nat]]
  BY DEF TypeInv, TypeOK, FunctionTypes
<1>2. ASSUME NEW u \in Topics, NEW d \in Consumers, NEW p \in OffsetsOf(u),
             Handles(d, u, p)', clock' < worker'[d].until
      PROVE  Handles(d, u, p) /\ clock < worker[d].until /\ worker'[d] = worker[d]
  BY <1>1, <1>2
<1> QED
  BY <1>2 DEF LockInv

LEMMA LockConsume ==
  ASSUME TypeInv, LockInv, NEW c \in Consumers, NEW t \in Topics, Consume(t, c)
  PROVE  LockInv'
<1>1. PICK o \in OffsetsOf(t) :
        /\ o \in Visible(t, c)
        /\ visibleAfter'[<<t, o>>] = clock + visibilityTimeout
        /\ \A m \in Messages \ {<<t, o>>} : visibleAfter'[m] = visibleAfter[m]
        /\ worker'[c] = [msg |-> <<t, o>>, until |-> clock + visibilityTimeout]
        /\ \A d \in Consumers \ {c} : worker'[d] = worker[d]
  BY ConsumeEffect
<1>2. /\ worker'[c].msg = <<t, o>> /\ worker'[c].until = clock + visibilityTimeout
      /\ UNCHANGED <<clock, nackedLate>>
  BY <1>1 DEF Consume, histVars
<1>3. /\ visibleAfter[<<t, o>>] <= clock /\ clock \in Nat
      /\ visibleAfter \in [Messages -> Nat] /\ <<t, o>> \in Messages
  BY <1>1, MessageType DEF Visible, TypeInv, TypeOK
(* Nobody else has the lock of what was visible.                           *)
<1>4. ASSUME NEW d \in Consumers \ {c}, Handles(d, t, o)', clock' < worker'[d].until
      PROVE  <<t, o>> \in nackedLate
  <2>1. Handles(d, t, o) /\ clock < worker[d].until
    BY <1>1, <1>2, <1>4 DEF Handles
  <2>2. <<t, o>> \notin nackedLate => visibleAfter[<<t, o>>] = worker[d].until
    BY <2>1 DEF LockInv
  <2>3. visibleAfter[<<t, o>>] \in Nat
    BY <1>3
  <2> QED
    BY <1>3, <2>1, <2>2, <2>3
<1>5. ASSUME NEW u \in Topics, NEW p \in OffsetsOf(u), NEW d \in Consumers, Handles(d, u, p)',
             ~(u = t /\ p = o)
      PROVE  d # c /\ Handles(d, u, p) /\ worker'[d] = worker[d]
             /\ visibleAfter'[<<u, p>>] = visibleAfter[<<u, p>>]
  <2>1. <<u, p>> # <<t, o>> /\ <<u, p>> \in Messages
    BY <1>5, MessageType
  <2> QED
    BY <1>1, <1>2, <1>5, <2>1 DEF Handles
<1>6. ASSUME NEW u \in Topics, NEW d \in Consumers, NEW e \in Consumers, NEW p \in OffsetsOf(u),
             Handles(d, u, p)', Handles(e, u, p)', clock' < worker'[d].until, clock' < worker'[e].until
      PROVE  d = e \/ <<u, p>> \in nackedLate'
  <2>1. CASE u = t /\ p = o
    BY <1>2, <1>4, <1>6, <2>1
  <2>2. CASE ~(u = t /\ p = o)
    BY <1>2, <1>5, <1>6, <2>2 DEF LockInv
  <2> QED
    BY <2>1, <2>2
<1>7. ASSUME NEW u \in Topics, NEW d \in Consumers, NEW p \in OffsetsOf(u),
             Handles(d, u, p)', clock' < worker'[d].until, <<u, p>> \notin nackedLate'
      PROVE  visibleAfter'[<<u, p>>] = worker'[d].until
  <2>1. CASE u = t /\ p = o
    BY <1>1, <1>2, <1>4, <1>7, <2>1
  <2>2. CASE ~(u = t /\ p = o)
    BY <1>2, <1>5, <1>7, <2>2 DEF LockInv
  <2> QED
    BY <2>1, <2>2
<1> QED
  BY <1>6, <1>7 DEF LockInv

LEMMA LockNack ==
  ASSUME TypeInv, LockInv, NEW c \in Consumers, NEW t \in Topics, NEW o \in OffsetsOf(t),
         Nack(c, t, o)
  PROVE  LockInv'
<1>1. /\ Handles(c, t, o)
      /\ nackedLate' = IF clock < worker[c].until THEN nackedLate ELSE nackedLate \cup {<<t, o>>}
      /\ clock' = clock
      /\ \A n \in Messages \ {<<t, o>>} : visibleAfter'[n] = visibleAfter[n]
  BY SettlesEffect, NackEffect DEF Nack
<1>2. ASSUME NEW d \in Consumers, NEW u \in Topics, NEW p \in OffsetsOf(u), Handles(d, u, p)'
      PROVE  d # c /\ Handles(d, u, p) /\ worker'[d] = worker[d]
  <2>1. worker'[c] = Free /\ \A e \in Consumers \ {c} : worker'[e] = worker[e]
    BY SettlesEffect DEF Nack
  <2>2. d # c /\ Handles(d, u, p)
    BY <1>2, <2>1, WorkerAfter
  <2> QED
    BY <2>1, <2>2
<1>3. ASSUME NEW u \in Topics, NEW d \in Consumers, NEW p \in OffsetsOf(u),
             Handles(d, u, p)', clock' < worker'[d].until, <<u, p>> \notin nackedLate'
      PROVE  visibleAfter'[<<u, p>>] = worker'[d].until
  <2>1. /\ d # c /\ Handles(d, u, p) /\ worker'[d] = worker[d] /\ clock < worker[d].until
        /\ <<u, p>> \notin nackedLate
    BY <1>1, <1>2, <1>3
  <2>2. visibleAfter[<<u, p>>] = worker[d].until
    BY <2>1 DEF LockInv
  <2>3. CASE <<u, p>> = <<t, o>>
    <3>1. u = t /\ p = o
      BY <2>3
    <3>2. clock < worker[c].until
      BY <1>1, <1>3, <3>1
    <3> QED
      BY <1>1, <2>1, <3>1, <3>2 DEF LockInv
  <2>4. CASE <<u, p>> # <<t, o>>
    BY <1>1, <2>1, <2>2, <2>4, MessageType
  <2> QED
    BY <2>3, <2>4
<1>4. nackedLate \subseteq nackedLate'
  BY <1>1
<1> QED
  BY <1>1, <1>2, <1>3, <1>4 DEF LockInv

LEMMA LockStep == TypeInv /\ LockInv /\ [Next]_vars => LockInv'
<1> SUFFICES ASSUME TypeInv, LockInv, [Next]_vars PROVE LockInv'
  OBVIOUS
<1>0. clock \in Nat
  BY DEF TypeInv, TypeOK
<1>1. CASE \E t \in Topics, c \in Consumers : Consume(t, c)
  BY <1>1, LockConsume
<1>2. ASSUME NEW c \in Consumers, NEW t \in Topics, NEW o \in OffsetsOf(t), Nack(c, t, o) PROVE LockInv'
  BY <1>2, LockNack
<1>3. CASE \A t \in Topics, c \in Consumers : ~Consume(t, c)
  <2>1. \A d \in Consumers, u \in Topics : \A p \in OffsetsOf(u) :
          Handles(d, u, p)' => Handles(d, u, p) /\ worker'[d] = worker[d]
    BY <1>3, OnlyConsumeHands
  <2>2. ASSUME NEW c \in Consumers, NEW t \in Topics, NEW o \in OffsetsOf(t), Ack(c, t, o) PROVE LockInv'
    BY <1>0, <2>1, <2>2, LockSame DEF Ack
  <2>3. ASSUME NEW c \in Consumers, Lapse(c) \/ Crash(c) PROVE LockInv'
    BY <1>0, <2>1, <2>3, LockSame DEF Lapse, Crash, brokerVars, histVars
  <2>4. CASE Advance \/ UNCHANGED vars \/ \E t \in Topics : Publish(t)
    BY <1>0, <2>1, <2>4, LockSame DEF Advance, vars, Publish, brokerVars, histVars
  <2> QED
    BY <1>2, <1>3, <2>2, <2>3, <2>4 DEF Next
<1> QED
  BY <1>1, <1>3

LEMMA LockInvariant == Spec => []LockInv
<1>1. Init => LockInv
  <2> SUFFICES ASSUME Init PROVE LockInv
    OBVIOUS
  <2>1. \A t \in Topics, c \in Consumers : \A o \in OffsetsOf(t) : ~Handles(c, t, o)
    BY FreeIsNoMessage DEF Init, Handles
  <2> QED
    BY <2>1 DEF LockInv
<1> QED
  BY <1>1, LockStep, TypeInvariant, PTL DEF Spec

(* Two workers never both have an unexpired lock of one message, unless a  *)
(* worker whose lock had expired rejected it.                              *)
THEOREM OneWorkerPerMessage == Spec => []ExclusiveLock
<1>1. TypeInv /\ LockInv => ExclusiveLock
  <2> SUFFICES ASSUME TypeInv, LockInv, NEW c \in Consumers, NEW d \in Consumers,
                      worker[c] # Free, worker[c].msg = worker[d].msg,
                      clock < worker[c].until, clock < worker[d].until
               PROVE  c = d \/ worker[c].msg \in nackedLate
    BY DEF ExclusiveLock
  <2>1. worker[c].msg \in Messages
    BY DEF TypeInv, TypeOK
  <2>2. PICK t \in Topics : \E o \in OffsetsOf(t) : worker[c].msg = <<t, o>>
    BY <2>1, MessageType
  <2>3. PICK o \in OffsetsOf(t) : worker[c].msg = <<t, o>>
    BY <2>2
  <2>4. Handles(c, t, o) /\ Handles(d, t, o)
    BY <2>3 DEF Handles
  <2> QED
    BY <2>3, <2>4 DEF LockInv
<1> QED
  BY <1>1, TypeInvariant, LockInvariant, PTL
-----------------------------------------------------------------------------
(* ReachInv: a worker passes a message it has not taken only while another *)
(* one holds it, and that one has not passed it either.                    *)
LEMMA ReachPublish ==
  ASSUME TypeInv, PublishedInv, ReachInv, NEW t \in Topics, Publish(t)
  PROVE  ReachInv'
<1>1. /\ topics' = [topics EXCEPT ![t] = topics[t] \cup {topicSequence[t]}]
      /\ UNCHANGED <<visibleAfter, consumerOffsets, worker, clock, acked, orphaned>>
      /\ topics \in [Topics -> SUBSET Nat] /\ topicSequence[t] \in OffsetsOf(t)
      /\ topicSequence[t] \in Nat /\ clock \in Nat
  <2>1. topicSequence[t] < MaxMessages[t] /\ topicSequence[t] \in Nat /\ MaxMessages[t] \in Nat
    BY BrokerAssumption DEF Publish, TypeInv, FunctionTypes
  <2>2. topicSequence[t] \in OffsetsOf(t)
    BY <2>1 DEF OffsetsOf
  <2> QED
    BY <2>1, <2>2 DEF Publish, histVars, TypeInv, TypeOK, FunctionTypes
<1> SUFFICES ASSUME NEW u \in Topics, NEW p \in topics'[u] PROVE Reachable(u, p)'
  BY DEF ReachInv
<1>2. CASE p \in topics[u]
  BY <1>1, <1>2
  DEF ReachInv, Reachable, Settled, LockHasHolder, StandsBefore, Handles
<1>3. CASE p \notin topics[u]
  <2>1. u = t /\ p = topicSequence[t]
    BY <1>1, <1>3
  <2>2. visibleAfter'[<<u, p>>] = 0
    <3>1. visibleAfter[<<t, topicSequence[t]>>] = 0
      BY <1>1 DEF PublishedInv
    <3> QED
      BY <1>1, <2>1, <3>1
  <2>3. LockHasHolder(u, p)'
    BY <1>1, <2>2 DEF LockHasHolder
  <2>4. PICK c : c \in Consumers
    BY NamesAssumption
  <2>5. StandsBefore(c, u, p)'
    <3>1. consumerOffsets[Key(t, c)] <= topicSequence[t]
      BY <2>4 DEF PublishedInv
    <3>2. ASSUME NEW q \in OffsetsOf(t), Handles(c, t, q) PROVE q <= topicSequence[t]
      <4>1. q \in Nat /\ q < topicSequence[t]
        BY <2>4, <3>2, MessageType DEF PublishedInv
      <4> QED
        BY <1>1, <4>1
    <3> QED
      BY <1>1, <2>1, <3>1, <3>2 DEF StandsBefore, Handles
  <2> QED
    BY <2>3, <2>4, <2>5 DEF Reachable
<1> QED
  BY <1>2, <1>3

LEMMA ReachConsume ==
  ASSUME TypeInv, OffsetInv, ReachInv, NEW c \in Consumers, NEW t \in Topics, Consume(t, c)
  PROVE  ReachInv'
<1>1. PICK o \in OffsetsOf(t) :
        /\ o \in Visible(t, c)
        /\ \A p \in Visible(t, c) : o <= p
        /\ visibleAfter'[<<t, o>>] = clock + visibilityTimeout
        /\ \A m \in Messages \ {<<t, o>>} : visibleAfter'[m] = visibleAfter[m]
        /\ worker'[c] = [msg |-> <<t, o>>, until |-> clock + visibilityTimeout]
        /\ \A d \in Consumers \ {c} : worker'[d] = worker[d]
  BY ConsumeEffect
<1>2. /\ worker'[c].msg = <<t, o>> /\ worker'[c].until = clock + visibilityTimeout
      /\ worker[c] = Free /\ clock \in Nat
      /\ UNCHANGED <<topics, consumerOffsets, clock, acked, orphaned>>
  BY <1>1 DEF Consume, histVars, TypeInv, TypeOK
<1>3. \A d \in Consumers, u \in Topics : \A q \in OffsetsOf(u) : Handles(d, u, q) => d # c
  BY <1>2, FreeIsNoMessage DEF Handles
<1> SUFFICES ASSUME NEW u \in Topics, NEW p \in topics[u], ~Settled(u, p) PROVE Reachable(u, p)'
  BY <1>2 DEF ReachInv, Reachable, Settled
<1>4. /\ p \in OffsetsOf(u) /\ p \in Nat /\ o \in Nat /\ <<u, p>> \in Messages
      /\ LockHasHolder(u, p) /\ \E d \in Consumers : StandsBefore(d, u, p)
      /\ visibleAfter \in [Messages -> Nat]
  BY MessageType DEF ReachInv, Reachable, TypeInv, TypeOK
<1>5. LockHasHolder(u, p)'
  <2>1. CASE u = t /\ p = o
    BY <1>1, <1>2, <2>1 DEF LockHasHolder, Handles
  <2>2. CASE ~(u = t /\ p = o)
    <3>1. <<u, p>> # <<t, o>>
      BY <2>2
    <3>2. visibleAfter'[<<u, p>>] = visibleAfter[<<u, p>>]
      BY <1>1, <1>4, <3>1
    <3> QED
      BY <1>1, <1>2, <1>3, <1>4, <3>2 DEF LockHasHolder, Handles
  <2> QED
    BY <2>1, <2>2
<1>6. ASSUME NEW d \in Consumers \ {c}, StandsBefore(d, u, p) PROVE StandsBefore(d, u, p)'
  BY <1>1, <1>2, <1>6 DEF StandsBefore, Handles
<1>7. ASSUME StandsBefore(c, u, p) PROVE \E d \in Consumers : StandsBefore(d, u, p)'
  <2>1. CASE u # t \/ o <= p
    <3>1. ASSUME NEW q \in OffsetsOf(u), Handles(c, u, q)' PROVE q <= p
      <4>1. <<u, q>> = <<t, o>>
        BY <1>2, <3>1 DEF Handles
      <4> QED
        BY <2>1, <4>1
    <3> QED
      BY <1>2, <1>7, <3>1 DEF StandsBefore
(* The worker went past p: p was invisible, so somebody else has it.       *)
  <2>2. CASE u = t /\ ~(o <= p)
    <3>1. p \notin Visible(t, c)
      BY <1>1, <2>2
    <3>2. consumerOffsets[Key(t, c)] <= p /\ consumerOffsets[Key(t, c)] \in Nat
      BY <1>7, <2>2, KeyType DEF StandsBefore, TypeInv, FunctionTypes
    <3>3. visibleAfter[<<u, p>>] > clock
      BY <1>2, <1>4, <2>2, <3>1, <3>2 DEF Visible
    <3>4. PICK e \in Consumers : Handles(e, u, p)
      BY <1>4, <3>3 DEF LockHasHolder
    <3>5. e # c
      BY <1>3, <1>4, <3>4
    <3>6. consumerOffsets[Key(u, e)] <= p
      BY <1>4, <3>4 DEF OffsetInv
    <3>7. ASSUME NEW q \in OffsetsOf(u), Handles(e, u, q)' PROVE q <= p
      <4>1. <<u, q>> = <<u, p>>
        BY <1>1, <3>4, <3>5, <3>7 DEF Handles
      <4> QED
        BY <1>4, <4>1
    <3> QED
      BY <1>2, <3>6, <3>7 DEF StandsBefore
  <2> QED
    BY <2>1, <2>2
<1> QED
  BY <1>4, <1>5, <1>6, <1>7 DEF Reachable

(* Steps that free one worker, c, and perhaps commit its offset.           *)
LEMMA ReachSettle ==
  ASSUME TypeInv, ReachInv, NEW c \in Consumers, NEW t \in Topics, NEW o \in OffsetsOf(t),
         Ack(c, t, o) \/ Nack(c, t, o)
  PROVE  ReachInv'
<1>1. /\ Handles(c, t, o) /\ worker'[c] = Free
      /\ \A d \in Consumers \ {c} : worker'[d] = worker[d]
      /\ clock' = clock /\ orphaned' = orphaned /\ acked \subseteq acked'
      /\ clock \in Nat /\ o \in Nat
  BY SettlesEffect, MessageType DEF Ack, Nack, TypeInv, TypeOK
<1>2. \A u \in Topics : topics'[u] \subseteq topics[u]
  BY NackEffect DEF Ack
<1>3. \A d \in Consumers, u \in Topics : \A q \in OffsetsOf(u) :
        Handles(d, u, q)' => Handles(d, u, q)
  BY <1>1, WorkerAfter
<1> SUFFICES ASSUME NEW u \in Topics, NEW p \in topics'[u], ~Settled(u, p)' PROVE Reachable(u, p)'
  BY DEF ReachInv, Reachable
<1>4. /\ p \in topics[u] /\ p \in OffsetsOf(u) /\ p \in Nat /\ <<u, p>> \in Messages
      /\ ~Settled(u, p)
  <2>1. p \in topics[u] /\ ~Settled(u, p)
    BY <1>1, <1>2 DEF Settled
  <2> QED
    BY <2>1, MessageType DEF TypeInv, TypeOK
<1>5. LockHasHolder(u, p) /\ \E d \in Consumers : StandsBefore(d, u, p)
  BY <1>4 DEF ReachInv, Reachable
<1>6. CASE u = t /\ p = o
  <2>1. Nack(c, t, o) /\ o \in topics[t]
    BY <1>4, <1>6 DEF Ack, Settled
  <2>2. visibleAfter'[<<u, p>>] = 0 /\ consumerOffsets' = consumerOffsets
    <3>1. visibleAfter'[<<t, o>>] = 0
      BY <2>1, NackEffect
    <3>2. consumerOffsets' = consumerOffsets
      BY <2>1 DEF Nack
    <3> QED
      BY <1>6, <3>1, <3>2
  <2>3. LockHasHolder(u, p)'
    BY <1>1, <2>2 DEF LockHasHolder
  <2>4. \E d \in Consumers : StandsBefore(d, u, p)'
    BY <1>3, <1>5, <2>2 DEF StandsBefore
  <2> QED
    BY <2>3, <2>4 DEF Reachable
<1>7. CASE ~(u = t /\ p = o)
  <2>1. <<u, p>> # <<t, o>>
    BY <1>7
  <2>2. visibleAfter'[<<u, p>>] = visibleAfter[<<u, p>>]
    <3>1. CASE Ack(c, t, o)
      BY <3>1 DEF Ack
    <3>2. CASE Nack(c, t, o)
      <4>1. \A n \in Messages \ {<<t, o>>} :
              /\ visibleAfter'[n] = visibleAfter[n]
              /\ retryCount'[n] = retryCount[n]
              /\ nacked'[n] = nacked[n]
        BY <3>2, NackEffect
      <4> QED
        BY <1>4, <2>1, <4>1
    <3> QED
      BY <3>1, <3>2
  <2>3. LockHasHolder(u, p)'
    <3>1. \A e \in Consumers : Handles(e, u, p) => e # c
      BY <1>1, <2>1 DEF Handles
    <3> QED
      BY <1>1, <1>5, <2>2, <3>1 DEF LockHasHolder, Handles
  <2>4. PICK d \in Consumers : StandsBefore(d, u, p)
    BY <1>5
  <2>5. consumerOffsets'[Key(u, d)] <= p
    <3>1. CASE consumerOffsets'[Key(u, d)] = consumerOffsets[Key(u, d)]
      BY <2>4, <3>1 DEF StandsBefore
    <3>2. CASE consumerOffsets'[Key(u, d)] # consumerOffsets[Key(u, d)]
      <4>1. Ack(c, t, o) /\ o \in topics[t]
        BY <3>2 DEF Ack, Nack
      <4>2. u = t /\ d = c
        BY <3>2, <4>1, AckEffect
      <4>3. o <= p /\ o # p
        BY <1>1, <1>7, <2>4, <4>2 DEF StandsBefore
      <4>4. o + 1 <= p
        BY <1>1, <1>4, <4>3
      <4> QED
        BY <2>4, <4>1, <4>2, <4>4, AckEffect DEF StandsBefore, Larger
    <3> QED
      BY <3>1, <3>2
  <2>6. StandsBefore(d, u, p)'
    BY <1>3, <2>4, <2>5 DEF StandsBefore
  <2> QED
    BY <2>3, <2>6 DEF Reachable
<1> QED
  BY <1>6, <1>7

(* A worker gives up a lock that has expired, or dies with its message.    *)
LEMMA ReachFree ==
  ASSUME TypeInv, ReachInv, NEW c \in Consumers, Lapse(c) \/ Crash(c)
  PROVE  ReachInv'
<1>1. /\ worker' = [worker EXCEPT ![c] = Free]
      /\ UNCHANGED <<topics, visibleAfter, consumerOffsets, clock, acked>>
      /\ orphaned \subseteq orphaned'
      /\ Lapse(c) => clock >= worker[c].until
      /\ Crash(c) => worker[c].msg \in orphaned'
  BY DEF Lapse, Crash, brokerVars, histVars
<1>2. \A d \in Consumers : \A u, q : Handles(d, u, q)' => Handles(d, u, q)
  BY <1>1, FreedWorker
<1>3. \A d \in Consumers \ {c} : worker'[d] = worker[d]
  BY <1>1 DEF TypeInv, FunctionTypes
<1> SUFFICES ASSUME NEW u \in Topics, NEW p \in topics[u], ~Settled(u, p)' PROVE Reachable(u, p)'
  BY <1>1 DEF ReachInv, Reachable
<1>4. ~Settled(u, p) /\ p \in OffsetsOf(u) /\ <<u, p>> \in Messages
  BY <1>1, MessageType DEF Settled, TypeInv, TypeOK
<1>5. LockHasHolder(u, p) /\ \E d \in Consumers : StandsBefore(d, u, p)
  BY <1>4 DEF ReachInv, Reachable
<1>6. LockHasHolder(u, p)'
  <2> SUFFICES ASSUME visibleAfter[<<u, p>>] > clock
               PROVE  \E e \in Consumers : Handles(e, u, p)' /\ worker'[e].until = visibleAfter[<<u, p>>]
    BY <1>1 DEF LockHasHolder
  <2>1. PICK e \in Consumers : Handles(e, u, p) /\ worker[e].until = visibleAfter[<<u, p>>]
    BY <1>5 DEF LockHasHolder
  <2>2. e # c
    <3>1. ASSUME e = c, Lapse(c) PROVE FALSE
      BY <1>1, <1>4, <2>1, <3>1 DEF TypeInv, TypeOK
    <3>2. ASSUME e = c, Crash(c) PROVE FALSE
      BY <1>1, <2>1, <3>2 DEF Handles, Settled
    <3> QED
      BY <3>1, <3>2
  <2> QED
    BY <1>3, <2>1, <2>2 DEF Handles
<1>7. \E d \in Consumers : StandsBefore(d, u, p)'
  BY <1>1, <1>2, <1>5 DEF StandsBefore
<1> QED
  BY <1>6, <1>7 DEF Reachable

LEMMA ReachStep == TypeInv /\ PublishedInv /\ OffsetInv /\ ReachInv /\ [Next]_vars => ReachInv'
<1> SUFFICES ASSUME TypeInv, PublishedInv, OffsetInv, ReachInv, [Next]_vars PROVE ReachInv'
  OBVIOUS
<1>1. CASE \E t \in Topics : Publish(t)
  BY <1>1, ReachPublish
<1>2. CASE \E c \in Consumers, t \in Topics : Consume(t, c)
  BY <1>2, ReachConsume
<1>3. ASSUME NEW c \in Consumers, NEW t \in Topics, NEW o \in OffsetsOf(t), Ack(c, t, o) \/ Nack(c, t, o)
      PROVE  ReachInv'
  BY <1>3, ReachSettle
<1>4. CASE \E c \in Consumers : Lapse(c) \/ Crash(c)
  BY <1>4, ReachFree
<1>5. CASE Advance \/ UNCHANGED vars
  <2>1. /\ UNCHANGED <<topics, visibleAfter, consumerOffsets, worker, acked, orphaned>>
        /\ clock' \in Nat /\ clock' >= clock /\ clock \in Nat
    BY <1>5 DEF Advance, vars, brokerVars, histVars, TypeInv, TypeOK
  <2>2. \A t \in Topics : \A o \in topics[t] : visibleAfter[<<t, o>>] \in Nat
    BY MessageType DEF TypeInv, TypeOK
  <2>3. \A t \in Topics : \A o \in topics[t] : visibleAfter[<<t, o>>] > clock' => visibleAfter[<<t, o>>] > clock
    BY <2>1, <2>2
  <2>4. \A t \in Topics : \A o \in topics[t] : LockHasHolder(t, o) => LockHasHolder(t, o)'
    BY <2>1, <2>3 DEF LockHasHolder, Handles
  <2>5. \A t, o, c : StandsBefore(c, t, o) => StandsBefore(c, t, o)'
    BY <2>1 DEF StandsBefore, Handles
  <2>6. \A t, o : Settled(t, o) => Settled(t, o)'
    BY <2>1 DEF Settled
  <2>7. topics' = topics
    BY <2>1
  <2> QED
    BY <2>4, <2>5, <2>6, <2>7 DEF ReachInv, Reachable
<1> QED
  BY <1>1, <1>2, <1>3, <1>4, <1>5 DEF Next

(* Unless a crashed worker had locked it, a queued message that nobody     *)
(* acknowledged can still reach some worker: they never all pass it.       *)
THEOREM NobodySkips == Spec => []NothingSkipped
<1>1. Init => ReachInv
  BY DEF Init, ReachInv
<1>2. Spec => []ReachInv
  BY <1>1, ReachStep, TypeInvariant, PublishedInvariant, OffsetInvariant, PTL DEF Spec
<1>3. ReachInv => NothingSkipped
  BY DEF ReachInv, Reachable, Settled, StandsBefore, NothingSkipped, StillReachable
<1> QED
  BY <1>2, <1>3, PTL
-----------------------------------------------------------------------------
(* DeadLetterInv: a rejection counts once, and the one that exhausts the   *)
(* retries moves the message in the same step.                             *)
LEMMA DeadLetterSame ==
  ASSUME DeadLetterInv, UNCHANGED <<topics, topicSequence, dlq, nacked, retryCount>>
  PROVE  DeadLetterInv'
  BY DEF DeadLetterInv, DeadLetterExact

LEMMA DeadLetterPublish ==
  ASSUME TypeInv, PublishedInv, DeadLetterInv, NEW t \in Topics, Publish(t)
  PROVE  DeadLetterInv'
<1> DEFINE q == topicSequence[t]
<1>1. /\ topics' = [topics EXCEPT ![t] = topics[t] \cup {q}]
      /\ topicSequence' = [topicSequence EXCEPT ![t] = q + 1]
      /\ UNCHANGED <<dlq, nacked, retryCount>>
      /\ topics \in [Topics -> SUBSET Nat] /\ topicSequence \in [Topics -> Nat]
      /\ dlq \in Seq(Messages)
  BY DEF Publish, histVars, TypeInv, TypeOK, FunctionTypes
<1>2. q \in Nat /\ q \in OffsetsOf(t) /\ nacked[<<t, q>>] = 0
  <2>1. q < MaxMessages[t] /\ q \in Nat /\ MaxMessages[t] \in Nat
    BY <1>1, BrokerAssumption DEF Publish
  <2>2. q \in OffsetsOf(t)
    BY <2>1 DEF OffsetsOf
  <2> QED
    BY <2>1, <2>2 DEF PublishedInv
<1>3. \A u \in Topics : topics[u] \subseteq topics'[u]
                        /\ \A o \in topics'[u] : o \in topics[u] \/ (u = t /\ o = q)
  BY <1>1
<1>4. ASSUME NEW u \in Topics, NEW o \in topics'[u] PROVE nacked'[<<u, o>>] < maxRetries
  <2>1. CASE o \in topics[u]
    BY <1>1, <2>1 DEF DeadLetterInv, DeadLetterExact
  <2>2. CASE u = t /\ o = q
    BY <1>1, <1>2, <2>2, BrokerAssumption
  <2> QED
    BY <1>3, <1>4, <2>1, <2>2
<1>5. ASSUME NEW i \in DOMAIN dlq'
      PROVE  /\ nacked'[dlq'[i]] = maxRetries
             /\ dlq'[i][2] \notin topics'[dlq'[i][1]]
             /\ \A j \in DOMAIN dlq' : dlq'[i] = dlq'[j] => i = j
  <2>1. /\ nacked[dlq[i]] = maxRetries /\ dlq[i][2] \notin topics[dlq[i][1]]
        /\ \A j \in DOMAIN dlq : dlq[i] = dlq[j] => i = j
    BY <1>1 DEF DeadLetterInv, DeadLetterExact
  <2>2. dlq[i] \in Messages
    BY <1>1
  <2>3. PICK u \in Topics : \E o \in OffsetsOf(u) : dlq[i] = <<u, o>>
    BY <2>2, MessageType
  <2>4. PICK o \in OffsetsOf(u) : dlq[i] = <<u, o>>
    BY <2>3
  <2>5. ~(u = t /\ o = q)
    BY <1>2, <2>1, <2>4, BrokerAssumption
  <2>6. dlq[i][1] = u /\ dlq[i][2] = o
    BY <2>4
  <2>7. o \notin topics'[u]
    BY <1>3, <2>1, <2>5, <2>6
  <2> QED
    BY <1>1, <2>1, <2>6, <2>7
<1>6. ASSUME NEW u \in Topics, NEW o \in OffsetsOf(u), o < topicSequence'[u]
      PROVE  o \in topics'[u] \/ \E i \in DOMAIN dlq' : dlq'[i] = <<u, o>>
  <2>1. o \in Nat
    BY MessageType
  <2>2. CASE u = t /\ o = q
    BY <1>1, <2>2
  <2>3. CASE ~(u = t /\ o = q)
    <3>1. o < topicSequence[u]
      BY <1>1, <1>2, <1>6, <2>1, <2>3
    <3>2. o \in topics[u] \/ \E i \in DOMAIN dlq : dlq[i] = <<u, o>>
      BY <3>1 DEF DeadLetterInv, DeadLetterExact
    <3> QED
      BY <1>1, <1>3, <3>2
  <2> QED
    BY <2>2, <2>3
<1>7. retryCount' = nacked'
  BY <1>1 DEF DeadLetterInv
<1> QED
  BY <1>4, <1>5, <1>6, <1>7 DEF DeadLetterInv, DeadLetterExact

LEMMA DeadLetterNack ==
  ASSUME TypeInv, DeadLetterInv, NEW c \in Consumers, NEW t \in Topics, NEW o \in OffsetsOf(t),
         Nack(c, t, o), o \in topics[t]
  PROVE  DeadLetterInv'
<1> DEFINE m == <<t, o>>
<1>1. /\ topicSequence' = topicSequence
      /\ nacked \in [Messages -> Nat] /\ retryCount = nacked /\ m \in Messages
      /\ topics \in [Topics -> SUBSET Nat] /\ dlq \in Seq(Messages)
      /\ retryCount' = [retryCount EXCEPT ![m] = retryCount[m] + 1]
      /\ nacked' = [nacked EXCEPT ![m] = nacked[m] + 1]
  BY MessageType DEF Nack, DeadLetterInv, TypeInv, TypeOK, FunctionTypes
<1>2. /\ nacked'[m] = nacked[m] + 1 /\ retryCount' = nacked' /\ retryCount'[m] = nacked'[m]
      /\ \A n \in Messages \ {m} : nacked'[n] = nacked[n]
      /\ nacked[m] \in Nat
  BY <1>1
<1>3. nacked[m] < maxRetries
  BY DEF DeadLetterInv, DeadLetterExact
(* A dead letter is not in its topic, so it is another message.            *)
<1>4. ASSUME NEW i \in DOMAIN dlq
      PROVE  /\ dlq[i] \in Messages \ {m}
             /\ nacked'[dlq[i]] = maxRetries
             /\ dlq[i][2] \notin topics[dlq[i][1]]
             /\ \A j \in DOMAIN dlq : dlq[i] = dlq[j] => i = j
  <2>1. /\ nacked[dlq[i]] = maxRetries /\ dlq[i][2] \notin topics[dlq[i][1]]
        /\ \A j \in DOMAIN dlq : dlq[i] = dlq[j] => i = j
    BY DEF DeadLetterInv, DeadLetterExact
  <2>2. dlq[i] \in Messages /\ dlq[i] # m
    BY <1>1, <2>1
  <2> QED
    BY <1>2, <2>1, <2>2
<1>5. ASSUME NEW u \in Topics, NEW p \in topics[u], ~(u = t /\ p = o)
      PROVE  nacked'[<<u, p>>] < maxRetries
  <2>1. <<u, p>> \in Messages /\ <<u, p>> # m
    BY <1>5, MessageType DEF TypeInv, TypeOK
  <2>2. nacked[<<u, p>>] < maxRetries
    BY DEF DeadLetterInv, DeadLetterExact
  <2> QED
    BY <1>2, <2>1, <2>2
<1>6. ASSUME NEW u \in Topics, NEW p \in OffsetsOf(u), p < topicSequence[u]
      PROVE  p \in topics[u] \/ \E i \in DOMAIN dlq : dlq[i] = <<u, p>>
  BY <1>6 DEF DeadLetterInv, DeadLetterExact
<1>7. CASE Exhausted(retryCount'[m])
  <2>1. dlq' = Append(dlq, m) /\ topics' = [topics EXCEPT ![t] = topics[t] \ {o}]
    BY <1>7 DEF Nack
  <2>2. nacked'[m] = maxRetries
    BY <1>2, <1>3, <1>7, BrokerAssumption DEF Exhausted
  <2>3. \A u \in Topics : \A p : p \in topics'[u] <=> p \in topics[u] /\ ~(u = t /\ p = o)
    BY <1>1, <2>1
  <2>4. ASSUME NEW u \in Topics, NEW p \in topics'[u] PROVE nacked'[<<u, p>>] < maxRetries
    BY <1>5, <2>3, <2>4
  <2>5. /\ DOMAIN dlq' = 1..(Len(dlq) + 1) /\ DOMAIN dlq = 1..Len(dlq) /\ Len(dlq) \in Nat
        /\ dlq'[Len(dlq) + 1] = m
        /\ \A i \in DOMAIN dlq : dlq'[i] = dlq[i]
    BY <1>1, <2>1, AppendFacts
  <2>6. ASSUME NEW i \in DOMAIN dlq'
        PROVE  /\ nacked'[dlq'[i]] = maxRetries
               /\ dlq'[i][2] \notin topics'[dlq'[i][1]]
               /\ \A j \in DOMAIN dlq' : dlq'[i] = dlq'[j] => i = j
    <3>1. CASE i = Len(dlq) + 1
      <4>1. dlq'[i] = m /\ m[1] = t /\ m[2] = o
        BY <2>5, <3>1
      <4>2. o \notin topics'[t]
        BY <2>3
      <4>3. ASSUME NEW j \in DOMAIN dlq', dlq'[j] = m PROVE i = j
        <5>1. j \notin DOMAIN dlq
          BY <1>4, <2>5, <4>3
        <5> QED
          BY <2>5, <3>1, <5>1
      <4> QED
        BY <2>2, <4>1, <4>2, <4>3
    <3>2. CASE i # Len(dlq) + 1
      <4>1. i \in DOMAIN dlq /\ dlq'[i] = dlq[i] /\ dlq[i] \in Messages \ {m}
        BY <1>4, <2>5, <3>2
      <4>2. dlq[i][2] \notin topics'[dlq[i][1]]
        <5>1. PICK u \in Topics : \E p \in OffsetsOf(u) : dlq[i] = <<u, p>>
          BY <4>1, MessageType
        <5>2. PICK p \in OffsetsOf(u) : dlq[i] = <<u, p>>
          BY <5>1
        <5>3. dlq[i][1] = u /\ dlq[i][2] = p
          BY <5>2
        <5> QED
          BY <1>4, <2>3, <4>1, <5>3
      <4>3. ASSUME NEW j \in DOMAIN dlq', dlq'[i] = dlq'[j] PROVE i = j
        <5>1. j # Len(dlq) + 1
          BY <2>5, <4>1, <4>3
        <5>2. j \in DOMAIN dlq /\ dlq'[j] = dlq[j]
          BY <2>5, <5>1
        <5> QED
          BY <1>4, <4>1, <4>3, <5>2
      <4> QED
        BY <1>4, <4>1, <4>2, <4>3
    <3> QED
      BY <3>1, <3>2
  <2>7. ASSUME NEW u \in Topics, NEW p \in OffsetsOf(u), p < topicSequence'[u]
        PROVE  p \in topics'[u] \/ \E i \in DOMAIN dlq' : dlq'[i] = <<u, p>>
    <3>1. CASE u = t /\ p = o
      <4>1. Len(dlq) + 1 \in DOMAIN dlq' /\ dlq'[Len(dlq) + 1] = <<u, p>>
        BY <2>5, <3>1
      <4> QED
        BY <4>1
    <3>2. CASE ~(u = t /\ p = o)
      <4>1. CASE p \in topics[u]
        BY <2>3, <3>2, <4>1
      <4>2. CASE p \notin topics[u]
        <5>1. PICK i \in DOMAIN dlq : dlq[i] = <<u, p>>
          BY <1>1, <1>6, <2>7, <4>2
        <5>2. i \in DOMAIN dlq' /\ dlq'[i] = <<u, p>>
          BY <2>5, <5>1
        <5> QED
          BY <5>2
      <4> QED
        BY <4>1, <4>2
    <3> QED
      BY <3>1, <3>2
  <2> QED
    BY <1>2, <2>4, <2>6, <2>7 DEF DeadLetterInv, DeadLetterExact
<1>8. CASE ~Exhausted(retryCount'[m])
  <2>1. dlq' = dlq /\ topics' = topics
    BY <1>8 DEF Nack
  <2>2. nacked'[m] < maxRetries
    BY <1>2, <1>8, BrokerAssumption DEF Exhausted
  <2>3. ASSUME NEW u \in Topics, NEW p \in topics[u] PROVE nacked'[<<u, p>>] < maxRetries
    BY <1>5, <2>2
  <2>4. ASSUME NEW i \in DOMAIN dlq'
        PROVE  /\ nacked'[dlq'[i]] = maxRetries
               /\ dlq'[i][2] \notin topics'[dlq'[i][1]]
               /\ \A j \in DOMAIN dlq' : dlq'[i] = dlq'[j] => i = j
    BY <1>4, <2>1
  <2>5. \A u \in Topics : \A p \in OffsetsOf(u) :
          p < topicSequence'[u] => p \in topics'[u] \/ \E i \in DOMAIN dlq' : dlq'[i] = <<u, p>>
    BY <1>1, <1>6, <2>1
  <2> QED
    BY <1>2, <2>1, <2>3, <2>4, <2>5 DEF DeadLetterInv, DeadLetterExact
<1> QED
  BY <1>7, <1>8

LEMMA DeadLetterStep == TypeInv /\ PublishedInv /\ DeadLetterInv /\ [Next]_vars => DeadLetterInv'
<1> SUFFICES ASSUME TypeInv, PublishedInv, DeadLetterInv, [Next]_vars PROVE DeadLetterInv'
  OBVIOUS
<1>1. CASE \E t \in Topics : Publish(t)
  BY <1>1, DeadLetterPublish
<1>2. ASSUME NEW c \in Consumers, NEW t \in Topics, NEW o \in OffsetsOf(t), Nack(c, t, o) PROVE DeadLetterInv'
  <2>1. CASE o \in topics[t]
    BY <1>2, <2>1, DeadLetterNack
  <2>2. CASE o \notin topics[t]
    BY <1>2, <2>2, DeadLetterSame DEF Nack
  <2> QED
    BY <2>1, <2>2
<1>3. ASSUME NEW c \in Consumers, NEW t \in Topics, NEW o \in OffsetsOf(t), Ack(c, t, o) PROVE DeadLetterInv'
  BY <1>3, DeadLetterSame DEF Ack
<1>4. ASSUME NEW c \in Consumers, NEW t \in Topics, Consume(t, c) PROVE DeadLetterInv'
  BY <1>4, DeadLetterSame DEF Consume, histVars
<1>5. ASSUME NEW c \in Consumers, Lapse(c) \/ Crash(c) PROVE DeadLetterInv'
  BY <1>5, DeadLetterSame DEF Lapse, Crash, brokerVars, histVars
<1>6. CASE Advance \/ UNCHANGED vars
  BY <1>6, DeadLetterSame DEF Advance, vars, brokerVars, histVars
<1> QED
  BY <1>1, <1>2, <1>3, <1>4, <1>5, <1>6 DEF Next

(* Every published message is in its topic with fewer rejections than the  *)
(* limit, or in the dead-letter queue, once, with exactly as many.         *)
THEOREM DeadLettersExact == Spec => []DeadLetterExact
<1>1. Init => DeadLetterInv
  <2> SUFFICES ASSUME Init PROVE DeadLetterInv
    OBVIOUS
  <2>1. DOMAIN dlq = {} /\ retryCount = nacked
    BY DEF Init
  <2>2. ASSUME NEW t \in Topics, NEW o \in OffsetsOf(t) PROVE ~(o < topicSequence[t])
    <3>1. o \in Nat /\ topicSequence[t] = 0
      BY MessageType DEF Init
    <3> QED
      BY <3>1
  <2>3. \A t \in Topics : topics[t] = {}
    BY DEF Init
  <2> QED
    BY <2>1, <2>2, <2>3 DEF DeadLetterInv, DeadLetterExact
<1>2. Spec => []DeadLetterInv
  BY <1>1, DeadLetterStep, TypeInvariant, PublishedInvariant, PTL DEF Spec
<1>3. DeadLetterInv => DeadLetterExact
  BY DEF DeadLetterInv
<1> QED
  BY <1>2, <1>3, PTL
=============================================================================
