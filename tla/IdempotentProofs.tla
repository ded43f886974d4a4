-------------------------- MODULE IdempotentProofs --------------------------
(***************************************************************************)
(* Proofs about the idempotent producer, for any number of clients, topics *)
(* and producers: every answer is the offset of the entry it stands for,   *)
(* no entry goes below a sequence number acknowledged before its call, and *)
(* a producer of one client gets the same answer again.                    *)
(***************************************************************************)
EXTENDS Idempotent, TLAPS

IdemEntry == [kind : {"idem"}, producer : Producer, seq : Sequence, seen : SUBSET Sequence]

Element == IdemEntry \cup {Plain}

CallType ==
  [pc : {"produce", "remember"}, topic : Topic, producer : Producer, seq : Sequence,
   seen : SUBSET Sequence, offset : Nat]

AnswerType == [topic : Topic, producer : Producer, seq : Sequence, offset : Nat]

\* The types of the broker's maps, of the calls in progress, of the log and
\* of the answers.
BrokerTyped ==
  /\ topics \subseteq Topic
  /\ log \in [Topic -> Seq(Element)]
  /\ safe \in [Topic -> Nat]
  /\ draining \in BOOLEAN

SeqTyped == \A k \in DOMAIN producerSeq : producerSeq[k] \in Sequence

CallsTyped == call \in [Client -> {NoCall} \cup CallType]

AnswersTyped == answered \subseteq AnswerType

Typed == BrokerTyped /\ SeqTyped /\ CallsTyped /\ AnswersTyped

\* Offset o of topic t holds what producer p wrote with number s.
Sound(t, p, s, o) ==
  /\ o \in Nat /\ o < Len(log[t])
  /\ log[t][o + 1].kind = "idem" /\ log[t][o + 1].producer = p /\ log[t][o + 1].seq = s

Ordered(e) == e.kind = "idem" => \A s \in e.seen : s < e.seq

\* The last sequence number is at least s.
Covers(t, p, s) == s = 0 \/ (SeqKey(t, p) \in DOMAIN producerSeq /\ s <= producerSeq[SeqKey(t, p)])

\* A call about to be remembered, and the cache, point at their entries; a
\* cached number is not above the last one; an acknowledged one is cached; a
\* call in progress is above what was acknowledged when it began.
CallsSound ==
  \A c \in Client : call[c].pc = "remember" =>
    Sound(call[c].topic, call[c].producer, call[c].seq, call[c].offset)

CacheSound ==
  \A t \in Topic, p \in Producer, s \in Sequence :
    DedupKey(t, p, s) \in DOMAIN dedupCache => Sound(t, p, s, dedupCache[DedupKey(t, p, s)])

CacheCovered ==
  \A t \in Topic, p \in Producer, s \in Sequence :
    DedupKey(t, p, s) \in DOMAIN dedupCache => Covers(t, p, s)

AnswersKept == \A a \in answered : DedupKey(a.topic, a.producer, a.seq) \in DOMAIN dedupCache

CallsOrdered == \A c \in Client : call[c] # NoCall => \A s \in call[c].seen : s < call[c].seq

IInv ==
  /\ BrokerTyped /\ SeqTyped /\ CallsTyped /\ AnswersTyped
  /\ AnswersSound
  /\ AcknowledgedBelow
  /\ CallsSound
  /\ CacheSound
  /\ CacheCovered
  /\ AnswersKept
  /\ CallsOrdered

\* Keys of different topics and producers differ, by NamesAssumption.
LEMMA NamesApart ==
  \A t, u \in Topic, p, q \in Producer : SeqKey(t, p) = SeqKey(u, q) => t = u /\ p = q
BY NamesAssumption, Zenon DEF SeqKey

\* Equal keys of the cache are those of equal topics, producers and numbers.
LEMMA KeysDiffer ==
  ASSUME NEW t \in Topic, NEW u \in Topic, NEW p \in Producer, NEW q \in Producer,
         NEW s, NEW r, DedupKey(t, p, s) = DedupKey(u, q, r)
  PROVE  t = u /\ p = q /\ s = r
<1>1. SeqKey(t, p) = SeqKey(u, q) /\ s = r
  BY Zenon DEF DedupKey
<1> QED
  BY <1>1, NamesApart

\* The process starts with an empty broker.
LEMMA InitIInv == Init => IInv
<1> SUFFICES ASSUME Init PROVE IInv
  BY Zenon
<1> USE DEF Init, BrokerInit, Empty, NoCall
<1>1. Typed
  <2>1. BrokerTyped
    <3>1. log \in [Topic -> Seq(Element)] /\ safe \in [Topic -> Nat]
      OBVIOUS
    <3>2. topics \subseteq Topic /\ draining \in BOOLEAN
      BY Zenon
    <3> QED
      BY <3>1, <3>2, Zenon DEF BrokerTyped
  <2>2. SeqTyped /\ AnswersTyped
    BY Zenon DEF SeqTyped, AnswersTyped
  <2>3. CallsTyped
    BY Zenon DEF CallsTyped
  <2> QED
    BY <2>1, <2>2, <2>3, Zenon DEF Typed
<1>2. AnswersSound /\ AnswersKept
  BY Zenon DEF AnswersSound, AnswersKept
<1>3. AcknowledgedBelow
  BY DEF AcknowledgedBelow
<1>4. CallsSound /\ CallsOrdered
  BY Zenon DEF CallsSound, CallsOrdered
<1>5. CacheSound /\ CacheCovered
  BY Zenon DEF CacheSound, CacheCovered
<1> QED
  BY <1>1, <1>2, <1>3, <1>4, <1>5, Zenon DEF IInv, Typed

\* A log that is appended to, or left as it is, keeps what it has.
LEMMA Grows ==
  ASSUME IInv, NEW t \in Topic, NEW e \in Element, Ordered(e),
         AppendEntry(t, e) \/ UNCHANGED log
  PROVE  /\ log' \in [Topic -> Seq(Element)]
         /\ \A u \in Topic : \A i \in 1 .. Len(log[u]) : i <= Len(log'[u]) /\ log'[u][i] = log[u][i]
         /\ AcknowledgedBelow'
<1>1. log \in [Topic -> Seq(Element)] /\ AcknowledgedBelow
  BY Zenon DEF IInv, BrokerTyped
<1>2. CASE UNCHANGED log
  BY <1>1, <1>2 DEF AcknowledgedBelow
<1>3. CASE AppendEntry(t, e)
  <2>1. \A u \in Topic : log'[u] = IF u = t THEN Append(log[t], e) ELSE log[u]
    BY <1>1, <1>3, Zenon DEF AppendEntry
  <2>2. log' \in [Topic -> Seq(Element)]
    BY <1>1, <1>3 DEF AppendEntry
  <2>3. /\ Len(Append(log[t], e)) = Len(log[t]) + 1
        /\ \A i \in 1 .. Len(log[t]) : Append(log[t], e)[i] = log[t][i]
        /\ Append(log[t], e)[Len(log[t]) + 1] = e
        /\ Len(log[t]) \in Nat /\ log[t] \in Seq(Element) /\ Append(log[t], e) \in Seq(Element)
    BY <1>1
  <2>4. ASSUME NEW u \in Topic
        PROVE  /\ \A i \in 1 .. Len(log[u]) : i <= Len(log'[u]) /\ log'[u][i] = log[u][i]
               /\ \A i \in DOMAIN log'[u] : log'[u][i] = e \/ (i \in DOMAIN log[u] /\ log'[u][i] = log[u][i])
    <3>1. CASE u = t
      <4>1. log'[u] = Append(log[t], e)
        BY <2>1, <3>1, Zenon
      <4>2. \A i \in 1 .. Len(log[u]) : i <= Len(log'[u]) /\ log'[u][i] = log[u][i]
        BY <2>3, <3>1, <4>1
      <4>3. DOMAIN log'[u] = 1 .. Len(log[t]) + 1 /\ DOMAIN log[u] = 1 .. Len(log[t])
        BY <2>3, <3>1, <4>1
      <4> QED
        BY <2>3, <3>1, <4>1, <4>2, <4>3
    <3>2. CASE u # t
      <4>1. log'[u] = log[u] /\ Len(log[u]) \in Nat /\ log[u] \in Seq(Element)
        BY <1>1, <2>1, <3>2
      <4> QED
        BY <4>1
    <3> QED
      BY <3>1, <3>2, Zenon
  <2>5. AcknowledgedBelow'
    BY <1>1, <2>4, Zenon DEF AcknowledgedBelow, Ordered
  <2> QED
    BY <2>2, <2>4, <2>5, Zenon
<1> QED
  BY <1>2, <1>3, Zenon

\* An offset that holds an entry holds it after the log has grown.
LEMMA StaysSound ==
  ASSUME IInv, log' \in [Topic -> Seq(Element)],
         \A u \in Topic : \A i \in 1 .. Len(log[u]) : i <= Len(log'[u]) /\ log'[u][i] = log[u][i]
  PROVE  \A t \in Topic : \A p, s, o : Sound(t, p, s, o) => Sound(t, p, s, o)'
<1> SUFFICES ASSUME NEW t \in Topic, NEW p, NEW s, NEW o, Sound(t, p, s, o)
             PROVE  Sound(t, p, s, o)'
  BY Zenon
<1>1. log[t] \in Seq(Element) /\ log'[t] \in Seq(Element)
  BY Zenon DEF IInv, BrokerTyped
<1>2. o \in Nat /\ o + 1 \in 1 .. Len(log[t])
  BY <1>1 DEF Sound
<1>3. o + 1 <= Len(log'[t]) /\ log'[t][o + 1] = log[t][o + 1]
  BY <1>2, Zenon
<1> QED
  BY <1>1, <1>2, <1>3 DEF Sound

\* The appended entry is at the offset that was the length.
LEMMA AppendedAt ==
  ASSUME IInv, NEW t \in Topic, NEW e \in Element, AppendEntry(t, e)
  PROVE  Len(log[t]) \in Nat /\ Len(log[t]) < Len(log'[t]) /\ log'[t][Len(log[t]) + 1] = e
<1>1. log \in [Topic -> Seq(Element)]
  BY Zenon DEF IInv, BrokerTyped
<1>2. log'[t] = Append(log[t], e) /\ log[t] \in Seq(Element)
  BY <1>1, Zenon DEF AppendEntry
<1> QED
  BY <1>2

\* The answers as a statement about offsets.
LEMMA AnswersAsOffsets ==
  ASSUME AnswersTyped
  PROVE  AnswersSound <=> \A a \in answered : Sound(a.topic, a.producer, a.seq, a.offset)
<1>1. \A a \in answered : a.offset \in Nat
  BY Zenon DEF AnswersTyped, AnswerType
<1> QED
  BY <1>1, Zenon DEF AnswersSound, Sound

\* What an append, or nothing, leaves true of the maps and the answers.
LEMMA LogStep ==
  ASSUME IInv, NEW t \in Topic, NEW e \in Element, Ordered(e),
         AppendEntry(t, e) \/ UNCHANGED log,
         UNCHANGED <<producerSeq, dedupCache, answered>>
  PROVE  /\ log' \in [Topic -> Seq(Element)]
         /\ AnswersSound' /\ AcknowledgedBelow' /\ CacheSound' /\ CacheCovered' /\ AnswersKept'
         /\ \A u \in Topic : \A p, s, o : Sound(u, p, s, o) => Sound(u, p, s, o)'
<1>1. log' \in [Topic -> Seq(Element)] /\ AcknowledgedBelow'
  BY Grows, Zenon
<1>2. \A u \in Topic : \A p, s, o : Sound(u, p, s, o) => Sound(u, p, s, o)'
  BY Grows, StaysSound, Zenon
<1>3. AnswersSound'
  <2> SUFFICES ASSUME NEW a \in answered
               PROVE  /\ a.offset < Len(log'[a.topic])
                      /\ log'[a.topic][a.offset + 1].kind = "idem"
                      /\ log'[a.topic][a.offset + 1].producer = a.producer
                      /\ log'[a.topic][a.offset + 1].seq = a.seq
    BY Zenon DEF AnswersSound
  <2>1. a.topic \in Topic /\ a.offset \in Nat
    BY Zenon DEF IInv, AnswersTyped, AnswerType
  <2>2. Sound(a.topic, a.producer, a.seq, a.offset)
    BY AnswersAsOffsets, Zenon DEF IInv
  <2>3. Sound(a.topic, a.producer, a.seq, a.offset)'
    BY <1>2, <2>1, <2>2, Zenon
  <2> QED
    BY <2>3, Zenon DEF Sound
<1>4. CacheSound'
  <2> SUFFICES ASSUME NEW u \in Topic, NEW p \in Producer, NEW s \in Sequence, DedupKey(u, p, s) \in DOMAIN dedupCache
               PROVE  Sound(u, p, s, dedupCache[DedupKey(u, p, s)])'
    BY Zenon DEF CacheSound
  <2>1. Sound(u, p, s, dedupCache[DedupKey(u, p, s)])
    BY Zenon DEF IInv, CacheSound
  <2> DEFINE o == dedupCache[DedupKey(u, p, s)]
  <2>2. o' = o
    BY Zenon
  <2> QED
    BY <1>2, <2>1, <2>2 DEF Sound
<1>5. CacheCovered' /\ AnswersKept'
  BY Zenon DEF IInv, CacheCovered, AnswersKept, Covers
<1> QED
  BY <1>1, <1>2, <1>3, <1>4, <1>5, Zenon

\* A call that a step leaves alone stays sound while the log grows.
LEMMA OtherCall ==
  ASSUME IInv, \A u \in Topic : \A p, s, o : Sound(u, p, s, o) => Sound(u, p, s, o)',
         NEW c \in Client, call'[c] = call[c], call[c].pc = "remember"
  PROVE  Sound(call[c].topic, call[c].producer, call[c].seq, call[c].offset)'
<1>1. Sound(call[c].topic, call[c].producer, call[c].seq, call[c].offset)
  BY Zenon DEF IInv, CallsSound
<1>2. call[c].topic \in Topic
  BY DEF IInv, CallsTyped, CallType, NoCall
<1>3. PICK t, p, s, o :
        t \in Topic /\ t = call[c].topic /\ p = call[c].producer /\ s = call[c].seq /\ o = call[c].offset
  BY <1>2, Zenon
<1>4. Sound(t, p, s, o)'
  BY <1>1, <1>3, Zenon
<1>5. t = call'[c].topic /\ p = call'[c].producer /\ s = call'[c].seq /\ o = call'[c].offset
  BY <1>3, Zenon
<1> QED
  BY <1>4, <1>5, Zenon DEF Sound

\* A step that leaves the calls alone leaves them sound and ordered.
LEMMA CallsKept ==
  ASSUME IInv, UNCHANGED call,
         \A u \in Topic : \A p, s, o : Sound(u, p, s, o) => Sound(u, p, s, o)'
  PROVE  CallsSound' /\ CallsOrdered'
<1>1. CallsOrdered'
  BY Zenon DEF IInv, CallsOrdered
<1>2. CallsSound'
  BY OtherCall, Zenon DEF CallsSound
<1> QED
  BY <1>1, <1>2, Zenon

\* Steps that change no call and no map: the log grows at most.
LEMMA BrokerStepIInv ==
  ASSUME IInv, \/ \E t \in Topic : OpenTopic(t) \/ PlainProduce(t)
               \/ DrainWindow
               \/ UNCHANGED vars
  PROVE  IInv'
<1> DEFINE Kept == UNCHANGED <<producerSeq, dedupCache, call, answered>>
<1>1. Plain \in Element /\ Ordered(Plain)
  BY Zenon DEF Element, Ordered, Plain
<1>2. ASSUME NEW t \in Topic, AppendEntry(t, Plain) \/ UNCHANGED log, Kept,
             topics' \subseteq Topic, safe' \in [Topic -> Nat], draining' \in BOOLEAN
      PROVE  IInv'
  <2>1. /\ log' \in [Topic -> Seq(Element)]
        /\ AnswersSound' /\ AcknowledgedBelow' /\ CacheSound' /\ CacheCovered' /\ AnswersKept'
        /\ \A u \in Topic : \A p, s, o : Sound(u, p, s, o) => Sound(u, p, s, o)'
    BY <1>1, <1>2, LogStep, Zenon
  <2>2. CallsSound' /\ CallsOrdered'
    BY <1>2, <2>1, CallsKept, Zenon
  <2>3. BrokerTyped'
    BY <1>2, <2>1, Zenon DEF BrokerTyped
  <2>4. SeqTyped' /\ CallsTyped' /\ AnswersTyped'
    BY <1>2, Zenon DEF IInv, SeqTyped, CallsTyped, AnswersTyped
  <2> QED
    BY <2>1, <2>2, <2>3, <2>4, Zenon DEF IInv
<1>3. ASSUME NEW t \in Topic, OpenTopic(t) PROVE IInv'
  <2>1. Kept /\ UNCHANGED log /\ topics' \subseteq Topic /\ safe' \in [Topic -> Nat] /\ draining' \in BOOLEAN
    BY <1>3, Zenon DEF OpenTopic, CreateTopic, IInv, BrokerTyped, logs, idemVars
  <2> QED
    BY <1>2, <2>1, Zenon
<1>4. ASSUME NEW t \in Topic, PlainProduce(t) PROVE IInv'
  <2>1. Kept /\ topics' = topics /\ draining' = draining /\ (Appends(t, Plain) \/ AppendFails(t, Plain))
    BY <1>4, Zenon DEF PlainProduce, Produce, idemVars
  <2>2. Len(log[t]) + 1 \in Nat
    BY DEF IInv, BrokerTyped
  <2>3. safe' \in [Topic -> Nat] /\ (AppendEntry(t, Plain) \/ UNCHANGED log)
    <3>1. safe \in [Topic -> Nat]
      BY Zenon DEF IInv, BrokerTyped
    <3>2. CASE Appends(t, Plain)
      BY <2>2, <3>1, <3>2, Zenon DEF Appends
    <3>3. CASE AppendFails(t, Plain)
      BY <3>1, <3>3, Zenon DEF AppendFails
    <3> QED
      BY <2>1, <3>2, <3>3, Zenon
  <2>4. topics' \subseteq Topic /\ draining' \in BOOLEAN
    BY <2>1, Zenon DEF IInv, BrokerTyped
  <2> QED
    BY <1>2, <2>1, <2>3, <2>4, Zenon
<1>5. ASSUME Kept, UNCHANGED log, topics' \subseteq Topic, safe' \in [Topic -> Nat], draining' \in BOOLEAN
      PROVE  IInv'
  <2>1. CallsOrdered' /\ AnswersKept'
    BY <1>5, Zenon DEF IInv, CallsOrdered, AnswersKept
  <2>2. AnswersSound' /\ AcknowledgedBelow'
    BY <1>5, Zenon DEF IInv, AnswersSound, AcknowledgedBelow
  <2>3. CallsSound' /\ CacheSound' /\ CacheCovered'
    <3>1. CallsSound /\ CacheSound /\ CacheCovered
      BY Zenon DEF IInv
    <3>2. CallsSound'
      BY <1>5, <3>1, Zenon DEF CallsSound, Sound
    <3>3. CacheSound'
      BY <1>5, <3>1 DEF CacheSound, Sound
    <3>4. CacheCovered'
      BY <1>5, <3>1, Zenon DEF CacheCovered, Covers
    <3> QED
      BY <3>2, <3>3, <3>4, Zenon
  <2>4. BrokerTyped'
    BY <1>5, Zenon DEF IInv, BrokerTyped
  <2>5. SeqTyped' /\ CallsTyped' /\ AnswersTyped'
    BY <1>5, Zenon DEF IInv, SeqTyped, CallsTyped, AnswersTyped
  <2> QED
    BY <2>1, <2>2, <2>3, <2>4, <2>5, Zenon DEF IInv
<1>6. CASE DrainWindow
  <2>1. Kept /\ UNCHANGED log /\ topics' \subseteq Topic /\ safe' \in [Topic -> Nat]
    BY <1>6, Zenon DEF DrainWindow, Drain, DrainEnds, IInv, BrokerTyped, logs, idemVars
  <2>2. draining' \in BOOLEAN
    BY <1>6, Zenon DEF DrainWindow, Drain, DrainEnds
  <2> QED
    BY <1>5, <2>1, <2>2, Zenon
<1>7. CASE UNCHANGED vars
  BY <1>5, <1>7, Zenon DEF vars, brokerVars, logs, idemVars, IInv, BrokerTyped
<1> QED
  BY <1>3, <1>4, <1>6, <1>7, Zenon

\* An answer from the cache is an entry the cache points at.
LEMMA AnswerFromCacheIInv ==
  ASSUME IInv, NEW c \in Client, NEW t \in Topic, NEW p \in Producer, NEW s \in Sequence,
         AnswerFromCache(c, t, p, s)
  PROVE  IInv'
<1> DEFINE o == dedupCache[DedupKey(t, p, s)]
           a == [topic |-> t, producer |-> p, seq |-> s, offset |-> o]
<1>1. /\ DedupKey(t, p, s) \in DOMAIN dedupCache /\ answered' = answered \cup {a}
      /\ UNCHANGED <<topics, log, safe, draining, producerSeq, dedupCache, call>>
  BY Zenon DEF AnswerFromCache, brokerVars, logs
<1>2. Sound(t, p, s, o)
  BY <1>1, Zenon DEF IInv, CacheSound
<1>3. o \in Nat
  BY <1>2, Zenon DEF Sound
<1>4. Typed'
  <2>1. a \in AnswerType
    BY <1>3, Zenon DEF AnswerType
  <2>2. AnswersTyped'
    <3> HIDE DEF a
    <3> QED
      BY <1>1, <2>1, Zenon DEF IInv, AnswersTyped
  <2>3. BrokerTyped' /\ SeqTyped' /\ CallsTyped'
    BY <1>1, Zenon DEF IInv, BrokerTyped, SeqTyped, CallsTyped
  <2> QED
    BY <2>2, <2>3, Zenon DEF Typed
<1>5. AnswersSound'
  <2>1. AnswersSound
    BY Zenon DEF IInv
  <2>2. log' = log /\ \A b \in answered' : b \in answered \/ b = a
    BY <1>1, Zenon
  <2>3. a.topic = t /\ a.producer = p /\ a.seq = s /\ a.offset = o
    BY Zenon
  <2> HIDE DEF a, o
  <2> QED
    BY <1>2, <2>1, <2>2, <2>3, Zenon DEF AnswersSound, Sound
<1>6. AcknowledgedBelow' /\ CallsOrdered'
  BY <1>1, Zenon DEF IInv, AcknowledgedBelow, CallsOrdered
<1>7. CallsSound' /\ CacheSound'
  <2>1. CallsSound /\ CacheSound
    BY Zenon DEF IInv
  <2>2. CallsSound'
    BY <1>1, <2>1, Zenon DEF CallsSound, Sound
  <2>3. CacheSound'
    BY <1>1, <2>1 DEF CacheSound, Sound
  <2> QED
    BY <2>2, <2>3, Zenon
<1>8. AnswersKept' /\ CacheCovered'
  <2>1. AnswersKept /\ CacheCovered
    BY Zenon DEF IInv
  <2>2. AnswersKept'
    BY <1>1, <2>1 DEF AnswersKept
  <2>3. CacheCovered'
    BY <1>1, <2>1, Zenon DEF CacheCovered, Covers
  <2> QED
    BY <2>2, <2>3, Zenon
<1> QED
  BY <1>4, <1>5, <1>6, <1>7, <1>8, Zenon DEF IInv, Typed

\* A call that passes the check is above everything acknowledged so far:
\* acknowledged numbers are cached, and so not equal, and not above the last.
LEMMA CheckIInv ==
  ASSUME IInv, NEW c \in Client, NEW t \in Topic, NEW p \in Producer, NEW s \in Sequence,
         Check(c, t, p, s)
  PROVE  IInv'
<1> DEFINE k == [pc |-> "produce", topic |-> t, producer |-> p, seq |-> s, seen |-> Acknowledged(t, p), offset |-> 0]
<1>1. /\ DedupKey(t, p, s) \notin DOMAIN dedupCache
      /\ SeqKey(t, p) \in DOMAIN producerSeq => s >= producerSeq[SeqKey(t, p)]
      /\ call' = [call EXCEPT ![c] = k]
      /\ UNCHANGED <<topics, log, safe, draining, producerSeq, dedupCache, answered>>
  BY Zenon DEF Check, brokerVars, logs
<1>2. \A r \in Acknowledged(t, p) : r \in Sequence /\ r < s
  <2> SUFFICES ASSUME NEW a \in answered, a.topic = t, a.producer = p
               PROVE  a.seq \in Sequence /\ a.seq < s
    BY Zenon DEF Acknowledged
  <2>1. a.seq \in Sequence
    BY Zenon DEF IInv, AnswersTyped, AnswerType
  <2>2. DedupKey(t, p, a.seq) \in DOMAIN dedupCache
    BY Zenon DEF IInv, AnswersKept
  <2>3. a.seq # s
    BY <1>1, <2>2, Zenon
  <2>4. Covers(t, p, a.seq)
    BY <2>1, <2>2, Zenon DEF IInv, CacheCovered
  <2>5. a.seq \in Nat /\ s \in Nat
    BY <2>1, SequenceAssumption, Zenon
  <2>6. SeqKey(t, p) \in DOMAIN producerSeq => producerSeq[SeqKey(t, p)] \in Nat
    <3>1. \A x \in DOMAIN producerSeq : producerSeq[x] \in Sequence
      BY Zenon DEF IInv, SeqTyped
    <3> QED
      BY <3>1, SequenceAssumption, Zenon
  <2> QED
    BY <1>1, <2>1, <2>3, <2>4, <2>5, <2>6 DEF Covers
<1>3. k.seen \in SUBSET Sequence /\ \A r \in k.seen : r < k.seq
  BY <1>2, Zenon
<1>4. \A d \in Client : call'[d] = IF d = c THEN k ELSE call[d]
  BY <1>1, Zenon DEF IInv, CallsTyped
<1>5. Typed'
  <2>1. k \in CallType
    BY <1>3, Zenon DEF CallType
  <2>2. CallsTyped'
    <3> HIDE DEF k
    <3> QED
      BY <1>1, <2>1, Zenon DEF IInv, CallsTyped
  <2>3. BrokerTyped' /\ SeqTyped' /\ AnswersTyped'
    BY <1>1, Zenon DEF IInv, BrokerTyped, SeqTyped, AnswersTyped
  <2> QED
    BY <2>2, <2>3, Zenon DEF Typed
<1>6. AnswersSound' /\ AcknowledgedBelow' /\ AnswersKept'
  BY <1>1, Zenon DEF IInv, AnswersSound, AcknowledgedBelow, AnswersKept
<1>same. log' = log /\ dedupCache' = dedupCache /\ producerSeq' = producerSeq
  BY <1>1, Zenon
<1>7. CacheSound' /\ CacheCovered'
  <2>1. CacheSound /\ CacheCovered
    BY Zenon DEF IInv
  <2>2. CacheSound'
    BY <1>same, <2>1 DEF CacheSound, Sound
  <2>3. CacheCovered'
    BY <1>same, <2>1, Zenon DEF CacheCovered, Covers
  <2> QED
    BY <2>2, <2>3, Zenon
<1>8. CallsOrdered'
  <2> HIDE DEF k
  <2> QED
    BY <1>3, <1>4, Zenon DEF IInv, CallsOrdered
<1>9. CallsSound'
  <2>1. k.pc # "remember"
    BY Zenon
  <2>2. CallsSound
    BY Zenon DEF IInv
  <2> HIDE DEF k
  <2> QED
    BY <1>4, <1>same, <2>1, <2>2, Zenon DEF CallsSound, Sound
<1> QED
  BY <1>5, <1>6, <1>7, <1>8, <1>9, Zenon DEF IInv, Typed

\* A call in progress writes an entry above what was acknowledged before it.
LEMMA CallEntry ==
  ASSUME IInv, NEW c \in Client, call[c].pc \in {"produce", "remember"}
  PROVE  call[c] \in CallType /\ Entry(call[c]) \in Element /\ Ordered(Entry(call[c]))
<1>1. call[c] \in CallType /\ call[c] # NoCall
  BY DEF IInv, CallsTyped, NoCall, CallType
<1>2. Entry(call[c]) \in IdemEntry
  BY <1>1, Zenon DEF Entry, IdemEntry, CallType
<1>3. \A s \in call[c].seen : s < call[c].seq
  BY <1>1, Zenon DEF IInv, CallsOrdered
<1> QED
  BY <1>1, <1>2, <1>3, Zenon DEF Element, Ordered, Entry

\* Produce appends the entry, and the call keeps its offset.
LEMMA ProduceSucceedsIInv ==
  ASSUME IInv, NEW c \in Client, ProduceSucceeds(c)
  PROVE  IInv'
<1> DEFINE t == call[c].topic
           e == Entry(call[c])
           k == [call[c] EXCEPT !.pc = "remember", !.offset = Len(log[t])]
<1>1. /\ call[c].pc = "produce" /\ AppendEntry(t, e) /\ safe' = [safe EXCEPT ![t] = Len(log[t]) + 1]
      /\ call' = [call EXCEPT ![c] = k]
      /\ UNCHANGED <<topics, draining, producerSeq, dedupCache, answered>>
  BY Zenon DEF ProduceSucceeds, Appends
<1>2. call[c] \in CallType /\ t \in Topic /\ e \in Element /\ Ordered(e)
  BY <1>1, CallEntry, Zenon DEF CallType
<1>3. /\ log' \in [Topic -> Seq(Element)]
      /\ AnswersSound' /\ AcknowledgedBelow' /\ CacheSound' /\ CacheCovered' /\ AnswersKept'
      /\ \A u \in Topic : \A p, s, o : Sound(u, p, s, o) => Sound(u, p, s, o)'
  <2> HIDE DEF t, e
  <2> QED
    BY <1>1, <1>2, LogStep, Zenon
<1>4. Len(log[t]) \in Nat /\ Len(log[t]) < Len(log'[t]) /\ log'[t][Len(log[t]) + 1] = e
  <2> HIDE DEF t, e
  <2> QED
    BY <1>1, <1>2, AppendedAt, Zenon
<1>5. /\ k \in CallType /\ k.pc = "remember" /\ k.topic = t /\ k.producer = call[c].producer
      /\ k.seq = call[c].seq /\ k.seen = call[c].seen /\ k.offset = Len(log[t])
  BY <1>2, <1>4, Zenon DEF CallType
<1>6. \A d \in Client : call'[d] = IF d = c THEN k ELSE call[d]
  BY <1>1, Zenon DEF IInv, CallsTyped
<1>7. Typed'
  <2>1. CallsTyped'
    <3> HIDE DEF k, t
    <3> QED
      BY <1>1, <1>5, Zenon DEF IInv, CallsTyped
  <2>2. safe' \in [Topic -> Nat]
    BY <1>1, <1>2, <1>4 DEF IInv, BrokerTyped
  <2> HIDE DEF k, t, e
  <2>3. BrokerTyped' /\ SeqTyped' /\ AnswersTyped'
    BY <1>1, <1>3, <2>2, Zenon DEF IInv, BrokerTyped, SeqTyped, AnswersTyped
  <2> QED
    BY <2>1, <2>3, Zenon DEF Typed
<1>8. CallsOrdered'
  <2>1. \A s \in k.seen : s < k.seq
    BY <1>1, <1>5 DEF IInv, CallsOrdered, NoCall
  <2> HIDE DEF k
  <2> QED
    BY <1>6, <2>1, Zenon DEF IInv, CallsOrdered
<1>9. CallsSound'
  <2>1. e.kind = "idem" /\ e.producer = k.producer /\ e.seq = k.seq
    BY <1>5, Zenon DEF Entry
  <2> HIDE DEF k, t, e
  <2> SUFFICES ASSUME NEW d \in Client, call'[d].pc = "remember"
               PROVE  Sound(call[d].topic, call[d].producer, call[d].seq, call[d].offset)'
    BY Zenon DEF CallsSound
  <2>2. CASE d = c
    BY <1>4, <1>5, <1>6, <2>1, <2>2, Zenon DEF Sound
  <2>3. CASE d # c
    <3>1. call'[d] = call[d] /\ call[d].pc = "remember"
      BY <1>6, <2>3, Zenon
    <3> QED
      BY <1>3, <3>1, OtherCall, Zenon
  <2> QED
    BY <2>2, <2>3, Zenon
<1> QED
  BY <1>3, <1>7, <1>8, <1>9, Zenon DEF IInv, Typed

\* After an error the call is over; its entry may be in the log.
LEMMA ProduceFailsIInv ==
  ASSUME IInv, NEW c \in Client, ProduceFails(c)
  PROVE  IInv'
<1> DEFINE t == call[c].topic
           e == Entry(call[c])
<1>1. /\ call[c].pc = "produce" /\ (AppendEntry(t, e) \/ UNCHANGED log) /\ safe' = safe
      /\ call' = [call EXCEPT ![c] = NoCall]
      /\ UNCHANGED <<topics, draining, producerSeq, dedupCache, answered>>
  BY Zenon DEF ProduceFails, ProduceError, AppendFails, logs
<1>2. t \in Topic /\ e \in Element /\ Ordered(e)
  BY <1>1, CallEntry, Zenon DEF CallType
<1> HIDE DEF t, e
<1>3. /\ log' \in [Topic -> Seq(Element)]
      /\ AnswersSound' /\ AcknowledgedBelow' /\ CacheSound' /\ CacheCovered' /\ AnswersKept'
      /\ \A u \in Topic : \A p, s, o : Sound(u, p, s, o) => Sound(u, p, s, o)'
  BY <1>1, <1>2, LogStep, Zenon
<1>4. \A d \in Client : call'[d] = IF d = c THEN NoCall ELSE call[d]
  BY <1>1, Zenon DEF IInv, CallsTyped
<1>5. Typed'
  <2>1. CallsTyped'
    BY <1>1, Zenon DEF IInv, CallsTyped
  <2>2. BrokerTyped' /\ SeqTyped' /\ AnswersTyped'
    BY <1>1, <1>3, Zenon DEF IInv, BrokerTyped, SeqTyped, AnswersTyped
  <2> QED
    BY <2>1, <2>2, Zenon DEF Typed
<1>6. CallsOrdered'
  BY <1>4, Zenon DEF IInv, CallsOrdered
<1>7. CallsSound'
  <2> SUFFICES ASSUME NEW d \in Client, call'[d].pc = "remember"
               PROVE  Sound(call[d].topic, call[d].producer, call[d].seq, call[d].offset)'
    BY Zenon DEF CallsSound
  <2>1. call'[d] = call[d] /\ call[d].pc = "remember"
    BY <1>4 DEF NoCall
  <2> QED
    BY <1>3, <2>1, OtherCall, Zenon
<1> QED
  BY <1>3, <1>5, <1>6, <1>7, Zenon DEF IInv, Typed

\* The result enters the cache under the key of its own call only, and the
\* last sequence number only grows.
LEMMA RememberIInv ==
  ASSUME IInv, NEW c \in Client, Remember(c)
  PROVE  IInv'
<1> DEFINE k    == call[c]
           key  == SeqKey(k.topic, k.producer)
           dkey == DedupKey(k.topic, k.producer, k.seq)
           last == IF key \in DOMAIN producerSeq THEN producerSeq[key] ELSE 0
           a    == Answer(k, k.offset)
<1>1. /\ k.pc = "remember"
      /\ producerSeq' = IF k.seq > last THEN Put(producerSeq, key, k.seq) ELSE producerSeq
      /\ dedupCache' = Put(dedupCache, dkey, k.offset)
      /\ answered' = answered \cup {a}
      /\ call' = [call EXCEPT ![c] = NoCall]
      /\ UNCHANGED <<topics, log, safe, draining>>
  BY Zenon DEF Remember, brokerVars, logs
<1>2. k \in CallType
  BY <1>1, CallEntry, Zenon
<1>3. k.topic \in Topic /\ k.producer \in Producer /\ k.seq \in Sequence /\ k.seq \in Nat /\ k.offset \in Nat
  BY <1>2, SequenceAssumption, Zenon DEF CallType
<1>4. Sound(k.topic, k.producer, k.seq, k.offset)
  BY <1>1, Zenon DEF IInv, CallsSound
<1>5. /\ DOMAIN dedupCache' = DOMAIN dedupCache \cup {dkey}
      /\ dedupCache'[dkey] = k.offset
      /\ \A x \in DOMAIN dedupCache \ {dkey} : dedupCache'[x] = dedupCache[x]
  <2> HIDE DEF dkey, k
  <2> QED
    BY <1>1, Zenon DEF Put
<1>6. /\ \A x \in DOMAIN producerSeq : producerSeq[x] \in Nat /\ producerSeq[x] \in Sequence
      /\ last \in Nat
  <2>1. \A x \in DOMAIN producerSeq : producerSeq[x] \in Sequence
    BY Zenon DEF IInv, SeqTyped
  <2> QED
    BY <2>1, SequenceAssumption, Zenon
<1>7. /\ DOMAIN producerSeq \subseteq DOMAIN producerSeq' /\ DOMAIN producerSeq' \subseteq DOMAIN producerSeq \cup {key}
      /\ \A x \in DOMAIN producerSeq : producerSeq[x] <= producerSeq'[x]
      /\ \A x \in DOMAIN producerSeq' : producerSeq'[x] \in Sequence /\ producerSeq'[x] \in Nat
      /\ k.seq = 0 \/ (key \in DOMAIN producerSeq' /\ k.seq <= producerSeq'[key])
  <2>1. CASE k.seq > last
    <3>1. /\ DOMAIN producerSeq' = DOMAIN producerSeq \cup {key} /\ producerSeq'[key] = k.seq
          /\ \A x \in DOMAIN producerSeq \ {key} : producerSeq'[x] = producerSeq[x]
      <4> HIDE DEF key, k
      <4> QED
        BY <1>1, <2>1, Zenon DEF Put
    <3>2. key \in DOMAIN producerSeq => producerSeq[key] < k.seq
      BY <2>1, <1>3, <1>6, Zenon
    <3> HIDE DEF key, k, last
    <3> QED
      BY <3>1, <3>2, <1>3, <1>6
  <2>2. CASE ~(k.seq > last)
    <3>1. producerSeq' = producerSeq
      BY <1>1, <2>2, Zenon
    <3>2. k.seq = 0 \/ (key \in DOMAIN producerSeq /\ k.seq <= producerSeq[key])
      BY <1>3, <1>6, <2>2
    <3> HIDE DEF key, k, last
    <3> QED
      BY <3>1, <3>2, <1>6
  <2> QED
    BY <2>1, <2>2, Zenon
<1>8. CacheSound'
  <2> SUFFICES ASSUME NEW t \in Topic, NEW p \in Producer, NEW s \in Sequence, DedupKey(t, p, s) \in DOMAIN dedupCache'
               PROVE  Sound(t, p, s, dedupCache[DedupKey(t, p, s)])'
    BY Zenon DEF CacheSound, DedupKey
  <2>1. CASE DedupKey(t, p, s) = dkey
    <3>1. t = k.topic /\ p = k.producer /\ s = k.seq
      BY <1>3, <2>1, KeysDiffer
    <3>2. dedupCache'[DedupKey(t, p, s)] = k.offset
      BY <1>5, <2>1, Zenon
    <3> QED
      BY <1>1, <1>4, <3>1, <3>2, Zenon DEF Sound
  <2>2. CASE DedupKey(t, p, s) # dkey
    <3>1. DedupKey(t, p, s) \in DOMAIN dedupCache /\ dedupCache'[DedupKey(t, p, s)] = dedupCache[DedupKey(t, p, s)]
      BY <1>5, <2>2, Zenon
    <3>2. Sound(t, p, s, dedupCache[DedupKey(t, p, s)])
      BY <3>1, Zenon DEF IInv, CacheSound
    <3> QED
      BY <1>1, <3>1, <3>2, Zenon DEF Sound
  <2> QED
    BY <2>1, <2>2, Zenon
<1>9. CacheCovered'
  <2> SUFFICES ASSUME NEW t \in Topic, NEW p \in Producer, NEW s \in Sequence, DedupKey(t, p, s) \in DOMAIN dedupCache'
               PROVE  s = 0 \/ (SeqKey(t, p) \in DOMAIN producerSeq' /\ s <= producerSeq'[SeqKey(t, p)])
    BY Zenon DEF CacheCovered, DedupKey, Covers, SeqKey
  <2>1. CASE DedupKey(t, p, s) = dkey
    <3>1. t = k.topic /\ p = k.producer /\ s = k.seq
      BY <1>3, <2>1, KeysDiffer
    <3> QED
      BY <1>7, <3>1, Zenon
  <2>2. CASE DedupKey(t, p, s) # dkey
    <3>1. DedupKey(t, p, s) \in DOMAIN dedupCache
      BY <1>5, <2>2, Zenon
    <3>2. Covers(t, p, s)
      BY <3>1, Zenon DEF IInv, CacheCovered
    <3>3. s \in Nat
      BY SequenceAssumption, Zenon
    <3>4. CASE s = 0
      BY <3>4, Zenon
    <3>5. CASE SeqKey(t, p) \in DOMAIN producerSeq /\ s <= producerSeq[SeqKey(t, p)]
      <4> HIDE DEF key, k, last, dkey, a
      <4> DEFINE x == SeqKey(t, p)
      <4>1. x \in DOMAIN producerSeq' /\ producerSeq[x] <= producerSeq'[x] /\ producerSeq[x] \in Nat /\ producerSeq'[x] \in Nat
        BY <1>6, <1>7, <3>5, Zenon
      <4> QED
        BY <3>3, <3>5, <4>1
    <3> QED
      BY <3>2, <3>4, <3>5, Zenon DEF Covers
  <2> QED
    BY <2>1, <2>2, Zenon
<1>10. a.topic = k.topic /\ a.producer = k.producer /\ a.seq = k.seq /\ a.offset = k.offset
       /\ a \in AnswerType
  <2> HIDE DEF k
  <2> QED
    BY <1>3, Zenon DEF Answer, AnswerType
<1>11. AnswersSound'
  <2> HIDE DEF a, k
  <2> QED
    BY <1>1, <1>4, <1>10, Zenon DEF IInv, AnswersSound, Sound
<1>12. AnswersKept'
  <2>1. DedupKey(a.topic, a.producer, a.seq) = dkey
    BY <1>10, Zenon
  <2>2. \A b \in answered' : DedupKey(b.topic, b.producer, b.seq) \in DOMAIN dedupCache'
    <3> HIDE DEF a, dkey, k
    <3> QED
      BY <1>1, <1>5, <2>1, Zenon DEF IInv, AnswersKept
  <2> QED
    BY <2>2, Zenon DEF AnswersKept, DedupKey, SeqKey
<1>13. Typed'
  <2>1. CallsTyped'
    BY <1>1, Zenon DEF IInv, CallsTyped
  <2>2. SeqTyped'
    BY <1>7, Zenon DEF SeqTyped
  <2>3. BrokerTyped'
    BY <1>1, Zenon DEF IInv, BrokerTyped
  <2>4. AnswersTyped'
    <3> HIDE DEF a
    <3> QED
      BY <1>1, <1>10, Zenon DEF IInv, AnswersTyped
  <2> QED
    BY <2>1, <2>2, <2>3, <2>4, Zenon DEF Typed
<1>14. \A d \in Client : call'[d] = IF d = c THEN NoCall ELSE call[d]
  BY <1>1, Zenon DEF IInv, CallsTyped
<1>15. CallsOrdered' /\ AcknowledgedBelow'
  BY <1>1, <1>14, Zenon DEF IInv, CallsOrdered, AcknowledgedBelow
<1>16. CallsSound'
  <2> SUFFICES ASSUME NEW d \in Client, call'[d].pc = "remember"
               PROVE  Sound(call[d].topic, call[d].producer, call[d].seq, call[d].offset)'
    BY Zenon DEF CallsSound
  <2>1. call'[d] = call[d] /\ call[d].pc = "remember"
    BY <1>14 DEF NoCall
  <2> QED
    BY <1>1, <2>1, Zenon DEF IInv, CallsSound, Sound
<1> QED
  BY <1>8, <1>9, <1>11, <1>12, <1>13, <1>15, <1>16, Zenon DEF IInv, Typed

\* A restart keeps the beginning of each log and forgets everything else.
LEMMA RestartIInv ==
  ASSUME IInv, Restart
  PROVE  IInv'
<1>1. /\ topics' = {} /\ draining' = FALSE
      /\ producerSeq' = Empty /\ dedupCache' = Empty /\ answered' = {}
      /\ call' = [c \in Client |-> NoCall]
  BY Zenon DEF Restart, BrokerRestart
<1>2. /\ log \in [Topic -> Seq(Element)] /\ AcknowledgedBelow
  BY Zenon DEF IInv, BrokerTyped
<1>3. PICK exposed : safe' \in Found(exposed) /\ log' = [t \in Topic |-> SubSeq(log[t], 1, safe'[t])]
  BY Zenon DEF Restart, BrokerRestart
<1>4. ASSUME NEW t \in Topic
      PROVE  /\ log'[t] \in Seq(Element) /\ safe'[t] \in Nat
             /\ \A i \in DOMAIN log'[t] : i \in DOMAIN log[t] /\ log'[t][i] = log[t][i]
  <2>1. safe'[t] \in UNION {0 .. Len(log[u]) : u \in Topic} /\ safe'[t] <= Len(log[t])
    BY <1>3, <1>4, Zenon DEF Found
  <2>2. PICK u \in Topic : safe'[t] \in 0 .. Len(log[u])
    BY <2>1, Zenon
  <2>3. log[t] \in Seq(Element) /\ safe'[t] \in Nat
    BY <1>2, <1>4, <2>2
  <2>4. log'[t] = SubSeq(log[t], 1, safe'[t])
    BY <1>3, <1>4, Zenon
  <2> QED
    BY <2>1, <2>3, <2>4
<1>5. log' \in [Topic -> Seq(Element)]
  BY <1>3, <1>4, Zenon
<1>6. AcknowledgedBelow'
  BY <1>2, <1>4, Zenon DEF AcknowledgedBelow
<1>7. Typed'
  <2>1. CallsTyped'
    BY <1>1, Zenon DEF CallsTyped
  <2>2. SeqTyped' /\ AnswersTyped'
    BY <1>1, Zenon DEF SeqTyped, AnswersTyped, Empty
  <2>3. BrokerTyped'
    <3>1. safe' = [t \in Topic |-> safe'[t]]
      BY <1>3, Zenon DEF Found
    <3>2. safe' \in [Topic -> Nat]
      BY <1>4, <3>1, Zenon
    <3> QED
      BY <1>1, <1>5, <3>2, Zenon DEF BrokerTyped
  <2> QED
    BY <2>1, <2>2, <2>3, Zenon DEF Typed
<1>8. AnswersSound' /\ AnswersKept'
  BY <1>1, Zenon DEF AnswersSound, AnswersKept
<1>9. CallsSound' /\ CallsOrdered'
  BY <1>1, Zenon DEF CallsSound, CallsOrdered, NoCall
<1>10. CacheSound' /\ CacheCovered'
  BY <1>1, Zenon DEF CacheSound, CacheCovered, Empty
<1> QED
  BY <1>6, <1>7, <1>8, <1>9, <1>10, Zenon DEF IInv, Typed

\* The strengthening holds always.
LEMMA Invariance == Spec => []IInv
<1>1. IInv /\ [Next]_vars => IInv'
  <2> SUFFICES ASSUME IInv, [Next]_vars PROVE IInv'
    BY Zenon
  <2>1. CASE (\E t \in Topic : OpenTopic(t) \/ PlainProduce(t)) \/ DrainWindow \/ UNCHANGED vars
    BY <2>1, BrokerStepIInv, Zenon
  <2>2. ASSUME NEW c \in Client, NEW t \in Topic, NEW s \in Sequence, NEW p \in Uses[c],
               AnswerFromCache(c, t, p, s) \/ Check(c, t, p, s)
        PROVE  IInv'
    <3>1. p \in Producer
      BY <2>2, UsesAssumption, Zenon
    <3> QED
      BY <2>2, <3>1, AnswerFromCacheIInv, CheckIInv, Zenon
  <2>3. ASSUME NEW c \in Client, ProduceSucceeds(c) \/ ProduceFails(c) \/ Remember(c)
        PROVE  IInv'
    BY <2>3, ProduceSucceedsIInv, ProduceFailsIInv, RememberIInv, Zenon
  <2>4. CASE Restart
    BY <2>4, RestartIInv, Zenon
  <2> QED
    BY <2>1, <2>2, <2>3, <2>4, Zenon DEF Next
<1> QED
  BY <1>1, InitIInv, PTL DEF Spec

\* Every answer of ProduceIdempotent, fresh or from dedupCache, is the offset
\* of the entry that producer wrote with that number, for any interleaving
\* of the sections of any number of calls.
THEOREM Answers == Spec => []AnswersSound
<1>1. IInv => AnswersSound
  BY Zenon DEF IInv
<1> QED
  BY <1>1, Invariance, PTL

\* No entry of a producer is at or below a number the same process had
\* acknowledged to it before the call that wrote the entry began; the entries
\* of earlier processes are among those this holds for.
THEOREM Monotone == Spec => []AcknowledgedBelow
<1>1. IInv => AcknowledgedBelow
  BY Zenon DEF IInv
<1> QED
  BY <1>1, Invariance, PTL

-----------------------------------------------------------------------------
\* A client sends with its own producer ids; the number a call of an
\* exclusive producer is working on is not cached yet; and what the producer
\* was answered is what the cache says.
CallsUse == \A c \in Client : call[c] # NoCall => call[c].producer \in Uses[c]

CallsNew ==
  \A c \in Client : call[c] # NoCall /\ Exclusive(call[c].producer) =>
    DedupKey(call[c].topic, call[c].producer, call[c].seq) \notin DOMAIN dedupCache

CacheAnswers ==
  \A a \in answered : Exclusive(a.producer) =>
    a.offset = dedupCache[DedupKey(a.topic, a.producer, a.seq)]

Agree == CallsUse /\ CallsNew /\ CacheAnswers

\* A call in progress has the types of its parts.
LEMMA CallParts ==
  ASSUME IInv, NEW c \in Client, call[c] # NoCall
  PROVE  call[c].topic \in Topic /\ call[c].producer \in Producer /\ call[c].seq \in Sequence
<1>1. call[c] \in CallType
  BY Zenon DEF IInv, CallsTyped
<1> QED
  BY <1>1, Zenon DEF CallType

\* Only the third section writes to the cache, and for an exclusive producer
\* no answer and no other call has that key.
LEMMA RememberAgree ==
  ASSUME IInv, Agree, NEW c \in Client, Remember(c)
  PROVE  Agree'
<1>1. call[c] # NoCall
  BY DEF Remember, NoCall
<1>2. PICK t \in Topic, p \in Producer, s \in Sequence :
        t = call[c].topic /\ p = call[c].producer /\ s = call[c].seq
  BY <1>1, CallParts, Zenon
<1>3. PICK o : o = call[c].offset
  BY Zenon
<1>4. /\ dedupCache' = Put(dedupCache, DedupKey(t, p, s), o)
      /\ answered' = answered \cup {Answer(call[c], o)}
      /\ call' = [call EXCEPT ![c] = NoCall]
  BY <1>2, <1>3, Zenon DEF Remember
<1>5. /\ DOMAIN dedupCache' = DOMAIN dedupCache \cup {DedupKey(t, p, s)}
      /\ dedupCache'[DedupKey(t, p, s)] = o
      /\ \A k \in DOMAIN dedupCache : k # DedupKey(t, p, s) => dedupCache'[k] = dedupCache[k]
  BY <1>4, Zenon DEF Put
<1>6. \A d \in Client : call'[d] # NoCall => d # c /\ call'[d] = call[d]
  BY <1>4, Zenon DEF IInv, CallsTyped
<1>7. CallsUse'
  BY <1>6, Zenon DEF Agree, CallsUse
<1>8. CallsNew'
  <2> SUFFICES ASSUME NEW d \in Client, call'[d] # NoCall, Exclusive(call'[d].producer),
                      DedupKey(call'[d].topic, call'[d].producer, call'[d].seq) \in DOMAIN dedupCache'
               PROVE  FALSE
    BY Zenon DEF CallsNew
  <2>1. d # c /\ call'[d] = call[d] /\ call[d] # NoCall
    BY <1>6, Zenon
  <2>2. DedupKey(call[d].topic, call[d].producer, call[d].seq) = DedupKey(t, p, s)
    BY <1>5, <2>1, Zenon DEF Agree, CallsNew
  <2>3. call[d].producer = p
    BY <2>1, <2>2, CallParts, KeysDiffer
  <2>4. p \in Uses[c] /\ p \in Uses[d]
    BY <1>1, <1>2, <2>1, <2>3, Zenon DEF Agree, CallsUse
  <2> QED
    BY <2>1, <2>3, <2>4, Zenon DEF Exclusive
<1>9. CacheAnswers'
  <2> SUFFICES ASSUME NEW a \in answered', Exclusive(a.producer)
               PROVE  a.offset = dedupCache'[DedupKey(a.topic, a.producer, a.seq)]
    BY Zenon DEF CacheAnswers
  <2>1. CASE a \in answered
    <3>1. a.offset = dedupCache[DedupKey(a.topic, a.producer, a.seq)]
      BY <2>1, Zenon DEF Agree, CacheAnswers
    <3>2. DedupKey(a.topic, a.producer, a.seq) \in DOMAIN dedupCache
      BY <2>1, Zenon DEF IInv, AnswersKept
    <3>3. a.topic \in Topic /\ a.producer \in Producer
      BY <2>1, Zenon DEF IInv, AnswersTyped, AnswerType
    <3>4. ASSUME DedupKey(a.topic, a.producer, a.seq) = DedupKey(t, p, s) PROVE FALSE
      <4>1. a.producer = p
        BY <3>3, <3>4, KeysDiffer
      <4> QED
        BY <1>1, <1>2, <3>2, <3>4, <4>1, Zenon DEF Agree, CallsNew
    <3> QED
      BY <1>5, <3>1, <3>2, <3>4, Zenon
  <2>2. CASE a = Answer(call[c], o)
    <3>1. a.topic = t /\ a.producer = p /\ a.seq = s /\ a.offset = o
      BY <1>2, <2>2, Zenon DEF Answer
    <3> QED
      BY <1>5, <3>1, Zenon
  <2> QED
    BY <1>4, <2>1, <2>2, Zenon
<1> QED
  BY <1>7, <1>8, <1>9, Zenon DEF Agree

\* A call that begins is new to the cache; an answer from it agrees with it.
LEMMA FirstSectionAgree ==
  ASSUME IInv, Agree, NEW c \in Client, NEW t \in Topic, NEW s \in Sequence, NEW p \in Uses[c],
         AnswerFromCache(c, t, p, s) \/ Check(c, t, p, s)
  PROVE  Agree'
<1>1. CASE AnswerFromCache(c, t, p, s)
  <2> DEFINE b == [topic |-> t, producer |-> p, seq |-> s, offset |-> dedupCache[DedupKey(t, p, s)]]
  <2>1. UNCHANGED <<call, dedupCache>> /\ answered' = answered \cup {b}
    BY <1>1, Zenon DEF AnswerFromCache
  <2>2. b.topic = t /\ b.producer = p /\ b.seq = s /\ b.offset = dedupCache[DedupKey(t, p, s)]
    BY Zenon
  <2> HIDE DEF b
  <2>3. CacheAnswers'
    BY <2>1, <2>2, Zenon DEF Agree, CacheAnswers
  <2> QED
    BY <2>1, <2>3, Zenon DEF Agree, CallsUse, CallsNew
<1>2. CASE Check(c, t, p, s)
  <2> DEFINE k == [pc |-> "produce", topic |-> t, producer |-> p, seq |-> s,
                   seen |-> Acknowledged(t, p), offset |-> 0]
  <2>1. /\ DedupKey(t, p, s) \notin DOMAIN dedupCache
        /\ call' = [call EXCEPT ![c] = k] /\ UNCHANGED <<answered, dedupCache>>
    BY <1>2, Zenon DEF Check
  <2>2. k.topic = t /\ k.producer = p /\ k.seq = s
    BY Zenon
  <2> HIDE DEF k
  <2>3. \A d \in Client : call'[d] = IF d = c THEN k ELSE call[d]
    BY <2>1, Zenon DEF IInv, CallsTyped
  <2>4. CallsUse' /\ CallsNew'
    BY <2>1, <2>2, <2>3, Zenon DEF Agree, CallsUse, CallsNew
  <2> QED
    BY <2>1, <2>4, Zenon DEF Agree, CacheAnswers
<1> QED
  BY <1>1, <1>2, Zenon

\* Produce keeps what the call is about, or ends the call.
LEMMA ProduceAgree ==
  ASSUME IInv, Agree, NEW c \in Client, ProduceSucceeds(c) \/ ProduceFails(c)
  PROVE  Agree'
<1>1. UNCHANGED <<answered, dedupCache>> /\ call[c] # NoCall
  BY DEF ProduceSucceeds, ProduceFails, NoCall
<1>2. ASSUME NEW d \in Client, call'[d] # NoCall
      PROVE  /\ call[d] # NoCall /\ call'[d].topic = call[d].topic
             /\ call'[d].producer = call[d].producer /\ call'[d].seq = call[d].seq
  <2>1. call \in [Client -> {NoCall} \cup CallType] /\ call[c] \in CallType
    BY <1>1, Zenon DEF IInv, CallsTyped
  <2>2. CASE d # c
    BY <1>2, <2>1, <2>2, Zenon DEF ProduceSucceeds, ProduceFails
  <2>3. CASE d = c /\ ProduceFails(c)
    BY <1>2, <2>1, <2>3, Zenon DEF ProduceFails
  <2>4. CASE d = c /\ ProduceSucceeds(c)
    <3>1. call'[c] = [call[c] EXCEPT !.pc = "remember", !.offset = Len(log[call[c].topic])]
      BY <2>1, <2>4, Zenon DEF ProduceSucceeds
    <3> QED
      BY <1>1, <2>1, <2>4, <3>1, Zenon DEF CallType
  <2> QED
    BY <2>2, <2>3, <2>4, Zenon
<1>3. CallsUse' /\ CallsNew'
  BY <1>1, <1>2, Zenon DEF Agree, CallsUse, CallsNew
<1> QED
  BY <1>1, <1>3, Zenon DEF Agree, CacheAnswers

\* Repeating a sequence number returns the offset of the first answer, for a
\* producer that sends one request at a time: between Check and Remember the
\* lock is free, but only a call of the same producer could fill its key.
THEOREM AnswersRepeat == Spec => []AnswersAgree
<1>1. Init => Agree
  BY Zenon DEF Init, Agree, CallsUse, CallsNew, CacheAnswers
<1>2. IInv /\ Agree /\ [Next]_vars => Agree'
  <2> SUFFICES ASSUME IInv, Agree, [Next]_vars PROVE Agree'
    BY Zenon
  <2>1. ASSUME UNCHANGED idemVars PROVE Agree'
    BY <2>1, Zenon DEF idemVars, Agree, CallsUse, CallsNew, CacheAnswers
  <2>2. CASE (\E t \in Topic : OpenTopic(t) \/ PlainProduce(t)) \/ DrainWindow \/ UNCHANGED vars
    BY <2>1, <2>2, Zenon DEF OpenTopic, PlainProduce, DrainWindow, vars, idemVars
  <2>3. CASE Restart
    BY <2>3, Zenon DEF Restart, Agree, CallsUse, CallsNew, CacheAnswers
  <2> QED
    BY <2>2, <2>3, FirstSectionAgree, ProduceAgree, RememberAgree, Zenon DEF Next
<1>3. Agree /\ IInv => AnswersAgree
  BY Zenon DEF Agree, CacheAnswers, AnswersAgree
<1> QED
  BY <1>1, <1>2, <1>3, Invariance, PTL DEF Spec
=============================================================================
