----------------------------- MODULE Idempotent -----------------------------
(***************************************************************************)
(* The idempotent producer (broker/idempotent.go).  ProduceIdempotent is   *)
(* three critical sections: it looks the sequence number up, releases the  *)
(* lock, appends with Produce, and takes the lock again to remember the    *)
(* result.  Calls of several clients interleave between the sections.      *)
(*                                                                         *)
(* A name is the sequence of its parts between the characters "|", so the  *)
(* code's keys, names joined by "|", are concatenations.                   *)
(***************************************************************************)
EXTENDS Broker

CONSTANTS
  Client,           \* concurrent callers
  Producer,         \* producer ids
  Uses,             \* Uses[c]: the producer ids client c sends with
  Sequence          \* sequence numbers the clients use

\* A negative number would never enter producerSeq, whose missing entries
\* read as 0, and would not be ordered at all.
ASSUME SequenceAssumption == Sequence \subseteq Nat

ASSUME UsesAssumption == Uses \in [Client -> SUBSET Producer]

\* The keys keep the topics and producers apart.  Names with a "|" inside
\* could make two pairs share a key, and their sequence numbers with it.
ASSUME NamesAssumption ==
  \A t, u \in Topic, p, q \in Producer : t \o p = u \o q => t = u /\ p = q

VARIABLES
  producerSeq,      \* Broker.producerSeq
  dedupCache,       \* Broker.dedupCache, the cached record as its offset
  call,             \* call[c]: the ProduceIdempotent of client c
  answered          \* history: results returned since the start of the process

idemVars == <<producerSeq, dedupCache, call, answered>>
vars     == <<brokerVars, idemVars>>

\* Mutant: the producer id is left out of the key.
SeqKey_TopicOnly(t, p) == t

SeqKey(t, p) == t \o p

DedupKey(t, p, s) == <<SeqKey(t, p), s>>

NoCall == [pc |-> "idle"]

\* An entry records who wrote it, and for the properties the sequence
\* numbers already acknowledged to that producer when the call began.
Entry(k) == [kind |-> "idem", producer |-> k.producer, seq |-> k.seq, seen |-> k.seen]

Acknowledged(t, p) == {a.seq : a \in {x \in answered : x.topic = t /\ x.producer = p}}

Answer(k, off) == [topic |-> k.topic, producer |-> k.producer, seq |-> k.seq, offset |-> off]

Active == {c \in Client : call[c] # NoCall}

Put(f, k, v) == [x \in DOMAIN f \cup {k} |-> IF x = k THEN v ELSE f[x]]

Empty == [x \in {} |-> 0]

-----------------------------------------------------------------------------
Init ==
  /\ BrokerInit
  /\ producerSeq = Empty
  /\ dedupCache = Empty
  /\ call = [c \in Client |-> NoCall]
  /\ answered = {}

OpenTopic(t) ==
  /\ t \notin topics
  /\ CreateTopic(t)
  /\ UNCHANGED <<logs, draining, idemVars>>

PlainProduce(t) ==
  /\ Len(log[t]) + Cardinality(Active) < MaxLog
  /\ Produce(t)
  /\ UNCHANGED idemVars

\* First section, the sequence number is in the cache: a duplicate.
AnswerFromCache(c, t, p, s) ==
  /\ call[c] = NoCall
  /\ DedupKey(t, p, s) \in DOMAIN dedupCache
  /\ answered' = answered \cup
       {[topic |-> t, producer |-> p, seq |-> s, offset |-> dedupCache[DedupKey(t, p, s)]]}
  /\ UNCHANGED <<brokerVars, producerSeq, dedupCache, call>>

\* Mutant: a sequence number below the last is let through.
Check_AnyOrder(c, t, p, s) ==
  /\ call[c] = NoCall
  /\ Len(log[t]) + Cardinality(Active) < MaxLog
  /\ DedupKey(t, p, s) \notin DOMAIN dedupCache
  /\ call' = [call EXCEPT ![c] =
       [pc |-> "produce", topic |-> t, producer |-> p, seq |-> s, seen |-> Acknowledged(t, p), offset |-> 0]]
  /\ UNCHANGED <<brokerVars, producerSeq, dedupCache, answered>>

\* First section, a sequence number the call may append.  One below the
\* last is refused with ErrOutOfOrderSequence, which changes nothing.
Check(c, t, p, s) ==
  /\ call[c] = NoCall
  /\ Len(log[t]) + Cardinality(Active) < MaxLog
  /\ DedupKey(t, p, s) \notin DOMAIN dedupCache
  /\ SeqKey(t, p) \in DOMAIN producerSeq => s >= producerSeq[SeqKey(t, p)]
  /\ call' = [call EXCEPT ![c] =
       [pc |-> "produce", topic |-> t, producer |-> p, seq |-> s, seen |-> Acknowledged(t, p), offset |-> 0]]
  /\ UNCHANGED <<brokerVars, producerSeq, dedupCache, answered>>

\* Second section: Produce.
ProduceSucceeds(c) ==
  /\ call[c].pc = "produce"
  /\ Accepts(call[c].topic)
  /\ Appends(call[c].topic, Entry(call[c]))
  /\ call' = [call EXCEPT ![c].pc = "remember", ![c].offset = Len(log[call[c].topic])]
  /\ UNCHANGED <<topics, draining, producerSeq, dedupCache, answered>>

\* Produce refuses, or its Append fails: the error is returned and nothing
\* is remembered.
ProduceFails(c) ==
  /\ call[c].pc = "produce"
  /\ ProduceError(call[c].topic, Entry(call[c]))
  /\ call' = [call EXCEPT ![c] = NoCall]
  /\ UNCHANGED <<topics, draining, producerSeq, dedupCache, answered>>

\* Mutant: the result is not cached.
Remember_NoCache(c) ==
  LET k    == call[c]
      key  == SeqKey(k.topic, k.producer)
      last == IF key \in DOMAIN producerSeq THEN producerSeq[key] ELSE 0
  IN  /\ k.pc = "remember"
      /\ producerSeq' = IF k.seq > last THEN Put(producerSeq, key, k.seq) ELSE producerSeq
      /\ answered' = answered \cup {Answer(k, k.offset)}
      /\ call' = [call EXCEPT ![c] = NoCall]
      /\ UNCHANGED <<brokerVars, dedupCache>>

\* Third section.  A missing last sequence reads as 0.
Remember(c) ==
  LET k    == call[c]
      key  == SeqKey(k.topic, k.producer)
      last == IF key \in DOMAIN producerSeq THEN producerSeq[key] ELSE 0
  IN  /\ k.pc = "remember"
      /\ producerSeq' = IF k.seq > last THEN Put(producerSeq, key, k.seq) ELSE producerSeq
      /\ dedupCache' = Put(dedupCache, DedupKey(k.topic, k.producer, k.seq), k.offset)
      /\ answered' = answered \cup {Answer(k, k.offset)}
      /\ call' = [call EXCEPT ![c] = NoCall]
      /\ UNCHANGED brokerVars

\* The drain window opens, by a call of Drain, or closes, as time passes.
DrainWindow ==
  /\ Drain \/ DrainEnds
  /\ UNCHANGED idemVars

\* The process dies and starts again; the answers of its previous life are
\* not what the properties speak of.
Restart ==
  /\ BrokerRestart
  /\ producerSeq' = Empty
  /\ dedupCache' = Empty
  /\ call' = [c \in Client |-> NoCall]
  /\ answered' = {}

Next ==
  \/ \E t \in Topic : OpenTopic(t) \/ PlainProduce(t)
  \/ \E c \in Client, t \in Topic, s \in Sequence : \E p \in Uses[c] :
       AnswerFromCache(c, t, p, s) \/ Check(c, t, p, s)
  \/ \E c \in Client : ProduceSucceeds(c) \/ ProduceFails(c) \/ Remember(c)
  \/ DrainWindow
  \/ Restart

Spec == Init /\ [][Next]_vars

-----------------------------------------------------------------------------
\* Every answer, new or served from dedupCache, is the offset of an entry of
\* that topic which that producer wrote with that sequence number, however
\* the sections of other calls fell in between.
AnswersSound ==
  \A a \in answered :
    /\ a.offset < Len(log[a.topic])
    /\ LET e == log[a.topic][a.offset + 1]
       IN  e.kind = "idem" /\ e.producer = a.producer /\ e.seq = a.seq

\* An appended entry has a sequence number above every one acknowledged to
\* its producer on that topic before the call began: what was acknowledged
\* is neither appended again nor overtaken, even by racing calls.
AcknowledgedBelow ==
  \A t \in Topic : \A i \in DOMAIN log[t] :
    log[t][i].kind = "idem" => \A s \in log[t][i].seen : s < log[t][i].seq

\* A producer id only one client sends with: its calls never overlap.
Exclusive(p) == \A c, d \in Client : p \in Uses[c] /\ p \in Uses[d] => c = d

\* Repeating a sequence number returns the offset of the first answer, for a
\* producer that sends one request at a time, whatever other producers do.
AnswersAgree ==
  \A a, b \in answered :
    a.topic = b.topic /\ a.producer = b.producer /\ a.seq = b.seq /\ Exclusive(a.producer)
      => a.offset = b.offset

\* A sequence number of a producer is in a topic's log at most once.
SequenceOnce ==
  \A t \in Topic : \A i, j \in DOMAIN log[t] :
    /\ log[t][i].kind = "idem" /\ log[t][j].kind = "idem"
    /\ log[t][i].producer = log[t][j].producer
    /\ log[t][i].seq = log[t][j].seq
    => i = j
=============================================================================
