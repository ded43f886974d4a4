-------------------------- MODULE ManagementProofs --------------------------
(***************************************************************************)
(* Proofs about the SDK's users and the management API, for any number of  *)
(* users, handlers, requests and restarts: a record that is sent again is  *)
(* appended once, and one whose call returned is in the log, unless a      *)
(* crash inside the rewrite of the index took it away.                     *)
(*                                                                         *)
(* The invariant speaks of the records <<u, s>> with the predicates below, *)
(* and the proofs say first what an action does to each predicate.         *)
(***************************************************************************)
EXTENDS Management, TLAPS

PlainEntry == [kind : {"plain"}, user : User \ Sequenced, seq : Nat]

IdemEntry == [kind : {"idem"}, producer : Producer, seq : Nat, seen : SUBSET Nat]

Element == PlainEntry \cup IdemEntry

LogTyped ==
  /\ log \in [Topic -> Seq(Element)]
  /\ safe \in [Topic -> Nat]
  /\ \A t \in Topic : safe[t] <= Len(log[t])

CallType ==
  [pc : {"produce", "remember"}, topic : Topic, producer : Producer, seq : Nat, seen : SUBSET Nat, offset : Nat]

RequestType == [pc : {"create", "produce", "ok", "error"}, user : User, seq : Nat]

UserType == [pc : {"idle"} \cup Client, seq : Nat, sent : BOOLEAN]

Typed ==
  /\ LogTyped
  /\ call \in [Client -> {NoCall} \cup CallType]
  /\ handler \in [Client -> {Free} \cup RequestType]
  /\ user \in [User -> UserType]
  /\ \A a \in answered : a.seq \in Nat
  /\ \A r \in returned : r \in User \X Nat

\* Offset o - 1 of the topic of u holds its record s.
Place(u, s, o) == o \in DOMAIN log[TopicOf[u]] /\ Wrote(log[TopicOf[u]][o], u, s)

\* A restart dropped the record.
Lost(u, s) == \E entry \in lost : Wrote(entry, u, s)

\* The record is in the safe part of the log.
Kept(u, s) == \E o \in Nat : Place(u, s, o) /\ o <= safe[TopicOf[u]]

Serves(h, u, s) == handler[h] # Free /\ handler[h].user = u /\ handler[h].seq = s

Serving(h, u, s, pc) == Serves(h, u, s) /\ handler[h].pc = pc

\* Handler h is in a section of ProduceIdempotent for the record.
Section(h, u, s, pc) == Serves(h, u, s) /\ call[h] # NoCall /\ call[h].pc = pc

Cached(u, s) == DedupKey(TopicOf[u], ProducerOf[u], s) \in DOMAIN dedupCache

Doubtful(u, s) == <<u, s>> \in doubtful

Past(u, s) == s < user[u].seq

Current(u, s) == s = user[u].seq /\ user[u].sent

\* A call of ProduceIdempotent is that of the handler's request.
Linked ==
  \A h \in Client : call[h] # NoCall =>
    /\ handler[h] # Free /\ handler[h].pc = "produce" /\ handler[h].user \in Sequenced
    /\ call[h].topic = TopicOf[handler[h].user]
    /\ call[h].producer = ProducerOf[handler[h].user]
    /\ call[h].seq = handler[h].seq

\* A user waits for the handler of its current record.
Waiting ==
  \A u \in User, h \in Client : user[u].pc = h => Serves(h, u, user[u].seq) /\ user[u].sent

\* What is served or appended was sent.
Sent ==
  \A u \in Sequenced, s \in Nat :
    (\E o \in Nat : Place(u, s, o)) \/ (\E h \in Client : Serves(h, u, s)) => Past(u, s) \/ Current(u, s)

\* A record without doubt is served by one handler and appended once; if it
\* is appended, its append is remembered, is about to be, or belongs to a
\* record that is not sent again; and it is not appended if it is cached.
Single ==
  \A u \in Sequenced, s \in Nat : ~Doubtful(u, s) =>
    \A g, h \in Client : Serves(g, u, s) /\ Serves(h, u, s) => g = h

Unique ==
  \A u \in Sequenced, s \in Nat : ~Doubtful(u, s) =>
    \A o, q \in Nat : Place(u, s, o) /\ Place(u, s, q) => o = q

Known ==
  \A u \in Sequenced, s \in Nat, o \in Nat : ~Doubtful(u, s) /\ Place(u, s, o) =>
    \/ Cached(u, s)
    \/ \E h \in Client : Section(h, u, s, "remember")
    \/ Past(u, s) /\ \A h \in Client : ~Serves(h, u, s)

Fresh ==
  \A u \in Sequenced, s \in Nat, h \in Client :
    ~Doubtful(u, s) /\ Section(h, u, s, "produce") => ~Cached(u, s)

\* What a success is based on is in the safe part of the log, and what was
\* returned is still there if no restart dropped it.
Grounded ==
  /\ \A r \in returned : Kept(r[1], r[2]) \/ Lost(r[1], r[2])
  /\ \A u \in User, s \in Nat, h \in Client :
       Serving(h, u, s, "ok") \/ Section(h, u, s, "remember") => Kept(u, s)
  /\ \A u \in User, s \in Nat : Cached(u, s) => Kept(u, s)

IInv == Typed /\ Linked /\ Waiting /\ Sent /\ Single /\ Unique /\ Known /\ Fresh /\ Grounded

-----------------------------------------------------------------------------
\* The constants, one by one.
LEMMA Constants ==
  /\ Sequenced \subseteq User
  /\ TopicOf \in [User -> Topic] /\ ProducerOf \in [User -> Producer]
  /\ \A u, v \in User : ProducerOf[u] = ProducerOf[v] => u = v
  /\ MaxRecords \in [User -> Nat] /\ PageSize \in Nat
  /\ "idle" \notin Client
BY ManagementAssumption, Zenon

\* The keys of the cache keep the records apart.
LEMMA KeysApart ==
  \A u, v \in User : \A s, r :
    DedupKey(TopicOf[u], ProducerOf[u], s) = DedupKey(TopicOf[v], ProducerOf[v], r) => u = v /\ s = r
<1> SUFFICES ASSUME NEW u \in User, NEW v \in User, NEW s, NEW r,
                    DedupKey(TopicOf[u], ProducerOf[u], s) = DedupKey(TopicOf[v], ProducerOf[v], r)
             PROVE  u = v /\ s = r
  BY Zenon
<1>1. SeqKey(TopicOf[u], ProducerOf[u]) = SeqKey(TopicOf[v], ProducerOf[v]) /\ s = r
  BY Zenon DEF DedupKey
<1>2. TopicOf[u] \in Topic /\ TopicOf[v] \in Topic /\ ProducerOf[u] \in Producer /\ ProducerOf[v] \in Producer
  BY Constants, Zenon
<1>3. \A t, w \in Topic, p, q \in Producer : SeqKey(t, p) = SeqKey(w, q) => t = w /\ p = q
  BY NamesAssumption, Zenon DEF SeqKey
<1>4. ProducerOf[u] = ProducerOf[v]
  BY <1>1, <1>2, <1>3
<1> QED
  BY <1>1, <1>4, Constants, Zenon

\* What the parts of the types are.
LEMMA Parts ==
  ASSUME Typed
  PROVE  /\ \A h \in Client : handler[h] # Free =>
              /\ handler[h] \in RequestType /\ handler[h].user \in User /\ handler[h].seq \in Nat
              /\ handler[h].pc \in {"create", "produce", "ok", "error"}
              /\ TopicOf[handler[h].user] \in Topic /\ ProducerOf[handler[h].user] \in Producer
         /\ \A h \in Client : call[h] # NoCall =>
              /\ call[h] \in CallType /\ call[h].pc \in {"produce", "remember"}
              /\ call[h].topic \in Topic /\ call[h].producer \in Producer /\ call[h].seq \in Nat
              /\ call[h].seen \in SUBSET Nat
         /\ \A u \in User : user[u] \in UserType /\ user[u].seq \in Nat
<1>1. ASSUME NEW h \in Client, handler[h] # Free
      PROVE  /\ handler[h] \in RequestType /\ handler[h].user \in User /\ handler[h].seq \in Nat
             /\ handler[h].pc \in {"create", "produce", "ok", "error"}
             /\ TopicOf[handler[h].user] \in Topic /\ ProducerOf[handler[h].user] \in Producer
  <2>1. handler[h] \in RequestType
    BY <1>1, Zenon DEF Typed
  <2> QED
    BY <2>1, Constants, Zenon DEF RequestType
<1>2. ASSUME NEW h \in Client, call[h] # NoCall
      PROVE  /\ call[h] \in CallType /\ call[h].pc \in {"produce", "remember"}
             /\ call[h].topic \in Topic /\ call[h].producer \in Producer /\ call[h].seq \in Nat
             /\ call[h].seen \in SUBSET Nat
  <2>1. call[h] \in CallType
    BY <1>2, Zenon DEF Typed
  <2> QED
    BY <2>1, Zenon DEF CallType
<1>3. \A u \in User : user[u] \in UserType /\ user[u].seq \in Nat
  BY Zenon DEF Typed, UserType
<1> QED
  BY <1>1, <1>2, <1>3, Zenon

\* What an append, acknowledged or not, does to the places of the records.
LEMMA LogGrows ==
  ASSUME LogTyped, NEW t \in Topic, NEW e \in Element, AppendEntry(t, e),
         safe' = safe \/ safe' = [safe EXCEPT ![t] = Len(log[t]) + 1]
  PROVE  /\ LogTyped'
         /\ \A u \in User : \A s, o : Place(u, s, o) => Place(u, s, o)'
         /\ \A u \in User : \A s, o :
              Place(u, s, o)' => Place(u, s, o) \/ (TopicOf[u] = t /\ Wrote(e, u, s) /\ o = Len(log[t]) + 1)
         /\ \A u \in User : \A s : Kept(u, s) => Kept(u, s)'
         /\ safe' = [safe EXCEPT ![t] = Len(log[t]) + 1] =>
              \A u \in User : \A s : TopicOf[u] = t /\ Wrote(e, u, s) => Kept(u, s)'
<1>1. /\ log \in [Topic -> Seq(Element)] /\ safe \in [Topic -> Nat]
      /\ \A u \in User : TopicOf[u] \in Topic
  BY Constants, Zenon DEF LogTyped
<1>2. PICK l \in Nat : l = Len(log[t]) + 1
  BY <1>1
<1>3. /\ log' \in [Topic -> Seq(Element)] /\ log'[t] = Append(log[t], e)
      /\ \A v \in Topic : v # t => log'[v] = log[v]
  BY <1>1 DEF AppendEntry
<1>4. /\ DOMAIN log[t] = 1 .. Len(log[t]) /\ DOMAIN log'[t] = 1 .. l /\ Len(log'[t]) = l
      /\ \A o \in 1 .. Len(log[t]) : log'[t][o] = log[t][o]
      /\ log'[t][l] = e
  BY <1>1, <1>2, <1>3
<1>5. /\ safe' \in [Topic -> Nat] /\ safe'[t] \in {safe[t], l} /\ \A v \in Topic : v # t => safe'[v] = safe[v]
      /\ safe[t] <= Len(log[t]) /\ safe[t] \in Nat /\ Len(log[t]) \in Nat
  BY <1>1, <1>2 DEF LogTyped
<1>6. LogTyped'
  <2>1. safe'[t] <= Len(log'[t])
    BY <1>2, <1>4, <1>5
  <2>2. \A v \in Topic : v # t => safe'[v] <= Len(log'[v])
    BY <1>3, <1>5, Zenon DEF LogTyped
  <2> QED
    BY <1>3, <1>5, <2>1, <2>2, Zenon DEF LogTyped
<1>7. \A v \in Topic : \A o \in DOMAIN log[v] : o \in DOMAIN log'[v] /\ log'[v][o] = log[v][o]
  <2>1. \A o \in DOMAIN log[t] : o \in DOMAIN log'[t] /\ log'[t][o] = log[t][o]
    BY <1>2, <1>4, <1>5
  <2> QED
    BY <1>3, <2>1, Zenon, Zenon
<1>8. \A v \in Topic : \A o \in DOMAIN log'[v] :
        (o \in DOMAIN log[v] /\ log'[v][o] = log[v][o]) \/ (v = t /\ o = l /\ log'[v][o] = e)
  <2>1. \A o \in DOMAIN log'[t] : (o \in DOMAIN log[t] /\ log'[t][o] = log[t][o]) \/ (o = l /\ log'[t][o] = e)
    BY <1>2, <1>4, <1>5
  <2> QED
    BY <1>3, <2>1, Zenon
<1>9. \A u \in User : \A s, o : Place(u, s, o) => Place(u, s, o)'
  BY <1>1, <1>7 DEF Place, Wrote
<1>10. \A u \in User : \A s, o : Place(u, s, o)' => Place(u, s, o) \/ (TopicOf[u] = t /\ Wrote(e, u, s) /\ o = l)
  BY <1>1, <1>8 DEF Place, Wrote
<1>11. \A v \in Topic : safe[v] <= safe'[v] /\ safe[v] \in Nat /\ safe'[v] \in Nat
  BY <1>1, <1>2, <1>5
<1>12. ASSUME NEW u \in User, NEW s, Kept(u, s) PROVE Kept(u, s)'
  <2>1. PICK o \in Nat : Place(u, s, o) /\ o <= safe[TopicOf[u]]
    BY <1>12, Zenon DEF Kept
  <2>2. Place(u, s, o)' /\ o <= safe'[TopicOf[u]]
    BY <1>1, <1>9, <1>11, <2>1
  <2> QED
    BY <2>2, Zenon DEF Kept
<1>13. ASSUME safe' = [safe EXCEPT ![t] = Len(log[t]) + 1], NEW u \in User, NEW s, TopicOf[u] = t, Wrote(e, u, s)
       PROVE  Kept(u, s)'
  <2>1. Place(u, s, l)'
    BY <1>2, <1>4, <1>5, <1>13 DEF Place, Wrote
  <2>2. l <= safe'[t]
    BY <1>1, <1>2, <1>13
  <2> QED
    BY <1>2, <1>13, <2>1, <2>2, Zenon DEF Kept
<1> QED
  BY <1>2, <1>6, <1>9, <1>10, <1>12, <1>13

\* Nothing changes in the logs.
LEMMA LogStays ==
  ASSUME LogTyped, UNCHANGED logs
  PROVE  /\ LogTyped'
         /\ \A u, s, o : Place(u, s, o)' <=> Place(u, s, o)
         /\ \A u, s : Kept(u, s)' <=> Kept(u, s)
<1>1. log' = log /\ safe' = safe
  BY Zenon DEF logs
<1>2. LogTyped'
  BY <1>1, Zenon DEF LogTyped
<1>3. \A u, s, o : Place(u, s, o)' <=> Place(u, s, o)
  BY <1>1, Zenon DEF Place
<1>4. \A u, s : Kept(u, s)' <=> Kept(u, s)
  BY <1>1, <1>3, Zenon DEF Kept
<1> QED
  BY <1>2, <1>3, <1>4, Zenon

\* A step that neither serves the record anew, nor appends it without doubt.
Carries(u, s) ==
  /\ Doubtful(u, s) => Doubtful(u, s)'
  /\ \A o \in Nat : Place(u, s, o)' =>
       Place(u, s, o) \/ (Doubtful(u, s)' /\ \E h \in Client : Serves(h, u, s))
  /\ \A h \in Client : Serves(h, u, s)' => Serves(h, u, s)
  /\ \A h \in Client : Section(h, u, s, "remember") => Section(h, u, s, "remember")'
  /\ \A h \in Client : Section(h, u, s, "produce")' => Section(h, u, s, "produce") \/ ~Cached(u, s)
  /\ Cached(u, s)' <=> Cached(u, s)
  /\ Past(u, s) => Past(u, s)'
  /\ Current(u, s) => Past(u, s)' \/ Current(u, s)'

\* Such a step keeps what is said of sequenced records.
LEMMA Carried ==
  ASSUME IInv, \A u \in Sequenced, s \in Nat : Carries(u, s)
  PROVE  Sent' /\ Single' /\ Unique' /\ Known' /\ Fresh'
<1>1. Sent /\ Single /\ Unique /\ Known /\ Fresh
  BY Zenon DEF IInv
<1>2. Sent'
  BY <1>1, Zenon DEF Carries, Sent
<1>3. Single'
  BY <1>1, Zenon DEF Carries, Single
<1>4. Unique'
  BY <1>1, Zenon DEF Carries, Unique
<1>5. Known'
  BY <1>1, Zenon DEF Carries, Known
<1>6. Fresh'
  BY <1>1, Zenon DEF Carries, Fresh
<1> QED
  BY <1>2, <1>3, <1>4, <1>5, <1>6, Zenon

\* A step after which a success is still based on what is in the log.
Grounds(u, s) ==
  /\ Kept(u, s) => Kept(u, s)'
  /\ \A h \in Client : Serving(h, u, s, "ok")' =>
       Serving(h, u, s, "ok") \/ Section(h, u, s, "remember") \/ Cached(u, s) \/ Kept(u, s)'
  /\ \A h \in Client : Section(h, u, s, "remember")' => Section(h, u, s, "remember") \/ Kept(u, s)'
  /\ Cached(u, s)' => Cached(u, s) \/ \E h \in Client : Section(h, u, s, "remember")

\* Such steps keep the ground of a success.
LEMMA GroundCarried ==
  ASSUME IInv, \A u \in User, s \in Nat : Grounds(u, s),
         \A r \in returned' : r \in returned \/ \E u \in User, s \in Nat : r = <<u, s>> /\ Kept(u, s),
         lost' = lost
  PROVE  Grounded'
<1>1. Grounded /\ \A r \in returned : r[1] \in User /\ r[2] \in Nat
  BY Zenon DEF IInv, Typed
<1>2. \A u \in User, s \in Nat, h \in Client :
        Serving(h, u, s, "ok")' \/ Section(h, u, s, "remember")' => Kept(u, s)'
  BY <1>1, Zenon DEF Grounds, Grounded
<1>3. \A u \in User, s \in Nat : Cached(u, s)' => Kept(u, s)'
  BY <1>1, Zenon DEF Grounds, Grounded
<1>4. ASSUME NEW r \in returned' PROVE Kept(r[1], r[2])' \/ Lost(r[1], r[2])'
  <2>1. PICK u \in User, s \in Nat : u = r[1] /\ s = r[2] /\ (Kept(u, s) \/ Lost(u, s))
    BY <1>1, <1>4 DEF Grounded
  <2>2. Kept(u, s)' \/ Lost(u, s)'
    BY <2>1, Zenon DEF Grounds, Lost
  <2> QED
    BY <2>1, <2>2, Zenon
<1> QED
  BY <1>2, <1>3, <1>4, Zenon DEF Grounded

\* The calls, and the handlers that are in one, stay the same.
LEMMA LinkedStays ==
  ASSUME Linked, UNCHANGED call, \A g \in Client : call[g] # NoCall => handler'[g] = handler[g]
  PROVE  Linked'
BY Zenon DEF Linked

\* A handler goes on to its next state.
LEMMA HandlerGoes ==
  ASSUME Typed, NEW h \in Client, handler[h] # Free, NEW pc \in {"produce", "ok", "error"}, Goes(h, pc)
  PROVE  /\ handler' \in [Client -> {Free} \cup RequestType]
         /\ \A g \in Client : g # h => handler'[g] = handler[g]
         /\ handler'[h] # Free /\ handler'[h].pc = pc
         /\ handler'[h].user = handler[h].user /\ handler'[h].seq = handler[h].seq
         /\ \A g \in Client : \A u, s : Serves(g, u, s)' <=> Serves(g, u, s)
<1>1. handler[h] \in RequestType /\ handler \in [Client -> {Free} \cup RequestType]
  BY Parts, Zenon DEF Typed
<1>2. handler'[h] = [handler[h] EXCEPT !.pc = pc] /\ \A g \in Client : g # h => handler'[g] = handler[g]
  BY <1>1, Zenon DEF Goes
<1>3. [handler[h] EXCEPT !.pc = pc] \in RequestType /\ handler'[h].pc = pc
  BY <1>1, <1>2, Zenon DEF RequestType
<1>4. handler'[h].user = handler[h].user /\ handler'[h].seq = handler[h].seq
  BY <1>1, <1>2, Zenon DEF RequestType
<1>5. handler' \in [Client -> {Free} \cup RequestType]
  BY <1>1, <1>3, Zenon DEF Goes
<1>6. handler'[h] # Free
  BY <1>2, <1>3, Zenon DEF Free, RequestType
<1>7. \A g \in Client : \A u, s : Serves(g, u, s)' <=> Serves(g, u, s)
  BY <1>2, <1>4, <1>6, Zenon, Zenon DEF Serves
<1> QED
  BY <1>2, <1>3, <1>4, <1>5, <1>6, <1>7, Zenon

\* The users and what the handlers serve stay the same.
LEMMA WaitingStays ==
  ASSUME Typed, Waiting, UNCHANGED user, \A g \in Client : \A v, s : Serves(g, v, s)' <=> Serves(g, v, s)
  PROVE  Waiting'
<1> SUFFICES ASSUME NEW v \in User, NEW g \in Client, user[v].pc = g
             PROVE  Serves(g, v, user[v].seq)' /\ user[v].sent
  BY Zenon DEF Waiting
<1>1. PICK s : s = user[v].seq
  BY Zenon
<1>2. Serves(g, v, s) /\ user[v].sent
  BY <1>1, Zenon DEF Waiting
<1> QED
  BY <1>1, <1>2, Zenon

\* Only a user changes: it gives up, or it leaves.
LEMMA UserStep ==
  ASSUME IInv, NEW u \in User, GiveUp(u) \/ Timeout(u)
  PROVE  IInv'
<1>1. UNCHANGED <<vars, handler, returned, doubtful, lost>>
  BY Zenon DEF GiveUp, Timeout
<1>2. UNCHANGED <<log, safe, call, dedupCache, answered, handler, returned, doubtful, lost>> /\ UNCHANGED logs
  BY <1>1, Zenon DEF vars, brokerVars, idemVars, logs
<1>3. Typed /\ user \in [User -> UserType]
  BY Zenon DEF IInv, Typed
<1>4. user[u] \in UserType /\ user[u].seq \in Nat
  BY <1>3, Parts, Zenon
<1>5. /\ user'[u] \in UserType /\ user'[u].pc = "idle"
      /\ \/ user'[u].seq = user[u].seq + 1
         \/ user'[u].seq = user[u].seq /\ user'[u].sent = user[u].sent
  <2>1. CASE GiveUp(u)
    <3>1. user'[u] = [user[u] EXCEPT !.seq = user[u].seq + 1, !.sent = FALSE] /\ user[u].pc = "idle"
      BY <1>3, <2>1, Zenon DEF GiveUp
    <3>2. user'[u].seq = user[u].seq + 1 /\ user'[u].pc = "idle" /\ user[u].seq + 1 \in Nat
      BY <1>4, <3>1 DEF UserType
    <3>3. user'[u] = [pc |-> "idle", seq |-> user[u].seq + 1, sent |-> FALSE]
      BY <1>4, <3>1, Zenon, Zenon DEF UserType
    <3>4. user'[u] \in UserType
      BY <3>2, <3>3 DEF UserType
    <3> QED
      BY <3>2, <3>4, Zenon
  <2>2. CASE Timeout(u)
    <3>1. user'[u] = [user[u] EXCEPT !.pc = "idle"]
      BY <1>3, <2>2, Zenon DEF Timeout
    <3> QED
      BY <1>4, <3>1, Zenon DEF UserType
  <2> QED
    BY <2>1, <2>2, Zenon
<1>6. user' \in [User -> UserType] /\ \A v \in User : v # u => user'[v] = user[v]
  BY <1>3, <1>5, Zenon DEF GiveUp, Timeout
<1>7. Typed'
  BY <1>2, <1>3, <1>6, Zenon DEF Typed, LogTyped
<1>8. Linked'
  BY <1>2, LinkedStays, Zenon DEF IInv
<1>9. Waiting'
  BY <1>2, <1>5, <1>6, Constants DEF IInv, Waiting, Serves
<1>10. /\ \A v, s, o : Place(v, s, o)' <=> Place(v, s, o)
       /\ \A v, s : Kept(v, s)' <=> Kept(v, s)
  BY <1>2, <1>3, LogStays, Zenon DEF Typed
<1>11. /\ \A h, v, s : Serves(h, v, s)' <=> Serves(h, v, s)
       /\ \A h, v, s, pc : Section(h, v, s, pc)' <=> Section(h, v, s, pc)
       /\ \A h, v, s, pc : Serving(h, v, s, pc)' <=> Serving(h, v, s, pc)
       /\ \A v, s : Cached(v, s)' <=> Cached(v, s)
       /\ \A v, s : Doubtful(v, s)' <=> Doubtful(v, s)
  BY <1>2, Zenon DEF Serves, Section, Serving, Cached, Doubtful
<1>12. \A v \in User, s \in Nat : (Past(v, s) => Past(v, s)') /\ (Current(v, s) => Past(v, s)' \/ Current(v, s)')
  BY <1>4, <1>5, <1>6 DEF Past, Current
<1>13. Sent' /\ Single' /\ Unique' /\ Known' /\ Fresh'
  <2>1. \A v \in Sequenced, s \in Nat : Carries(v, s)
    BY <1>10, <1>11, <1>12, Constants, Zenon DEF Carries
  <2> QED
    BY <2>1, Carried, Zenon
<1>14. Grounded'
  <2>1. \A v \in User, s \in Nat : Grounds(v, s)
    BY <1>10, <1>11, Zenon DEF Grounds
  <2> QED
    BY <1>2, <2>1, GroundCarried, Zenon
<1> QED
  BY <1>7, <1>8, <1>9, <1>13, <1>14, Zenon DEF IInv

\* A request is sent: a free handler takes it.
LEMMA SendStep ==
  ASSUME IInv, NEW u \in User, NEW h \in Client, Send(u, h)
  PROVE  IInv'
<1>1. UNCHANGED <<log, safe, call, dedupCache, answered, returned, lost>> /\ UNCHANGED logs
  BY Zenon DEF Send, vars, brokerVars, idemVars, logs
<1>2. Typed /\ user \in [User -> UserType] /\ handler \in [Client -> {Free} \cup RequestType]
  BY Zenon DEF IInv, Typed
<1>3. PICK n \in Nat : n = user[u].seq
  BY <1>2, Parts, Zenon
<1>4. handler[h] = Free /\ user[u].pc = "idle" /\ user[u] \in UserType /\ call[h] = NoCall
  BY <1>2, Parts, Zenon DEF Send, IInv, Linked
<1>5. /\ user'[u] = [pc |-> h, seq |-> n, sent |-> TRUE]
      /\ \A v \in User : v # u => user'[v] = user[v]
  <2>1. user' = [user EXCEPT ![u].pc = h, ![u].sent = TRUE]
    BY Zenon DEF Send
  <2> QED
    BY <1>2, <1>3, <1>4, <2>1, Zenon, Zenon DEF UserType
<1>6. user' \in [User -> UserType]
  <2>1. [pc |-> h, seq |-> n, sent |-> TRUE] \in UserType
    BY Zenon DEF UserType
  <2>2. user' = [v \in User |-> user'[v]]
    BY <1>2, Zenon, Zenon DEF Send
  <2> QED
    BY <1>2, <1>5, <2>1, <2>2, Zenon, Zenon
<1>7. handler'[h] = [pc |-> "create", user |-> u, seq |-> n] /\ \A g \in Client : g # h => handler'[g] = handler[g]
  BY <1>2, <1>3, Zenon DEF Send
<1>8. handler' \in [Client -> {Free} \cup RequestType]
  <2>1. [pc |-> "create", user |-> u, seq |-> n] \in RequestType
    BY Zenon DEF RequestType
  <2> QED
    BY <1>2, <1>3, <2>1, Zenon DEF Send
<1>9. handler'[h] # Free /\ handler'[h].pc = "create" /\ handler'[h].user = u /\ handler'[h].seq = n
  BY <1>7 DEF Free
<1>10. Typed'
  BY <1>1, <1>2, <1>6, <1>8, Zenon DEF Typed, LogTyped
<1>11. Linked'
  BY <1>1, <1>4, <1>7, LinkedStays, Zenon DEF IInv
<1>12. /\ \A v, s, o : Place(v, s, o)' <=> Place(v, s, o)
       /\ \A v, s : Kept(v, s)' <=> Kept(v, s)
       /\ \A v, s : Cached(v, s)' <=> Cached(v, s)
  BY <1>1, <1>2, LogStays, Zenon DEF Typed, Cached
<1>13. /\ \A g \in Client : g # h => \A v, s : Serves(g, v, s)' <=> Serves(g, v, s)
       /\ \A v, s : Serves(h, v, s)' <=> v = u /\ s = n
       /\ \A v, s : ~Serves(h, v, s)
  BY <1>4, <1>7, <1>9, Zenon DEF Serves
<1>14. /\ \A g \in Client : \A v, s, pc : Section(g, v, s, pc)' <=> Section(g, v, s, pc)
       /\ \A g \in Client : \A v, s : Serving(g, v, s, "ok")' => Serving(g, v, s, "ok")
  BY <1>1, <1>4, <1>7, <1>9, <1>13, Zenon DEF Section, Serving
<1>15. /\ \A v, s : Doubtful(v, s) => Doubtful(v, s)'
       /\ (\E g \in Client : Serves(g, u, n)) => Doubtful(u, n)'
  <2>1. doubtful' = IF \E g \in Busy : <<handler[g].user, handler[g].seq>> = <<u, n>>
                    THEN doubtful \cup {<<u, n>>} ELSE doubtful
    BY <1>3, Zenon DEF Send, RecordOf
  <2>2. (\E g \in Client : Serves(g, u, n)) => \E g \in Busy : <<handler[g].user, handler[g].seq>> = <<u, n>>
    BY Zenon DEF Serves, Busy
  <2> QED
    BY <2>1, <2>2, Zenon DEF Doubtful
<1>16. /\ \A v \in User, s \in Nat : (Past(v, s)' <=> Past(v, s)) /\ (Current(v, s) => Current(v, s)')
       /\ Current(u, n)' /\ ~Past(u, n)
  BY <1>3, <1>5 DEF Past, Current
<1>17. Waiting'
  BY <1>3, <1>4, <1>5, <1>13 DEF IInv, Waiting
<1>18. Sent /\ Single /\ Unique /\ Known /\ Fresh
  BY Zenon DEF IInv
<1>19. Sent'
  BY <1>12, <1>13, <1>16, <1>18, Constants DEF Sent
<1>20. Single'
  BY <1>13, <1>15, <1>18, Constants DEF Single
<1>21. Unique'
  BY <1>12, <1>15, <1>18, Constants, Zenon DEF Unique
<1>22. Known'
  BY <1>12, <1>13, <1>14, <1>15, <1>16, <1>18, Constants DEF Known
<1>23. Fresh'
  BY <1>12, <1>14, <1>15, <1>18, Constants, Zenon DEF Fresh
<1>24. Grounded'
  <2>1. \A v \in User, s \in Nat : Grounds(v, s)
    BY <1>12, <1>14, Zenon DEF Grounds
  <2> QED
    BY <1>1, <2>1, GroundCarried, Zenon
<1> QED
  BY <1>10, <1>11, <1>17, <1>19, <1>20, <1>21, <1>22, <1>23, <1>24, Zenon DEF IInv

\* The handler's call of CreateTopic.
LEMMA CreateStep ==
  ASSUME IInv, NEW h \in Client, HandleCreateTopic(h)
  PROVE  IInv'
<1>1. UNCHANGED <<log, safe, call, dedupCache, answered, user, returned, doubtful, lost>> /\ UNCHANGED logs
  BY Zenon DEF HandleCreateTopic, idemVars, logs
<1>2. Typed
  BY Zenon DEF IInv
<1>3. handler[h] # Free /\ handler[h].pc = "create" /\ call[h] = NoCall
  BY DEF HandleCreateTopic, Free, IInv, Linked
<1>4. PICK pc \in {"produce", "error"} : Goes(h, pc)
  BY Zenon DEF HandleCreateTopic
<1>5. /\ handler' \in [Client -> {Free} \cup RequestType]
      /\ \A g \in Client : g # h => handler'[g] = handler[g]
      /\ handler'[h].pc = pc
      /\ \A g \in Client : \A v, s : Serves(g, v, s)' <=> Serves(g, v, s)
  BY <1>2, <1>3, <1>4, HandlerGoes, Zenon
<1>6. Typed'
  BY <1>1, <1>2, <1>5, Zenon DEF Typed, LogTyped
<1>7. Linked'
  BY <1>1, <1>3, <1>5, LinkedStays, Zenon DEF IInv
<1>8. Waiting'
  BY <1>1, <1>2, <1>5, WaitingStays, Zenon DEF IInv
<1>9. /\ \A v, s, o : Place(v, s, o)' <=> Place(v, s, o)
      /\ \A v, s : Kept(v, s)' <=> Kept(v, s)
      /\ \A v, s : Cached(v, s)' <=> Cached(v, s)
      /\ \A v, s : Doubtful(v, s)' <=> Doubtful(v, s)
      /\ \A v, s : Past(v, s)' <=> Past(v, s)
      /\ \A v, s : Current(v, s)' <=> Current(v, s)
  BY <1>1, <1>2, LogStays, Zenon DEF Typed, Cached, Doubtful, Past, Current
<1>10. /\ \A g \in Client : \A v, s, q : Section(g, v, s, q)' <=> Section(g, v, s, q)
       /\ \A g \in Client : \A v, s : Serving(g, v, s, "ok")' => Serving(g, v, s, "ok")
  BY <1>1, <1>3, <1>4, <1>5, Zenon DEF Section, Serving
<1>11. Sent' /\ Single' /\ Unique' /\ Known' /\ Fresh'
  <2>1. \A v \in Sequenced, s \in Nat : Carries(v, s)
    BY <1>5, <1>9, <1>10, Zenon, Zenon DEF Carries
  <2> QED
    BY <2>1, Carried, Zenon
<1>12. Grounded'
  <2>1. \A v \in User, s \in Nat : Grounds(v, s)
    BY <1>9, <1>10, Zenon DEF Grounds
  <2> QED
    BY <1>1, <2>1, GroundCarried, Zenon
<1> QED
  BY <1>6, <1>7, <1>8, <1>11, <1>12, Zenon DEF IInv

\* An entry of a user is its record and no other one of a sequenced user.
LEMMA WroteApart ==
  /\ \A u \in User \ Sequenced : \A s \in Nat :
       LET e == [kind |-> "plain", user |-> u, seq |-> s]
       IN  e \in Element /\ Wrote(e, u, s) /\ \A v \in Sequenced : \A r : ~Wrote(e, v, r)
  /\ \A e \in IdemEntry : \A u \in User : e.producer = ProducerOf[u] =>
       Wrote(e, u, e.seq) /\ \A v \in User : \A r : Wrote(e, v, r) => v = u /\ r = e.seq
<1>1. ASSUME NEW u \in User \ Sequenced, NEW s \in Nat, NEW e, e = [kind |-> "plain", user |-> u, seq |-> s]
      PROVE  e \in Element /\ Wrote(e, u, s) /\ \A v \in Sequenced : \A r : ~Wrote(e, v, r)
  <2>1. e.kind = "plain" /\ e.user = u /\ e.seq = s /\ e \in Element
    BY <1>1, Zenon DEF Element, PlainEntry
  <2> QED
    BY <2>1, Zenon DEF Wrote
<1>2. ASSUME NEW e \in IdemEntry, NEW u \in User, e.producer = ProducerOf[u]
      PROVE  Wrote(e, u, e.seq) /\ \A v \in User : \A r : Wrote(e, v, r) => v = u /\ r = e.seq
  <2>1. e.kind # "plain"
    BY Zenon DEF IdemEntry
  <2> QED
    BY <1>2, <2>1, Constants, Zenon DEF Wrote
<1> QED
  BY <1>1, <1>2

\* Produce for a user without sequence numbers.
LEMMA PlainStep ==
  ASSUME IInv, NEW h \in Client, HandleProduce(h)
  PROVE  IInv'
<1>1. UNCHANGED <<call, dedupCache, answered, user, returned, doubtful, lost>>
  BY Zenon DEF HandleProduce, idemVars
<1>2. Typed /\ LogTyped
  BY Zenon DEF IInv, Typed
<1>3. handler[h] # Free /\ handler[h].pc = "produce" /\ handler[h].user \notin Sequenced /\ call[h] = NoCall
  BY DEF HandleProduce, Free, IInv, Linked
<1>4. PICK u \in User \ Sequenced, n \in Nat, t \in Topic :
        u = handler[h].user /\ n = handler[h].seq /\ t = TopicOf[u]
  BY <1>2, <1>3, Parts, Zenon
<1>5. PICK e : e = [kind |-> "plain", user |-> u, seq |-> n]
  BY Zenon, Zenon
<1>6. e \in Element /\ Wrote(e, u, n) /\ \A v \in Sequenced : \A r : ~Wrote(e, v, r)
  BY <1>5, WroteApart, Zenon
<1>7. \/ Appends(t, e) /\ Goes(h, "ok")
      \/ ProduceError(t, e) /\ Goes(h, "error")
  BY <1>4, <1>5, Zenon DEF HandleProduce
<1>8. PICK pc \in {"ok", "error"} : Goes(h, pc) /\ (pc = "ok" => Appends(t, e))
  BY <1>7, Zenon
<1>9. /\ LogTyped'
      /\ \A v \in Sequenced : \A s, o : Place(v, s, o)' => Place(v, s, o)
      /\ \A v \in User : \A s : Kept(v, s) => Kept(v, s)'
      /\ Appends(t, e) => Kept(u, n)'
  <2>1. CASE Appends(t, e)
    <3>1. AppendEntry(t, e) /\ safe' = [safe EXCEPT ![t] = Len(log[t]) + 1]
      BY <2>1, Zenon DEF Appends
    <3>2. /\ LogTyped'
          /\ \A v \in User : \A s, o : Place(v, s, o)' => Place(v, s, o) \/ Wrote(e, v, s)
          /\ \A v \in User : \A s : Kept(v, s) => Kept(v, s)'
          /\ \A v \in User : \A s : TopicOf[v] = t /\ Wrote(e, v, s) => Kept(v, s)'
      BY <1>2, <1>6, <3>1, LogGrows, Zenon, Zenon
    <3> QED
      BY <1>4, <1>6, <3>2, Constants, Zenon
  <2>2. CASE ~Appends(t, e) /\ AppendEntry(t, e) /\ safe' = safe
    BY <1>2, <1>4, <1>6, <2>2, LogGrows, Constants
  <2>3. CASE ~Appends(t, e) /\ UNCHANGED logs
    BY <1>2, <2>3, LogStays, Constants, Zenon
  <2>4. Appends(t, e) \/ (AppendEntry(t, e) /\ safe' = safe) \/ UNCHANGED logs
    BY <1>7, Zenon DEF ProduceError, AppendFails, logs
  <2> QED
    BY <2>1, <2>2, <2>3, <2>4, Zenon
<1>10. /\ handler' \in [Client -> {Free} \cup RequestType]
       /\ \A g \in Client : g # h => handler'[g] = handler[g]
       /\ handler'[h].pc = pc /\ handler'[h].user = u /\ handler'[h].seq = n
       /\ \A g \in Client : \A v, s : Serves(g, v, s)' <=> Serves(g, v, s)
  BY <1>2, <1>3, <1>4, <1>8, HandlerGoes, Zenon
<1>11. Typed'
  BY <1>1, <1>2, <1>9, <1>10, Zenon DEF Typed
<1>12. Linked'
  BY <1>1, <1>3, <1>10, LinkedStays, Zenon DEF IInv
<1>13. Waiting'
  BY <1>1, <1>2, <1>10, WaitingStays, Zenon DEF IInv
<1>14. /\ \A v, s : Cached(v, s)' <=> Cached(v, s)
       /\ \A v, s : Doubtful(v, s)' <=> Doubtful(v, s)
       /\ \A v, s : Past(v, s)' <=> Past(v, s)
       /\ \A v, s : Current(v, s)' <=> Current(v, s)
  BY <1>1, Zenon DEF Cached, Doubtful, Past, Current
<1>15. /\ \A g \in Client : \A v, s, q : Section(g, v, s, q)' <=> Section(g, v, s, q)
       /\ \A g \in Client : \A v, s : Serving(g, v, s, "ok")' => Serving(g, v, s, "ok") \/ Kept(v, s)'
  <2>1. \A g \in Client : \A v, s, q : Section(g, v, s, q)' <=> Section(g, v, s, q)
    BY <1>1, <1>10, Zenon DEF Section
  <2>2. ASSUME NEW g \in Client, NEW v, NEW s, Serving(g, v, s, "ok")' PROVE Serving(g, v, s, "ok") \/ Kept(v, s)'
    <3>1. CASE g = h
      <4>1. pc = "ok" /\ v = u /\ s = n
        BY <1>10, <2>2, <3>1, Zenon DEF Serving, Serves
      <4> QED
        BY <1>8, <1>9, <4>1, Zenon
    <3>2. CASE g # h
      BY <1>10, <2>2, <3>2, Zenon DEF Serving
    <3> QED
      BY <3>1, <3>2, Zenon
  <2> QED
    BY <2>1, <2>2, Zenon
<1>16. Sent' /\ Single' /\ Unique' /\ Known' /\ Fresh'
  <2>1. \A v \in Sequenced, s \in Nat : Carries(v, s)
    BY <1>9, <1>10, <1>14, <1>15, Zenon, Zenon DEF Carries
  <2> QED
    BY <2>1, Carried, Zenon
<1>17. Grounded'
  <2>1. \A v \in User, s \in Nat : Grounds(v, s)
    BY <1>9, <1>14, <1>15, Zenon DEF Grounds
  <2> QED
    BY <1>1, <2>1, GroundCarried, Zenon
<1> QED
  BY <1>11, <1>12, <1>13, <1>16, <1>17, Zenon DEF IInv

\* The answer of a handler, received or lost.
LEMMA AnswerStep ==
  ASSUME IInv, NEW h \in Client, Answer200(h)
  PROVE  IInv'
<1>1. UNCHANGED <<log, safe, call, dedupCache, answered, doubtful, lost>> /\ UNCHANGED logs
  BY Zenon DEF Answer200, vars, brokerVars, idemVars, logs
<1>2. Typed /\ user \in [User -> UserType] /\ handler \in [Client -> {Free} \cup RequestType]
  BY Zenon DEF IInv, Typed
<1>3. handler[h] # Free /\ handler[h].pc \in {"ok", "error"} /\ call[h] = NoCall
  BY DEF Answer200, Free, IInv, Linked
<1>4. PICK u \in User, n \in Nat : u = handler[h].user /\ n = handler[h].seq
  BY <1>2, <1>3, Parts, Zenon
<1>5. handler' \in [Client -> {Free} \cup RequestType] /\ handler'[h] = Free
      /\ \A g \in Client : g # h => handler'[g] = handler[g]
  BY <1>2, Zenon DEF Answer200
<1>6. /\ \A g \in Client : g # h => \A v, s : Serves(g, v, s)' <=> Serves(g, v, s)
      /\ \A v, s : ~Serves(h, v, s)'
      /\ Serves(h, u, n) /\ \A v, s : Serves(h, v, s) => v = u /\ s = n
  BY <1>3, <1>4, <1>5, Zenon DEF Serves
<1>7. /\ \A g \in Client : \A v, s, q : Section(g, v, s, q)' <=> Section(g, v, s, q)
      /\ \A g \in Client : \A v, s : Serving(g, v, s, "ok")' => Serving(g, v, s, "ok")
  BY <1>1, <1>3, <1>5, <1>6, Zenon DEF Section, Serving
<1>8. /\ \A v, s, o : Place(v, s, o)' <=> Place(v, s, o)
      /\ \A v, s : Kept(v, s)' <=> Kept(v, s)
      /\ \A v, s : Cached(v, s)' <=> Cached(v, s)
      /\ \A v, s : Doubtful(v, s)' <=> Doubtful(v, s)
  BY <1>1, <1>2, LogStays, Zenon, Zenon DEF Typed, Cached, Doubtful
<1>9. Linked'
  BY <1>1, <1>3, <1>5, LinkedStays, Zenon DEF IInv
<1>10. user[u].pc = h => user[u].seq = n
  BY <1>6, Zenon DEF IInv, Waiting
<1>11. user[u] \in UserType /\ user[u].seq \in Nat
  BY <1>2, Parts, Zenon
<1>12. /\ user'[u] \in UserType /\ user'[u].pc # h
       /\ user'[u].pc \in {"idle", user[u].pc}
       /\ \/ user'[u].pc = "idle" /\ user'[u].seq = user[u].seq + 1
          \/ user'[u].seq = user[u].seq /\ user'[u].sent = user[u].sent
  <2>1. CASE user' = [user EXCEPT ![u] = [pc |-> "idle", seq |-> n + 1, sent |-> FALSE]] /\ user[u].pc = h
    <3>1. user'[u] = [pc |-> "idle", seq |-> n + 1, sent |-> FALSE] /\ n + 1 \in Nat
      BY <1>2, <2>1
    <3>2. user'[u].pc = "idle" /\ user'[u].seq = n + 1
      BY <3>1
    <3>3. user'[u] \in UserType
      BY <3>1 DEF UserType
    <3> QED
      BY <1>10, <2>1, <3>2, <3>3, Constants, Zenon, Zenon
  <2>2. CASE user' = [user EXCEPT ![u].pc = "idle"]
    <3>1. user'[u] = [user[u] EXCEPT !.pc = "idle"]
      BY <1>2, <2>2, Zenon
    <3> QED
      BY <1>11, <3>1, Constants, Zenon DEF UserType
  <2>3. CASE user[u].pc # h /\ UNCHANGED user
    BY <1>11, <2>3, Zenon
  <2> QED
    BY <1>4, <2>1, <2>2, <2>3, Zenon, Zenon DEF Answer200, Waits
<1>13. user' \in [User -> UserType] /\ \A v \in User : v # u => user'[v] = user[v]
  BY <1>2, <1>4, <1>12, Zenon DEF Answer200
<1>14. \A r \in returned' : r \in returned \/ (r = <<u, n>> /\ Serving(h, u, n, "ok"))
  BY <1>4, <1>6, Zenon DEF Answer200, Verdict, Serving
<1>15. \A r \in returned' : r \in returned \/ \E v \in User, s \in Nat : r = <<v, s>> /\ Kept(v, s)
  BY <1>14, Zenon DEF IInv, Grounded
<1>16. Typed'
  BY <1>1, <1>2, <1>5, <1>13, <1>15 DEF Typed, LogTyped
<1>17. Waiting'
  <2> SUFFICES ASSUME NEW v \in User, NEW g \in Client, user'[v].pc = g
               PROVE  Serves(g, v, user[v].seq)' /\ user'[v].sent
    BY Zenon DEF Waiting
  <2>1. user[v].pc = g /\ user'[v].seq = user[v].seq /\ user'[v].sent = user[v].sent
    BY <1>12, <1>13, Constants, Zenon
  <2>2. Serves(g, v, user[v].seq) /\ user[v].sent
    BY <2>1, Zenon DEF IInv, Waiting
  <2>3. g # h
    BY <1>6, <1>12, <2>1, <2>2
  <2>4. PICK s : s = user[v].seq
    BY Zenon
  <2>5. Serves(g, v, s)'
    BY <1>6, <2>2, <2>3, <2>4, Zenon
  <2> QED
    BY <2>1, <2>2, <2>4, <2>5, Zenon
<1>18. \A v \in User, s \in Nat : (Past(v, s) => Past(v, s)') /\ (Current(v, s) => Past(v, s)' \/ Current(v, s)')
  BY <1>11, <1>12, <1>13 DEF Past, Current
<1>19. Sent' /\ Single' /\ Unique' /\ Known' /\ Fresh'
  <2>1. \A v \in Sequenced, s \in Nat : Carries(v, s)
    BY <1>6, <1>7, <1>8, <1>18, Constants DEF Carries
  <2> QED
    BY <2>1, Carried, Zenon
<1>20. Grounded'
  <2>1. \A v \in User, s \in Nat : Grounds(v, s)
    BY <1>7, <1>8, Zenon DEF Grounds
  <2> QED
    BY <1>1, <1>15, <2>1, GroundCarried, Zenon
<1> QED
  BY <1>9, <1>16, <1>17, <1>19, <1>20, Zenon DEF IInv

-----------------------------------------------------------------------------
\* Handler h is at ProduceIdempotent for record n of u.
Handles(h, u, n) ==
  /\ Serving(h, u, n, "produce")
  /\ UNCHANGED <<user, returned, lost>> /\ doubtful \subseteq doubtful'

\* Users, doubts and what was returned: the same in every section.
LEMMA Around ==
  ASSUME IInv, NEW h, NEW u, NEW n, Handles(h, u, n)
  PROVE  /\ \A v, s : Doubtful(v, s) => Doubtful(v, s)'
         /\ \A v, s : (Past(v, s)' <=> Past(v, s)) /\ (Current(v, s)' <=> Current(v, s))
         /\ lost' = lost /\ \A r \in returned' : r \in returned
         /\ handler[h] # Free /\ handler[h].pc = "produce" /\ handler[h].user = u /\ handler[h].seq = n
         /\ Typed /\ LogTyped
BY Zenon DEF Handles, Serving, Serves, Doubtful, Past, Current, IInv, Typed

\* First section: the number is cached, or refused.
LEMMA FirstStep ==
  ASSUME IInv, NEW h \in Client, NEW u \in Sequenced, NEW n \in Nat, Handles(h, u, n),
         NEW pc \in {"ok", "error"}, Goes(h, pc), call[h] = NoCall, pc = "ok" => Cached(u, n),
         UNCHANGED <<brokerVars, dedupCache, call>>, \A a \in answered' : a \in answered \/ a.seq = n
  PROVE  IInv'
<1>1. UNCHANGED logs
  BY Zenon DEF brokerVars, logs
<1>2. /\ \A v, s : Doubtful(v, s) => Doubtful(v, s)'
      /\ \A v, s : (Past(v, s)' <=> Past(v, s)) /\ (Current(v, s)' <=> Current(v, s))
      /\ lost' = lost /\ \A r \in returned' : r \in returned
      /\ handler[h] # Free /\ handler[h].pc = "produce" /\ handler[h].user = u /\ handler[h].seq = n
      /\ Typed /\ LogTyped
  BY Around, Zenon
<1>3. UNCHANGED <<user, returned>>
  BY Zenon DEF Handles
<1>4. /\ handler' \in [Client -> {Free} \cup RequestType]
      /\ \A g \in Client : g # h => handler'[g] = handler[g]
      /\ handler'[h].pc = pc /\ handler'[h].user = u /\ handler'[h].seq = n
      /\ \A g \in Client : \A v, s : Serves(g, v, s)' <=> Serves(g, v, s)
  BY <1>2, HandlerGoes, Zenon
<1>5. /\ LogTyped'
      /\ \A v, s, o : Place(v, s, o)' <=> Place(v, s, o)
      /\ \A v, s : Kept(v, s)' <=> Kept(v, s)
  BY <1>1, <1>2, LogStays, Zenon
<1>6. Typed'
  BY <1>2, <1>3, <1>4, <1>5, Zenon DEF Typed
<1>7. Linked'
  BY <1>4, LinkedStays, Zenon DEF IInv
<1>8. Waiting'
  BY <1>2, <1>3, <1>4, WaitingStays, Zenon DEF IInv
<1>9. /\ \A v, s : Cached(v, s)' <=> Cached(v, s)
      /\ \A g \in Client : \A v, s, q : Section(g, v, s, q)' <=> Section(g, v, s, q)
  BY <1>4, Zenon DEF Cached, Section
<1>10. \A g \in Client : \A v, s : Serving(g, v, s, "ok")' => Serving(g, v, s, "ok") \/ Cached(v, s)
  BY <1>4 DEF Serving, Serves
<1>11. Sent' /\ Single' /\ Unique' /\ Known' /\ Fresh'
  <2>1. \A v \in Sequenced, s \in Nat : Carries(v, s)
    BY <1>2, <1>4, <1>5, <1>9, Zenon DEF Carries
  <2> QED
    BY <2>1, Carried, Zenon
<1>12. Grounded'
  <2>1. \A v \in User, s \in Nat : Grounds(v, s)
    BY <1>5, <1>9, <1>10, Zenon DEF Grounds
  <2> QED
    BY <1>2, <2>1, GroundCarried, Zenon
<1> QED
  BY <1>6, <1>7, <1>8, <1>11, <1>12, Zenon DEF IInv

\* A step of the call of handler h, for record n of u.
Moves(h, u, n) ==
  /\ \A g \in Client : \A v, s : Serves(g, v, s)' <=> Serves(g, v, s)
  /\ \A g \in Client : \A v, s, pc : Serving(g, v, s, pc)' <=> Serving(g, v, s, pc)
  /\ \A g \in Client : g # h => \A v, s, pc : Section(g, v, s, pc)' <=> Section(g, v, s, pc)
  /\ \A v, s, pc : Section(h, v, s, pc)' <=> v = u /\ s = n /\ pc = call'[h].pc

\* The call of one handler changes.
LEMMA CallChanges ==
  ASSUME IInv, NEW h \in Client, NEW u \in Sequenced, NEW n \in Nat, Handles(h, u, n), UNCHANGED handler,
         call'[h] \in CallType, \A g \in Client : g # h => call'[g] = call[g],
         call'[h].topic = TopicOf[u], call'[h].producer = ProducerOf[u], call'[h].seq = n
  PROVE  Linked' /\ Waiting' /\ Moves(h, u, n)
<1>1. handler[h] # Free /\ handler[h].pc = "produce" /\ handler[h].user = u /\ handler[h].seq = n /\ Typed
  BY Around
<1>2. call'[h] # NoCall
  BY DEF NoCall, CallType
<1>3. Linked'
  BY <1>1 DEF IInv, Linked
<1>4. /\ \A g \in Client : \A v, s : Serves(g, v, s)' <=> Serves(g, v, s)
      /\ \A g \in Client : \A v, s, pc : Serving(g, v, s, pc)' <=> Serving(g, v, s, pc)
  BY Zenon DEF Serves, Serving
<1>5. UNCHANGED user
  BY Zenon DEF Handles
<1>6. Waiting'
  BY <1>1, <1>4, <1>5, WaitingStays, Zenon DEF IInv
<1>7. Serves(h, u, n) /\ \A v, s : Serves(h, v, s) => v = u /\ s = n
  BY <1>1, Zenon DEF Serves
<1>8. \A g \in Client : g # h => \A v, s, pc : Section(g, v, s, pc)' <=> Section(g, v, s, pc)
  BY <1>4, Zenon DEF Section
<1>9. \A v, s, pc : Section(h, v, s, pc)' <=> v = u /\ s = n /\ pc = call'[h].pc
  BY <1>2, <1>4, <1>7 DEF Section
<1> QED
  BY <1>3, <1>4, <1>6, <1>8, <1>9, Zenon DEF Moves

\* First section: the number is let through.
LEMMA CheckStep ==
  ASSUME IInv, NEW h \in Client, NEW u \in Sequenced, NEW n \in Nat, Handles(h, u, n), UNCHANGED handler,
         Check(h, TopicOf[u], ProducerOf[u], n)
  PROVE  IInv'
<1>1. UNCHANGED <<log, safe, dedupCache, answered>> /\ UNCHANGED logs /\ call[h] = NoCall /\ ~Cached(u, n)
  BY Zenon DEF Check, brokerVars, logs, Cached
<1>2. /\ \A v, s : Doubtful(v, s) => Doubtful(v, s)'
      /\ \A v, s : (Past(v, s)' <=> Past(v, s)) /\ (Current(v, s)' <=> Current(v, s))
      /\ lost' = lost /\ \A r \in returned' : r \in returned
      /\ Typed /\ LogTyped
  BY Around, Zenon
<1>3. UNCHANGED <<user, returned>>
  BY Zenon DEF Handles
<1>4. /\ call' \in [Client -> {NoCall} \cup CallType] /\ \A g \in Client : g # h => call'[g] = call[g]
      /\ call'[h] \in CallType /\ call'[h].pc = "produce"
      /\ call'[h].topic = TopicOf[u] /\ call'[h].producer = ProducerOf[u] /\ call'[h].seq = n
  <2>1. PICK k : k = [pc |-> "produce", topic |-> TopicOf[u], producer |-> ProducerOf[u], seq |-> n,
                      seen |-> Acknowledged(TopicOf[u], ProducerOf[u]), offset |-> 0]
    BY Zenon
  <2>2. Acknowledged(TopicOf[u], ProducerOf[u]) \in SUBSET Nat
    BY <1>2, Zenon DEF Acknowledged, Typed
  <2>3. TopicOf[u] \in Topic /\ ProducerOf[u] \in Producer
    BY Constants, Zenon
  <2>4. k \in CallType
    BY <2>1, <2>2, <2>3, Zenon DEF CallType
  <2>5. call' = [call EXCEPT ![h] = k] /\ call \in [Client -> {NoCall} \cup CallType]
    BY <1>2, <2>1, Zenon DEF Check, Typed
  <2>6. k.pc = "produce" /\ k.topic = TopicOf[u] /\ k.producer = ProducerOf[u] /\ k.seq = n
    BY <2>1, Zenon
  <2> QED
    BY <2>4, <2>5, <2>6, Zenon
<1>5. /\ Linked' /\ Waiting'
      /\ \A g \in Client : \A v, s : Serves(g, v, s)' <=> Serves(g, v, s)
      /\ \A g \in Client : \A v, s, pc : Serving(g, v, s, pc)' <=> Serving(g, v, s, pc)
      /\ \A g \in Client : g # h => \A v, s, pc : Section(g, v, s, pc)' <=> Section(g, v, s, pc)
      /\ \A v, s, pc : Section(h, v, s, pc)' <=> v = u /\ s = n /\ pc = call'[h].pc
  <2>1. Linked' /\ Waiting' /\ Moves(h, u, n)
    BY <1>4, CallChanges, Zenon
  <2> QED
    BY <2>1, Zenon DEF Moves
<1>6. /\ LogTyped'
      /\ \A v, s, o : Place(v, s, o)' <=> Place(v, s, o)
      /\ \A v, s : Kept(v, s)' <=> Kept(v, s)
  BY <1>1, <1>2, LogStays, Zenon
<1>7. Typed'
  BY <1>1, <1>2, <1>3, <1>4, <1>6, Zenon DEF Typed
<1>8. /\ \A v, s : Cached(v, s)' <=> Cached(v, s)
      /\ \A v, s, pc : ~Section(h, v, s, pc)
  BY <1>1, Zenon DEF Cached, Section
<1>9. /\ \A g \in Client : \A v, s : Section(g, v, s, "remember")' <=> Section(g, v, s, "remember")
      /\ \A g \in Client : \A v, s : Section(g, v, s, "produce")' => Section(g, v, s, "produce") \/ ~Cached(v, s)
  <2>1. \A v, s : ~Section(h, v, s, "remember")'
    BY <1>4, <1>5
  <2>2. ASSUME NEW v, NEW s, Section(h, v, s, "produce")' PROVE ~Cached(v, s)
    <3>1. v = u /\ s = n
      BY <1>5, <2>2, Zenon
    <3> QED
      BY <1>1, <3>1, Zenon
  <2> QED
    BY <1>5, <1>8, <2>1, <2>2, Zenon
<1>10. Sent' /\ Single' /\ Unique' /\ Known' /\ Fresh'
  <2>1. \A v \in Sequenced, s \in Nat : Carries(v, s)
    BY <1>2, <1>5, <1>6, <1>8, <1>9, Zenon DEF Carries
  <2> QED
    BY <2>1, Carried, Zenon
<1>11. Grounded'
  <2>1. \A v \in User, s \in Nat : Grounds(v, s)
    BY <1>5, <1>6, <1>8, <1>9, Zenon DEF Grounds
  <2> QED
    BY <1>2, <2>1, GroundCarried, Zenon
<1> QED
  BY <1>5, <1>7, <1>10, <1>11, Zenon DEF IInv

\* The call of a handler that is in a section.
LEMMA InSection ==
  ASSUME IInv, NEW h \in Client, NEW u \in Sequenced, NEW n \in Nat, Handles(h, u, n),
         NEW pc \in {"produce", "remember"}, call[h].pc = pc
  PROVE  /\ Section(h, u, n, pc) /\ \A v, s, q : Section(h, v, s, q) => v = u /\ s = n /\ q = pc
         /\ call[h] \in CallType /\ call[h].topic = TopicOf[u] /\ call[h].producer = ProducerOf[u] /\ call[h].seq = n
         /\ TopicOf[u] \in Topic /\ u \in User
         /\ \A v \in User : \A s :
              DedupKey(TopicOf[v], ProducerOf[v], s) = DedupKey(call[h].topic, call[h].producer, n) => v = u /\ s = n
<1>1. handler[h] # Free /\ handler[h].user = u /\ handler[h].seq = n /\ Typed
  BY Around, Zenon
<1>2. call[h] # NoCall
  BY DEF NoCall
<1>3. /\ Section(h, u, n, pc) /\ \A v, s, q : Section(h, v, s, q) => v = u /\ s = n /\ q = pc
  BY <1>1, <1>2, Zenon DEF Section, Serves
<1>4. call[h] \in CallType
  BY <1>1, <1>2, Parts, Zenon
<1>5. call[h].topic = TopicOf[u] /\ call[h].producer = ProducerOf[u] /\ call[h].seq = n
  BY <1>1, <1>2, Zenon DEF IInv, Linked
<1>6. TopicOf[u] \in Topic /\ u \in User
  BY Constants, Zenon
<1>7. \A v \in User : \A s :
        DedupKey(TopicOf[v], ProducerOf[v], s) = DedupKey(call[h].topic, call[h].producer, n) => v = u /\ s = n
  BY <1>5, <1>6, KeysApart
<1> QED
  BY <1>3, <1>4, <1>5, <1>6, <1>7, Zenon

\* The entry of a call is the record of its user.
LEMMA EntryOf ==
  ASSUME NEW u \in User, NEW k \in CallType, k.producer = ProducerOf[u]
  PROVE  /\ Entry(k) \in Element
         /\ Wrote(Entry(k), u, k.seq)
         /\ \A v \in User : \A s : Wrote(Entry(k), v, s) => v = u /\ s = k.seq
<1>1. PICK e : e = Entry(k)
  BY Zenon
<1>2. e \in IdemEntry /\ e.producer = ProducerOf[u] /\ e.seq = k.seq
  BY <1>1, Zenon DEF Entry, IdemEntry, CallType
<1> QED
  BY <1>1, <1>2, WroteApart, Zenon DEF Element

\* Second section: Produce appends the record.
LEMMA SucceedsStep ==
  ASSUME IInv, NEW h \in Client, NEW u \in Sequenced, NEW n \in Nat, Handles(h, u, n), UNCHANGED handler,
         ProduceSucceeds(h)
  PROVE  IInv'
<1>1. UNCHANGED <<dedupCache, answered>> /\ call[h].pc = "produce"
  BY Zenon DEF ProduceSucceeds
<1>2. /\ \A v, s : Doubtful(v, s) => Doubtful(v, s)'
      /\ \A v, s : (Past(v, s)' <=> Past(v, s)) /\ (Current(v, s)' <=> Current(v, s))
      /\ lost' = lost /\ \A r \in returned' : r \in returned
      /\ Typed /\ LogTyped
  BY Around, Zenon
<1>3. UNCHANGED <<user, returned>>
  BY Zenon DEF Handles
<1>4. PICK k \in CallType : k = call[h] /\ k.topic = TopicOf[u] /\ k.producer = ProducerOf[u] /\ k.seq = n
  BY <1>1, InSection
<1>5. /\ Section(h, u, n, "produce") /\ \A v, s, q : Section(h, v, s, q) => v = u /\ s = n /\ q = "produce"
      /\ TopicOf[u] \in Topic /\ u \in User
  BY <1>1, InSection, Zenon
<1>6. PICK t \in Topic, e \in Element : t = TopicOf[u] /\ e = Entry(k)
  BY <1>4, <1>5, EntryOf, Zenon
<1>7. Wrote(e, u, n) /\ \A v \in User : \A s : Wrote(e, v, s) => v = u /\ s = n
  BY <1>4, <1>5, <1>6, EntryOf
<1>8. AppendEntry(t, e) /\ safe' = [safe EXCEPT ![t] = Len(log[t]) + 1]
  BY <1>4, <1>6, Zenon DEF ProduceSucceeds, Appends
<1>9. PICK l \in Nat : l = Len(log[t]) + 1
  BY <1>2 DEF LogTyped
<1>10. /\ LogTyped'
       /\ \A v \in User : \A s, o : Place(v, s, o) => Place(v, s, o)'
       /\ \A v \in User : \A s, o : Place(v, s, o)' => Place(v, s, o) \/ (v = u /\ s = n /\ o = l)
       /\ \A v \in User : \A s : Kept(v, s) => Kept(v, s)'
       /\ Kept(u, n)'
  <2>1. /\ LogTyped'
        /\ \A v \in User : \A s, o : Place(v, s, o) => Place(v, s, o)'
        /\ \A v \in User : \A s, o : Place(v, s, o)' => Place(v, s, o) \/ (TopicOf[v] = t /\ Wrote(e, v, s) /\ o = l)
        /\ \A v \in User : \A s : Kept(v, s) => Kept(v, s)'
        /\ \A v \in User : \A s : TopicOf[v] = t /\ Wrote(e, v, s) => Kept(v, s)'
    BY <1>2, <1>8, <1>9, LogGrows, Zenon
  <2> QED
    BY <1>5, <1>6, <1>7, <2>1
<1>11. /\ call' \in [Client -> {NoCall} \cup CallType] /\ \A g \in Client : g # h => call'[g] = call[g]
       /\ call'[h] \in CallType /\ call'[h].pc = "remember"
       /\ call'[h].topic = TopicOf[u] /\ call'[h].producer = ProducerOf[u] /\ call'[h].seq = n
  <2>1. Len(log[t]) \in Nat /\ call \in [Client -> {NoCall} \cup CallType]
    BY <1>2 DEF LogTyped, Typed
  <2>2. PICK m : m = [k EXCEPT !.pc = "remember", !.offset = Len(log[t])]
    BY Zenon
  <2>3. m \in CallType /\ m.pc = "remember" /\ m.topic = TopicOf[u] /\ m.producer = ProducerOf[u] /\ m.seq = n
    BY <1>4, <2>1, <2>2, Zenon DEF CallType
  <2>4. call' = [call EXCEPT ![h] = m]
    BY <1>4, <1>6, <2>1, <2>2, Zenon DEF ProduceSucceeds
  <2> QED
    BY <2>1, <2>3, <2>4, Zenon
<1>12. /\ Linked' /\ Waiting'
       /\ \A g \in Client : \A v, s : Serves(g, v, s)' <=> Serves(g, v, s)
       /\ \A g \in Client : \A v, s, pc : Serving(g, v, s, pc)' <=> Serving(g, v, s, pc)
       /\ \A g \in Client : g # h => \A v, s, pc : Section(g, v, s, pc)' <=> Section(g, v, s, pc)
       /\ \A v, s, pc : Section(h, v, s, pc)' <=> v = u /\ s = n /\ pc = call'[h].pc
  <2>1. Linked' /\ Waiting' /\ Moves(h, u, n)
    BY <1>11, CallChanges, Zenon
  <2> QED
    BY <2>1, Zenon DEF Moves
<1>13. Typed'
  BY <1>1, <1>2, <1>3, <1>10, <1>11, Zenon DEF Typed
<1>14. \A v, s : Cached(v, s)' <=> Cached(v, s)
  BY <1>1, Zenon DEF Cached
<1>15. Serves(h, u, n) /\ Sent /\ Single /\ Unique /\ Known /\ Fresh
  BY <1>5, Zenon DEF Section, IInv
<1>16. \A o \in Nat : ~Doubtful(u, n) => ~Place(u, n, o)
  <2> SUFFICES ASSUME NEW o \in Nat, ~Doubtful(u, n), Place(u, n, o) PROVE FALSE
    BY Zenon
  <2>1. ~Cached(u, n)
    BY <1>5, <1>15, Zenon DEF Fresh
  <2>2. \A g \in Client : ~Section(g, u, n, "remember")
    BY <1>5, <1>15, Zenon DEF Single, Section
  <2> QED
    BY <1>15, <2>1, <2>2, Zenon DEF Known
<1>17. Sent'
  BY <1>2, <1>10, <1>12, <1>15, Constants DEF Sent
<1>18. Single'
  BY <1>2, <1>12, <1>15, Zenon DEF Single
<1>19. Unique'
  BY <1>2, <1>10, <1>15, <1>16, Constants DEF Unique
<1>20. Known'
  <2> SUFFICES ASSUME NEW v \in Sequenced, NEW s \in Nat, NEW o \in Nat, ~Doubtful(v, s)', Place(v, s, o)'
               PROVE  \/ Cached(v, s)'
                      \/ \E g \in Client : Section(g, v, s, "remember")'
                      \/ Past(v, s)' /\ \A g \in Client : ~Serves(g, v, s)'
    BY Zenon DEF Known
  <2>1. CASE v = u /\ s = n
    BY <1>11, <1>12, <2>1, Zenon
  <2>2. CASE ~(v = u /\ s = n)
    <3>1. Place(v, s, o) /\ ~Doubtful(v, s)
      BY <1>2, <1>10, <2>2, Constants
    <3>2. \A g \in Client : Section(g, v, s, "remember") => Section(g, v, s, "remember")'
      BY <1>5, <1>12, <2>2
    <3> QED
      BY <1>2, <1>12, <1>14, <1>15, <3>1, <3>2, Zenon DEF Known
  <2> QED
    BY <2>1, <2>2, Zenon
<1>21. Fresh'
  <2>1. \A g \in Client : \A v, s : Section(g, v, s, "produce")' => Section(g, v, s, "produce")
    BY <1>11, <1>12
  <2> QED
    BY <1>2, <1>14, <1>15, <2>1, Zenon DEF Fresh
<1>22. Grounded'
  <2>1. \A v \in User, s \in Nat : Grounds(v, s)
    BY <1>10, <1>12, <1>14, Zenon DEF Grounds
  <2> QED
    BY <1>2, <2>1, GroundCarried, Zenon
<1> QED
  BY <1>12, <1>13, <1>17, <1>18, <1>19, <1>20, <1>21, <1>22, Zenon DEF IInv

\* A call ends, and its handler goes on to the answer.
LEMMA CallEnds ==
  ASSUME IInv, NEW h \in Client, NEW u \in Sequenced, NEW n \in Nat, Handles(h, u, n),
         NEW pc \in {"ok", "error"}, Goes(h, pc), call' = [call EXCEPT ![h] = NoCall]
  PROVE  /\ call' \in [Client -> {NoCall} \cup CallType] /\ handler' \in [Client -> {Free} \cup RequestType]
         /\ Linked' /\ Waiting'
         /\ \A g \in Client : \A v, s : Serves(g, v, s)' <=> Serves(g, v, s)
         /\ \A g \in Client : g # h => \A v, s, q : Serving(g, v, s, q)' <=> Serving(g, v, s, q)
         /\ \A v, s, q : Serving(h, v, s, q)' <=> v = u /\ s = n /\ q = pc
         /\ \A g \in Client : g # h => \A v, s, q : Section(g, v, s, q)' <=> Section(g, v, s, q)
         /\ \A v, s, q : ~Section(h, v, s, q)'
<1>1. handler[h] # Free /\ handler[h].user = u /\ handler[h].seq = n /\ Typed
  BY Around, Zenon
<1>2. call \in [Client -> {NoCall} \cup CallType]
  BY <1>1, Zenon DEF Typed
<1>3. /\ call' \in [Client -> {NoCall} \cup CallType]
      /\ call'[h] = NoCall /\ \A g \in Client : g # h => call'[g] = call[g]
  BY <1>2, Zenon
<1>4. /\ handler' \in [Client -> {Free} \cup RequestType]
      /\ \A g \in Client : g # h => handler'[g] = handler[g]
      /\ handler'[h] # Free /\ handler'[h].pc = pc /\ handler'[h].user = u /\ handler'[h].seq = n
      /\ \A g \in Client : \A v, s : Serves(g, v, s)' <=> Serves(g, v, s)
  BY <1>1, HandlerGoes, Zenon
<1>5. Linked'
  BY <1>3, <1>4 DEF IInv, Linked
<1>6. UNCHANGED user
  BY Zenon DEF Handles
<1>7. Waiting'
  BY <1>1, <1>4, <1>6, WaitingStays, Zenon DEF IInv
<1>8. \A g \in Client : g # h => \A v, s, q : Serving(g, v, s, q)' <=> Serving(g, v, s, q)
  BY <1>4, Zenon DEF Serving
<1>9. \A v, s, q : Serving(h, v, s, q)' <=> v = u /\ s = n /\ q = pc
  BY <1>4, Zenon DEF Serving, Serves
<1>10. \A g \in Client : g # h => \A v, s, q : Section(g, v, s, q)' <=> Section(g, v, s, q)
  BY <1>3, <1>4, Zenon DEF Section
<1>11. \A v, s, q : ~Section(h, v, s, q)'
  BY <1>3, Zenon DEF Section
<1> QED
  BY <1>3, <1>4, <1>5, <1>7, <1>8, <1>9, <1>10, <1>11, Zenon

\* Second section: Produce returns an error, the record appended or not.
LEMMA FailsStep ==
  ASSUME IInv, NEW h \in Client, NEW u \in Sequenced, NEW n \in Nat, Handles(h, u, n),
         ProduceFails(h), Goes(h, "error"), log' # log => Doubtful(u, n)'
  PROVE  IInv'
<1>1. UNCHANGED <<dedupCache, answered>> /\ call[h].pc = "produce" /\ call' = [call EXCEPT ![h] = NoCall]
  BY Zenon DEF ProduceFails
<1>2. /\ \A v, s : Doubtful(v, s) => Doubtful(v, s)'
      /\ \A v, s : (Past(v, s)' <=> Past(v, s)) /\ (Current(v, s)' <=> Current(v, s))
      /\ lost' = lost /\ \A r \in returned' : r \in returned
      /\ Typed /\ LogTyped
  BY Around, Zenon
<1>3. UNCHANGED <<user, returned>>
  BY Zenon DEF Handles
<1>4. PICK k \in CallType : k = call[h] /\ k.topic = TopicOf[u] /\ k.producer = ProducerOf[u] /\ k.seq = n
  BY <1>1, InSection
<1>5. /\ Section(h, u, n, "produce") /\ \A v, s, q : Section(h, v, s, q) => v = u /\ s = n /\ q = "produce"
      /\ TopicOf[u] \in Topic /\ u \in User
  BY <1>1, InSection, Zenon
<1>6. PICK t \in Topic, e \in Element : t = TopicOf[u] /\ e = Entry(k)
  BY <1>4, <1>5, EntryOf, Zenon
<1>7. Wrote(e, u, n) /\ \A v \in User : \A s : Wrote(e, v, s) => v = u /\ s = n
  BY <1>4, <1>5, <1>6, EntryOf
<1>8. UNCHANGED logs \/ (AppendEntry(t, e) /\ safe' = safe)
  BY <1>4, <1>6, Zenon DEF ProduceFails, ProduceError, AppendFails, logs
<1>9. /\ LogTyped'
      /\ \A v \in User : \A s, o : Place(v, s, o)' => Place(v, s, o) \/ (v = u /\ s = n /\ log' # log)
      /\ \A v \in User : \A s : Kept(v, s) => Kept(v, s)'
  <2>1. CASE log' = log /\ safe' = safe
    BY <1>2, <2>1, Zenon DEF LogTyped, Place, Kept
  <2>2. CASE log' # log /\ AppendEntry(t, e) /\ safe' = safe
    <3>1. /\ LogTyped'
          /\ \A v \in User : \A s, o : Place(v, s, o)' => Place(v, s, o) \/ Wrote(e, v, s)
          /\ \A v \in User : \A s : Kept(v, s) => Kept(v, s)'
      BY <1>2, <2>2, LogGrows, Zenon
    <3> QED
      BY <1>7, <2>2, <3>1
  <2> QED
    BY <1>8, <2>1, <2>2, Zenon DEF logs
<1>10. /\ call' \in [Client -> {NoCall} \cup CallType] /\ handler' \in [Client -> {Free} \cup RequestType]
       /\ Linked' /\ Waiting'
       /\ \A g \in Client : \A v, s : Serves(g, v, s)' <=> Serves(g, v, s)
       /\ \A g \in Client : g # h => \A v, s, q : Serving(g, v, s, q)' <=> Serving(g, v, s, q)
       /\ \A v, s, q : Serving(h, v, s, q)' <=> v = u /\ s = n /\ q = "error"
       /\ \A g \in Client : g # h => \A v, s, q : Section(g, v, s, q)' <=> Section(g, v, s, q)
       /\ \A v, s, q : ~Section(h, v, s, q)'
  BY <1>1, CallEnds, Zenon
<1>11. Typed'
  BY <1>1, <1>2, <1>3, <1>9, <1>10, Zenon DEF Typed
<1>12. (\A v, s : Cached(v, s)' <=> Cached(v, s)) /\ Serves(h, u, n)
  BY <1>1, <1>5, Zenon DEF Cached, Section
<1>13. Sent' /\ Single' /\ Unique' /\ Known' /\ Fresh'
  <2>1. \A v \in Sequenced, s \in Nat : Carries(v, s)
    <3> SUFFICES ASSUME NEW v \in Sequenced, NEW s \in Nat PROVE Carries(v, s)
      BY Zenon
    <3>1. \A o \in Nat : Place(v, s, o)' => Place(v, s, o) \/ (Doubtful(v, s)' /\ \E g \in Client : Serves(g, v, s))
      BY <1>9, <1>12, Constants, Zenon
    <3>2. /\ \A g \in Client : Section(g, v, s, "remember") => Section(g, v, s, "remember")'
          /\ \A g \in Client : Section(g, v, s, "produce")' => Section(g, v, s, "produce")
      BY <1>5, <1>10
    <3> QED
      BY <1>2, <1>10, <1>12, <3>1, <3>2, Zenon DEF Carries
  <2> QED
    BY <2>1, Carried, Zenon
<1>14. Grounded'
  <2>1. \A v \in User, s \in Nat : Grounds(v, s)
    <3> SUFFICES ASSUME NEW v \in User, NEW s \in Nat PROVE Grounds(v, s)
      BY Zenon
    <3>1. /\ \A g \in Client : Serving(g, v, s, "ok")' => Serving(g, v, s, "ok")
          /\ \A g \in Client : Section(g, v, s, "remember")' => Section(g, v, s, "remember")
      BY <1>10
    <3> QED
      BY <1>9, <1>12, <3>1, Zenon DEF Grounds
  <2> QED
    BY <1>2, <2>1, GroundCarried, Zenon
<1> QED
  BY <1>10, <1>11, <1>13, <1>14, Zenon DEF IInv

\* Third section: the result is cached.
LEMMA RememberStep ==
  ASSUME IInv, NEW h \in Client, NEW u \in Sequenced, NEW n \in Nat, Handles(h, u, n),
         Remember(h), Goes(h, "ok")
  PROVE  IInv'
<1>1. UNCHANGED logs /\ call[h].pc = "remember" /\ call' = [call EXCEPT ![h] = NoCall]
  BY Zenon DEF Remember, brokerVars, logs
<1>2. /\ \A v, s : Doubtful(v, s) => Doubtful(v, s)'
      /\ \A v, s : (Past(v, s)' <=> Past(v, s)) /\ (Current(v, s)' <=> Current(v, s))
      /\ lost' = lost /\ \A r \in returned' : r \in returned
      /\ Typed /\ LogTyped
  BY Around, Zenon
<1>3. UNCHANGED <<user, returned>>
  BY Zenon DEF Handles
<1>4. /\ Section(h, u, n, "remember") /\ \A v, s, q : Section(h, v, s, q) => v = u /\ s = n /\ q = "remember"
      /\ call[h].topic = TopicOf[u] /\ call[h].producer = ProducerOf[u] /\ call[h].seq = n /\ u \in User
      /\ \A v \in User : \A s :
           DedupKey(TopicOf[v], ProducerOf[v], s) = DedupKey(call[h].topic, call[h].producer, n) => v = u /\ s = n
  <2>1. /\ Section(h, u, n, "remember") /\ \A v, s, q : Section(h, v, s, q) => v = u /\ s = n /\ q = "remember"
        /\ call[h].topic = TopicOf[u] /\ call[h].producer = ProducerOf[u] /\ call[h].seq = n /\ u \in User
    BY <1>1, InSection, Zenon
  <2> QED
    BY <2>1, KeysApart
<1>5. /\ LogTyped'
      /\ \A v, s, o : Place(v, s, o)' <=> Place(v, s, o)
      /\ \A v, s : Kept(v, s)' <=> Kept(v, s)
  BY <1>1, <1>2, LogStays, Zenon
<1>6. /\ call' \in [Client -> {NoCall} \cup CallType] /\ handler' \in [Client -> {Free} \cup RequestType]
      /\ Linked' /\ Waiting'
      /\ \A g \in Client : \A v, s : Serves(g, v, s)' <=> Serves(g, v, s)
      /\ \A g \in Client : g # h => \A v, s, q : Serving(g, v, s, q)' <=> Serving(g, v, s, q)
      /\ \A v, s, q : Serving(h, v, s, q)' <=> v = u /\ s = n /\ q = "ok"
      /\ \A g \in Client : g # h => \A v, s, q : Section(g, v, s, q)' <=> Section(g, v, s, q)
      /\ \A v, s, q : ~Section(h, v, s, q)'
  BY <1>1, CallEnds, Zenon
<1>7. DOMAIN dedupCache' = DOMAIN dedupCache \cup {DedupKey(call[h].topic, call[h].producer, n)}
  BY <1>4, Zenon DEF Remember, Put
<1>8. /\ Cached(u, n)' /\ \A v \in User : \A s : Cached(v, s) => Cached(v, s)'
      /\ \A v \in User : \A s : Cached(v, s)' => Cached(v, s) \/ (v = u /\ s = n)
  BY <1>4, <1>7, Zenon DEF Cached
<1>9. \A a \in answered' : a \in answered \/ a.seq = n
  <2>1. \A a \in answered' : a \in answered \/ a = Answer(call[h], call[h].offset)
    BY Zenon DEF Remember
  <2>2. Answer(call[h], call[h].offset).seq = n
    BY <1>4, Zenon DEF Answer
  <2> QED
    BY <2>1, <2>2, Zenon
<1>10. Typed'
  BY <1>2, <1>3, <1>5, <1>6, <1>9, Zenon DEF Typed
<1>11. Serves(h, u, n) /\ Sent /\ Single /\ Unique /\ Known /\ Fresh
  BY <1>4, Zenon DEF Section, IInv
<1>12. Sent'
  BY <1>2, <1>5, <1>6, <1>11, Zenon DEF Sent
<1>13. Single'
  BY <1>2, <1>6, <1>11, Zenon DEF Single
<1>14. Unique'
  BY <1>2, <1>5, <1>11, Zenon DEF Unique
<1>15. Known'
  <2> SUFFICES ASSUME NEW v \in Sequenced, NEW s \in Nat, NEW o \in Nat, ~Doubtful(v, s)', Place(v, s, o)'
               PROVE  \/ Cached(v, s)'
                      \/ \E g \in Client : Section(g, v, s, "remember")'
                      \/ Past(v, s)' /\ \A g \in Client : ~Serves(g, v, s)'
    BY Zenon DEF Known
  <2>1. CASE v = u /\ s = n
    BY <1>8, <2>1, Zenon
  <2>2. CASE ~(v = u /\ s = n)
    <3> v \in User
      BY Constants
    <3>1. Place(v, s, o) /\ ~Doubtful(v, s)
      BY <1>2, <1>5, Zenon
    <3>2. ASSUME NEW g \in Client, Section(g, v, s, "remember") PROVE Section(g, v, s, "remember")'
      <4>1. g # h
        BY <1>4, <2>2, <3>2, Zenon
      <4> QED
        BY <1>6, <3>2, <4>1, Zenon
    <3> QED
      BY <1>2, <1>6, <1>8, <1>11, <3>1, <3>2, Zenon DEF Known
  <2> QED
    BY <2>1, <2>2, Zenon
<1>16. Fresh'
  <2> SUFFICES ASSUME NEW v \in Sequenced, NEW s \in Nat, NEW g \in Client,
                      ~Doubtful(v, s)', Section(g, v, s, "produce")', Cached(v, s)'
               PROVE  FALSE
    BY Zenon DEF Fresh
  <2>1. g # h /\ Section(g, v, s, "produce") /\ ~Doubtful(v, s) /\ v \in User
    BY <1>2, <1>6, Constants
  <2>2. v = u /\ s = n
    BY <1>8, <1>11, <2>1, Zenon DEF Fresh
  <2>3. Serves(g, u, n)
    BY <2>1, <2>2, Zenon DEF Section
  <2> QED
    BY <1>11, <2>1, <2>2, <2>3, Zenon DEF Single
<1>17. Grounded'
  <2>1. \A v \in User, s \in Nat : Grounds(v, s)
    <3> SUFFICES ASSUME NEW v \in User, NEW s \in Nat PROVE Grounds(v, s)
      BY Zenon
    <3>1. ASSUME NEW g \in Client, Serving(g, v, s, "ok")'
          PROVE  Serving(g, v, s, "ok") \/ Section(g, v, s, "remember")
      <4>1. CASE g = h
        BY <1>4, <1>6, <3>1, <4>1, Zenon
      <4>2. CASE g # h
        BY <1>6, <3>1, <4>2, Zenon
      <4> QED
        BY <4>1, <4>2, Zenon
    <3>2. \A g \in Client : Section(g, v, s, "remember")' => Section(g, v, s, "remember")
      BY <1>6, Zenon
    <3>3. Cached(v, s)' => Cached(v, s) \/ Section(h, v, s, "remember")
      BY <1>4, <1>8, Zenon
    <3> QED
      BY <1>5, <3>1, <3>2, <3>3, Zenon DEF Grounds
  <2> QED
    BY <1>2, <2>1, GroundCarried, Zenon
<1> QED
  BY <1>6, <1>10, <1>12, <1>13, <1>14, <1>15, <1>16, <1>17, Zenon DEF IInv

\* A handler's call of ProduceIdempotent, whichever section it is in.
LEMMA IdempotentStep ==
  ASSUME IInv, NEW h \in Client, HandleProduceIdempotent(h)
  PROVE  IInv'
<1>1. handler[h].pc = "produce" /\ handler[h].user \in Sequenced /\ handler[h] # Free
  <2>1. handler[h].pc = "produce" /\ handler[h].user \in Sequenced
    BY Zenon DEF HandleProduceIdempotent
  <2> QED
    BY <2>1 DEF Free
<1>2. PICK u \in Sequenced, n \in Nat : u = handler[h].user /\ n = handler[h].seq
  BY <1>1, Parts, Zenon DEF IInv
<1>3. doubtful' = IF log' # log /\ handler'[h].pc = "error" THEN doubtful \cup {<<u, n>>} ELSE doubtful
  BY <1>2, Zenon DEF HandleProduceIdempotent
<1>4. doubtful \subseteq doubtful'
  BY <1>3, Zenon
<1>5. Handles(h, u, n)
  BY <1>1, <1>2, <1>4, Zenon DEF Handles, Serving, Serves, HandleProduceIdempotent
<1>6. CASE AnswerFromCache(h, TopicOf[u], ProducerOf[u], n) /\ Goes(h, "ok")
  <2>1. /\ call[h] = NoCall /\ Cached(u, n) /\ UNCHANGED <<brokerVars, dedupCache, call>>
        /\ \A a \in answered' : a \in answered \/ a.seq = n
    <3>1. /\ call[h] = NoCall /\ Cached(u, n) /\ UNCHANGED <<brokerVars, dedupCache, call>>
          /\ answered' = answered \cup {[topic |-> TopicOf[u], producer |-> ProducerOf[u], seq |-> n,
                                         offset |-> dedupCache[DedupKey(TopicOf[u], ProducerOf[u], n)]]}
      BY <1>6, Zenon DEF AnswerFromCache, Cached
    <3> QED
      BY <3>1
  <2> QED
    BY <1>5, <1>6, <2>1, FirstStep, Zenon
<1>7. CASE Refused(h)
  <2>1. call[h] = NoCall /\ Goes(h, "error") /\ UNCHANGED <<brokerVars, dedupCache, call, answered>>
    BY <1>7, Zenon DEF Refused, vars, idemVars
  <2> QED
    BY <1>5, <2>1, FirstStep, Zenon
<1>8. CASE Check(h, TopicOf[u], ProducerOf[u], n) /\ UNCHANGED handler
  BY <1>5, <1>8, CheckStep, Zenon
<1>9. CASE ProduceSucceeds(h) /\ UNCHANGED handler
  BY <1>5, <1>9, SucceedsStep, Zenon
<1>10. CASE ProduceFails(h) /\ Goes(h, "error")
  <2>1. handler'[h].pc = "error"
    BY <1>1, <1>10, HandlerGoes, Zenon DEF IInv
  <2>2. log' # log => Doubtful(u, n)'
    BY <1>3, <2>1, Zenon DEF Doubtful
  <2> QED
    BY <1>5, <1>10, <2>2, FailsStep, Zenon
<1>11. CASE Remember(h) /\ Goes(h, "ok")
  BY <1>5, <1>11, RememberStep, Zenon
<1> QED
  BY <1>2, <1>6, <1>7, <1>8, <1>9, <1>10, <1>11, Zenon DEF HandleProduceIdempotent

\* The drain window opens or closes.
LEMMA DrainStep ==
  ASSUME IInv, UNCHANGED <<logs, dedupCache, call, answered, apiVars>>
  PROVE  IInv'
<1>1. UNCHANGED <<log, safe, dedupCache, call, answered, user, handler, returned, doubtful, lost>>
  BY Zenon DEF logs, apiVars
<1>2. Typed'
  BY <1>1, Zenon DEF IInv, Typed, LogTyped
<1>3. /\ \A v, s, o : Place(v, s, o)' <=> Place(v, s, o)
      /\ \A v, s : Kept(v, s)' <=> Kept(v, s)
  BY <1>1, LogStays, Zenon DEF IInv, Typed
<1>4. /\ \A h, v, s : Serves(h, v, s)' <=> Serves(h, v, s)
      /\ \A h, v, s, pc : Section(h, v, s, pc)' <=> Section(h, v, s, pc)
      /\ \A h, v, s, pc : Serving(h, v, s, pc)' <=> Serving(h, v, s, pc)
      /\ \A v, s : Cached(v, s)' <=> Cached(v, s)
      /\ \A v, s : Doubtful(v, s)' <=> Doubtful(v, s)
      /\ \A v, s : Past(v, s)' <=> Past(v, s)
      /\ \A v, s : Current(v, s)' <=> Current(v, s)
  BY <1>1, Zenon DEF Serves, Section, Serving, Cached, Doubtful, Past, Current
<1>5. Linked' /\ Waiting'
  BY <1>1, <1>4, LinkedStays, WaitingStays, Zenon DEF IInv
<1>6. Sent' /\ Single' /\ Unique' /\ Known' /\ Fresh'
  <2>1. \A v \in Sequenced, s \in Nat : Carries(v, s)
    BY <1>3, <1>4, Zenon DEF Carries
  <2> QED
    BY <2>1, Carried, Zenon
<1>7. Grounded'
  <2>1. \A v \in User, s \in Nat : Grounds(v, s)
    BY <1>3, <1>4, Zenon DEF Grounds
  <2> QED
    BY <1>1, <2>1, GroundCarried, Zenon
<1> QED
  BY <1>2, <1>5, <1>6, <1>7, Zenon DEF IInv

\* The server's process dies and starts again.
LEMMA RestartStep ==
  ASSUME IInv, ServerRestart
  PROVE  IInv'
<1>1. Typed /\ LogTyped /\ log \in [Topic -> Seq(Element)] /\ safe \in [Topic -> Nat]
  BY Zenon DEF IInv, Typed, LogTyped
<1>2. /\ DOMAIN dedupCache' = {} /\ call' = [c \in Client |-> NoCall] /\ answered' = {}
      /\ handler' = [c \in Client |-> Free] /\ UNCHANGED returned /\ lost' = lost \cup Dropped
      /\ user' = [u \in User |-> [user[u] EXCEPT !.pc = "idle"]]
      /\ doubtful' = doubtful \cup {RecordOf(u) : u \in {v \in User : user[v].sent}}
  BY Zenon DEF ServerRestart, Restart, BrokerRestart, Empty
<1>3. ASSUME NEW t \in Topic
      PROVE  /\ log'[t] \in Seq(Element) /\ safe'[t] \in Nat /\ Len(log'[t]) = safe'[t]
             /\ \A o \in DOMAIN log'[t] : o \in DOMAIN log[t] /\ log'[t][o] = log[t][o]
             /\ \A o \in DOMAIN log[t] : o <= safe[t] => o \in DOMAIN log'[t] \/ o \in safe'[t] + 1 .. safe[t]
  <2>1. PICK exposed : safe' \in Found(exposed) /\ log' = [u \in Topic |-> SubSeq(log[u], 1, safe'[u])]
    BY Zenon DEF ServerRestart, Restart, BrokerRestart
  <2>2. safe'[t] \in UNION {0 .. Len(log[u]) : u \in Topic} /\ safe'[t] <= Len(log[t])
    BY <1>3, <2>1, Zenon DEF Found
  <2>3. PICK u \in Topic : safe'[t] \in 0 .. Len(log[u])
    BY <2>2, Zenon
  <2>4. log[t] \in Seq(Element) /\ safe[t] \in Nat /\ safe'[t] \in Nat
    BY <1>1, <1>3, <2>3
  <2>5. log'[t] = SubSeq(log[t], 1, safe'[t])
    BY <1>3, <2>1, Zenon
  <2>6. /\ log'[t] \in Seq(Element) /\ Len(log'[t]) = safe'[t]
        /\ DOMAIN log'[t] = 1 .. safe'[t] /\ DOMAIN log[t] = 1 .. Len(log[t])
        /\ \A o \in 1 .. safe'[t] : log'[t][o] = log[t][o]
    BY <2>2, <2>4, <2>5
  <2> QED
    BY <2>2, <2>4, <2>6
<1>4. LogTyped'
  <2>1. log' = [t \in Topic |-> log'[t]] /\ safe' = [t \in Topic |-> safe'[t]]
    <3>1. PICK exposed : safe' \in Found(exposed)
      BY Zenon DEF ServerRestart, Restart, BrokerRestart
    <3> QED
      BY <3>1, Zenon DEF ServerRestart, Restart, BrokerRestart, Found
  <2>2. \A t \in Topic : safe'[t] <= Len(log'[t])
    BY <1>3
  <2> QED
    BY <1>3, <2>1, <2>2, Zenon DEF LogTyped
<1>5. \A u \in User : \A s, o : Place(u, s, o)' => Place(u, s, o)
  BY <1>3, Constants DEF Place, Wrote
<1>6. ASSUME NEW u \in User, NEW s, Kept(u, s) PROVE Kept(u, s)' \/ Lost(u, s)'
  <2>1. PICK o \in Nat : Place(u, s, o) /\ o <= safe[TopicOf[u]]
    BY <1>6, Zenon DEF Kept
  <2>2. PICK t \in Topic : t = TopicOf[u]
    BY Constants, Zenon
  <2>3. o \in DOMAIN log[t] /\ Wrote(log[t][o], u, s)
    BY <2>1, <2>2, Zenon DEF Place
  <2>4. CASE o \in DOMAIN log'[t]
    <3>1. Place(u, s, o)'
      BY <1>3, <2>2, <2>3, <2>4, Zenon DEF Place, Wrote
    <3>2. log'[t] \in Seq(Element) /\ Len(log'[t]) = safe'[t]
      BY <1>3, Zenon
    <3>3. o <= safe'[t]
      BY <2>4, <3>2
    <3> QED
      BY <2>2, <3>1, <3>3, Zenon DEF Kept
  <2>5. CASE o \in safe'[t] + 1 .. safe[t]
    <3>1. log[t][o] \in {log[t][q] : q \in safe'[t] + 1 .. safe[t]}
      BY <2>5, Zenon
    <3>2. log[t][o] \in Dropped
      BY <3>1, Zenon DEF Dropped
    <3> QED
      BY <1>2, <2>3, <3>2, Zenon DEF Lost, Wrote
  <2> QED
    BY <1>3, <2>1, <2>2, <2>3, <2>4, <2>5, Zenon
<1>7. \A u \in User : /\ user'[u] \in UserType /\ user'[u].pc = "idle"
                      /\ user'[u].seq = user[u].seq /\ user'[u].sent = user[u].sent
  BY <1>1, <1>2, Parts, Zenon DEF UserType
<1>8. Typed'
  <2>1. user' \in [User -> UserType]
    BY <1>2, <1>7, Zenon
  <2> QED
    BY <1>1, <1>2, <1>4, <2>1, Zenon DEF Typed
<1>9. /\ \A h \in Client : \A u, s : ~Serves(h, u, s)'
      /\ \A h \in Client : \A u, s, pc : ~Serving(h, u, s, pc)' /\ ~Section(h, u, s, pc)'
      /\ \A u, s : ~Cached(u, s)'
  BY <1>2, Zenon DEF Serves, Serving, Section, Cached
<1>10. /\ \A u \in User, s \in Nat : (Past(u, s)' <=> Past(u, s)) /\ (Current(u, s)' <=> Current(u, s))
       /\ \A u \in User, s \in Nat : Current(u, s) => Doubtful(u, s)'
       /\ \A u, s : Doubtful(u, s) => Doubtful(u, s)'
  BY <1>2, <1>7, Zenon DEF Past, Current, Doubtful, RecordOf
<1>11. Linked' /\ Waiting'
  BY <1>2, <1>7, Constants, Zenon DEF Linked, Waiting
<1>12. Sent /\ Unique
  BY Zenon DEF IInv
<1>13. Sent'
  BY <1>5, <1>9, <1>10, <1>12, Constants, Zenon DEF Sent
<1>14. Single' /\ Fresh'
  BY <1>9, Zenon DEF Single, Fresh
<1>15. Unique'
  BY <1>5, <1>10, <1>12, Constants DEF Unique
<1>16. Known'
  BY <1>5, <1>9, <1>10, <1>12, Constants, Zenon DEF Known, Sent
<1>17. Grounded'
  <2>1. ASSUME NEW r \in returned PROVE Kept(r[1], r[2])' \/ Lost(r[1], r[2])'
    <3>1. PICK u \in User, s \in Nat : u = r[1] /\ s = r[2] /\ (Kept(u, s) \/ Lost(u, s))
      BY <1>1, <2>1 DEF IInv, Grounded, Typed
    <3>2. Lost(u, s) => Lost(u, s)'
      BY <1>2, Zenon DEF Lost, Wrote
    <3>3. Kept(u, s)' \/ Lost(u, s)'
      BY <1>6, <3>1, <3>2, Zenon
    <3> QED
      BY <3>1, <3>3, Zenon
  <2> QED
    BY <1>2, <1>9, <2>1, Zenon DEF Grounded
<1> QED
  BY <1>8, <1>11, <1>13, <1>14, <1>15, <1>16, <1>17, Zenon DEF IInv

\* Every step of users, handlers and the broker keeps the invariant,
LEMMA Invariance == IInv /\ [MNext]_<<vars, apiVars>> => IInv'
<1> SUFFICES ASSUME IInv, [MNext]_<<vars, apiVars>> PROVE IInv'
  BY Zenon
<1>1. CASE UNCHANGED <<vars, apiVars>>
  <2>1. UNCHANGED <<logs, dedupCache, call, answered, apiVars>>
    BY <1>1, Zenon DEF vars, brokerVars, idemVars, logs
  <2> QED
    BY <2>1, DrainStep, Zenon
<1>2. CASE HandleDrain
  <2>1. UNCHANGED <<logs, dedupCache, call, answered, apiVars>>
    BY <1>2, Zenon DEF HandleDrain, DrainWindow, Drain, DrainEnds, idemVars
  <2> QED
    BY <2>1, DrainStep, Zenon
<1>3. ASSUME NEW u \in User, NEW h \in Client, Send(u, h) PROVE IInv'
  BY <1>3, SendStep, Zenon
<1>4. ASSUME NEW u \in User, GiveUp(u) \/ Timeout(u) PROVE IInv'
  BY <1>4, UserStep, Zenon
<1>5. ASSUME NEW h \in Client, Serve(h) PROVE IInv'
  BY <1>5, CreateStep, PlainStep, IdempotentStep, AnswerStep, Zenon DEF Serve
<1>6. CASE ServerRestart
  BY <1>6, RestartStep, Zenon
<1> QED
  BY <1>1, <1>2, <1>3, <1>4, <1>5, <1>6, Zenon DEF MNext

\* which holds at first.
LEMMA InitIInv == MInit => IInv
<1> SUFFICES ASSUME MInit PROVE IInv
  BY Zenon
<1>1. /\ log = [t \in Topic |-> <<>>] /\ safe = [t \in Topic |-> 0]
      /\ DOMAIN dedupCache = {} /\ call = [c \in Client |-> NoCall] /\ answered = {}
      /\ user = [u \in User |-> [pc |-> "idle", seq |-> 1, sent |-> FALSE]]
      /\ handler = [h \in Client |-> Free] /\ returned = {}
  BY Zenon DEF MInit, Init, BrokerInit, Empty
<1>2. Typed
  <2>1. LogTyped
    BY <1>1 DEF LogTyped
  <2>2. [pc |-> "idle", seq |-> 1, sent |-> FALSE] \in UserType
    BY Zenon DEF UserType
  <2>3. user \in [User -> UserType]
    BY <1>1, <2>2, Zenon
  <2> QED
    BY <1>1, <2>1, <2>3, Zenon DEF Typed
<1>3. /\ \A u \in User : \A s, o : ~Place(u, s, o)
      /\ \A h \in Client : \A u, s : ~Serves(h, u, s)
      /\ \A h \in Client : \A u, s, pc : ~Serving(h, u, s, pc) /\ ~Section(h, u, s, pc)
      /\ \A u, s : ~Cached(u, s)
  BY <1>1, Constants DEF Place, Serves, Serving, Section, Cached
<1>4. Linked /\ Waiting
  BY <1>1, Constants, Zenon DEF Linked, Waiting
<1>5. Sent /\ Single /\ Unique /\ Known /\ Fresh
  BY <1>3, Constants, Zenon DEF Sent, Single, Unique, Known, Fresh
<1>6. Grounded
  BY <1>1, <1>3, Zenon DEF Grounded
<1> QED
  BY <1>2, <1>4, <1>5, <1>6, Zenon DEF IInv

\* A record sent with a sequence number is appended once, however often its
\* answer was lost and ProduceIdempotent was called again for it, as long as
\* no attempt overlapped another, met a process that had forgotten it, or
\* left the record behind with an error.
THEOREM RetriesOnce == MSpec => []RetriesAppendOnce
<1>1. IInv => RetriesAppendOnce
  <2> SUFFICES ASSUME IInv, NEW u \in Sequenced, NEW s \in Sequence, <<u, s>> \notin doubtful
               PROVE  \A i, j \in At(u, s, log[TopicOf[u]]) : i = j
    BY Zenon DEF RetriesAppendOnce
  <2>1. s \in Nat /\ TopicOf[u] \in Topic
    BY SequenceAssumption, Constants, Zenon
  <2>2. log[TopicOf[u]] \in Seq(Element)
    BY <2>1, Zenon DEF IInv, Typed, LogTyped
  <2>3. \A i \in At(u, s, log[TopicOf[u]]) : i \in Nat /\ Place(u, s, i)
    BY <2>2 DEF At, Place
  <2> QED
    BY <2>1, <2>3, Zenon DEF IInv, Unique, Doubtful
<1> QED
  BY <1>1, InitIInv, Invariance, PTL DEF MSpec

\* The record of a call that returned without an error stays in the topic's
\* log, unless a restart found the index exposed and dropped it, and while
\* it is there a Consume of the open topic receives its text if it is on the
\* first page: what postJSON takes for a success rests on an acknowledged
\* append, made by this request or found in dedupCache.
THEOREM ReturnedStays == MSpec => []ReturnedIsRead
<1>1. IInv => ReturnedIsRead
  <2> SUFFICES ASSUME IInv, NEW r \in returned, NEW t, t = TopicOf[r[1]]
               PROVE  /\ At(r[1], r[2], log[t]) # {} \/ \E entry \in lost : Wrote(entry, r[1], r[2])
                      /\ t \in topics => \A i \in At(r[1], r[2], log[t]) :
                           i <= PageSize => i \in DOMAIN Consume(t) /\ Consume(t)[i] = Base64(log[t][i])
    BY Zenon DEF ReturnedIsRead
  <2>1. r[1] \in User /\ t \in Topic
    BY Constants, Zenon DEF IInv, Typed
  <2>2. Kept(r[1], r[2]) \/ Lost(r[1], r[2])
    BY Zenon DEF IInv, Grounded
  <2>3. At(r[1], r[2], log[t]) # {} \/ \E entry \in lost : Wrote(entry, r[1], r[2])
    BY <2>2, Zenon DEF Kept, Place, At, Lost
  <2>4. ASSUME t \in topics, NEW i \in At(r[1], r[2], log[t]), i <= PageSize
        PROVE  i \in DOMAIN Consume(t) /\ Consume(t)[i] = Base64(log[t][i])
    <3>1. log[t] \in Seq(Element) /\ Len(log[t]) \in Nat /\ PageSize \in Nat /\ i \in 1 .. Len(log[t])
      BY <2>1, <2>4, Constants DEF IInv, Typed, LogTyped, At
    <3>2. PICK last : last = Min({Len(log[t]), 0 + PageSize})
      BY Zenon
    <3>3. last \in Nat /\ i <= last /\ last <= Len(log[t])
      BY <2>4, <3>1, <3>2 DEF Min
    <3>4. HandleConsume(t, 0) = SubSeq(log[t], 1, last)
      <4>1. HandleConsume(t, 0) = SubSeq(log[t], 0 + 1, last)
        BY <2>4, <3>2, Zenon DEF HandleConsume
      <4> QED
        BY <4>1
    <3>5. i \in DOMAIN HandleConsume(t, 0) /\ HandleConsume(t, 0)[i] = log[t][i]
      BY <3>1, <3>3, <3>4
    <3> QED
      BY <3>5, Zenon DEF Consume
  <2> QED
    BY <2>3, <2>4, Zenon
<1> QED
  BY <1>1, InitIInv, Invariance, PTL DEF MSpec
=============================================================================
