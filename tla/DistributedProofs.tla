-------------------------- MODULE DistributedProofs --------------------------
(***************************************************************************)
(* Proofs about RunDistributed, for any number of workers, any streams and *)
(* any capacity of the connections: no connection loses, repeats or        *)
(* reorders, results are the first records sent to each worker, and no     *)
(* connection is left open.                                                *)
(***************************************************************************)
EXTENDS Distributed, WellFoundedInduction, TLAPS

-----------------------------------------------------------------------------
(* What Flatten makes of a list with one more.                             *)

\* A set of numbers has a least one.
LEMMA LeastOf ==
  ASSUME NEW T \in SUBSET Nat, T # {}
  PROVE  \E x \in T : \A y \in T : x <= y
<1> DEFINE R == OpToRel(<, Nat)
<1>1. PICK x \in T : \A y \in T : ~(<<y, x>> \in R)
  <2>1. IsWellFoundedOn(R, Nat)
    BY NatLessThanWellFounded, Zenon
  <2> HIDE DEF R
  <2> QED
    BY <2>1, WFMin, Zenon
<1>2. \A y \in T : ~(y < x)
  BY <1>1, Zenon DEF OpToRel
<1> QED
  BY <1>2

\* Induction over the numbers, for a set instead of a predicate.
LEMMA SetInduction ==
  ASSUME NEW P, 0 \in P, \A m \in Nat : m \in P => m + 1 \in P
  PROVE  Nat \subseteq P
<1> SUFFICES ASSUME Nat \ P # {} PROVE FALSE
  BY Zenon
<1>1. PICK x \in Nat \ P : \A y \in Nat \ P : x <= y
  BY LeastOf, Zenon
<1>2. x - 1 \in Nat
  BY <1>1
<1>3. x - 1 \in P
  BY <1>1, <1>2
<1> QED
  BY <1>1, <1>2, <1>3

\* f lists what Flatten makes of the first sequences of ss.
Parts(ss, m, f) == f = [k \in 0 .. m |-> IF k = 0 THEN <<>> ELSE f[k - 1] \o ss[k]]

\* There is such a list: the recursion in Flatten defines a function.
LEMMA PartsExist == ASSUME NEW ss, NEW m \in Nat PROVE \E f : Parts(ss, m, f)
<1> DEFINE P == {p \in Nat : \E f : Parts(ss, p, f)}
<1>1. 0 \in P
  <2> DEFINE f == [k \in 0 .. 0 |-> <<>>]
  <2>1. Parts(ss, 0, f)
    BY DEF Parts
  <2> QED
    BY <2>1, Zenon
<1>2. ASSUME NEW p \in Nat, p \in P PROVE p + 1 \in P
  <2>1. PICK f : Parts(ss, p, f)
    BY <1>2, Zenon
  <2>2. \A k \in 0 .. p : f[k] = IF k = 0 THEN <<>> ELSE f[k - 1] \o ss[k]
    BY <2>1, Zenon DEF Parts
  <2> DEFINE g == [k \in 0 .. p + 1 |-> IF k = p + 1 THEN f[p] \o ss[p + 1] ELSE f[k]]
  <2>3. \A k \in 0 .. p + 1 : g[k] = IF k = 0 THEN <<>> ELSE g[k - 1] \o ss[k]
    <3> SUFFICES ASSUME NEW k \in 0 .. p + 1 PROVE g[k] = IF k = 0 THEN <<>> ELSE g[k - 1] \o ss[k]
      BY Zenon
    <3>1. CASE k = p + 1
      <4>1. k # 0 /\ k - 1 = p /\ p \in 0 .. p + 1 /\ p # p + 1
        BY <3>1
      <4>2. g[p] = f[p] /\ g[k] = f[p] \o ss[p + 1]
        BY <3>1, <4>1, Zenon
      <4> HIDE DEF g
      <4> QED
        BY <3>1, <4>1, <4>2, Zenon
    <3>2. CASE k \in 0 .. p
      <4>1. k # p + 1 /\ k - 1 # p + 1 /\ (k # 0 => k - 1 \in 0 .. p + 1)
        BY <3>2
      <4>2. g[k] = f[k] /\ (k # 0 => g[k - 1] = f[k - 1])
        BY <4>1, Zenon
      <4> HIDE DEF g
      <4> QED
        BY <2>2, <3>2, <4>2, Zenon
    <3> QED
      BY <3>1, <3>2
  <2>4. DOMAIN g = 0 .. p + 1 /\ g = [k \in 0 .. p + 1 |-> g[k]]
    BY Zenon
  <2> HIDE DEF g
  <2>5. Parts(ss, p + 1, g)
    BY <2>3, <2>4, Zenon DEF Parts
  <2> QED
    BY <2>5
<1> HIDE DEF P
<1>3. Nat \subseteq P
  BY <1>1, <1>2, SetInduction, Zenon
<1> QED
  BY <1>3, Zenon DEF P

\* Flatten is the last of the parts.
LEMMA FlattenParts ==
  ASSUME NEW ss, Len(ss) \in Nat
  PROVE  \E f : Parts(ss, Len(ss), f) /\ Flatten(ss) = f[Len(ss)]
<1>1. \E f : Parts(ss, Len(ss), f)
  BY PartsExist, Zenon
<1> DEFINE g == CHOOSE f : f = [k \in 0 .. Len(ss) |-> IF k = 0 THEN <<>> ELSE f[k - 1] \o ss[k]]
<1>2. Parts(ss, Len(ss), g)
  BY <1>1, Zenon DEF Parts
<1>3. Flatten(ss) = g[Len(ss)]
  BY Zenon DEF Flatten
<1> QED
  BY <1>2, <1>3, Zenon

\* The parts of two lists agree as long as the lists do.
LEMMA PartsAgree ==
  ASSUME NEW ss, NEW tt, NEW f, NEW g, NEW m \in Nat, NEW p \in Nat, m <= p,
         Parts(ss, m, f), Parts(tt, p, g), \A k \in 1 .. m : ss[k] = tt[k]
  PROVE  \A k \in 0 .. m : f[k] = g[k]
<1> DEFINE P == {k \in Nat : k <= m => f[k] = g[k]}
<1>1. /\ \A k \in 0 .. m : f[k] = IF k = 0 THEN <<>> ELSE f[k - 1] \o ss[k]
      /\ \A k \in 0 .. p : g[k] = IF k = 0 THEN <<>> ELSE g[k - 1] \o tt[k]
  BY Zenon DEF Parts
<1>2. 0 \in P
  BY <1>1
<1>3. ASSUME NEW k \in Nat, k \in P PROVE k + 1 \in P
  <2> SUFFICES ASSUME k + 1 <= m PROVE f[k + 1] = g[k + 1]
    OBVIOUS
  <2>1. k + 1 \in 0 .. m /\ k + 1 \in 0 .. p /\ k + 1 # 0 /\ (k + 1) - 1 = k /\ k + 1 \in 1 .. m /\ k <= m
    OBVIOUS
  <2>2. f[k + 1] = f[k] \o ss[k + 1] /\ g[k + 1] = g[k] \o tt[k + 1]
    BY <1>1, <2>1, Zenon
  <2>3. f[k] = g[k]
    BY <1>3, <2>1, Zenon
  <2> QED
    BY <2>1, <2>2, <2>3, Zenon
<1> HIDE DEF P
<1>4. Nat \subseteq P
  BY <1>2, <1>3, SetInduction, Zenon
<1> QED
  BY <1>4 DEF P

\* Nothing is flattened to nothing.
LEMMA FlattenNone == Flatten(<<>>) = <<>>
<1>1. Len(<<>>) = 0 /\ Len(<<>>) \in Nat
  BY Zenon
<1>2. PICK f : Parts(<<>>, 0, f) /\ Flatten(<<>>) = f[0]
  BY <1>1, FlattenParts, Zenon
<1> QED
  BY <1>2 DEF Parts

\* The last sequence goes behind what is made of the others.
LEMMA FlattenLast ==
  ASSUME NEW ss, NEW tt, Len(ss) \in Nat, Len(tt) = Len(ss) + 1, \A k \in 1 .. Len(ss) : ss[k] = tt[k]
  PROVE  Flatten(tt) = Flatten(ss) \o tt[Len(tt)]
<1> DEFINE m == Len(ss)
<1>1. PICK f : Parts(ss, m, f) /\ Flatten(ss) = f[m]
  BY FlattenParts, Zenon
<1>2. PICK g : Parts(tt, m + 1, g) /\ Flatten(tt) = g[m + 1]
  <2>1. Len(tt) \in Nat
    OBVIOUS
  <2> QED
    BY <2>1, FlattenParts, Zenon
<1> HIDE DEF m
<1>3. m \in Nat
  BY Zenon DEF m
<1>4. m <= m + 1 /\ m + 1 \in Nat /\ m + 1 \in 0 .. m + 1 /\ m + 1 # 0 /\ (m + 1) - 1 = m /\ m \in 0 .. m
  BY <1>3
<1>5. f[m] = g[m]
  <2>1. \A k \in 1 .. m : ss[k] = tt[k]
    BY Zenon DEF m
  <2>2. \A k \in 0 .. m : f[k] = g[k]
    BY <1>1, <1>2, <1>3, <1>4, <2>1, PartsAgree
  <2> QED
    BY <1>4, <2>2, Zenon
<1>6. g[m + 1] = g[m] \o tt[m + 1]
  BY <1>2, <1>4, Zenon DEF Parts
<1> QED
  BY <1>1, <1>2, <1>5, <1>6, Zenon DEF m

-----------------------------------------------------------------------------
(* Lists put together.                                                     *)

\* Putting lists together gives a list,
LEMMA ConcatType == ASSUME NEW S, NEW s \in Seq(S), NEW t \in Seq(S) PROVE s \o t \in Seq(S)
OBVIOUS

\* in whichever order it is done,
LEMMA ConcatAssoc ==
  ASSUME NEW S, NEW s \in Seq(S), NEW t \in Seq(S), NEW u \in Seq(S)
  PROVE  (s \o t) \o u = s \o (t \o u)
OBVIOUS

\* and the empty list adds nothing.
LEMMA ConcatEmpty == ASSUME NEW S, NEW s \in Seq(S) PROVE s \o <<>> = s /\ <<>> \o s = s
OBVIOUS

\* A list is its head and its tail.
LEMMA HeadTail ==
  ASSUME NEW S, NEW s \in Seq(S), s # <<>>
  PROVE  Head(s) \in S /\ Tail(s) \in Seq(S) /\ s = <<Head(s)>> \o Tail(s)
OBVIOUS

\* Append is putting a list of one at the end.
LEMMA AppendIs == ASSUME NEW S, NEW s \in Seq(S), NEW e \in S PROVE Append(s, e) = s \o <<e>> /\ Append(s, e) \in Seq(S)
OBVIOUS

\* The first of two lists is a part of both.
LEMMA FirstPart ==
  ASSUME NEW S, NEW s \in Seq(S), NEW t \in Seq(S)
  PROVE  Len(s) \in 0 .. Len(s \o t) /\ s = SubSeq(s \o t, 1, Len(s))
OBVIOUS

-----------------------------------------------------------------------------
(* Records and their way.                                                  *)

\* The records that were encoded and decoded.
Coded == {r \in Record : Json(r) = r}

\* A second time changes nothing.
LEMMA JsonCodes == ASSUME NEW r \in Record PROVE Json(r) \in Coded
<1>1. Null \in Record /\ Json(Null) = Null
  <2>1. 0 \in Nat
    OBVIOUS
  <2> QED
    BY <2>1, Zenon DEF Null, Record, Json
<1>2. CASE r.type \in {"chan", "nil"}
  BY <1>1, <1>2, Zenon DEF Json, Coded
<1>3. CASE r.type \notin {"chan", "nil"}
  <2> DEFINE q == [r EXCEPT !.type = "float64"]
  <2>1. q \in Record /\ q.type = "float64" /\ [q EXCEPT !.type = "float64"] = q
    BY DEF Record
  <2>2. Json(r) = q
    BY <1>3, Zenon DEF Json
  <2> HIDE DEF q
  <2>3. Json(q) = q
    BY <2>1 DEF Json
  <2> QED
    BY <2>1, <2>2, <2>3, Zenon DEF Coded
<1> QED
  BY <1>2, <1>3, Zenon

Output == [from : Nat, rec : Coded]

\* What o adds to the records gathered from w.
Gathered(o, w) == IF o.from = w THEN <<o.rec>> ELSE <<>>

\* Nothing is gathered at first,
LEMMA FromNone == \A w : From(<<>>, w) = <<>>
<1> SUFFICES ASSUME NEW w PROVE From(<<>>, w) = <<>>
  BY Zenon
<1>1. [k \in DOMAIN <<>> |-> Gathered(<<>>[k], w)] = <<>>
  OBVIOUS
<1> QED
  BY <1>1, FlattenNone, Zenon DEF From, Gathered

\* and a receiver's append adds to the records of its worker only.
LEMMA FromAppend ==
  ASSUME NEW outs \in Seq(Output), NEW o \in Output, NEW w
  PROVE  From(Append(outs, o), w) = From(outs, w) \o Gathered(o, w)
<1> DEFINE more == Append(outs, o)
           ss == [k \in DOMAIN outs |-> Gathered(outs[k], w)]
           tt == [k \in DOMAIN more |-> Gathered(more[k], w)]
<1>1. PICK m \in Nat : m = Len(outs) /\ DOMAIN outs = 1 .. m
  OBVIOUS
<1>2. DOMAIN more = 1 .. m + 1 /\ more[m + 1] = o /\ \A k \in 1 .. m : more[k] = outs[k]
  BY <1>1
<1>3. From(outs, w) = Flatten(ss) /\ From(more, w) = Flatten(tt)
  BY Zenon DEF From, Gathered
<1> HIDE DEF more
<1>4. Len(ss) = m /\ Len(tt) = m + 1
  BY <1>1, <1>2
<1>5. \A k \in 1 .. m : ss[k] = tt[k]
  <2>1. \A k \in 1 .. m : k \in 1 .. m + 1
    OBVIOUS
  <2> QED
    BY <1>1, <1>2, <2>1, Zenon
<1>6. tt[m + 1] = Gathered(o, w)
  BY <1>2
<1> HIDE DEF ss, tt
<1>7. Flatten(tt) = Flatten(ss) \o tt[m + 1]
  BY <1>4, <1>5, FlattenLast
<1> QED
  BY <1>3, <1>6, <1>7, Zenon DEF more

\* What record k of the source adds to the records sent to w.
Routed(k, w) == IF ((k - 1) % n) + 1 = w THEN <<Json(src[k])>> ELSE <<>>

\* Nothing is sent at first,
LEMMA SentNone == ASSUME i = 0 PROVE \A w : SentTo(w) = <<>>
<1> SUFFICES ASSUME NEW w PROVE SentTo(w) = <<>>
  BY Zenon
<1>1. [k \in 1 .. i |-> Routed(k, w)] = <<>>
  OBVIOUS
<1> QED
  BY <1>1, FlattenNone, Zenon DEF SentTo, Routed

\* and Send adds to the records of the worker it routes to.
LEMMA SentNext ==
  ASSUME i \in Nat, i' = i + 1, UNCHANGED <<n, src>>, NEW w
  PROVE  SentTo(w)' = SentTo(w) \o Routed(i + 1, w)
<1> DEFINE ss == [k \in 1 .. i |-> Routed(k, w)]
           tt == [k \in 1 .. i + 1 |-> Routed(k, w)]
<1>1. SentTo(w) = Flatten(ss)
  BY Zenon DEF SentTo, Routed
<1>2. SentTo(w)' = Flatten(tt)
  BY Zenon DEF SentTo, Routed
<1>3. Len(ss) = i /\ Len(tt) = i + 1
  OBVIOUS
<1>4. \A k \in 1 .. i : ss[k] = tt[k]
  <2>1. \A k \in 1 .. i : k \in 1 .. i + 1
    OBVIOUS
  <2> QED
    BY <2>1, Zenon
<1>5. tt[i + 1] = Routed(i + 1, w)
  OBVIOUS
<1> HIDE DEF ss, tt
<1>6. Flatten(tt) = Flatten(ss) \o tt[i + 1]
  BY <1>3, <1>4, FlattenLast
<1> QED
  BY <1>1, <1>2, <1>5, <1>6, Zenon

-----------------------------------------------------------------------------
(* The way of the records sent to a worker: gathered, read by its          *)
(* receiver, coming back, and still ahead of the server.                   *)

Cat(s, t) == s \o t

\* The laws above, of an operator the provers do not look into.
LEMMA CatLaws ==
  ASSUME NEW S
  PROVE  /\ \A s, t \in Seq(S) : Cat(s, t) \in Seq(S)
         /\ \A s, t, u \in Seq(S) : Cat(Cat(s, t), u) = Cat(s, Cat(t, u))
         /\ \A s \in Seq(S) : Cat(s, <<>>) = s /\ Cat(<<>>, s) = s
<1>1. \A s, t \in Seq(S) : Cat(s, t) \in Seq(S)
  BY ConcatType, Zenon DEF Cat
<1>2. \A s, t, u \in Seq(S) : Cat(Cat(s, t), u) = Cat(s, Cat(t, u))
  BY ConcatAssoc DEF Cat
<1>3. \A s \in Seq(S) : Cat(s, <<>>) = s /\ Cat(<<>>, s) = s
  BY ConcatEmpty, Zenon DEF Cat
<1> QED
  BY <1>1, <1>2, <1>3, Zenon

Way(a, g, c, x) == Cat(Cat(Cat(a, g), c), x)

\* The way is a list, and begins with what was gathered.
LEMMA WayTyped ==
  ASSUME NEW S, NEW a \in Seq(S), NEW g \in Seq(S), NEW c \in Seq(S), NEW x \in Seq(S)
  PROVE  /\ Way(a, g, c, x) \in Seq(S) /\ Cat(g, Cat(c, x)) \in Seq(S)
         /\ Way(a, g, c, x) = Cat(a, Cat(g, Cat(c, x)))
<1>1. Cat(a, g) \in Seq(S) /\ Cat(c, x) \in Seq(S)
  BY CatLaws, Zenon
<1>2. Cat(Cat(a, g), c) \in Seq(S) /\ Cat(g, Cat(c, x)) \in Seq(S)
  BY <1>1, CatLaws, Zenon
<1>3. Way(a, g, c, x) \in Seq(S)
  BY <1>2, CatLaws, Zenon DEF Way
<1>4. Way(a, g, c, x) = Cat(Cat(a, g), Cat(c, x))
  BY <1>1, CatLaws DEF Way
<1>5. Cat(Cat(a, g), Cat(c, x)) = Cat(a, Cat(g, Cat(c, x)))
  BY <1>1, CatLaws
<1> QED
  BY <1>2, <1>3, <1>4, <1>5, Zenon

\* A record sent goes to the end.
LEMMA WaySend ==
  ASSUME NEW S, NEW a \in Seq(S), NEW g \in Seq(S), NEW c \in Seq(S), NEW x \in Seq(S), NEW s \in Seq(S)
  PROVE  Cat(Way(a, g, c, x), s) = Way(a, g, c, Cat(x, s))
<1>1. Cat(a, g) \in Seq(S)
  BY CatLaws, Zenon
<1>2. Cat(Cat(a, g), c) \in Seq(S)
  BY <1>1, CatLaws, Zenon
<1> QED
  BY <1>2, CatLaws DEF Way

\* The receiver reads the first one that came back,
LEMMA WayRecv ==
  ASSUME NEW S, NEW a \in Seq(S), NEW e \in Seq(S), NEW t \in Seq(S), NEW x \in Seq(S)
  PROVE  Way(a, <<>>, Cat(e, t), x) = Way(a, e, t, x)
BY CatLaws, SMT DEF Way

\* and gathers it.
LEMMA WayGather ==
  ASSUME NEW S, NEW a \in Seq(S), NEW g \in Seq(S), NEW c \in Seq(S), NEW x \in Seq(S)
  PROVE  Way(a, g, c, x) = Way(Cat(a, g), <<>>, c, x)
BY CatLaws, SMT DEF Way

\* The server sends the first one back.
LEMMA WayHandle ==
  ASSUME NEW S, NEW a \in Seq(S), NEW g \in Seq(S), NEW c \in Seq(S), NEW e \in Seq(S), NEW t \in Seq(S)
  PROVE  Way(a, g, c, Cat(e, t)) = Way(a, g, Cat(c, e), t)
BY CatLaws, SMT DEF Way

-----------------------------------------------------------------------------
(* The invariant.                                                          *)

One == {<<>>} \cup {<<r>> : r \in Coded}

Typed ==
  /\ n \in Nat /\ i \in Nat /\ src \in Seq(Record) /\ i <= Len(src)
  /\ conn \in [Worker -> {"none", "open", "broken", "closed"}]
  /\ toServer \in [Worker -> Seq(Coded)]
  /\ toClient \in [Worker -> Seq(Coded)]
  /\ got \in [Worker -> One]
  /\ outputs \in Seq(Output)

\* Nothing was sent, and nothing comes back, as long as workers are dialled.
Fresh ==
  main = "dial" =>
    /\ i = 0 /\ outputs = <<>>
    /\ \A w \in Worker : toServer[w] = <<>> /\ toClient[w] = <<>> /\ got[w] = <<>> /\ receiver[w] = "none"

\* What was sent to a worker was gathered, is under way, or, if the
\* connection is not in use any more, may be lost from some record on.
Sums ==
  \A w \in Worker :
    /\ From(outputs, w) \in Seq(Coded)
    /\ \E x \in Seq(Coded) :
         /\ Way(From(outputs, w), got[w], toClient[w], x) = SentTo(w)
         /\ Open(w) => x = toServer[w]

Shut ==
  /\ main \in {"return", "returned", "failed"} => \A w \in Worker : ~Open(w)
  /\ main = "panicked" => n = 0

\* What was returned is the beginning of what was sent.
Handed ==
  main = "returned" /\ result # <<Null>> =>
    \A w \in Worker : /\ From(result, w) \in Seq(Coded)
                      /\ \E y \in Seq(Coded) : From(result, w) \o y = SentTo(w)

DInv == Typed /\ Fresh /\ Sums /\ Shut /\ Handed

\* Facts of lists of coded records.
LEMMA OneTyped == \A g \in One : g \in Seq(Coded) /\ (g # <<>> => g[1] \in Coded /\ g = <<g[1]>>)
<1>1. \A r \in Coded : <<r>> \in Seq(Coded) /\ <<r>>[1] = r
  OBVIOUS
<1>2. <<>> \in Seq(Coded)
  OBVIOUS
<1> QED
  BY <1>1, <1>2, Zenon DEF One

\* The first line of a connection, and the rest.
LEMMA CodedHead ==
  ASSUME NEW c \in Seq(Coded), c # <<>>
  PROVE  /\ Head(c) \in Coded /\ Tail(c) \in Seq(Coded)
         /\ <<Head(c)>> \in Seq(Coded) /\ <<Head(c)>> \in One /\ c = Cat(<<Head(c)>>, Tail(c))
<1>1. Head(c) \in Coded /\ Tail(c) \in Seq(Coded) /\ c = Cat(<<Head(c)>>, Tail(c))
  BY HeadTail, Zenon DEF Cat
<1>2. <<Head(c)>> \in One
  BY <1>1, Zenon DEF One
<1> QED
  BY <1>1, <1>2, OneTyped, Zenon

\* A line written to a connection.
LEMMA CodedAppend ==
  ASSUME NEW c \in Seq(Coded), NEW r \in Coded
  PROVE  Append(c, r) \in Seq(Coded) /\ <<r>> \in Seq(Coded) /\ Append(c, r) = Cat(c, <<r>>)
<1>1. <<r>> \in Seq(Coded)
  OBVIOUS
<1> QED
  BY <1>1, AppendIs, Zenon DEF Cat

\* Only Send changes what was sent.
LEMMA SentSame == ASSUME UNCHANGED <<n, src, i>> PROVE \A w : SentTo(w)' = SentTo(w)
BY Zenon DEF SentTo

-----------------------------------------------------------------------------
(* What a step does to the sums.                                           *)

\* No record moves, though a connection may be shut and its lines lost.
LEMMA SumsQuiet ==
  ASSUME Sums, UNCHANGED <<n, src, i, toClient, got, outputs>>,
         \A w \in Worker : Open(w)' => Open(w) /\ toServer'[w] = toServer[w]
  PROVE  Sums'
<1>1. Worker' = Worker
  BY Zenon DEF Worker
<1>2. \A w : SentTo(w)' = SentTo(w)
  BY SentSame, Zenon
<1> SUFFICES ASSUME NEW w \in Worker
             PROVE  /\ From(outputs', w) \in Seq(Coded)
                    /\ \E x \in Seq(Coded) : /\ Way(From(outputs', w), got'[w], toClient'[w], x) = SentTo(w)'
                                             /\ Open(w)' => x = toServer'[w]
  BY <1>1, Zenon DEF Sums
<1>3. From(outputs', w) = From(outputs, w) /\ got'[w] = got[w] /\ toClient'[w] = toClient[w]
  BY Zenon
<1> QED
  BY <1>2, <1>3, Zenon DEF Sums

\* Records of worker v move.
LEMMA SumsMove ==
  ASSUME Sums, UNCHANGED <<n, conn>>, NEW v \in Worker,
         \A w \in Worker \ {v} : /\ From(outputs', w) = From(outputs, w) /\ got'[w] = got[w]
                                 /\ toClient'[w] = toClient[w] /\ toServer'[w] = toServer[w]
                                 /\ SentTo(w)' = SentTo(w),
         From(outputs', v) \in Seq(Coded),
         \E x \in Seq(Coded) : /\ Way(From(outputs', v), got'[v], toClient'[v], x) = SentTo(v)'
                               /\ Open(v) => x = toServer'[v]
  PROVE  Sums'
<1>1. Worker' = Worker
  BY Zenon DEF Worker
<1>2. \A w : Open(w)' <=> Open(w)
  BY Zenon DEF Open
<1> SUFFICES ASSUME NEW w \in Worker
             PROVE  /\ From(outputs', w) \in Seq(Coded)
                    /\ \E x \in Seq(Coded) : /\ Way(From(outputs', w), got'[w], toClient'[w], x) = SentTo(w)'
                                             /\ Open(w)' => x = toServer'[w]
  BY <1>1, Zenon DEF Sums
<1>3. CASE w = v
  BY <1>2, <1>3, Zenon
<1>4. CASE w # v
  <2>1. w \in Worker \ {v}
    BY <1>4, Zenon
  <2>2. PICK x \in Seq(Coded) : /\ Way(From(outputs, w), got[w], toClient[w], x) = SentTo(w)
                                /\ Open(w) => x = toServer[w]
    BY Zenon DEF Sums
  <2>3. From(outputs, w) \in Seq(Coded)
    BY Zenon DEF Sums
  <2>4. /\ From(outputs', w) = From(outputs, w) /\ got'[w] = got[w] /\ toClient'[w] = toClient[w]
        /\ toServer'[w] = toServer[w] /\ SentTo(w)' = SentTo(w)
    BY <2>1, Zenon
  <2> QED
    BY <1>2, <2>2, <2>3, <2>4, Zenon
<1> QED
  BY <1>3, <1>4, Zenon

\* What a worker has on its way is typed.
LEMMA SumsTyped ==
  ASSUME Typed, Sums, NEW w \in Worker
  PROVE  /\ From(outputs, w) \in Seq(Coded) /\ got[w] \in Seq(Coded) /\ toClient[w] \in Seq(Coded)
         /\ toServer[w] \in Seq(Coded) /\ SentTo(w) \in Seq(Coded)
<1>1. From(outputs, w) \in Seq(Coded) /\ toClient[w] \in Seq(Coded) /\ toServer[w] \in Seq(Coded) /\ got[w] \in One
  BY Zenon DEF Sums, Typed
<1>2. got[w] \in Seq(Coded)
  BY <1>1, OneTyped, Zenon
<1>3. PICK x \in Seq(Coded) : Way(From(outputs, w), got[w], toClient[w], x) = SentTo(w)
  BY Zenon DEF Sums
<1>4. Way(From(outputs, w), got[w], toClient[w], x) \in Seq(Coded)
  BY <1>1, <1>2, WayTyped
<1> QED
  BY <1>1, <1>2, <1>3, <1>4, Zenon

\* While RunDistributed dials there is nothing to add up.
LEMMA SumsDial == ASSUME Fresh, Dial PROVE Sums'
<1>1. UNCHANGED <<n, src, i, toServer, toClient, got, outputs>> /\ main = "dial"
  BY Zenon DEF Dial, netVars, recvVars
<1>2. Worker' = Worker /\ i' = 0
  BY <1>1, Zenon DEF Worker, Fresh
<1>3. \A w : SentTo(w)' = <<>>
  <2>1. \A w : SentTo(w) = <<>>
    BY <1>1, SentNone, Zenon DEF Fresh
  <2>2. \A w : SentTo(w)' = SentTo(w)
    BY <1>1, SentSame, Zenon
  <2> QED
    BY <2>1, <2>2, Zenon
<1>4. <<>> \in Seq(Coded)
  OBVIOUS
<1>5. Way(<<>>, <<>>, <<>>, <<>>) = <<>>
  <2>1. Cat(<<>>, <<>>) = <<>>
    BY DEF Cat
  <2> QED
    BY <2>1, Zenon DEF Way
<1> SUFFICES ASSUME NEW w \in Worker
             PROVE  /\ From(outputs', w) \in Seq(Coded)
                    /\ \E x \in Seq(Coded) : /\ Way(From(outputs', w), got'[w], toClient'[w], x) = SentTo(w)'
                                             /\ Open(w)' => x = toServer'[w]
  BY <1>2, Zenon DEF Sums
<1>6. outputs' = <<>> /\ got'[w] = <<>> /\ toClient'[w] = <<>> /\ toServer'[w] = <<>>
  BY <1>1, Zenon DEF Fresh
<1>7. From(outputs', w) = <<>>
  BY <1>6, FromNone, Zenon
<1> QED
  BY <1>3, <1>4, <1>5, <1>6, <1>7, Zenon

\* clients[i%len(clients)] is a client.
LEMMA Remainder == ASSUME NEW a \in Nat, NEW b \in Nat \ {0} PROVE (a % b) + 1 \in 1 .. b
<1>1. a % b < b /\ a % b >= 0 /\ a % b \in Int
  OBVIOUS
<1> QED
  BY <1>1

\* A record is sent to the worker whose turn it is, and only to it.
LEMMA TurnRouted ==
  ASSUME Typed, i < Len(src), n > 0
  PROVE  /\ Turn \in Worker
         /\ Json(src[i + 1]) \in Coded
         /\ Routed(i + 1, Turn) = <<Json(src[i + 1])>>
         /\ \A w : w # Turn => Routed(i + 1, w) = <<>>
<1>1. n \in Nat /\ i \in Nat /\ src \in Seq(Record)
  BY Zenon DEF Typed
<1>2. Turn \in Worker /\ (i + 1) - 1 = i
  <2>1. n \in Nat \ {0}
    BY <1>1
  <2>2. (i % n) + 1 \in 1 .. n
    BY <1>1, <2>1, Remainder, Zenon
  <2>3. (i + 1) - 1 = i
    BY <1>1
  <2> QED
    BY <2>2, <2>3, Zenon DEF Turn, Worker
<1>3. src[i + 1] \in Record
  BY <1>1
<1> QED
  BY <1>2, <1>3, JsonCodes, Zenon DEF Routed, Turn

\* A record sent to a connection that is not in use is lost.
LEMMA SumsSend == ASSUME Typed, Sums, Send PROVE Sums'
<1>1. i < Len(src) /\ n > 0 /\ i' = i + 1 /\ UNCHANGED <<n, src, conn, toClient, got, outputs>>
  BY Zenon DEF Send, recvVars
<1>2. PICK v \in Worker : v = Turn
  BY <1>1, TurnRouted, Zenon
<1>3. PICK r \in Coded : r = Json(src[i + 1])
  BY <1>1, TurnRouted, Zenon
<1>4. SentTo(v)' = Cat(SentTo(v), <<r>>)
  <2>1. SentTo(v)' = SentTo(v) \o Routed(i + 1, v)
    BY <1>1, SentNext, Zenon DEF Typed
  <2> QED
    BY <1>1, <1>2, <1>3, <2>1, TurnRouted, Zenon DEF Cat
<1>5. \A w \in Worker \ {v} : SentTo(w)' = SentTo(w)
  <2> SUFFICES ASSUME NEW w \in Worker, w # v PROVE SentTo(w)' = SentTo(w)
    BY Zenon
  <2>1. SentTo(w)' = SentTo(w) \o Routed(i + 1, w)
    BY <1>1, SentNext, Zenon DEF Typed
  <2>2. Routed(i + 1, w) = <<>>
    BY <1>1, <1>2, TurnRouted, Zenon
  <2>3. SentTo(w) \in Seq(Coded)
    BY SumsTyped, Zenon
  <2>4. SentTo(w) \o <<>> = SentTo(w)
    BY <2>3, ConcatEmpty, Zenon
  <2> QED
    BY <2>1, <2>2, <2>4, Zenon
<1>6. toServer \in [Worker -> Seq(Coded)]
  BY Zenon DEF Typed
<1>7. \/ Open(v) /\ toServer' = [toServer EXCEPT ![v] = Append(@, r)]
      \/ ~Open(v) /\ toServer' = toServer
  BY <1>2, <1>3, Zenon DEF Send
<1>8. \A w \in Worker \ {v} : toServer'[w] = toServer[w]
  BY <1>6, <1>7, Zenon
<1>9. PICK x \in Seq(Coded) : /\ Way(From(outputs, v), got[v], toClient[v], x) = SentTo(v)
                              /\ Open(v) => x = toServer[v]
  BY Zenon DEF Sums
<1>10. <<r>> \in Seq(Coded) /\ Append(x, r) \in Seq(Coded) /\ Append(x, r) = Cat(x, <<r>>)
  BY CodedAppend, Zenon
<1>11. Way(From(outputs, v), got[v], toClient[v], Append(x, r)) = SentTo(v)'
  <2>1. From(outputs, v) \in Seq(Coded) /\ got[v] \in Seq(Coded) /\ toClient[v] \in Seq(Coded)
    BY SumsTyped, Zenon
  <2>2. PICK a \in Seq(Coded), g \in Seq(Coded), c \in Seq(Coded), e \in Seq(Coded) :
          a = From(outputs, v) /\ g = got[v] /\ c = toClient[v] /\ e = <<r>>
    BY <1>10, <2>1, Zenon
  <2>3. Cat(Way(a, g, c, x), e) = Way(a, g, c, Cat(x, e))
    BY WaySend
  <2> QED
    BY <1>4, <1>9, <1>10, <2>2, <2>3, Zenon
<1>12. Open(v) => Append(x, r) = toServer'[v]
  BY <1>6, <1>7, <1>9, Zenon
<1>13. From(outputs', v) = From(outputs, v) /\ From(outputs, v) \in Seq(Coded) /\ got' = got /\ toClient' = toClient
  BY <1>1, SumsTyped, Zenon
<1>14. \A w : From(outputs', w) = From(outputs, w)
  BY <1>1, Zenon
<1>15. \E y \in Seq(Coded) : /\ Way(From(outputs', v), got'[v], toClient'[v], y) = SentTo(v)'
                             /\ Open(v) => y = toServer'[v]
  BY <1>10, <1>11, <1>12, <1>13, Zenon
<1>16. \A w \in Worker \ {v} : /\ From(outputs', w) = From(outputs, w) /\ got'[w] = got[w]
                               /\ toClient'[w] = toClient[w] /\ toServer'[w] = toServer[w]
                               /\ SentTo(w)' = SentTo(w)
  BY <1>5, <1>8, <1>13, <1>14, Zenon
<1>17. From(outputs', v) \in Seq(Coded) /\ UNCHANGED <<n, conn>>
  BY <1>1, <1>13, Zenon
<1> QED
  BY <1>15, <1>16, <1>17, SumsMove, Zenon

\* The receiver of v reads a line, or ends.
LEMMA SumsRecv == ASSUME Typed, Sums, NEW v \in Worker, Recv(v) PROVE Sums'
<1>1. UNCHANGED <<n, src, i, conn, toServer, outputs>> /\ got[v] = <<>>
  BY Zenon DEF Recv
<1>2. CASE UNCHANGED <<got, toClient>>
  <2>1. \A w \in Worker : Open(w)' => Open(w) /\ toServer'[w] = toServer[w]
    BY <1>1, Zenon DEF Open
  <2> QED
    BY <1>1, <1>2, <2>1, SumsQuiet, Zenon
<1>3. CASE /\ toClient[v] # <<>>
           /\ got' = [got EXCEPT ![v] = <<Head(toClient[v])>>]
           /\ toClient' = [toClient EXCEPT ![v] = Tail(@)]
  <2>1. got \in [Worker -> One] /\ toClient \in [Worker -> Seq(Coded)]
    BY Zenon DEF Typed
  <2>2. \A w \in Worker \ {v} : got'[w] = got[w] /\ toClient'[w] = toClient[w]
    BY <1>3, <2>1, Zenon
  <2>3. got'[v] = <<Head(toClient[v])>> /\ toClient'[v] = Tail(toClient[v])
    BY <1>3, <2>1, Zenon
  <2>4. \A w : SentTo(w)' = SentTo(w)
    BY <1>1, SentSame, Zenon
  <2>5. PICK x \in Seq(Coded) : /\ Way(From(outputs, v), got[v], toClient[v], x) = SentTo(v)
                                /\ Open(v) => x = toServer[v]
    BY Zenon DEF Sums
  <2>6. From(outputs, v) \in Seq(Coded) /\ toClient[v] \in Seq(Coded)
    BY SumsTyped, Zenon
  <2>7. PICK a \in Seq(Coded), e \in Seq(Coded), t \in Seq(Coded) :
          a = From(outputs, v) /\ e = <<Head(toClient[v])>> /\ t = Tail(toClient[v]) /\ toClient[v] = Cat(e, t)
    BY <1>3, <2>6, CodedHead, Zenon
  <2>8. Way(a, <<>>, Cat(e, t), x) = Way(a, e, t, x)
    BY WayRecv
  <2>9. Way(From(outputs', v), got'[v], toClient'[v], x) = SentTo(v)' /\ (Open(v) => x = toServer'[v])
    BY <1>1, <2>3, <2>4, <2>5, <2>7, <2>8, Zenon
  <2>10. \A w \in Worker \ {v} : /\ From(outputs', w) = From(outputs, w) /\ got'[w] = got[w]
                                 /\ toClient'[w] = toClient[w] /\ toServer'[w] = toServer[w]
                                 /\ SentTo(w)' = SentTo(w)
    BY <1>1, <2>2, <2>4, Zenon
  <2>11. From(outputs', v) \in Seq(Coded)
    BY <1>1, <2>6, Zenon
  <2> QED
    BY <1>1, <2>9, <2>10, <2>11, SumsMove, Zenon
<1> QED
  BY <1>2, <1>3, Zenon DEF Recv

\* It appends the record to the results, which changes those of v only.
LEMMA SumsGather == ASSUME Typed, Sums, NEW v \in Worker, Gather(v) PROVE Sums'
<1>1. /\ UNCHANGED <<n, src, i, conn, toServer, toClient>> /\ got[v] # <<>>
      /\ outputs' = Append(outputs, [from |-> v, rec |-> got[v][1]])
      /\ got' = [got EXCEPT ![v] = <<>>]
  BY Zenon DEF Gather, netVars
<1>2. got \in [Worker -> One] /\ outputs \in Seq(Output)
  BY Zenon DEF Typed
<1>3. PICK r \in Coded : r = got[v][1] /\ got[v] = <<r>>
  BY <1>1, <1>2, OneTyped, Zenon
<1>4. PICK o \in Output : o = [from |-> v, rec |-> r] /\ o.from = v /\ o.rec = r
  <2>1. v \in Nat
    <3>1. n \in Nat
      BY Zenon DEF Typed
    <3> QED
      BY <3>1 DEF Worker
  <2>2. [from |-> v, rec |-> r] \in Output
    BY <2>1, Zenon DEF Output
  <2>3. [from |-> v, rec |-> r].from = v /\ [from |-> v, rec |-> r].rec = r
    BY Zenon
  <2> QED
    BY <2>2, <2>3, Zenon
<1>5. outputs' = Append(outputs, o)
  BY <1>1, <1>3, <1>4, Zenon
<1>6. \A w : From(outputs', w) = From(outputs, w) \o Gathered(o, w)
  BY <1>2, <1>5, FromAppend, Zenon
<1>7. From(outputs', v) = Cat(From(outputs, v), got[v])
  BY <1>3, <1>4, <1>6, Zenon DEF Cat, Gathered
<1>8. \A w \in Worker \ {v} : From(outputs', w) = From(outputs, w)
  <2> SUFFICES ASSUME NEW w \in Worker, w # v PROVE From(outputs', w) = From(outputs, w)
    BY Zenon
  <2>1. Gathered(o, w) = <<>>
    BY <1>4, Zenon DEF Gathered
  <2>2. From(outputs, w) \in Seq(Coded)
    BY SumsTyped, Zenon
  <2>3. From(outputs, w) \o <<>> = From(outputs, w)
    BY <2>2, ConcatEmpty, Zenon
  <2> QED
    BY <1>6, <2>1, <2>3, Zenon
<1>9. \A w \in Worker \ {v} : got'[w] = got[w]
  BY <1>1, <1>2, Zenon
<1>10. got'[v] = <<>>
  BY <1>1, <1>2, Zenon
<1>11. \A w : SentTo(w)' = SentTo(w)
  BY <1>1, SentSame, Zenon
<1>12. PICK x \in Seq(Coded) : /\ Way(From(outputs, v), got[v], toClient[v], x) = SentTo(v)
                               /\ Open(v) => x = toServer[v]
  BY Zenon DEF Sums
<1>13. PICK a \in Seq(Coded), g \in Seq(Coded), c \in Seq(Coded) :
         a = From(outputs, v) /\ g = got[v] /\ c = toClient[v]
  BY SumsTyped, Zenon
<1>14. Way(a, g, c, x) = Way(Cat(a, g), <<>>, c, x)
  BY WayGather
<1>15. Cat(a, g) \in Seq(Coded)
  BY CatLaws, Zenon
<1>16. From(outputs', v) \in Seq(Coded)
  BY <1>7, <1>13, <1>15, Zenon
<1>17. Way(From(outputs', v), got'[v], toClient'[v], x) = SentTo(v)' /\ (Open(v) => x = toServer'[v])
  BY <1>1, <1>7, <1>10, <1>11, <1>12, <1>13, <1>14, Zenon
<1>18. \A w \in Worker \ {v} : /\ From(outputs', w) = From(outputs, w) /\ got'[w] = got[w]
                               /\ toClient'[w] = toClient[w] /\ toServer'[w] = toServer[w]
                               /\ SentTo(w)' = SentTo(w)
  BY <1>1, <1>8, <1>9, <1>11, Zenon
<1> QED
  BY <1>1, <1>16, <1>17, <1>18, SumsMove, Zenon

\* Server v sends a line back; encoding a coded record again changes nothing.
LEMMA SumsHandle == ASSUME Typed, Sums, NEW v \in Worker, Handle(v) PROVE Sums'
<1>1. /\ UNCHANGED <<n, src, i, conn, got, outputs>> /\ Open(v) /\ toServer[v] # <<>>
      /\ toServer' = [toServer EXCEPT ![v] = Tail(@)]
      /\ toClient' = [toClient EXCEPT ![v] = Append(@, Json(Head(toServer[v])))]
  BY Zenon DEF Handle, recvVars
<1>2. toServer \in [Worker -> Seq(Coded)] /\ toClient \in [Worker -> Seq(Coded)]
  BY Zenon DEF Typed
<1>3. Way(From(outputs, v), got[v], toClient[v], toServer[v]) = SentTo(v)
  BY <1>1, Zenon DEF Sums
<1>4. PICK a \in Seq(Coded), g \in Seq(Coded), c \in Seq(Coded), x \in Seq(Coded) :
        a = From(outputs, v) /\ g = got[v] /\ c = toClient[v] /\ x = toServer[v]
  BY SumsTyped, Zenon
<1>5. PICK h \in Coded, e \in Seq(Coded), t \in Seq(Coded) : h = Head(x) /\ e = <<h>> /\ t = Tail(x) /\ x = Cat(e, t)
  <2>1. x # <<>>
    BY <1>1, <1>4, Zenon
  <2>2. Head(x) \in Coded /\ Tail(x) \in Seq(Coded) /\ <<Head(x)>> \in Seq(Coded) /\ x = Cat(<<Head(x)>>, Tail(x))
    BY <2>1, CodedHead, Zenon
  <2> QED
    BY <2>2, Zenon
<1>6. Json(h) = h
  BY Zenon DEF Coded
<1>7. toServer'[v] = t
  BY <1>1, <1>2, <1>4, <1>5, Zenon
<1>8. toClient'[v] = Cat(c, e)
  <2>1. toClient'[v] = Append(c, h)
    BY <1>1, <1>2, <1>4, <1>5, <1>6, Zenon
  <2> QED
    BY <1>5, <2>1, CodedAppend, Zenon
<1>9. \A w \in Worker \ {v} : toServer'[w] = toServer[w] /\ toClient'[w] = toClient[w]
  BY <1>1, <1>2, Zenon
<1>10. \A w : SentTo(w)' = SentTo(w)
  BY <1>1, SentSame, Zenon
<1>11. Way(a, g, c, Cat(e, t)) = Way(a, g, Cat(c, e), t)
  BY WayHandle
<1>12. Way(From(outputs', v), got'[v], toClient'[v], t) = SentTo(v)' /\ (Open(v) => t = toServer'[v])
  BY <1>1, <1>3, <1>4, <1>5, <1>7, <1>8, <1>10, <1>11, Zenon
<1>13. From(outputs', v) \in Seq(Coded)
  BY <1>1, <1>4, Zenon
<1>14. \A w \in Worker \ {v} : /\ From(outputs', w) = From(outputs, w) /\ got'[w] = got[w]
                               /\ toClient'[w] = toClient[w] /\ toServer'[w] = toServer[w]
                               /\ SentTo(w)' = SentTo(w)
  BY <1>1, <1>9, <1>10, Zenon
<1> QED
  BY <1>1, <1>12, <1>13, <1>14, SumsMove, Zenon

-----------------------------------------------------------------------------
(* Types.                                                                  *)

\* RunDistributed keeps the types,
LEMMA TypedMain == ASSUME Typed, Main PROVE Typed'
<1> USE DEF netVars, recvVars
<1>1. CASE n' = n /\ UNCHANGED <<src, i, toServer, toClient, got, outputs>>
  <2>1. Worker' = Worker
    BY <1>1, Zenon DEF Worker
  <2>2. conn' \in [Worker -> {"none", "open", "broken", "closed"}]
    <3>0. conn \in [Worker -> {"none", "open", "broken", "closed"}]
      BY Zenon DEF Typed
    <3>1. CASE UNCHANGED conn
      BY <3>0, <3>1, Zenon
    <3>2. CASE CloseAll
      BY <3>0, <3>2, Zenon DEF CloseAll
    <3>3. CASE Dial
      BY <3>0, <3>3, Zenon DEF Dial
    <3> QED
      BY <3>1, <3>2, <3>3, Zenon DEF Main, DialFails, StartReceivers, Send, SendPanics, SourceEnds, WaitEnds, Return
  <2> QED
    BY <1>1, <2>1, <2>2, Zenon DEF Typed
<1>2. CASE Send
  <2>1. i < Len(src) /\ n > 0 /\ i' = i + 1 /\ UNCHANGED <<n, src, conn, toClient, got, outputs>>
    BY <1>2, Zenon DEF Send
  <2>2. Worker' = Worker
    BY <2>1, Zenon DEF Worker
  <2>3. i + 1 \in Nat /\ i + 1 <= Len(src)
    <3>1. i \in Nat /\ src \in Seq(Record)
      BY Zenon DEF Typed
    <3> QED
      BY <2>1, <3>1
  <2>4. toServer \in [Worker -> Seq(Coded)]
    BY Zenon DEF Typed
  <2>5. toServer' \in [Worker -> Seq(Coded)]
    <3>1. CASE UNCHANGED toServer
      BY <2>4, <3>1, Zenon
    <3>2. CASE toServer' = [toServer EXCEPT ![Turn] = Append(@, Json(src[i + 1]))]
      <4>1. Turn \in Worker /\ Json(src[i + 1]) \in Coded
        BY <2>1, TurnRouted, Zenon
      <4>2. Append(toServer[Turn], Json(src[i + 1])) \in Seq(Coded)
        BY <2>4, <4>1, CodedAppend, Zenon
      <4> QED
        BY <2>4, <3>2, <4>2, Zenon
    <3> QED
      BY <1>2, <3>1, <3>2, Zenon DEF Send
  <2> QED
    BY <2>1, <2>2, <2>3, <2>5, Zenon DEF Typed
<1> QED
  BY <1>1, <1>2, Zenon DEF Main, Dial, DialFails, StartReceivers, SendPanics, SourceEnds, WaitEnds, Return

\* and so do receivers and servers.
LEMMA TypedWorker ==
  ASSUME Typed, NEW v \in Worker, Receiver(v) \/ Handle(v) \/ StopServer(v) \/ ServerDies(v)
  PROVE  Typed'
<1> USE DEF netVars, recvVars
<1>1. UNCHANGED <<n, src, i>> /\ Worker' = Worker
  BY Zenon DEF Receiver, Recv, Gather, Handle, StopServer, ServerDies, Worker
<1>2. /\ conn \in [Worker -> {"none", "open", "broken", "closed"}] /\ toServer \in [Worker -> Seq(Coded)]
      /\ toClient \in [Worker -> Seq(Coded)] /\ got \in [Worker -> One] /\ outputs \in Seq(Output)
  BY Zenon DEF Typed
<1>3. <<>> \in Seq(Coded) /\ <<>> \in One
  <2>1. <<>> \in Seq(Coded)
    OBVIOUS
  <2> QED
    BY <2>1, Zenon DEF One
<1> SUFFICES /\ conn' \in [Worker -> {"none", "open", "broken", "closed"}]
             /\ toServer' \in [Worker -> Seq(Coded)] /\ toClient' \in [Worker -> Seq(Coded)]
             /\ got' \in [Worker -> One] /\ outputs' \in Seq(Output)
  BY <1>1, Zenon DEF Typed
<1>4. CASE Recv(v)
  <2>1. CASE UNCHANGED <<got, toClient>>
    BY <1>2, <1>4, <2>1, Zenon DEF Recv
  <2>2. CASE /\ toClient[v] # <<>>
             /\ got' = [got EXCEPT ![v] = <<Head(toClient[v])>>]
             /\ toClient' = [toClient EXCEPT ![v] = Tail(@)]
    <3>1. <<Head(toClient[v])>> \in One /\ Tail(toClient[v]) \in Seq(Coded)
      BY <1>2, <2>2, CodedHead, Zenon
    <3>2. got' \in [Worker -> One] /\ toClient' \in [Worker -> Seq(Coded)]
      BY <1>2, <2>2, <3>1, Zenon
    <3> QED
      BY <1>2, <1>4, <3>2, Zenon DEF Recv
  <2> QED
    BY <1>4, <2>1, <2>2, Zenon DEF Recv
<1>5. CASE Gather(v)
  <2>1. got[v] # <<>> /\ got' = [got EXCEPT ![v] = <<>>] /\ outputs' = Append(outputs, [from |-> v, rec |-> got[v][1]])
    BY <1>5, Zenon DEF Gather
  <2>2. [from |-> v, rec |-> got[v][1]] \in Output
    <3>1. v \in Nat
      <4>1. n \in Nat
        BY Zenon DEF Typed
      <4> QED
        BY <4>1 DEF Worker
    <3>2. got[v][1] \in Coded
      BY <1>2, <2>1, OneTyped, Zenon
    <3> QED
      BY <3>1, <3>2, Zenon DEF Output
  <2>3. outputs' \in Seq(Output)
    BY <1>2, <2>1, <2>2, AppendIs, Zenon
  <2>4. got' \in [Worker -> One]
    BY <1>2, <1>3, <2>1, Zenon
  <2> QED
    BY <1>2, <1>5, <2>3, <2>4, Zenon DEF Gather
<1>6. CASE Handle(v)
  <2>1. /\ toServer[v] # <<>> /\ toServer' = [toServer EXCEPT ![v] = Tail(@)]
        /\ toClient' = [toClient EXCEPT ![v] = Append(@, Json(Head(toServer[v])))]
    BY <1>6, Zenon DEF Handle
  <2>2. Head(toServer[v]) \in Coded /\ Tail(toServer[v]) \in Seq(Coded)
    BY <1>2, <2>1, CodedHead, Zenon
  <2>3. Json(Head(toServer[v])) \in Coded
    BY <2>2, Zenon DEF Coded
  <2>4. Append(toClient[v], Json(Head(toServer[v]))) \in Seq(Coded)
    BY <1>2, <2>3, CodedAppend, Zenon
  <2>5. toServer' \in [Worker -> Seq(Coded)]
    BY <1>2, <2>1, <2>2, Zenon
  <2>6. toClient' \in [Worker -> Seq(Coded)]
    BY <1>2, <2>1, <2>4, Zenon
  <2> QED
    BY <1>2, <1>6, <2>5, <2>6, Zenon DEF Handle
<1>7. CASE StopServer(v)
  BY <1>2, <1>7, Zenon DEF StopServer
<1>8. CASE ServerDies(v)
  <2>1. conn' \in [Worker -> {"none", "open", "broken", "closed"}]
    BY <1>2, <1>8, Zenon DEF ServerDies
  <2>2. toServer' \in [Worker -> Seq(Coded)]
    BY <1>2, <1>3, <1>8, Zenon DEF ServerDies
  <2> QED
    BY <1>2, <1>8, <2>1, <2>2, Zenon DEF ServerDies
<1> QED
  BY <1>4, <1>5, <1>6, <1>7, <1>8, Zenon DEF Receiver

-----------------------------------------------------------------------------
(* The invariant is kept.                                                  *)

\* RunDistributed's own steps.
LEMMA MainKeeps == ASSUME DInv, Main PROVE DInv'
<1> USE DEF netVars, recvVars
<1>0. Typed /\ Fresh /\ Sums /\ Shut /\ Handed /\ Worker' = Worker
  BY Zenon DEF DInv, Main, Dial, DialFails, StartReceivers, Send, SendPanics, SourceEnds, WaitEnds, Return, Worker
<1>1. Typed'
  BY <1>0, TypedMain, Zenon
<1>2. Sums'
  <2>1. CASE Dial
    BY <1>0, <2>1, SumsDial, Zenon
  <2>2. CASE Send
    BY <1>0, <2>2, SumsSend, Zenon
  <2>3. CASE UNCHANGED <<n, src, i, toServer, toClient, got, outputs>> /\ (CloseAll \/ UNCHANGED conn)
    <3>1. \A w \in Worker : Open(w)' => Open(w) /\ toServer'[w] = toServer[w]
      BY <2>3, Zenon DEF CloseAll, Open
    <3> QED
      BY <1>0, <2>3, <3>1, SumsQuiet, Zenon
  <2> QED
    BY <2>1, <2>2, <2>3, Zenon DEF Main, DialFails, StartReceivers, SendPanics, SourceEnds, WaitEnds, Return
<1>3. Fresh'
  <2>1. CASE Dial
    BY <1>0, <2>1, Zenon DEF Dial, Fresh
  <2>2. CASE ~Dial
    <3>1. main' # "dial"
      BY <2>2, Zenon DEF Main, DialFails, StartReceivers, Send, SendPanics, SourceEnds, WaitEnds, Return
    <3> QED
      BY <3>1, Zenon DEF Fresh
  <2> QED
    BY <2>1, <2>2, Zenon
<1>4. Shut'
  <2>1. CASE Dial \/ Send \/ StartReceivers \/ SourceEnds
    <3>1. main' \in {"dial", "send", "wait"}
      BY <2>1, Zenon DEF Dial, Send, StartReceivers, SourceEnds
    <3> QED
      BY <3>1, Zenon DEF Shut
  <2>2. CASE SendPanics
    <3>1. main' = "panicked" /\ n' = 0
      BY <2>2, Zenon DEF SendPanics
    <3> QED
      BY <3>1, Zenon DEF Shut
  <2>3. CASE DialFails \/ WaitEnds
    <3>1. CloseAll /\ main' # "panicked"
      BY <2>3, Zenon DEF DialFails, WaitEnds
    <3>2. \A w \in Worker : ~Open(w)'
      BY <3>1, Zenon DEF CloseAll, Open
    <3> QED
      BY <1>0, <3>1, <3>2, Zenon DEF Shut
  <2>4. CASE Return
    <3>1. main = "return" /\ main' = "returned" /\ conn' = conn
      BY <2>4, Zenon DEF Return
    <3>2. \A w \in Worker : ~Open(w)'
      BY <1>0, <3>1, Zenon DEF Shut, Open
    <3> QED
      BY <1>0, <3>1, <3>2, Zenon DEF Shut
  <2> QED
    BY <2>1, <2>2, <2>3, <2>4, Zenon DEF Main
<1>5. Handed'
  <2>1. CASE Return /\ result' = outputs
    <3>1. \A w : SentTo(w)' = SentTo(w)
      BY <2>1, SentSame, Zenon DEF Return
    <3> SUFFICES ASSUME NEW w \in Worker
                 PROVE  /\ From(result', w) \in Seq(Coded)
                        /\ \E y \in Seq(Coded) : From(result', w) \o y = SentTo(w)'
      BY <1>0, Zenon DEF Handed
    <3>2. PICK x \in Seq(Coded) : Way(From(outputs, w), got[w], toClient[w], x) = SentTo(w)
      BY <1>0, Zenon DEF Sums
    <3>3. PICK a \in Seq(Coded), g \in Seq(Coded), c \in Seq(Coded) :
            a = From(outputs, w) /\ g = got[w] /\ c = toClient[w]
      BY <1>0, SumsTyped, Zenon
    <3>4. Cat(g, Cat(c, x)) \in Seq(Coded) /\ Way(a, g, c, x) = Cat(a, Cat(g, Cat(c, x)))
      BY WayTyped
    <3>5. PICK y \in Seq(Coded) : y = Cat(g, Cat(c, x))
      BY <3>4, Zenon
    <3>6. a \o y = SentTo(w)
      BY <3>2, <3>3, <3>4, <3>5, Zenon DEF Cat
    <3> QED
      BY <2>1, <3>1, <3>3, <3>6, Zenon
  <2>2. CASE Return /\ result' = <<Null>>
    BY <2>2, Zenon DEF Handed
  <2>3. CASE ~Return
    <3>1. main' # "returned"
      BY <2>3, Zenon DEF Main, Dial, DialFails, StartReceivers, Send, SendPanics, SourceEnds, WaitEnds
    <3> QED
      BY <3>1, Zenon DEF Handed
  <2> QED
    BY <2>1, <2>2, <2>3, Zenon DEF Return
<1> QED
  BY <1>1, <1>2, <1>3, <1>4, <1>5, Zenon DEF DInv

\* The steps of a receiver and of a server.
LEMMA WorkerKeeps ==
  ASSUME DInv, NEW v \in Worker, Receiver(v) \/ Handle(v) \/ StopServer(v) \/ ServerDies(v)
  PROVE  DInv'
<1> USE DEF netVars, recvVars
<1>0. Typed /\ Fresh /\ Sums /\ Shut /\ Handed
  BY Zenon DEF DInv
<1>1. Typed'
  BY <1>0, TypedWorker, Zenon
<1>2. UNCHANGED <<n, src, main, i, result>> /\ Worker' = Worker
  BY Zenon DEF Receiver, Recv, Gather, Handle, StopServer, ServerDies, Worker
<1>3. conn' = conn \/ ServerDies(v)
  BY Zenon DEF Receiver, Recv, Gather, Handle, StopServer
<1>4. \A w \in Worker : Open(w)' => Open(w) /\ (ServerDies(v) => toServer'[w] = toServer[w])
  <2>1. CASE conn' = conn /\ ~ServerDies(v)
    BY <2>1, Zenon DEF Open
  <2>2. CASE ServerDies(v)
    <3>1. conn \in [Worker -> {"none", "open", "broken", "closed"}] /\ toServer \in [Worker -> Seq(Coded)]
      BY <1>0, Zenon DEF Typed
    <3> QED
      BY <2>2, <3>1, Zenon DEF ServerDies, Open
  <2> QED
    BY <1>3, <2>1, <2>2, Zenon
<1>5. Sums'
  <2>1. CASE Receiver(v)
    BY <1>0, <2>1, SumsRecv, SumsGather, Zenon DEF Receiver
  <2>2. CASE Handle(v)
    BY <1>0, <2>2, SumsHandle, Zenon
  <2>3. CASE StopServer(v)
    <3>1. UNCHANGED <<n, src, i, toServer, toClient, got, outputs, conn>>
      BY <2>3, Zenon DEF StopServer
    <3>2. \A w \in Worker : Open(w)' => Open(w) /\ toServer'[w] = toServer[w]
      BY <3>1, Zenon DEF Open
    <3> QED
      BY <1>0, <3>1, <3>2, SumsQuiet, Zenon
  <2>4. CASE ServerDies(v)
    <3>1. UNCHANGED <<n, src, i, toClient, got, outputs>>
      BY <2>4, Zenon DEF ServerDies
    <3>2. \A w \in Worker : Open(w)' => Open(w) /\ toServer'[w] = toServer[w]
      BY <1>4, <2>4, Zenon
    <3> QED
      BY <1>0, <3>1, <3>2, SumsQuiet, Zenon
  <2> QED
    BY <2>1, <2>2, <2>3, <2>4, Zenon
<1>6. Fresh'
  <2> SUFFICES ASSUME main = "dial" PROVE Fresh'
    BY <1>2, Zenon DEF Fresh
  <2>1. StopServer(v) \/ ServerDies(v)
    BY <1>0, Zenon DEF Fresh, Receiver, Recv, Gather, Handle
  <2>2. UNCHANGED <<i, outputs, toClient, got, receiver>>
    BY <2>1, Zenon DEF StopServer, ServerDies
  <2>3. \A w \in Worker : toServer'[w] = <<>>
    <3>1. toServer \in [Worker -> Seq(Coded)]
      BY <1>0, Zenon DEF Typed
    <3> QED
      BY <1>0, <2>1, <3>1, Zenon DEF StopServer, ServerDies, Fresh
  <2> QED
    BY <1>0, <1>2, <2>2, <2>3, Zenon DEF Fresh
<1>7. Shut'
  BY <1>0, <1>2, <1>4, Zenon DEF Shut
<1>8. Handed'
  <2>1. \A w : SentTo(w)' = SentTo(w)
    BY <1>2, SentSame, Zenon
  <2> QED
    BY <1>0, <1>2, <2>1, Zenon DEF Handed
<1> QED
  BY <1>1, <1>5, <1>6, <1>7, <1>8, Zenon DEF DInv

\* It holds when RunDistributed is called.
LEMMA Begins == Init => DInv
<1> SUFFICES ASSUME Init PROVE DInv
  BY Zenon
<1>1. n \in Nat /\ src \in Seq(Record) /\ i = 0
  BY DistributedAssumption, SMT DEF Init
<1>2. <<>> \in Seq(Coded) /\ <<>> \in Seq(Output) /\ <<>> \in One
  <2>1. <<>> \in Seq(Coded) /\ <<>> \in Seq(Output)
    OBVIOUS
  <2> QED
    BY <2>1, Zenon DEF One
<1>3. i \in Nat /\ i <= Len(src)
  BY <1>1
<1>4. Typed
  BY <1>1, <1>2, <1>3, Zenon DEF Typed, Init
<1>5. Fresh /\ Shut /\ Handed
  BY Zenon DEF Init, Fresh, Shut, Handed
<1>6. Sums
  <2>1. \A w : SentTo(w) = <<>>
    BY <1>1, SentNone, Zenon
  <2>2. Way(<<>>, <<>>, <<>>, <<>>) = <<>>
    <3>1. Cat(<<>>, <<>>) = <<>>
      BY DEF Cat
    <3> QED
      BY <3>1, Zenon DEF Way
  <2>3. \A w : From(outputs, w) = <<>>
    BY FromNone, Zenon DEF Init
  <2>4. \A w \in Worker : toServer[w] = <<>> /\ toClient[w] = <<>> /\ got[w] = <<>>
    BY Zenon DEF Init
  <2> QED
    BY <1>2, <2>1, <2>2, <2>3, <2>4, Zenon DEF Sums
<1> QED
  BY <1>4, <1>5, <1>6, Zenon DEF DInv

\* It only speaks of the variables.
LEMMA Stutters == ASSUME DInv, UNCHANGED vars PROVE DInv'
<1>1. /\ UNCHANGED <<n, src, main, i, conn, toServer, toClient, got, receiver, outputs, result>>
      /\ Worker' = Worker /\ \A w : SentTo(w)' = SentTo(w) /\ (Open(w)' <=> Open(w))
  BY SentSame, Zenon DEF vars, netVars, recvVars, Worker, Open
<1>2. Typed /\ Fresh /\ Sums /\ Shut /\ Handed
  BY Zenon DEF DInv
<1>3. Typed'
  BY <1>1, <1>2, Zenon DEF Typed
<1>4. Fresh' /\ Shut'
  BY <1>1, <1>2, Zenon DEF Fresh, Shut
<1>5. Sums'
  BY <1>1, <1>2, SumsQuiet, Zenon
<1>6. Handed'
  BY <1>1, <1>2, Zenon DEF Handed
<1> QED
  BY <1>3, <1>4, <1>5, <1>6, Zenon DEF DInv

\* Of every run of RunDistributed.
THEOREM DInvariance == Spec => []DInv
<1>1. Init => DInv
  BY Begins
<1>2. DInv /\ [Next]_vars => DInv'
  BY MainKeeps, WorkerKeeps, Stutters, Zenon DEF Next
<1> QED
  BY <1>1, <1>2, PTL DEF Spec

\* On a connection in use nothing is lost, repeated or reordered, however
\* sends, echoes, receivers and deaths of servers interleave, for any number
\* of workers, any streams and any capacity of the connections.
THEOREM Conserved == Spec => []ConnectionConserves
<1>1. DInv => ConnectionConserves
  <2> SUFFICES ASSUME DInv, NEW w \in Worker, Open(w)
               PROVE  From(outputs, w) \o got[w] \o toClient[w] \o toServer[w] = SentTo(w)
    BY Zenon DEF ConnectionConserves
  <2>1. Way(From(outputs, w), got[w], toClient[w], toServer[w]) = SentTo(w)
    BY Zenon DEF DInv, Sums
  <2> QED
    BY <2>1, Zenon DEF Way, Cat
<1> QED
  BY <1>1, DInvariance, PTL

\* What RunDistributed returns holds, of each worker, the first records it
\* was sent, whichever servers stop or die and whenever the timeout comes.
THEOREM SourceOnly == Spec => []ResultsFromSource
<1>1. DInv => ResultsFromSource
  <2> SUFFICES ASSUME DInv, main = "returned", result # <<Null>>, NEW w \in Worker
               PROVE  \E k \in 0 .. Len(SentTo(w)) : From(result, w) = SubSeq(SentTo(w), 1, k)
    BY Zenon DEF ResultsFromSource
  <2>1. PICK s \in Seq(Coded), y \in Seq(Coded) : s = From(result, w) /\ s \o y = SentTo(w)
    BY Zenon DEF DInv, Handed
  <2>2. Len(s) \in 0 .. Len(s \o y) /\ s = SubSeq(s \o y, 1, Len(s))
    BY FirstPart, Zenon
  <2> QED
    BY <2>1, <2>2, Zenon
<1> QED
  BY <1>1, DInvariance, PTL

\* RunDistributed leaves no connection open, on its error return either.
THEOREM AllClosed == Spec => []ConnectionsClosed
<1>1. DInv => ConnectionsClosed
  <2> SUFFICES ASSUME DInv, Ended, NEW w \in Worker PROVE ~Open(w)
    BY Zenon DEF ConnectionsClosed
  <2>1. n = 0 => FALSE
    BY DEF Worker
  <2> QED
    BY <2>1, Zenon DEF DInv, Shut, Ended
<1> QED
  BY <1>1, DInvariance, PTL
=============================================================================
