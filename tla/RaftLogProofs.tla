---------------------------- MODULE RaftLogProofs ---------------------------
(***************************************************************************)
(* Proofs about the log of a raft node and the memory it is replayed into: *)
(* the types, that the log keeps every entry in order through compactions, *)
(* rotations, replays and crashes, and that the memory holds the stable    *)
(* ones.                                                                   *)
(***************************************************************************)
EXTENDS RaftNode, WellFoundedInduction, TLAPS

\* The length and the entries of a list.
LEMMA ListLen ==
  ASSUME NEW S, NEW s \in Seq(S)
  PROVE  Len(s) \in Nat /\ s \in [1 .. Len(s) -> S] /\ DOMAIN s = 1 .. Len(s)
OBVIOUS

\* Each entry is of the kind of the list.
LEMMA ListElement ==
  ASSUME NEW S, NEW s \in Seq(S), NEW n \in 1 .. Len(s)
  PROVE  s[n] \in S
OBVIOUS

\* One entry more.
LEMMA ListAppend ==
  ASSUME NEW S, NEW s \in Seq(S), NEW e \in S
  PROVE  /\ Append(s, e) \in Seq(S) /\ Len(Append(s, e)) = Len(s) + 1
         /\ \A i \in 1 .. Len(s) : Append(s, e)[i] = s[i]
         /\ Append(s, e)[Len(s) + 1] = e
OBVIOUS

\* One list after another.
LEMMA ListConcat ==
  ASSUME NEW S, NEW s \in Seq(S), NEW t \in Seq(S)
  PROVE  /\ s \o t \in Seq(S) /\ Len(s \o t) = Len(s) + Len(t)
         /\ \A i \in 1 .. Len(s) + Len(t) : (s \o t)[i] = IF i <= Len(s) THEN s[i] ELSE t[i - Len(s)]
OBVIOUS

\* The empty list adds nothing.
LEMMA ListEmpty ==
  ASSUME NEW S, NEW s \in Seq(S)
  PROVE  s \o <<>> = s /\ <<>> \o s = s
OBVIOUS

\* A part of a list.
LEMMA ListPart ==
  ASSUME NEW S, NEW s, NEW m \in Int, NEW n \in Int, \A i \in m .. n : s[i] \in S
  PROVE  SubSeq(s, m, n) \in Seq(S)
OBVIOUS

\* The first n entries are the first n - 1 and one more; all are the list.
LEMMA ListGrows ==
  ASSUME NEW S, NEW s \in Seq(S), NEW n \in 1 .. Len(s)
  PROVE  SubSeq(s, 1, n) = SubSeq(s, 1, n - 1) \o <<s[n]>>
OBVIOUS

\* All of a list.
LEMMA ListAll ==
  ASSUME NEW S, NEW s \in Seq(S)
  PROVE  SubSeq(s, 1, Len(s)) = s
OBVIOUS

\* A set of numbers has a least one.
LEMMA LeastOf ==
  ASSUME NEW T \in SUBSET Nat, T # {}
  PROVE  \E x \in T : \A y \in T : x <= y
<1> DEFINE R == OpToRel(<, Nat)
<1>1. PICK x \in T : \A y \in T : ~(<<y, x>> \in R)
  <2>1. IsWellFoundedOn(R, Nat)
    BY NatLessThanWellFounded, Zenon
  <2> HIDE DEF R
  <2> QED
    BY <2>1, WFMin, Zenon
<1>2. \A y \in T : ~(y < x)
  BY <1>1, Zenon DEF OpToRel
<1> QED
  BY <1>2

\* Induction over the numbers, for a set instead of a predicate.
LEMMA SetInduction ==
  ASSUME NEW P, 0 \in P, \A n \in Nat : n \in P => n + 1 \in P
  PROVE  Nat \subseteq P
<1> SUFFICES ASSUME Nat \ P # {} PROVE FALSE
  BY Zenon
<1>1. PICK x \in Nat \ P : \A y \in Nat \ P : x <= y
  BY LeastOf, Zenon
<1>2. x - 1 \in Nat
  BY <1>1
<1>3. x - 1 \in P
  BY <1>1, <1>2
<1> QED
  BY <1>1, <1>2, <1>3

\* f lists what Flatten makes of the first sequences of ss.
Parts(ss, n, f) == f = [i \in 0 .. n |-> IF i = 0 THEN <<>> ELSE f[i - 1] \o ss[i]]

\* There is such a list: the recursion in Flatten defines a function.
LEMMA PartsExist == ASSUME NEW ss, NEW n \in Nat PROVE \E f : Parts(ss, n, f)
<1> DEFINE P == {m \in Nat : \E f : Parts(ss, m, f)}
<1>1. 0 \in P
  <2> DEFINE f == [i \in 0 .. 0 |-> <<>>]
  <2>1. Parts(ss, 0, f)
    BY DEF Parts
  <2> QED
    BY <2>1, Zenon
<1>2. ASSUME NEW m \in Nat, m \in P PROVE m + 1 \in P
  <2>1. PICK f : Parts(ss, m, f)
    BY <1>2, Zenon
  <2>2. \A i \in 0 .. m : f[i] = IF i = 0 THEN <<>> ELSE f[i - 1] \o ss[i]
    BY <2>1, Zenon DEF Parts
  <2> DEFINE g == [i \in 0 .. m + 1 |-> IF i = m + 1 THEN f[m] \o ss[m + 1] ELSE f[i]]
  <2>3. \A i \in 0 .. m + 1 : g[i] = IF i = 0 THEN <<>> ELSE g[i - 1] \o ss[i]
    <3> SUFFICES ASSUME NEW i \in 0 .. m + 1 PROVE g[i] = IF i = 0 THEN <<>> ELSE g[i - 1] \o ss[i]
      BY Zenon
    <3>1. CASE i = m + 1
      <4>1. i # 0 /\ i - 1 = m /\ m \in 0 .. m + 1 /\ m # m + 1
        BY <3>1
      <4>2. g[m] = f[m] /\ g[i] = f[m] \o ss[m + 1]
        BY <3>1, <4>1, Zenon
      <4> HIDE DEF g
      <4> QED
        BY <3>1, <4>1, <4>2, Zenon
    <3>2. CASE i \in 0 .. m
      <4>1. i # m + 1 /\ i - 1 # m + 1 /\ (i # 0 => i - 1 \in 0 .. m + 1)
        BY <3>2
      <4>2. g[i] = f[i] /\ (i # 0 => g[i - 1] = f[i - 1])
        BY <4>1, Zenon
      <4> HIDE DEF g
      <4> QED
        BY <2>2, <3>2, <4>2, Zenon
    <3> QED
      BY <3>1, <3>2
  <2>4. DOMAIN g = 0 .. m + 1 /\ g = [i \in 0 .. m + 1 |-> g[i]]
    BY Zenon
  <2> HIDE DEF g
  <2>5. Parts(ss, m + 1, g)
    BY <2>3, <2>4, Zenon DEF Parts
  <2> QED
    BY <2>5
<1> HIDE DEF P
<1>3. Nat \subseteq P
  BY <1>1, <1>2, SetInduction, Zenon
<1> QED
  BY <1>3, Zenon DEF P

\* Flatten is the last of the parts.
LEMMA FlattenParts ==
  ASSUME NEW ss, Len(ss) \in Nat
  PROVE  \E f : Parts(ss, Len(ss), f) /\ Flatten(ss) = f[Len(ss)]
<1>1. \E f : Parts(ss, Len(ss), f)
  BY PartsExist, Zenon
<1> DEFINE g == CHOOSE f : f = [i \in 0 .. Len(ss) |-> IF i = 0 THEN <<>> ELSE f[i - 1] \o ss[i]]
<1>2. Parts(ss, Len(ss), g)
  BY <1>1, Zenon DEF Parts
<1>3. Flatten(ss) = g[Len(ss)]
  BY Zenon DEF Flatten
<1> QED
  BY <1>2, <1>3, Zenon

\* The parts of two lists agree as long as the lists do.
LEMMA PartsAgree ==
  ASSUME NEW ss, NEW tt, NEW f, NEW g, NEW n \in Nat, NEW m \in Nat, n <= m,
         Parts(ss, n, f), Parts(tt, m, g), \A i \in 1 .. n : ss[i] = tt[i]
  PROVE  \A i \in 0 .. n : f[i] = g[i]
<1> DEFINE P == {i \in Nat : i <= n => f[i] = g[i]}
<1>1. /\ \A i \in 0 .. n : f[i] = IF i = 0 THEN <<>> ELSE f[i - 1] \o ss[i]
      /\ \A i \in 0 .. m : g[i] = IF i = 0 THEN <<>> ELSE g[i - 1] \o tt[i]
  BY Zenon DEF Parts
<1>2. 0 \in P
  BY <1>1
<1>3. ASSUME NEW i \in Nat, i \in P PROVE i + 1 \in P
  <2> SUFFICES ASSUME i + 1 <= n PROVE f[i + 1] = g[i + 1]
    OBVIOUS
  <2>1. i + 1 \in 0 .. n /\ i + 1 \in 0 .. m /\ i + 1 # 0 /\ (i + 1) - 1 = i /\ i + 1 \in 1 .. n /\ i <= n
    OBVIOUS
  <2>2. f[i + 1] = f[i] \o ss[i + 1] /\ g[i + 1] = g[i] \o tt[i + 1]
    BY <1>1, <2>1, Zenon
  <2>3. f[i] = g[i]
    BY <1>3, <2>1, Zenon
  <2> QED
    BY <2>1, <2>2, <2>3, Zenon
<1> HIDE DEF P
<1>4. Nat \subseteq P
  BY <1>2, <1>3, SetInduction, Zenon
<1> QED
  BY <1>4 DEF P

\* Nothing is flattened to nothing.
LEMMA FlattenNone == Flatten(<<>>) = <<>>
<1>1. Len(<<>>) = 0 /\ Len(<<>>) \in Nat
  BY Zenon
<1>2. PICK f : Parts(<<>>, 0, f) /\ Flatten(<<>>) = f[0]
  BY <1>1, FlattenParts, Zenon
<1> QED
  BY <1>2 DEF Parts

\* The last sequence goes behind what is made of the others.
LEMMA FlattenLast ==
  ASSUME NEW ss, NEW tt, Len(ss) \in Nat, Len(tt) = Len(ss) + 1, \A i \in 1 .. Len(ss) : ss[i] = tt[i]
  PROVE  Flatten(tt) = Flatten(ss) \o tt[Len(tt)]
<1> DEFINE n == Len(ss)
<1>1. PICK f : Parts(ss, n, f) /\ Flatten(ss) = f[n]
  BY FlattenParts, Zenon
<1>2. PICK g : Parts(tt, n + 1, g) /\ Flatten(tt) = g[n + 1]
  <2>1. Len(tt) \in Nat
    OBVIOUS
  <2> QED
    BY <2>1, FlattenParts, Zenon
<1> HIDE DEF n
<1>3. n \in Nat
  BY Zenon DEF n
<1>4. n <= n + 1 /\ n + 1 \in Nat /\ n + 1 \in 0 .. n + 1 /\ n + 1 # 0 /\ (n + 1) - 1 = n /\ n \in 0 .. n
  BY <1>3
<1>5. f[n] = g[n]
  <2>1. \A i \in 1 .. n : ss[i] = tt[i]
    BY Zenon DEF n
  <2>2. \A i \in 0 .. n : f[i] = g[i]
    BY <1>1, <1>2, <1>3, <1>4, <2>1, PartsAgree
  <2> QED
    BY <1>4, <2>2, Zenon
<1>6. g[n + 1] = g[n] \o tt[n + 1]
  BY <1>2, <1>4, Zenon DEF Parts
<1> QED
  BY <1>1, <1>2, <1>5, <1>6, Zenon DEF n

\* Lists of S, flattened, are a list of S.
LEMMA FlattenType ==
  ASSUME NEW S, NEW ss \in Seq(Seq(S))
  PROVE  Flatten(ss) \in Seq(S)
<1> DEFINE n == Len(ss)
<1>1. n \in Nat /\ \A i \in 1 .. n : ss[i] \in Seq(S)
  OBVIOUS
<1>2. PICK f : Parts(ss, n, f) /\ Flatten(ss) = f[n]
  BY <1>1, FlattenParts, Zenon
<1> HIDE DEF n
<1> DEFINE P == {i \in Nat : i <= n => f[i] \in Seq(S)}
<1>3. \A i \in 0 .. n : f[i] = IF i = 0 THEN <<>> ELSE f[i - 1] \o ss[i]
  BY <1>2, Zenon DEF Parts
<1>4. 0 \in P
  <2>1. f[0] = <<>>
    BY <1>1, <1>3
  <2>2. 0 \in Nat /\ <<>> \in Seq(S)
    OBVIOUS
  <2> QED
    BY <2>1, <2>2, Zenon
<1>5. ASSUME NEW i \in Nat, i \in P PROVE i + 1 \in P
  <2> SUFFICES ASSUME i + 1 <= n PROVE f[i + 1] \in Seq(S)
    OBVIOUS
  <2>1. i + 1 \in 0 .. n /\ i + 1 # 0 /\ (i + 1) - 1 = i /\ i + 1 \in 1 .. n /\ i <= n
    BY <1>1
  <2>2. f[i + 1] = f[i] \o ss[i + 1]
    BY <1>3, <2>1, Zenon
  <2>3. f[i] \in Seq(S) /\ ss[i + 1] \in Seq(S)
    BY <1>1, <1>5, <2>1, Zenon
  <2> QED
    BY <2>2, <2>3, ListConcat, Zenon
<1> HIDE DEF P
<1>6. Nat \subseteq P
  BY <1>4, <1>5, SetInduction, Zenon
<1>7. n <= n
  BY <1>1
<1> QED
  BY <1>1, <1>2, <1>6, <1>7, Zenon DEF P

\* A list cut into its elements is put together again.
LEMMA FlattenSingles ==
  ASSUME NEW S, NEW e \in Seq(S), NEW ss, Len(ss) = Len(e), \A i \in 1 .. Len(e) : ss[i] = <<e[i]>>
  PROVE  Flatten(ss) = e
<1> DEFINE n == Len(e)
<1>1. n \in Nat /\ \A i \in 1 .. n : e[i] \in S
  OBVIOUS
<1>2. PICK f : Parts(ss, n, f) /\ Flatten(ss) = f[n]
  BY <1>1, FlattenParts, Zenon
<1> HIDE DEF n
<1> DEFINE P == {i \in Nat : i <= n => f[i] = SubSeq(e, 1, i)}
<1>3. \A i \in 0 .. n : f[i] = IF i = 0 THEN <<>> ELSE f[i - 1] \o ss[i]
  BY <1>2, Zenon DEF Parts
<1>4. 0 \in P
  <2>1. f[0] = <<>>
    BY <1>1, <1>3
  <2>2. SubSeq(e, 1, 0) = <<>>
    OBVIOUS
  <2> QED
    BY <2>1, <2>2, Zenon
<1>5. ASSUME NEW i \in Nat, i \in P PROVE i + 1 \in P
  <2> SUFFICES ASSUME i + 1 <= n PROVE f[i + 1] = SubSeq(e, 1, i + 1)
    OBVIOUS
  <2>1. i + 1 \in 0 .. n /\ i + 1 # 0 /\ (i + 1) - 1 = i /\ i + 1 \in 1 .. n /\ i <= n /\ 1 \in 1 .. n
    BY <1>1
  <2>2. f[i + 1] = f[i] \o <<e[i + 1]>>
    BY <1>3, <2>1, Zenon DEF n
  <2>3. f[i] = SubSeq(e, 1, i)
    BY <1>5, <2>1, Zenon
  <2>4. SubSeq(e, 1, i + 1) = SubSeq(e, 1, (i + 1) - 1) \o <<e[i + 1]>>
    <3>1. i + 1 \in 1 .. n
      BY <2>1, Zenon
    <3> QED
      BY <2>1, <3>1, ListGrows, Zenon DEF n
  <2> QED
    BY <2>1, <2>2, <2>3, <2>4, Zenon
<1> HIDE DEF P
<1>6. Nat \subseteq P
  BY <1>4, <1>5, SetInduction, Zenon
<1>7. n <= n
  BY <1>1
<1>8. f[n] = SubSeq(e, 1, n)
  BY <1>1, <1>6, <1>7, Zenon DEF P
<1> QED
  BY <1>2, <1>8, ListAll, Zenon DEF n
-----------------------------------------------------------------------------
\* h is c behind l.
Joined(h, l, c) ==
  /\ Len(l) \in Nat /\ DOMAIN l = 1 .. Len(l)
  /\ Len(c) \in Nat /\ DOMAIN c = 1 .. Len(c)
  /\ DOMAIN h = 1 .. Len(l) + Len(c)
  /\ \A i \in 1 .. Len(l) : h[i] = l[i]
  /\ \A i \in 1 .. Len(c) : h[Len(l) + i] = c[i]

\* The concatenation is.
LEMMA JoinedConcat ==
  ASSUME NEW S, NEW l \in Seq(S), NEW c \in Seq(S)
  PROVE  Joined(l \o c, l, c) /\ Range(l \o c) = Range(l) \cup Range(c)
<1>1. /\ l \o c \in Seq(S)
      /\ Len(l \o c) = Len(l) + Len(c)
      /\ \A i \in 1 .. Len(l) + Len(c) : (l \o c)[i] = IF i <= Len(l) THEN l[i] ELSE c[i - Len(l)]
  BY ListConcat, Zenon
<1>2. Len(l) \in Nat /\ DOMAIN l = 1 .. Len(l) /\ Len(c) \in Nat /\ DOMAIN c = 1 .. Len(c)
  OBVIOUS
<1>3. DOMAIN (l \o c) = 1 .. Len(l) + Len(c)
  BY <1>1, ListLen, Zenon
<1> DEFINE h == l \o c
<1> HIDE DEF h
<1>4. /\ \A i \in 1 .. Len(l) : h[i] = l[i]
      /\ \A i \in 1 .. Len(c) : h[Len(l) + i] = c[i]
  BY <1>1, <1>2 DEF h
<1>5. Joined(l \o c, l, c)
  BY <1>2, <1>3, <1>4, Zenon DEF Joined, h
<1>6. /\ \A i \in 1 .. Len(l) : i \in 1 .. Len(l) + Len(c)
      /\ \A i \in 1 .. Len(c) : Len(l) + i \in 1 .. Len(l) + Len(c)
      /\ \A i \in 1 .. Len(l) + Len(c) : i \in 1 .. Len(l) \/ \E j \in 1 .. Len(c) : i = Len(l) + j
  <2>1. \A m, n \in Nat : \A i \in 1 .. m + n : i \in 1 .. m \/ (i - m \in 1 .. n /\ i = m + (i - m))
    OBVIOUS
  <2>2. \A m, n \in Nat : (\A i \in 1 .. m : i \in 1 .. m + n) /\ \A i \in 1 .. n : m + i \in 1 .. m + n
    OBVIOUS
  <2>3. PICK m, n \in Nat : m = Len(l) /\ n = Len(c)
    BY <1>2, Zenon
  <2>4. \A i \in 1 .. m + n : i \in 1 .. m \/ \E j \in 1 .. n : i = m + j
    BY <2>1, Zenon
  <2>5. (\A i \in 1 .. m : i \in 1 .. m + n) /\ \A i \in 1 .. n : m + i \in 1 .. m + n
    BY <2>2, Zenon
  <2> QED
    BY <2>3, <2>4, <2>5, Zenon
<1>7. Range(l \o c) = Range(l) \cup Range(c)
  <2>1. DOMAIN h = 1 .. Len(l) + Len(c)
    BY <1>3, Zenon DEF h
  <2>2. Range(l) \cup Range(c) \subseteq Range(h)
    <3>1. ASSUME NEW i \in DOMAIN l PROVE l[i] \in Range(h)
      <4>1. h[i] = l[i] /\ i \in DOMAIN h
        BY <1>2, <1>4, <1>6, <2>1, Zenon
      <4> QED BY <4>1, Zenon DEF Range
    <3>2. ASSUME NEW i \in DOMAIN c PROVE c[i] \in Range(h)
      <4>1. h[Len(l) + i] = c[i] /\ Len(l) + i \in DOMAIN h
        BY <1>2, <1>4, <1>6, <2>1, Zenon
      <4> QED BY <4>1, Zenon DEF Range
    <3> QED
      BY <3>1, <3>2, Zenon DEF Range
  <2>3. Range(h) \subseteq Range(l) \cup Range(c)
    <3>1. ASSUME NEW i \in 1 .. Len(l) + Len(c) PROVE h[i] \in Range(l) \cup Range(c)
      <4>1. CASE i \in 1 .. Len(l)
        <5>1. h[i] = l[i] /\ i \in DOMAIN l
          BY <1>2, <1>4, <4>1, Zenon
        <5> QED BY <5>1, Zenon DEF Range
      <4>2. CASE \E j \in 1 .. Len(c) : i = Len(l) + j
        <5>1. PICK j \in 1 .. Len(c) : i = Len(l) + j
          BY <4>2, Zenon
        <5>2. h[i] = c[j] /\ j \in DOMAIN c
          BY <1>2, <1>4, <5>1, Zenon
        <5> QED BY <5>2, Zenon DEF Range
      <4> QED
        BY <1>6, <4>1, <4>2, Zenon
    <3> QED
      BY <2>1, <3>1, Zenon DEF Range
  <2> QED
    BY <2>2, <2>3, Zenon DEF h
<1> QED
  BY <1>5, <1>7, Zenon

\* What follows an entry does not matter to its order.
LEMMA BeforeJoined ==
  ASSUME NEW h, NEW l, NEW c, Joined(h, l, c), NEW a, NEW b, a \in Range(l)
  PROVE  Before(h, a, b) <=> Before(l, a, b)
<1>1. PICK n \in DOMAIN l : l[n] = a
  BY Zenon DEF Range
<1>2. ASSUME Before(l, a, b) PROVE Before(h, a, b)
  <2>1. PICK p \in 1 .. Len(l) : l[p] = a /\ \A q \in 1 .. p : l[q] # b
    BY <1>2, Zenon DEF Before, Joined
  <2>2. p \in DOMAIN h /\ h[p] = a /\ \A q \in 1 .. p : h[q] # b
    BY <2>1 DEF Joined
  <2> QED
    BY <2>2, Zenon DEF Before
<1>3. ASSUME Before(h, a, b) PROVE Before(l, a, b)
  <2>1. PICK p \in DOMAIN h : h[p] = a /\ \A q \in 1 .. p : h[q] # b
    BY <1>3, Zenon DEF Before
  <2>2. CASE p <= Len(l)
    <3>1. p \in DOMAIN l /\ l[p] = a /\ \A q \in 1 .. p : l[q] # b
      BY <2>1, <2>2 DEF Joined
    <3> QED
      BY <3>1, Zenon DEF Before
  <2>3. CASE ~(p <= Len(l))
    <3>1. \A q \in 1 .. n : l[q] # b
      BY <1>1, <2>1, <2>3 DEF Joined
    <3> QED
      BY <1>1, <3>1, Zenon DEF Before
  <2> QED
    BY <2>2, <2>3, Zenon
<1> QED
  BY <1>2, <1>3, Zenon

\* Entries that are repeated at the end change no order.
LEMMA RepeatKeeps ==
  ASSUME NEW h, NEW l, NEW c, Joined(h, l, c), Range(h) = Range(l) \cup Range(c), NEW w,
         FirstOccurrences(w, l), Range(c) \subseteq Range(l)
  PROVE  FirstOccurrences(w, h)
<1>1. Range(w) = Range(h)
  BY Zenon DEF FirstOccurrences
<1>2. \A i \in DOMAIN w : w[i] \in Range(l)
  BY Zenon DEF FirstOccurrences, Range
<1> QED
  BY <1>1, <1>2, BeforeJoined, Zenon DEF FirstOccurrences

\* Nor does a copy of the beginning in front.
LEMMA PrefixKeeps ==
  ASSUME NEW r, NEW x, NEW b, Joined(b, r, x), NEW h, Joined(h, r, b), NEW w,
         Range(b) = Range(r) \cup Range(x), Range(h) = Range(r) \cup Range(b),
         Len(b) = Len(r) + Len(x), FirstOccurrences(w, b)
  PROVE  FirstOccurrences(w, h)
<1>1. Range(w) = Range(h)
  BY Zenon DEF FirstOccurrences
<1>2. ASSUME NEW y, NEW z, Before(b, y, z) PROVE Before(h, y, z)
  <2>1. PICK p \in DOMAIN b : b[p] = y /\ \A q \in 1 .. p : b[q] # z
    BY <1>2, Zenon DEF Before
  <2>2. CASE p <= Len(r)
    <3>1. p \in DOMAIN h /\ h[p] = y /\ \A q \in 1 .. p : h[q] # z
      BY <2>1, <2>2 DEF Joined
    <3> QED
      BY <3>1, Zenon DEF Before
  <2>3. CASE ~(p <= Len(r))
    <3>1. Len(r) + p \in DOMAIN h /\ h[Len(r) + p] = y
      BY <2>1, <2>3 DEF Joined
    <3>2. ASSUME NEW q \in 1 .. Len(r) + p PROVE h[q] # z
      <4>1. CASE q <= Len(r)
        BY <2>1, <2>3, <3>2, <4>1 DEF Joined
      <4>2. CASE ~(q <= Len(r))
        <5>1. q - Len(r) \in 1 .. p /\ q - Len(r) \in 1 .. Len(b) /\ Len(r) + (q - Len(r)) = q
          BY <2>1, <3>2, <4>2 DEF Joined
        <5>2. h[Len(r) + (q - Len(r))] = b[q - Len(r)]
          BY <5>1, Zenon DEF Joined
        <5> QED
          BY <2>1, <5>1, <5>2, Zenon
      <4> QED
        BY <4>1, <4>2, Zenon
    <3> QED
      BY <3>1, <3>2, Zenon DEF Before
  <2> QED
    BY <2>2, <2>3, Zenon
<1>3. ASSUME NEW y, NEW z, Before(h, y, z) PROVE Before(b, y, z)
  <2>1. PICK p \in DOMAIN h : h[p] = y /\ \A q \in 1 .. p : h[q] # z
    BY <1>3, Zenon DEF Before
  <2>2. CASE p <= Len(r)
    <3>1. p \in DOMAIN b /\ b[p] = y /\ \A q \in 1 .. p : b[q] # z
      BY <2>1, <2>2 DEF Joined
    <3> QED
      BY <3>1, Zenon DEF Before
  <2>3. CASE ~(p <= Len(r))
    <3>1. p - Len(r) \in 1 .. Len(b) /\ Len(r) + (p - Len(r)) = p
      BY <2>1, <2>3 DEF Joined
    <3>2. b[p - Len(r)] = y
      BY <2>1, <3>1, Zenon DEF Joined
    <3>3. ASSUME NEW q \in 1 .. p - Len(r) PROVE b[q] # z
      <4>1. q \in 1 .. Len(b) /\ Len(r) + q \in 1 .. p
        BY <3>1, <3>3 DEF Joined
      <4>2. h[Len(r) + q] = b[q]
        BY <4>1, Zenon DEF Joined
      <4> QED
        BY <2>1, <4>1, <4>2, Zenon
    <3> QED
      BY <3>1, <3>2, <3>3, Zenon DEF Before, Joined
  <2> QED
    BY <2>2, <2>3, Zenon
<1> QED
  BY <1>1, <1>2, <1>3, Zenon DEF FirstOccurrences

\* New entries go behind those written before, in their order.
LEMMA FreshKeeps ==
  ASSUME NEW h, NEW l, NEW c, Joined(h, l, c), Range(h) = Range(l) \cup Range(c),
         NEW v, NEW w, Joined(v, w, c), Range(v) = Range(w) \cup Range(c),
         FirstOccurrences(w, l), IsInjective(c), Range(c) \cap Range(l) = {}
  PROVE  FirstOccurrences(v, h)
<1>1. Range(v) = Range(h)
  BY Zenon DEF FirstOccurrences
<1>2. /\ \A i \in DOMAIN l : l[i] \in Range(l)
      /\ \A i \in DOMAIN w : w[i] \in Range(l)
      /\ \A i \in DOMAIN c : c[i] \in Range(c)
      /\ \A i, j \in DOMAIN c : c[i] = c[j] => i = j
  BY Zenon DEF FirstOccurrences, Range, IsInjective
<1>3. \A i \in DOMAIN v : \/ i \in 1 .. Len(w) /\ v[i] = w[i]
                          \/ \E k \in 1 .. Len(c) : i = Len(w) + k /\ v[i] = c[k]
  <2> SUFFICES ASSUME NEW i \in DOMAIN v
               PROVE  \/ i \in 1 .. Len(w) /\ v[i] = w[i]
                      \/ \E k \in 1 .. Len(c) : i = Len(w) + k /\ v[i] = c[k]
    BY Zenon
  <2>1. CASE i <= Len(w)
    BY <2>1 DEF Joined
  <2>2. CASE ~(i <= Len(w))
    <3>1. i - Len(w) \in 1 .. Len(c) /\ i = Len(w) + (i - Len(w))
      BY <2>2 DEF Joined
    <3>2. v[Len(w) + (i - Len(w))] = c[i - Len(w)]
      BY <3>1, Zenon DEF Joined
    <3> QED
      BY <3>1, <3>2, Zenon
  <2> QED
    BY <2>1, <2>2, Zenon
<1>4. ASSUME NEW k \in 1 .. Len(c) PROVE Len(l) + k \in DOMAIN h /\ h[Len(l) + k] = c[k]
  BY <1>4 DEF Joined
<1>5. ASSUME NEW k \in 1 .. Len(c), NEW p \in DOMAIN h, h[p] = c[k] PROVE p = Len(l) + k
  <2>1. CASE p <= Len(l)
    <3>1. p \in DOMAIN l /\ h[p] = l[p] /\ k \in DOMAIN c
      BY <1>5, <2>1 DEF Joined
    <3> QED
      BY <1>2, <1>5, <3>1, Zenon
  <2>2. CASE ~(p <= Len(l))
    <3>1. p - Len(l) \in 1 .. Len(c) /\ p = Len(l) + (p - Len(l))
      BY <1>5, <2>2 DEF Joined
    <3>2. h[Len(l) + (p - Len(l))] = c[p - Len(l)]
      BY <3>1, Zenon DEF Joined
    <3>3. c[p - Len(l)] = c[k]
      BY <1>5, <3>1, <3>2, Zenon
    <3>4. p - Len(l) = k
      BY <1>2, <3>1, <3>3, Zenon DEF Joined
    <3> QED
      BY <3>1, <3>4, Zenon
  <2> QED
    BY <2>1, <2>2, Zenon
<1>6. ASSUME NEW i \in DOMAIN v, NEW j \in DOMAIN v PROVE i < j <=> Before(h, v[i], v[j])
  <2>1. CASE i \in 1 .. Len(w) /\ v[i] = w[i] /\ j \in 1 .. Len(w) /\ v[j] = w[j]
    <3>1. i \in DOMAIN w /\ j \in DOMAIN w
      BY <2>1, Zenon DEF Joined
    <3>2. Before(h, w[i], w[j]) <=> Before(l, w[i], w[j])
      BY <1>2, <3>1, BeforeJoined, Zenon
    <3> QED
      BY <2>1, <3>1, <3>2, Zenon DEF FirstOccurrences
  <2>2. ASSUME i \in 1 .. Len(w), v[i] = w[i], NEW k \in 1 .. Len(c), j = Len(w) + k, v[j] = c[k]
        PROVE  i < j <=> Before(h, v[i], v[j])
    <3>1. i < j
      BY <2>2 DEF Joined
    <3>w. i \in DOMAIN w /\ DOMAIN w = 1 .. Len(w)
      BY <2>2, Zenon DEF Joined
    <3>r. w[i] \in Range(l)
      BY <1>2, <3>w, Zenon
    <3>2. PICK p \in DOMAIN l : l[p] = w[i]
      BY <3>r, Zenon DEF Range
    <3>3. p \in DOMAIN h /\ h[p] = w[i] /\ p < Len(l) + k
      BY <2>2, <3>2 DEF Joined
    <3>4. ASSUME NEW q \in 1 .. p PROVE h[q] # c[k]
      <4>1. q \in DOMAIN h /\ q # Len(l) + k
        BY <2>2, <3>3, <3>4 DEF Joined
      <4> QED
        BY <1>5, <2>2, <4>1, Zenon
    <3>5. Before(h, v[i], v[j])
      BY <2>2, <3>3, <3>4, Zenon DEF Before
    <3> QED
      BY <3>1, <3>5, Zenon
  <2>3. ASSUME NEW k \in 1 .. Len(c), i = Len(w) + k, v[i] = c[k], j \in 1 .. Len(w), v[j] = w[j]
        PROVE  i < j <=> Before(h, v[i], v[j])
    <3>1. ~(i < j)
      BY <2>3 DEF Joined
    <3>w. j \in DOMAIN w /\ DOMAIN w = 1 .. Len(w)
      BY <2>3, Zenon DEF Joined
    <3>r. w[j] \in Range(l)
      BY <1>2, <3>w, Zenon
    <3>2. PICK p \in DOMAIN l : l[p] = w[j]
      BY <3>r, Zenon DEF Range
    <3>3. p \in 1 .. Len(l) + k /\ h[p] = w[j]
      BY <2>3, <3>2 DEF Joined
    <3>4. ~Before(h, c[k], w[j])
      BY <1>5, <2>3, <3>3, Zenon DEF Before
    <3> QED
      BY <2>3, <3>1, <3>4, Zenon
  <2>4. ASSUME NEW k \in 1 .. Len(c), i = Len(w) + k, v[i] = c[k],
               NEW m \in 1 .. Len(c), j = Len(w) + m, v[j] = c[m]
        PROVE  i < j <=> Before(h, v[i], v[j])
    <3>1. i < j <=> k < m
      BY <2>4 DEF Joined
    <3>2. ASSUME k < m PROVE Before(h, c[k], c[m])
      <4>1. ASSUME NEW q \in 1 .. Len(l) + k PROVE h[q] # c[m]
        <5>1. q \in DOMAIN h /\ q # Len(l) + m
          BY <2>4, <3>2, <4>1 DEF Joined
        <5> QED
          BY <1>5, <2>4, <5>1, Zenon
      <4> QED
        BY <1>4, <2>4, <4>1, Zenon DEF Before
    <3>3. ASSUME Before(h, c[k], c[m]) PROVE k < m
      <4>1. PICK p \in DOMAIN h : h[p] = c[k] /\ \A q \in 1 .. p : h[q] # c[m]
        BY <3>3, Zenon DEF Before
      <4>2. p = Len(l) + k
        BY <1>5, <2>4, <4>1, Zenon
      <4>3. h[Len(l) + m] = c[m]
        BY <1>4, <2>4, Zenon
      <4>4. ~(Len(l) + m \in 1 .. Len(l) + k)
        BY <4>1, <4>2, <4>3, Zenon
      <4> QED
        BY <2>4, <4>4 DEF Joined
    <3> QED
      BY <2>4, <3>1, <3>2, <3>3, Zenon
  <2> QED
    BY <1>3, <1>6, <2>1, <2>2, <2>3, <2>4, Zenon
<1> QED
  BY <1>1, <1>6, Zenon DEF FirstOccurrences

\* No entry is beyond its place.
Within(l) == \A p \in DOMAIN l : l[p] \in 1 .. p

\* A list without repetitions whose entries are not beyond their places has
\* each entry at its place.
LEMMA InPlace ==
  ASSUME NEW n \in Nat, NEW m, DOMAIN m = 1 .. n, Within(m), IsInjective(m)
  PROVE  \A i \in DOMAIN m : m[i] = i
<1> DEFINE T == {i \in 1 .. n : m[i] # i}
<1> SUFFICES ASSUME T # {} PROVE FALSE
  BY Zenon
<1>1. T \in SUBSET Nat
  OBVIOUS
<1>2. PICK x \in T : \A y \in T : x <= y
  BY <1>1, LeastOf, Zenon
<1>3. x \in 1 .. n /\ m[x] # x /\ m[x] \in 1 .. x
  BY <1>2, Zenon DEF Within
<1>4. m[x] \in 1 .. n /\ m[x] < x
  BY <1>3
<1>5. m[x] \notin T
  BY <1>2, <1>3, <1>4
<1>6. m[m[x]] = m[x]
  BY <1>4, <1>5, Zenon
<1>7. m[x] = x
  BY <1>3, <1>4, <1>6, Zenon DEF IsInjective
<1> QED
  BY <1>3, <1>7, Zenon

\* Entries appended at or behind their places keep it so.
LEMMA WithinJoined ==
  ASSUME NEW h, NEW l, NEW c, Joined(h, l, c), Within(l), \A i \in DOMAIN c : c[i] \in 1 .. Len(l) + i
  PROVE  Within(h)
<1> SUFFICES ASSUME NEW p \in DOMAIN h PROVE h[p] \in 1 .. p
  BY Zenon DEF Within
<1>1. CASE p <= Len(l)
  <2>1. p \in DOMAIN l /\ h[p] = l[p]
    BY <1>1 DEF Joined
  <2> QED
    BY <2>1, Zenon DEF Within
<1>2. CASE ~(p <= Len(l))
  <2>1. p - Len(l) \in 1 .. Len(c) /\ Len(l) + (p - Len(l)) = p
    BY <1>2 DEF Joined
  <2>2. h[Len(l) + (p - Len(l))] = c[p - Len(l)] /\ c[p - Len(l)] \in 1 .. Len(l) + (p - Len(l))
    BY <2>1, Zenon DEF Joined
  <2> QED
    BY <2>1, <2>2, Zenon
<1> QED
  BY <1>1, <1>2, Zenon
-----------------------------------------------------------------------------
Index == Nat \ {0}

FrameType == [ents : Seq(Index), whole : BOOLEAN]

PC == {"none", "replay", "ready", "write", "store", "save", "copy", "upload", "compact",
       "rewrite", "remove", "rename", "create", "purge", "advance", "ended"}

NodeType == [pc : PC, batch : Seq(Index), mem : Seq(Index), next : Index, pm : BOOLEAN, snap : Nat]

\* A batch that is to be written or stored is not empty.
Loaded(n) == n.pc \in {"replay", "write", "store"} => n.batch # <<>>

FilesTyped == rotated \in Seq(Seq(FrameType)) /\ wlog \in Seq(FrameType)

NodesTyped == node \in [Life -> NodeType] /\ \A k \in Life : Loaded(node[k])

SchedTyped == sched \in [pc : {"idle", "copy", "upload", "ended"}, snap : 0 .. snapId]

\* The types with what keeps them: indexes are not 0, so that a batch has a
\* place in the memory.
TInv == FilesTyped /\ NodesTyped /\ SchedTyped /\ cut \subseteq snaps /\ written \in Seq(Index)

\* No snapshot is beyond the last id.
SnapsTyped == snapId \in Nat /\ snaps \subseteq 1 .. snapId /\ uploads \subseteq 1 .. snapId

\* The greatest of a set below n.
LEMMA GreatestOf ==
  ASSUME NEW n \in Nat, NEW S \in SUBSET (1 .. n), S # {}
  PROVE  Max(S) \in S
<1> DEFINE T == {b \in Nat : \A x \in S : x <= b}
<1>1. n \in T /\ T \in SUBSET Nat
  OBVIOUS
<1> HIDE DEF T
<1>2. PICK m \in T : \A y \in T : m <= y
  BY <1>1, LeastOf, Zenon
<1>3. m \in Nat /\ \A x \in S : x <= m /\ x \in Nat /\ x >= 1
  BY <1>2 DEF T
<1>4. m \in S
  <2> SUFFICES ASSUME m \notin S PROVE FALSE
    BY Zenon
  <2>1. \A x \in S : m \in Nat /\ x \in Nat /\ x >= 1 /\ x <= m /\ x # m
    BY <1>3, Zenon
  <2>2. \A i, j \in Nat : i >= 1 /\ i <= j /\ i # j => i <= j - 1 /\ j - 1 \in Nat
    OBVIOUS
  <2>3. m - 1 \in Nat /\ \A x \in S : x <= m - 1
    BY <2>1, <2>2, Zenon
  <2>4. m - 1 \in T
    BY <2>3, Zenon DEF T
  <2>5. m <= m - 1
    BY <1>2, <2>4, Zenon
  <2> QED
    BY <1>3, <2>5
<1>5. \A x \in S : m >= x
  BY <1>3
<1> QED
  BY <1>4, <1>5, Zenon DEF Max

\* A start copies a snapshot that is there.
LEMMA LoadCopies ==
  ASSUME SnapsTyped, NEW l \in LoadSnapshot
  PROVE  l.snaps \subseteq snaps \cup uploads /\ (cut \subseteq snaps => l.cut \subseteq l.snaps)
<1>1. snapId \in Nat /\ uploads \in SUBSET (1 .. snapId)
  BY Zenon DEF SnapsTyped
<1>2. ASSUME NEW S, NEW c, l \in Openings(S, c) PROVE l.snaps = S /\ l.cut = c
  <2>1. PICK f : l = Opened(S, c, f)
    BY <1>2, Zenon DEF Openings
  <2> QED
    BY <2>1 DEF Opened
<1>3. CASE l \in Openings(snaps, cut)
  BY <1>2, <1>3, Zenon
<1>4. CASE l = Opened(snaps, cut, TRUE)
  BY <1>4 DEF Opened
<1>5. CASE uploads # {} /\ \E c \in SUBSET {Newest(uploads)} : l \in Openings({Newest(uploads)}, c)
  <2>1. PICK c \in SUBSET {Newest(uploads)} : l \in Openings({Newest(uploads)}, c)
    BY <1>5, Zenon
  <2>2. Newest(uploads) \in uploads
    BY <1>1, <1>5, GreatestOf, Zenon DEF Newest
  <2>3. l.snaps = {Newest(uploads)} /\ l.cut = c
    BY <1>2, <2>1, Zenon
  <2> QED
    BY <2>2, <2>3, Zenon
<1> QED
  BY <1>3, <1>4, <1>5, Zenon DEF LoadSnapshot

\* Ids only grow, and no step makes a snapshot but with the next one.
LEMMA SnapsHold == Spec => []SnapsTyped
<1>1. Init => SnapsTyped
  BY DEF Init, WALInit, SnapsTyped
<1>2. SnapsTyped /\ [Next]_vars => SnapsTyped'
  <2> SUFFICES ASSUME SnapsTyped, [Next]_vars PROVE SnapsTyped'
    BY Zenon
  <2>1. ASSUME snapId' = snapId, snaps' \subseteq snaps \cup uploads, uploads' \subseteq snaps \cup uploads
        PROVE  SnapsTyped'
    BY <2>1, Zenon DEF SnapsTyped
  <2>2. CASE SaveCreate
    BY <2>2 DEF SaveCreate, SnapsTyped
  <2>3. ASSUME NEW id, SaveCopy(id) \/ SaveUpload(id) PROVE SnapsTyped'
    <3>1. uploads' \subseteq snaps \cup uploads /\ UNCHANGED <<snaps, snapId>>
      BY <2>3, Zenon DEF SaveCopy, SaveUpload, Upload
    <3> QED
      BY <2>1, <3>1, Zenon
  <2>4. CASE PurgeOldSnapshots(Keep)
    <3>1. snaps' \subseteq snaps /\ UNCHANGED <<uploads, snapId>>
      BY <2>4, Zenon DEF PurgeOldSnapshots, Purged
    <3> QED
      BY <2>1, <3>1, Zenon
  <2>5. CASE Start \/ StartUnread
    <3>1. snaps' \subseteq snaps \cup uploads /\ UNCHANGED <<uploads, snapId>>
      BY <2>5, LoadCopies, Zenon DEF Start, StartUnread, Begins
    <3> QED
      BY <2>1, <3>1, Zenon
  <2>6. CASE NewDirectory
    BY <2>1, <2>6, Zenon DEF NewDirectory
  <2>7. CASE UNCHANGED snapVars
    BY <2>1, <2>7, Zenon DEF snapVars
  <2>8. CASE SchedulerSave
    BY <2>2, <2>3, <2>8, Zenon DEF SchedulerSave
  <2>9. ASSUME NEW k \in Life, Save(k) PROVE SnapsTyped'
    BY <2>2, <2>3, <2>9, Zenon DEF Save
  <2>10. ASSUME NEW k \in Life, Rotate(k) PROVE SnapsTyped'
    BY <2>4, <2>7, <2>10, Zenon DEF Rotate
  <2>11. ASSUME NEW k \in Life, NEW size \in 1 .. Threshold, Ready(k, size) PROVE SnapsTyped'
    BY <2>7, <2>11, Zenon DEF Ready
  <2>12. ASSUME NEW k \in Life, LoopStep(k) PROVE SnapsTyped'
    <3>1. CASE Replay(k) \/ Write(k) \/ Store(k) \/ WriteFails(k)
      BY <2>7, <3>1, Zenon DEF Replay, Write, Store, WriteFails
    <3>2. CASE StepFails(k) \/ Compact(k) \/ RewriteFails(k) \/ Advance(k)
      BY <2>7, <3>2, Zenon DEF StepFails, Compact, RewriteFails, Advance
    <3>3. CASE LoopEnds(k) \/ StorePanics(k)
      BY <2>7, <3>3, Zenon DEF LoopEnds, StorePanics, Dies
    <3> QED
      BY <2>9, <2>10, <2>12, <3>1, <3>2, <3>3, Zenon DEF LoopStep
  <2>13. CASE Stop \/ Crash \/ SchedulerStop \/ UNCHANGED vars
    BY <2>7, <2>13, Zenon DEF Stop, Crash, Dies, SchedulerStop, vars
  <2> QED
    BY <2>5, <2>6, <2>8, <2>11, <2>12, <2>13, Zenon DEF Next
<1> QED
  BY <1>1, <1>2, PTL DEF Spec

\* What is appended to a list of S.
LEMMA AppendTyped == \A S : \A f \in Seq(S), r \in S : Append(f, r) \in Seq(S)
OBVIOUS

\* What is read of a file is a part of it.
LEMMA WholeTyped ==
  ASSUME NEW f \in Seq(FrameType)
  PROVE  Whole(f) \in Seq(FrameType)
<1> DEFINE torn == {j \in DOMAIN f : IsTorn(f[j])}
<1>1. CASE torn = {}
  BY <1>1, Zenon DEF Whole
<1>2. CASE torn # {}
  <2>1. torn \in SUBSET Nat /\ torn \subseteq 1 .. Len(f)
    OBVIOUS
  <2> HIDE DEF torn
  <2>2. \E x \in torn : \A y \in torn : x <= y
    BY <1>2, <2>1, LeastOf, Zenon
  <2>3. Min(torn) \in torn
    BY <2>2, Zenon DEF Min
  <2>4. PICK m \in 1 .. Len(f) : m = Min(torn)
    BY <2>1, <2>3, Zenon
  <2>5. 1 \in Int /\ m - 1 \in Int /\ \A i \in 1 .. m - 1 : i \in 1 .. Len(f)
    OBVIOUS
  <2>6. \A i \in 1 .. m - 1 : f[i] \in FrameType
    BY <2>5, ListElement, Zenon
  <2>7. SubSeq(f, 1, m - 1) \in Seq(FrameType)
    BY <2>5, <2>6, ListPart, Zenon
  <2> QED
    BY <1>2, <2>4, <2>7, Zenon DEF Whole, torn
<1> QED
  BY <1>1, <1>2, Zenon

\* The lists of entries of a file's frames.
Payloads(f) == [i \in DOMAIN f |-> f[i].ents]

\* They are lists of indexes.
LEMMA PayloadsTyped ==
  ASSUME NEW f \in Seq(FrameType)
  PROVE  Payloads(f) \in Seq(Seq(Index)) /\ Len(Payloads(f)) = Len(f)
<1>1. \A i \in 1 .. Len(f) : f[i].ents \in Seq(Index)
  <2> SUFFICES ASSUME NEW i \in 1 .. Len(f) PROVE f[i].ents \in Seq(Index)
    BY Zenon
  <2>1. f[i] \in FrameType
    BY ListElement, Zenon
  <2> QED
    BY <2>1, Zenon DEF FrameType
<1>2. DOMAIN f = 1 .. Len(f) /\ Len(f) \in Nat
  OBVIOUS
<1>3. Payloads(f) \in [1 .. Len(f) -> Seq(Index)]
  BY <1>1, <1>2, Zenon DEF Payloads
<1>4. \A S : \A n \in Nat : \A s \in [1 .. n -> S] : s \in Seq(S) /\ Len(s) = n
  OBVIOUS
<1> QED
  BY <1>2, <1>3, <1>4, Zenon

\* So is what a file holds.
LEMMA EntriesTyped ==
  ASSUME NEW f \in Seq(FrameType)
  PROVE  Entries(f) \in Seq(Index)
BY PayloadsTyped, FlattenType, Zenon DEF Entries, Payloads

\* What is read of the files r.
Contents(r) == [i \in DOMAIN r |-> Entries(Whole(r[i]))]

\* It is lists of indexes.
LEMMA ContentsTyped ==
  ASSUME NEW r \in Seq(Seq(FrameType))
  PROVE  Contents(r) \in Seq(Seq(Index)) /\ Len(Contents(r)) = Len(r)
<1>1. \A i \in 1 .. Len(r) : Entries(Whole(r[i])) \in Seq(Index)
  <2> SUFFICES ASSUME NEW i \in 1 .. Len(r) PROVE Entries(Whole(r[i])) \in Seq(Index)
    BY Zenon
  <2>1. r[i] \in Seq(FrameType)
    BY ListElement, Zenon
  <2> QED
    BY <2>1, WholeTyped, EntriesTyped, Zenon
<1>2. DOMAIN r = 1 .. Len(r) /\ Len(r) \in Nat
  OBVIOUS
<1>3. Contents(r) \in [1 .. Len(r) -> Seq(Index)]
  BY <1>1, <1>2, Zenon DEF Contents
<1>4. \A S : \A n \in Nat : \A s \in [1 .. n -> S] : s \in Seq(S) /\ Len(s) = n
  OBVIOUS
<1> QED
  BY <1>2, <1>3, <1>4, Zenon

\* What the rotated files hold, and then what wal.log does.
LEMMA ReadSplit ==
  ASSUME NEW r \in Seq(Seq(FrameType)), NEW f \in Seq(FrameType)
  PROVE  Flatten(Contents(Append(r, f))) = Flatten(Contents(r)) \o Entries(Whole(f))
<1>1. Append(r, f) \in Seq(Seq(FrameType)) /\ Len(Append(r, f)) = Len(r) + 1 /\ Len(r) \in Nat
  BY ListAppend, ListLen, Zenon
<1>2. Append(r, f)[Len(r) + 1] = f /\ \A i \in 1 .. Len(r) : Append(r, f)[i] = r[i]
  BY ListAppend
<1>3. /\ Len(Contents(r)) = Len(r) /\ Len(Contents(Append(r, f))) = Len(r) + 1
      /\ DOMAIN r = 1 .. Len(r) /\ DOMAIN Append(r, f) = 1 .. Len(r) + 1
  BY <1>1, ContentsTyped, ListLen, Zenon
<1>4. /\ \A i \in 1 .. Len(r) : i \in 1 .. Len(r) + 1
      /\ Len(r) + 1 \in 1 .. Len(r) + 1
  BY <1>1
<1>5. \A i \in 1 .. Len(r) : Contents(r)[i] = Contents(Append(r, f))[i]
  BY <1>2, <1>3, <1>4, Zenon DEF Contents
<1>6. Contents(Append(r, f))[Len(r) + 1] = Entries(Whole(f))
  BY <1>2, <1>3, <1>4, Zenon DEF Contents
<1> QED
  BY <1>1, <1>3, <1>5, <1>6, FlattenLast, Zenon

\* What ReadWAL returns.
LEMMA ReadTyped ==
  ASSUME FilesTyped
  PROVE  /\ ReadWAL \in Seq(Index)
         /\ Flatten(Contents(rotated)) \in Seq(Index)
         /\ Entries(Whole(wlog)) \in Seq(Index)
         /\ ReadWAL = Flatten(Contents(rotated)) \o Entries(Whole(wlog))
<1>1. ReadWAL = Flatten(Contents(Append(rotated, wlog)))
  BY Zenon DEF ReadWAL, Contents, Files
<1>2. Append(rotated, wlog) \in Seq(Seq(FrameType))
  BY AppendTyped, Zenon DEF FilesTyped
<1> QED
  BY <1>1, <1>2, ContentsTyped, FlattenType, ReadSplit, WholeTyped, EntriesTyped, Zenon DEF FilesTyped

\* Compact(0) keeps all entries.
LEMMA KeptAll ==
  ASSUME NEW e \in Seq(Index)
  PROVE  Kept(e, 0) = e
<1> DEFINE ss == [i \in DOMAIN e |-> IF e[i] > 0 THEN <<e[i]>> ELSE <<>>]
<1>1. DOMAIN e = 1 .. Len(e) /\ Len(e) \in Nat
  OBVIOUS
<1>2. \A i \in 1 .. Len(e) : e[i] > 0
  BY ListElement DEF Index
<1>3. \A i \in 1 .. Len(e) : ss[i] = <<e[i]>>
  BY <1>1, <1>2, Zenon
<1>4. Len(ss) = Len(e)
  <2>1. DOMAIN ss = 1 .. Len(e)
    BY <1>1, Zenon
  <2>2. \A n \in Nat : \A s : s = [i \in 1 .. n |-> s[i]] => Len(s) = n
    OBVIOUS
  <2>3. ss = [i \in 1 .. Len(e) |-> ss[i]]
    BY <2>1, Zenon
  <2> QED
    BY <1>1, <2>2, <2>3, Zenon
<1> HIDE DEF ss
<1>5. Flatten(ss) = e
  BY <1>3, <1>4, FlattenSingles, Zenon
<1> QED
  BY <1>5, Zenon DEF Kept, ss

\* The ways a step changes the log files.
FileStep ==
  \/ UNCHANGED walVars \/ AppendWALTorn \/ CompactTruncate \/ RemoveRotated \/ RotateRename
  \/ \E b \in Seq(Index) : AppendWAL(b) \/ CompactWrite(b)
  \/ rotated' = <<>> /\ wlog' = <<>>

\* They leave files.
LEMMA FileStepTyped ==
  ASSUME FilesTyped, FileStep
  PROVE  FilesTyped'
<1>1. Torn \in FrameType /\ \A b \in Seq(Index) : Frame(b) \in FrameType
  <2>1. <<>> \in Seq(Index)
    OBVIOUS
  <2> QED
    BY <2>1, Zenon DEF Torn, Frame, FrameType
<1>2. \A S : <<>> \in Seq(S) /\ \A a, b \in S : <<a>> \in Seq(S) /\ <<a, b>> \in Seq(S)
  OBVIOUS
<1>3. CASE UNCHANGED walVars
  BY <1>3, Zenon DEF FilesTyped, walVars
<1>4. CASE AppendWALTorn
  BY <1>1, <1>4, AppendTyped, Zenon DEF FilesTyped, AppendWALTorn
<1>5. CASE CompactTruncate \/ RemoveRotated \/ (rotated' = <<>> /\ wlog' = <<>>)
  BY <1>2, <1>5, Zenon DEF FilesTyped, CompactTruncate, RemoveRotated
<1>6. CASE RotateRename
  BY <1>2, <1>6, AppendTyped, Zenon DEF FilesTyped, RotateRename
<1>7. ASSUME NEW b \in Seq(Index), AppendWAL(b) PROVE FilesTyped'
  BY <1>1, <1>7, AppendTyped, Zenon DEF FilesTyped, AppendWAL
<1>8. ASSUME NEW b \in Seq(Index), CompactWrite(b) PROVE FilesTyped'
  <2>1. wlog' = <<Frame(b)>> \/ wlog' = <<Frame(b), Torn>>
    BY <1>8, Zenon DEF CompactWrite
  <2> QED
    BY <1>1, <1>2, <1>8, <2>1, Zenon DEF FilesTyped, CompactWrite
<1>9. CASE \E b \in Seq(Index) : AppendWAL(b) \/ CompactWrite(b)
  <2>1. PICK b \in Seq(Index) : AppendWAL(b) \/ CompactWrite(b)
    BY <1>9, Zenon
  <2> QED
    BY <1>7, <1>8, <2>1, Zenon
<1> QED
  BY <1>3, <1>4, <1>5, <1>6, <1>9, Zenon DEF FileStep

\* Nothing else than the log files and the Nodes changes.
Plain == UNCHANGED <<snaps, cut, snapId, sched, written>>

\* A step of these.
LEMMA PlainTyped ==
  ASSUME TInv, FileStep, NodesTyped', Plain
  PROVE  TInv'
BY FileStepTyped, Zenon DEF TInv, SchedTyped, Plain

\* One Node changes.
LEMMA OneTyped ==
  ASSUME TInv, NEW x, NEW r \in NodeType, Loaded(r), node' = [node EXCEPT ![x] = r]
  PROVE  NodesTyped'
<1>1. node \in [Life -> NodeType] /\ \A k \in Life : Loaded(node[k])
  BY Zenon DEF TInv, NodesTyped
<1>2. node' \in [Life -> NodeType]
  BY <1>1, Zenon
<1>3. \A k \in Life : node'[k] = IF k = x THEN r ELSE node[k]
  BY <1>1, Zenon
<1>4. \A k \in Life : Loaded(node'[k])
  BY <1>1, <1>3, Zenon
<1> QED
  BY <1>2, <1>4, Zenon DEF NodesTyped, Loaded

\* A Node goes on, with what it has.
LEMMA GoesTyped ==
  ASSUME TInv, NEW k \in Life, NEW pc \in PC, Goes(k, pc),
         pc \in {"replay", "write", "store"} => node[k].batch # <<>>
  PROVE  NodesTyped'
<1> DEFINE r == [node[k] EXCEPT !.pc = pc]
<1>1. node[k] \in NodeType
  BY Zenon DEF TInv, NodesTyped
<1>2. r \in NodeType /\ r.pc = pc /\ r.batch = node[k].batch
  BY <1>1, Zenon DEF NodeType
<1>3. node' = [node EXCEPT ![k] = r] /\ Loaded(r)
  BY <1>2, Zenon DEF Goes, Loaded
<1> HIDE DEF r
<1> QED
  BY <1>2, <1>3, OneTyped, Zenon

\* The memory after a batch.
LEMMA MemoryTyped ==
  ASSUME NEW m \in Seq(Index), NEW b \in Seq(Index), b # <<>>, ~(b[1] > Len(m) + 1)
  PROVE  MemoryAppend(m, b) \in Seq(Index)
<1>1. b[1] \in Nat \ {0} /\ Len(m) \in Nat
  BY DEF Index
<1>2. 1 \in Int /\ b[1] - 1 \in Int /\ \A i \in 1 .. b[1] - 1 : i \in 1 .. Len(m)
  BY <1>1
<1>3. \A i \in 1 .. b[1] - 1 : m[i] \in Index
  BY <1>2, ListElement, Zenon
<1>4. SubSeq(m, 1, b[1] - 1) \in Seq(Index)
  BY <1>2, <1>3, ListPart, Zenon
<1> QED
  BY <1>4, ListConcat, Zenon DEF MemoryAppend

\* What a read of the log may give.
LEMMA OutcomeTyped ==
  ASSUME FilesTyped, NEW o \in ReadOutcomes
  PROVE  o.ents \in Seq(Index) /\ o.err \in BOOLEAN
<1>1. <<>> \in Seq(Index)
  OBVIOUS
<1>2. \/ o = [err |-> FALSE, ents |-> ReadWAL]
      \/ \E e \in BOOLEAN : o = [err |-> e, ents |-> <<>>]
  BY Zenon DEF ReadOutcomes
<1>3. CASE o = [err |-> FALSE, ents |-> ReadWAL]
  BY <1>3, ReadTyped, Zenon
<1>4. ASSUME NEW e \in BOOLEAN, o = [err |-> e, ents |-> <<>>] PROVE o.ents = <<>> /\ o.err \in BOOLEAN
  BY <1>4, Zenon
<1> QED
  BY <1>1, <1>2, <1>3, <1>4, Zenon

\* NoNode, and a Node whose goroutine ended.
LEMMA NoNodeTyped == NoNode \in NodeType /\ Ended \in NodeType /\ Loaded(NoNode) /\ Loaded(Ended)
<1>1. <<>> \in Seq(Index) /\ 1 \in Index /\ 0 \in Nat
  BY DEF Index
<1>2. NoNode \in NodeType
  BY <1>1, Zenon DEF NoNode, NodeType, PC
<1>3. Ended \in NodeType
  BY <1>1, Zenon DEF Ended, NoNode, NodeType, PC
<1> QED
  BY <1>2, <1>3, Zenon DEF NoNode, Ended, Loaded

\* The start of a Node, on the log or as on an empty one.
LEMMA StartTyped ==
  ASSUME SnapsTyped, TInv, Start \/ StartUnread
  PROVE  TInv'
<1>1. <<>> \in Seq(Index) /\ 1 \in Index /\ 0 \in Nat
  BY DEF Index
<1>2. PICK ents \in Seq(Index) : Begins(Found(ents))
  BY <1>1, OutcomeTyped, Zenon DEF Start, StartUnread, TInv
<1>3. Found(ents) \in NodeType
  BY <1>1, Zenon DEF Found, NoNode, NodeType, PC
<1>4. Loaded(Found(ents))
  BY Zenon DEF Found, NoNode, Loaded
<1>5. NodesTyped'
  BY <1>2, <1>3, <1>4, OneTyped, Zenon DEF Begins
<1>6. FileStep /\ UNCHANGED <<snapId, sched, written>> /\ cut' \subseteq snaps'
  BY <1>2, LoadCopies, Zenon DEF Begins, FileStep, TInv
<1> QED
  BY <1>5, <1>6, FileStepTyped, Zenon DEF TInv, SchedTyped

\* The loop's steps on the log.
LEMMA LogStepTyped ==
  ASSUME TInv, NEW k \in Life,
         \/ Replay(k) \/ Store(k) \/ WriteFails(k) \/ StepFails(k) \/ Compact(k)
         \/ RewriteFails(k) \/ Advance(k) \/ LoopEnds(k) \/ \E size \in 1 .. Threshold : Ready(k, size)
  PROVE  TInv'
<1> DEFINE n == node[k]
<1>1. n \in NodeType /\ Loaded(n)
  BY Zenon DEF TInv, NodesTyped
<1>2. /\ n.batch \in Seq(Index) /\ n.mem \in Seq(Index) /\ n.next \in Index /\ n.pm \in BOOLEAN /\ n.snap \in Nat
      /\ <<>> \in Seq(Index) /\ 0 \in Nat
  <2>1. n.batch \in Seq(Index) /\ n.mem \in Seq(Index) /\ n.next \in Index /\ n.pm \in BOOLEAN /\ n.snap \in Nat
    BY <1>1, Zenon DEF NodeType
  <2>2. <<>> \in Seq(Index) /\ 0 \in Nat
    OBVIOUS
  <2> QED
    BY <2>1, <2>2, Zenon
<1>3. ASSUME n.pc \in {"replay", "store"}, ~Missing(k) PROVE MemoryAppend(n.mem, n.batch) \in Seq(Index)
  BY <1>1, <1>2, <1>3, MemoryTyped, Zenon DEF Missing, Loaded
<1>4. AfterStore(k) \in PC /\ AfterStore(k) \notin {"replay", "write", "store"}
  BY Zenon DEF AfterStore, PC
<1>5. ASSUME NEW r \in NodeType, Loaded(r), node' = [node EXCEPT ![k] = r], FileStep, Plain PROVE TInv'
  BY <1>5, OneTyped, PlainTyped, Zenon
<1>6. ASSUME NEW pc \in PC, pc \in {"replay", "write", "store"} => n.batch # <<>>, Goes(k, pc), FileStep, Plain
      PROVE  TInv'
  BY <1>6, GoesTyped, PlainTyped, Zenon
<1>7. CASE Replay(k)
  <2> DEFINE r == [n EXCEPT !.pc = "ready", !.batch = <<>>, !.mem = MemoryAppend(n.mem, n.batch),
                            !.next = Len(n.batch) + 1]
  <2>1. MemoryAppend(n.mem, n.batch) \in Seq(Index)
    BY <1>3, <1>7, Zenon DEF Replay
  <2>2. Len(n.batch) + 1 \in Index
    BY <1>2 DEF Index
  <2>3. r \in NodeType /\ Loaded(r)
    BY <1>1, <1>2, <2>1, <2>2, Zenon DEF NodeType, PC, Loaded
  <2>4. node' = [node EXCEPT ![k] = r]
    BY <1>7, Zenon DEF Replay
  <2>5. FileStep /\ Plain
    BY <1>2, <1>7, Zenon DEF Replay, FileStep, Plain, snapVars, histVars
  <2> HIDE DEF r
  <2> QED
    BY <1>5, <2>3, <2>4, <2>5, Zenon
<1>8. CASE Store(k)
  <2> DEFINE r == [n EXCEPT !.pc = AfterStore(k), !.mem = MemoryAppend(n.mem, n.batch)]
  <2>1. MemoryAppend(n.mem, n.batch) \in Seq(Index)
    BY <1>3, <1>8, Zenon DEF Store
  <2>2. r \in NodeType /\ Loaded(r)
    BY <1>1, <1>2, <1>4, <2>1, Zenon DEF NodeType, Loaded
  <2>3. node' = [node EXCEPT ![k] = r]
    BY <1>8, Zenon DEF Store
  <2>4. FileStep /\ Plain
    BY <1>2, <1>8, Zenon DEF Store, FileStep, Plain, snapVars, histVars
  <2> HIDE DEF r
  <2> QED
    BY <1>5, <2>2, <2>3, <2>4, Zenon
<1>9. CASE WriteFails(k)
  <2> DEFINE r == [n EXCEPT !.pc = "ready", !.batch = <<>>]
  <2>1. FileStep /\ Plain
    BY <1>9, Zenon DEF WriteFails, FileStep, Plain, snapVars
  <2>2. \/ n.pc = "write" /\ Goes(k, "store")
        \/ Goes(k, AfterStore(k))
        \/ node' = [node EXCEPT ![k] = r]
    BY <1>9, Zenon DEF WriteFails
  <2>3. r \in NodeType /\ Loaded(r) /\ "store" \in PC
    BY <1>1, <1>2, Zenon DEF NodeType, PC, Loaded
  <2>4. n.pc = "write" => n.batch # <<>>
    BY <1>1, Zenon DEF Loaded
  <2> HIDE DEF r
  <2> QED
    BY <1>4, <1>5, <1>6, <2>1, <2>2, <2>3, <2>4, Zenon
<1>10. CASE StepFails(k) \/ RewriteFails(k)
  <2>1. FileStep /\ Plain /\ Goes(k, "advance") /\ "advance" \in PC
    BY <1>10, Zenon DEF StepFails, RewriteFails, FileStep, Plain, snapVars, PC
  <2> QED
    BY <1>6, <2>1, Zenon
<1>11. CASE Compact(k)
  <2>1. PICK o \in ReadOutcomes :
          IF o.err THEN Goes(k, "advance") /\ UNCHANGED walVars
          ELSE CompactTruncate /\ node' = [node EXCEPT ![k].pc = "rewrite", ![k].batch = Kept(o.ents, 0)]
    BY <1>11, Zenon DEF Compact
  <2> DEFINE r == [n EXCEPT !.pc = "rewrite", !.batch = Kept(o.ents, 0)]
  <2>2. o.ents \in Seq(Index)
    BY OutcomeTyped, Zenon DEF TInv
  <2>3. Kept(o.ents, 0) \in Seq(Index)
    BY <2>2, KeptAll, Zenon
  <2>4. r \in NodeType /\ Loaded(r) /\ "advance" \in PC
    BY <1>1, <1>2, <2>3, Zenon DEF NodeType, PC, Loaded
  <2>5. Plain /\ FileStep
    BY <1>11, <2>1, Zenon DEF Compact, Plain, FileStep, snapVars, histVars
  <2>6. Goes(k, "advance") \/ node' = [node EXCEPT ![k] = r]
    BY <2>1, Zenon
  <2> HIDE DEF r
  <2> QED
    BY <1>5, <1>6, <2>4, <2>5, <2>6, Zenon
<1>12. CASE Advance(k)
  <2> DEFINE r == [n EXCEPT !.pc = "ready", !.batch = <<>>, !.snap = 0]
  <2>1. r \in NodeType /\ Loaded(r)
    BY <1>1, <1>2, Zenon DEF NodeType, PC, Loaded
  <2>2. node' = [node EXCEPT ![k] = r]
    BY <1>12, Zenon DEF Advance
  <2>3. FileStep /\ Plain
    BY <1>12, Zenon DEF Advance, FileStep, Plain, snapVars
  <2> HIDE DEF r
  <2> QED
    BY <1>5, <2>1, <2>2, <2>3, Zenon
<1>13. CASE LoopEnds(k)
  <2>1. node' = [node EXCEPT ![k] = Ended] /\ FileStep /\ Plain
    BY <1>13, Zenon DEF LoopEnds, FileStep, Plain, snapVars, histVars
  <2> QED
    BY <1>5, <2>1, NoNodeTyped, Zenon
<1>14. ASSUME NEW size \in 1 .. Threshold, Ready(k, size) PROVE TInv'
  <2> DEFINE b == [i \in 1 .. size |-> n.next + i - 1]
             r == [n EXCEPT !.pc = "write", !.batch = b, !.next = @ + size]
  <2>1. size \in Nat \ {0} /\ n.next \in Nat \ {0}
    BY <1>2, NodeAssumption DEF Index
  <2>2. \A i \in 1 .. size : n.next + i - 1 \in Index
    <3> HIDE DEF n
    <3> QED
      BY <2>1 DEF Index
  <2>3. b \in Seq(Index) /\ b # <<>> /\ n.next + size \in Index
    <3>1. b \in [1 .. size -> Index] /\ size \in Nat
      BY <2>1, <2>2, Zenon
    <3>2. \A S : \A m \in Nat : \A s \in [1 .. m -> S] : s \in Seq(S) /\ (m # 0 => s # <<>>)
      OBVIOUS
    <3>3. n.next + size \in Index
      <4> HIDE DEF n
      <4> QED
        BY <2>1 DEF Index
    <3> QED
      BY <2>1, <3>1, <3>2, <3>3, Zenon
  <2> HIDE DEF b
  <2>4. r \in NodeType /\ Loaded(r)
    BY <1>1, <1>2, <2>3, Zenon DEF NodeType, PC, Loaded
  <2>5. node' = [node EXCEPT ![k] = r]
    BY <1>14, Zenon DEF Ready, b
  <2>6. FileStep /\ Plain
    BY <1>14, Zenon DEF Ready, FileStep, Plain, snapVars, histVars
  <2> HIDE DEF r
  <2> QED
    BY <1>5, <2>4, <2>5, <2>6, Zenon
<1> QED
  BY <1>7, <1>8, <1>9, <1>10, <1>11, <1>12, <1>13, <1>14, Zenon

\* The write of a batch.
LEMMA WriteTyped ==
  ASSUME TInv, NEW k \in Life, Write(k)
  PROVE  TInv'
<1>1. node[k] \in NodeType /\ Loaded(node[k]) /\ node[k].pc = "write"
  BY Zenon DEF TInv, NodesTyped, Write
<1>2. node[k].batch \in Seq(Index) /\ node[k].batch # <<>>
  BY <1>1, Zenon DEF NodeType, Loaded
<1>3. NodesTyped'
  BY <1>2, GoesTyped, Zenon DEF Write, PC
<1>4. FileStep /\ UNCHANGED <<snaps, cut, snapId, sched>>
  BY <1>2, Zenon DEF Write, FileStep, snapVars
<1>5. written' \in Seq(Index)
  BY <1>2, ListConcat, Zenon DEF Write, TInv
<1> QED
  BY <1>3, <1>4, <1>5, FileStepTyped, Zenon DEF TInv, SchedTyped

\* The loop's save.
LEMMA SaveTyped ==
  ASSUME SnapsTyped, TInv, NEW k \in Life, Save(k)
  PROVE  TInv'
<1>1. node[k] \in NodeType /\ snapId \in Nat /\ cut \subseteq snaps
  BY Zenon DEF TInv, NodesTyped, SnapsTyped
<1>2. UNCHANGED <<sched, written>> /\ FileStep
  BY Zenon DEF Save, FileStep
<1>3. \A i \in Nat : \A x \in 0 .. i : x \in 0 .. i + 1
  OBVIOUS
<1>4. ASSUME snapId' = snapId \/ snapId' = snapId + 1 PROVE SchedTyped'
  BY <1>1, <1>2, <1>3, <1>4, Zenon DEF TInv, SchedTyped
<1>5. CASE SaveCreate /\ node' = [node EXCEPT ![k].pc = "copy", ![k].snap = snapId + 1]
  <2> DEFINE r == [node[k] EXCEPT !.pc = "copy", !.snap = snapId + 1]
  <2>1. snapId + 1 \in Nat
    BY <1>1
  <2>2. r \in NodeType /\ Loaded(r)
    BY <1>1, <2>1, Zenon DEF NodeType, PC, Loaded
  <2>3. node' = [node EXCEPT ![k] = r]
    BY <1>5, Zenon
  <2> HIDE DEF r
  <2>4. NodesTyped'
    BY <2>2, <2>3, OneTyped, Zenon
  <2>5. cut' \subseteq snaps'
    BY <1>1, <1>5, Zenon DEF SaveCreate
  <2> QED
    BY <1>2, <1>4, <1>5, <2>4, <2>5, FileStepTyped, Zenon DEF TInv, SaveCreate
<1>6. CASE \/ SaveCopy(node[k].snap) /\ Goes(k, "upload")
           \/ SaveUpload(node[k].snap) /\ Goes(k, "compact")
  <2>1. NodesTyped'
    BY <1>6, GoesTyped, Zenon DEF PC
  <2>2. cut' \subseteq snaps' /\ snapId' = snapId
    BY <1>1, <1>6, Zenon DEF SaveCopy, SaveUpload
  <2> QED
    BY <1>2, <1>4, <2>1, <2>2, FileStepTyped, Zenon DEF TInv
<1> QED
  BY <1>5, <1>6, Zenon DEF Save

\* The rest of the compaction.
LEMMA RotateTyped ==
  ASSUME TInv, NEW k \in Life, Rotate(k)
  PROVE  TInv'
<1>1. node[k].batch \in Seq(Index)
  BY Zenon DEF TInv, NodesTyped, NodeType
<1>2. PICK pc \in {"remove", "rename", "create", "purge", "advance"} : Goes(k, pc)
  BY Zenon DEF Rotate
<1>3. NodesTyped'
  BY <1>2, GoesTyped, Zenon DEF PC
<1>4. FileStep
  BY <1>1, Zenon DEF Rotate, RotateCreate, FileStep
<1>5. UNCHANGED <<snapId, sched, written>> /\ cut' \subseteq snaps'
  BY Zenon DEF Rotate, snapVars, histVars, PurgeOldSnapshots, TInv
<1> QED
  BY <1>3, <1>4, <1>5, FileStepTyped, Zenon DEF TInv, SchedTyped

\* The scheduler.
LEMMA SchedulerTyped ==
  ASSUME SnapsTyped, TInv, SchedulerSave \/ SchedulerStop
  PROVE  TInv'
<1>1. UNCHANGED <<node, written>> /\ FileStep
  BY Zenon DEF SchedulerSave, SchedulerStop, FileStep, histVars
<1>2. NodesTyped'
  BY <1>1, Zenon DEF TInv, NodesTyped, Loaded
<1>3. snapId \in Nat /\ cut \subseteq snaps /\ sched \in [pc : {"idle", "copy", "upload", "ended"}, snap : 0 .. snapId]
  BY Zenon DEF TInv, SchedTyped, SnapsTyped
<1>4. 0 \in 0 .. snapId /\ snapId + 1 \in 0 .. snapId + 1
  BY <1>3
<1>5. CASE SaveCreate /\ sched' = [pc |-> "copy", snap |-> snapId + 1]
  <2>1. SchedTyped' /\ cut' \subseteq snaps'
    BY <1>3, <1>4, <1>5, Zenon DEF SchedTyped, SaveCreate
  <2> QED
    BY <1>1, <1>2, <2>1, FileStepTyped, Zenon DEF TInv
<1>6. CASE \/ SaveCopy(sched.snap) /\ sched' = [sched EXCEPT !.pc = "upload"]
           \/ SaveUpload(sched.snap) /\ sched' = [pc |-> "idle", snap |-> 0]
           \/ SchedulerStop
  <2>1. snapId' = snapId /\ cut' \subseteq snaps'
    BY <1>3, <1>6, Zenon DEF SaveCopy, SaveUpload, SchedulerStop, snapVars
  <2>2. sched' \in [pc : {"idle", "copy", "upload", "ended"}, snap : 0 .. snapId]
    <3>1. [sched EXCEPT !.pc = "upload"] \in [pc : {"idle", "copy", "upload", "ended"}, snap : 0 .. snapId]
      BY <1>3, Zenon
    <3>2. /\ [pc |-> "idle", snap |-> 0] \in [pc : {"idle", "copy", "upload", "ended"}, snap : 0 .. snapId]
          /\ [pc |-> "ended", snap |-> 0] \in [pc : {"idle", "copy", "upload", "ended"}, snap : 0 .. snapId]
      BY <1>4, Zenon
    <3> QED
      BY <1>6, <3>1, <3>2, Zenon DEF SchedulerStop
  <2>3. SchedTyped'
    BY <2>1, <2>2, Zenon DEF SchedTyped
  <2> QED
    BY <1>1, <1>2, <2>1, <2>3, FileStepTyped, Zenon DEF TInv
<1> QED
  BY <1>5, <1>6, Zenon DEF SchedulerSave

\* The process dies.
LEMMA DiesTyped ==
  ASSUME SnapsTyped, TInv, Dies, FileStep
  PROVE  TInv'
<1>1. /\ node' = [k \in Life |-> IF Running(k) THEN Ended ELSE node[k]]
      /\ sched' = [pc |-> "idle", snap |-> 0]
      /\ UNCHANGED <<snaps, cut, snapId, written>>
  BY Zenon DEF Dies, snapVars
<1>2. NodesTyped'
  <2>1. node \in [Life -> NodeType] /\ \A k \in Life : Loaded(node[k])
    BY Zenon DEF TInv, NodesTyped
  <2>2. node' \in [Life -> NodeType]
    BY <1>1, <2>1, NoNodeTyped, Zenon
  <2>3. \A k \in Life : Loaded(node'[k])
    BY <1>1, <2>1, NoNodeTyped, Zenon
  <2> QED
    BY <2>2, <2>3, Zenon DEF NodesTyped, Loaded
<1>3. snapId \in Nat
  BY Zenon DEF SnapsTyped
<1>4. 0 \in 0 .. snapId
  BY <1>3
<1>5. SchedTyped'
  BY <1>1, <1>4, Zenon DEF SchedTyped
<1> QED
  BY <1>1, <1>2, <1>5, FileStepTyped, Zenon DEF TInv

\* The directory is lost, or only a flag changes.
LEMMA StillTyped ==
  ASSUME TInv, NewDirectory \/ Stop \/ UNCHANGED vars
  PROVE  TInv'
<1>1. FileStep /\ UNCHANGED <<node, snapId, sched>>
  BY Zenon DEF NewDirectory, Stop, vars, FileStep, snapVars, walVars
<1>2. NodesTyped' /\ SchedTyped'
  BY <1>1, Zenon DEF TInv, NodesTyped, SchedTyped, Loaded
<1>3. <<>> \in Seq(Index)
  OBVIOUS
<1>4. cut' \subseteq snaps' /\ written' \in Seq(Index)
  BY <1>3, Zenon DEF TInv, NewDirectory, Stop, vars, snapVars, histVars
<1> QED
  BY <1>1, <1>2, <1>4, FileStepTyped, Zenon DEF TInv

\* The types hold always.
LEMMA Typing == Spec => []TInv
<1>1. Init => TInv
  <2> SUFFICES ASSUME Init PROVE TInv
    BY Zenon
  <2>1. \A S : <<>> \in Seq(S)
    OBVIOUS
  <2>2. NodesTyped
    BY NoNodeTyped, Zenon DEF Init, NodesTyped
  <2>3. snapId = 0 /\ 0 \in 0 .. 0
    BY DEF Init, WALInit
  <2> QED
    BY <2>1, <2>2, <2>3, Zenon DEF Init, WALInit, TInv, FilesTyped, SchedTyped
<1>2. SnapsTyped /\ TInv /\ [Next]_vars => TInv'
  <2> SUFFICES ASSUME SnapsTyped, TInv, [Next]_vars PROVE TInv'
    BY Zenon
  <2>1. CASE Crash
    <3>1. FileStep /\ Dies
      BY <2>1, Zenon DEF Crash, FileStep
    <3> QED
      BY <3>1, DiesTyped, Zenon
  <2>2. ASSUME NEW k \in Life, LoopStep(k) \/ \E size \in 1 .. Threshold : Ready(k, size)
        PROVE  TInv'
    <3>1. CASE StorePanics(k)
      <4>1. node[k].batch \in Seq(Index)
        BY Zenon DEF TInv, NodesTyped, NodeType
      <4>2. FileStep /\ Dies
        BY <3>1, <4>1, Zenon DEF StorePanics, FileStep
      <4> QED
        BY <4>2, DiesTyped, Zenon
    <3> QED
      BY <2>2, <3>1, LogStepTyped, WriteTyped, SaveTyped, RotateTyped, Zenon DEF LoopStep
  <2> QED
    BY <2>1, <2>2, StartTyped, StillTyped, SchedulerTyped, Zenon DEF Next
<1> QED
  BY <1>1, <1>2, SnapsHold, PTL DEF Spec

\* The files, snapshots, Nodes and the scheduler always have their types:
\* no index is 0 in a frame, and no snapshot is beyond the last id.
THEOREM TypesHold == Spec => []TypeOK
<1>1. SnapsTyped /\ TInv => TypeOK
  <2> SUFFICES ASSUME SnapsTyped, TInv PROVE TypeOK
    BY Zenon
  <2>1. \A f \in Range(Files) : f \in Seq([ents : Seq(Nat \ {0}), whole : BOOLEAN])
    <3>1. Files \in Seq(Seq(FrameType))
      BY AppendTyped, Zenon DEF Files, TInv, FilesTyped
    <3>2. Range(Files) \in SUBSET Seq(FrameType)
      <4>1. DOMAIN Files = 1 .. Len(Files)
        BY <3>1, ListLen, Zenon
      <4>2. \A i \in 1 .. Len(Files) : Files[i] \in Seq(FrameType)
        BY <3>1, ListElement, Zenon
      <4> QED
        BY <4>1, <4>2, Zenon DEF Range
    <3> QED
      BY <3>2, Zenon DEF FrameType, Index
  <2>2. \A s \in snaps \cup uploads : s \in 1 .. snapId
    BY Zenon DEF SnapsTyped
  <2>3. node \in [Life -> [pc : PC, batch : Seq(Nat), mem : Seq(Nat), next : Nat, pm : BOOLEAN, snap : Nat]]
    <3>1. Index \subseteq Nat
      BY Zenon DEF Index
    <3>2. Seq(Index) \subseteq Seq(Nat)
      BY DEF Index
    <3>3. \A n \in NodeType : n \in [pc : PC, batch : Seq(Nat), mem : Seq(Nat), next : Nat, pm : BOOLEAN, snap : Nat]
      BY <3>1, <3>2, Zenon DEF NodeType
    <3> QED
      BY <3>3, Zenon DEF TInv, NodesTyped
  <2> QED
    BY <2>1, <2>2, <2>3, Zenon DEF TypeOK, TInv, SchedTyped, PC
<1> QED
  BY <1>1, Typing, SnapsHold, PTL

-----------------------------------------------------------------------------
\* No frame of the file is torn.
Clean(f) == \A j \in DOMAIN f : ~IsTorn(f[j])

NoTorn == Clean(wlog) /\ \A i \in DOMAIN rotated : Clean(rotated[i])

\* What the rotated files hold.
Rotated(r) == Flatten(Contents(r))

\* What is read of the rotated files r and then of wal.log.
ReadOf(r, f) == Rotated(r) \o Entries(Whole(f))

\* A file without torn frames is read to its end.
LEMMA CleanWhole ==
  ASSUME NEW f, Clean(f)
  PROVE  Whole(f) = f
<1>1. {j \in DOMAIN f : IsTorn(f[j])} = {}
  BY Zenon DEF Clean
<1> QED
  BY <1>1, Zenon DEF Whole

\* A frame adds its entries.
LEMMA EntriesAppend ==
  ASSUME NEW f \in Seq(FrameType), NEW b \in Seq(Index)
  PROVE  /\ Append(f, Frame(b)) \in Seq(FrameType)
         /\ Entries(Append(f, Frame(b))) = Entries(f) \o b
         /\ Clean(f) => Clean(Append(f, Frame(b)))
<1> DEFINE g == Append(f, Frame(b))
<1>1. Frame(b) \in FrameType /\ Frame(b).ents = b /\ ~IsTorn(Frame(b))
  BY Zenon DEF Frame, FrameType, IsTorn
<1>2. g \in Seq(FrameType) /\ Len(g) = Len(f) + 1 /\ Len(f) \in Nat
  BY <1>1, ListAppend, ListLen, Zenon
<1>3. g[Len(f) + 1] = Frame(b) /\ \A i \in 1 .. Len(f) : g[i] = f[i]
  BY <1>1, ListAppend
<1> HIDE DEF g
<1>4. /\ Len(Payloads(f)) = Len(f) /\ Len(Payloads(g)) = Len(f) + 1
      /\ DOMAIN f = 1 .. Len(f) /\ DOMAIN g = 1 .. Len(f) + 1
  BY <1>2, PayloadsTyped, ListLen, Zenon
<1>5. /\ \A i \in 1 .. Len(f) : i \in 1 .. Len(f) + 1
      /\ Len(f) + 1 \in 1 .. Len(f) + 1
      /\ \A i \in 1 .. Len(f) + 1 : i = Len(f) + 1 \/ i \in 1 .. Len(f)
  BY <1>2
<1>6. \A i \in 1 .. Len(f) : Payloads(f)[i] = Payloads(g)[i]
  BY <1>3, <1>4, <1>5, Zenon DEF Payloads
<1>7. Payloads(g)[Len(f) + 1] = b
  BY <1>1, <1>3, <1>4, <1>5, Zenon DEF Payloads
<1>8. Flatten(Payloads(g)) = Flatten(Payloads(f)) \o b
  BY <1>2, <1>4, <1>6, <1>7, FlattenLast, Zenon
<1>9. Entries(g) = Entries(f) \o b
  BY <1>8, Zenon DEF Entries, Payloads
<1>10. Clean(f) => Clean(g)
  BY <1>1, <1>3, <1>4, <1>5, Zenon DEF Clean
<1> QED
  BY <1>2, <1>9, <1>10, Zenon DEF g

\* An empty file, and one of a single frame.
LEMMA EntriesFew ==
  ASSUME NEW b \in Seq(Index)
  PROVE  /\ Entries(<<>>) = <<>> /\ Clean(<<>>) /\ Entries(Whole(<<>>)) = <<>>
         /\ Entries(Whole(<<Frame(b)>>)) = b /\ Clean(<<Frame(b)>>)
         /\ Rotated(<<>>) = <<>>
<1>1. DOMAIN <<>> = {} /\ <<>> = [i \in {} |-> <<>>] /\ <<>> \in Seq(FrameType)
  OBVIOUS
<1>2. Payloads(<<>>) = <<>>
  BY <1>1, Zenon DEF Payloads
<1>3. Entries(<<>>) = <<>> /\ Clean(<<>>)
  BY <1>1, <1>2, FlattenNone, Zenon DEF Entries, Payloads, Clean
<1>4. Append(<<>>, Frame(b)) = <<Frame(b)>>
  OBVIOUS
<1>5. Entries(<<Frame(b)>>) = <<>> \o b /\ Clean(<<Frame(b)>>)
  BY <1>1, <1>3, <1>4, EntriesAppend, Zenon
<1>6. <<>> \o b = b
  BY ListEmpty, Zenon
<1>7. Contents(<<>>) = <<>>
  BY <1>1, Zenon DEF Contents
<1> QED
  BY <1>3, <1>5, <1>6, <1>7, CleanWhole, FlattenNone, Zenon DEF Rotated

\* ReadWAL, before and after a step.
LEMMA ReadIs ==
  ASSUME FilesTyped
  PROVE  ReadWAL = ReadOf(rotated, wlog)
BY ReadTyped, Zenon DEF ReadOf, Rotated

\* The same after a step.
LEMMA ReadIsNext ==
  ASSUME FilesTyped'
  PROVE  ReadWAL' = ReadOf(rotated', wlog')
<1>1. ReadWAL' = Flatten(Contents(Append(rotated', wlog')))
  BY Zenon DEF ReadWAL, Contents, Files
<1>2. rotated' \in Seq(Seq(FrameType)) /\ wlog' \in Seq(FrameType)
  BY Zenon DEF FilesTyped
<1> QED
  BY <1>1, <1>2, ReadSplit, Zenon DEF ReadOf, Rotated

\* A batch goes to the end of the log.
LEMMA AppendReads ==
  ASSUME FilesTyped, NoTorn, NEW b \in Seq(Index), AppendWAL(b)
  PROVE  NoTorn' /\ ReadWAL' = ReadWAL \o b /\ rotated' = rotated
<1>1. FilesTyped'
  BY FileStepTyped, Zenon DEF FileStep
<1>2. wlog' = Append(wlog, Frame(b)) /\ rotated' = rotated /\ wlog \in Seq(FrameType) /\ Clean(wlog)
  BY Zenon DEF AppendWAL, FilesTyped, NoTorn
<1>3. Clean(wlog') /\ Entries(wlog') = Entries(wlog) \o b
  BY <1>2, EntriesAppend, Zenon
<1>4. NoTorn'
  BY <1>2, <1>3, Zenon DEF NoTorn, Clean
<1>5. Whole(wlog') = wlog' /\ Whole(wlog) = wlog
  BY <1>2, <1>3, CleanWhole, Zenon
<1>6. Rotated(rotated) \in Seq(Index) /\ Entries(wlog) \in Seq(Index)
  BY <1>2, <1>5, ReadTyped, Zenon DEF Rotated
<1>7. (Rotated(rotated) \o Entries(wlog)) \o b = Rotated(rotated) \o (Entries(wlog) \o b)
  BY <1>6
<1> QED
  BY <1>1, <1>2, <1>3, <1>4, <1>5, <1>7, ReadIs, ReadIsNext, Zenon DEF ReadOf

\* The truncation leaves the rotated files.
LEMMA TruncateReads ==
  ASSUME FilesTyped, NoTorn, CompactTruncate
  PROVE  /\ NoTorn' /\ ReadWAL' = Rotated(rotated) /\ rotated' = rotated /\ wlog' = <<>>
         /\ Rotated(rotated) \in Seq(Index) /\ Entries(Whole(wlog)) \in Seq(Index)
         /\ ReadWAL = Rotated(rotated) \o Entries(Whole(wlog))
         /\ wlog = <<>> => ReadWAL' = ReadWAL
<1>1. FilesTyped' /\ rotated' = rotated /\ wlog' = <<>>
  BY FileStepTyped, Zenon DEF FileStep, CompactTruncate
<1>2. <<>> \in Seq(Index)
  OBVIOUS
<1>3. Rotated(rotated) \in Seq(Index) /\ Entries(Whole(wlog)) \in Seq(Index)
  BY ReadTyped, Zenon DEF Rotated
<1>4. Rotated(rotated) \o <<>> = Rotated(rotated)
  BY <1>3, ListEmpty, Zenon
<1>5. NoTorn'
  BY <1>1, <1>2, EntriesFew, Zenon DEF NoTorn, Clean
<1>6. ReadWAL' = Rotated(rotated)
  BY <1>1, <1>2, <1>4, ReadIsNext, EntriesFew, Zenon DEF ReadOf
<1>7. ReadWAL = ReadOf(rotated, wlog)
  BY ReadIs, Zenon
<1>8. wlog = <<>> => ReadWAL' = ReadWAL
  BY <1>2, <1>4, <1>6, <1>7, EntriesFew, Zenon DEF ReadOf
<1> QED
  BY <1>1, <1>3, <1>5, <1>6, <1>7, <1>8, Zenon DEF ReadOf

\* The compacted log goes behind the rotated files.
LEMMA RewriteReads ==
  ASSUME FilesTyped, NoTorn, wlog = <<>>, NEW b \in Seq(Index), CompactWrite(b)
  PROVE  NoTorn' /\ ReadWAL' = Rotated(rotated) \o b /\ rotated' = rotated /\ wlog' = <<Frame(b)>>
<1>1. FilesTyped'
  BY FileStepTyped, Zenon DEF FileStep
<1>2. rotated' = rotated /\ wlog' = <<Frame(b)>>
  BY Zenon DEF CompactWrite
<1>3. NoTorn'
  BY <1>2, EntriesFew, Zenon DEF NoTorn, Clean
<1> QED
  BY <1>1, <1>2, <1>3, ReadIsNext, EntriesFew, Zenon DEF ReadOf

\* Once the rotated files are gone there is the compacted log.
LEMMA RemoveReads ==
  ASSUME FilesTyped, NoTorn, NEW b \in Seq(Index), wlog = <<Frame(b)>>, RemoveRotated
  PROVE  NoTorn' /\ ReadWAL' = b
<1>1. FilesTyped'
  BY FileStepTyped, Zenon DEF FileStep
<1>2. rotated' = <<>> /\ wlog' = <<Frame(b)>>
  BY Zenon DEF RemoveRotated
<1>3. DOMAIN <<>> = {}
  OBVIOUS
<1>4. NoTorn'
  BY <1>2, <1>3, EntriesFew, Zenon DEF NoTorn, Clean
<1>5. <<>> \o b = b
  BY ListEmpty, Zenon
<1> QED
  BY <1>1, <1>2, <1>4, <1>5, ReadIsNext, EntriesFew, Zenon DEF ReadOf

\* The rename changes nothing of it.
LEMMA RenameReads ==
  ASSUME FilesTyped, NoTorn, RotateRename
  PROVE  NoTorn' /\ ReadWAL' = ReadWAL /\ wlog' = <<>>
<1>1. FilesTyped'
  BY FileStepTyped, Zenon DEF FileStep
<1>2. rotated' = Append(rotated, wlog) /\ wlog' = <<>> /\ rotated \in Seq(Seq(FrameType)) /\ wlog \in Seq(FrameType)
  BY Zenon DEF RotateRename, FilesTyped
<1>3. /\ Len(rotated) \in Nat /\ DOMAIN rotated = 1 .. Len(rotated)
      /\ DOMAIN rotated' = 1 .. Len(rotated) + 1
      /\ rotated'[Len(rotated) + 1] = wlog /\ \A i \in 1 .. Len(rotated) : rotated'[i] = rotated[i]
  BY <1>2
<1>4. \A i \in 1 .. Len(rotated) + 1 : i = Len(rotated) + 1 \/ i \in 1 .. Len(rotated)
  BY <1>3
<1>5. <<>> \in Seq(Index)
  OBVIOUS
<1>6. NoTorn'
  <2>1. \A i \in DOMAIN rotated' : Clean(rotated'[i])
    BY <1>3, <1>4, Zenon DEF NoTorn
  <2> QED
    BY <1>2, <1>5, <2>1, EntriesFew, Zenon DEF NoTorn, Clean
<1>7. Rotated(rotated') = ReadOf(rotated, wlog)
  BY <1>2, ReadSplit, Zenon DEF Rotated, ReadOf
<1>8. ReadWAL \in Seq(Index) /\ ReadWAL = ReadOf(rotated, wlog)
  BY ReadTyped, ReadIs, Zenon
<1>9. ReadWAL \o <<>> = ReadWAL
  BY <1>8, ListEmpty, Zenon
<1> QED
  BY <1>1, <1>2, <1>5, <1>6, <1>7, <1>8, <1>9, ReadIsNext, EntriesFew, Zenon DEF ReadOf

-----------------------------------------------------------------------------
\* The log l has the entries of w in order, and none beyond its place.
Ordered(l, w) == FirstOccurrences(w, l) /\ Within(l)

\* The entries of the batch follow the memory's.
Numbered(n) ==
  /\ n.next = Len(n.mem) + Len(n.batch) + 1
  /\ \A i \in DOMAIN n.batch : n.batch[i] = Len(n.mem) + i

\* The memory has all entries written.
Settled(n, w) == Range(w) \subseteq Range(n.mem) /\ n.next = Len(n.mem) + 1

\* What holds of a Node by its step, when l is what is read from the files,
\* c from the rotated ones, f is wal.log and w the entries written.
AtReplay(n, l) == n.batch = l /\ n.mem = <<>>

AtWrite(n, l, w) == Range(w) \subseteq Range(n.mem) /\ Numbered(n) /\ Len(n.mem) <= Len(l)

AtStore(n, l, w) ==
  /\ Range(w) \subseteq Range(n.mem) \cup Range(n.batch)
  /\ Range(n.batch) \subseteq Range(w)
  /\ Numbered(n)
  /\ Len(n.mem) + Len(n.batch) <= Len(l)

AtRewrite(n, c, f, w) ==
  /\ Settled(n, w) /\ Ordered(n.batch, w) /\ Len(n.mem) <= Len(n.batch)
  /\ f = <<>> /\ \E x \in Seq(Index) : n.batch = c \o x

AtRest(n, l, f, w) ==
  /\ Settled(n, w) /\ Len(n.mem) <= Len(l)
  /\ n.pc = "remove" => f = <<Frame(n.batch)>> /\ Ordered(n.batch, w) /\ Len(n.mem) <= Len(n.batch)
  /\ n.pc = "create" => f = <<>>

\* Of all steps but the replay, with s the stable entries.
Remembers(n, s) == Within(n.mem) /\ s \subseteq Range(n.mem)

NodeGood(n, l, c, f, w, s) ==
  /\ n.pc = "replay" => AtReplay(n, l)
  /\ n.pc # "replay" => Remembers(n, s)
  /\ n.pc = "write" => AtWrite(n, l, w)
  /\ n.pc = "store" => AtStore(n, l, w)
  /\ n.pc = "rewrite" => AtRewrite(n, c, f, w)
  /\ n.pc \notin {"replay", "write", "store", "rewrite"} => AtRest(n, l, f, w)

OneLoop == \A j, k \in Life : Running(j) /\ Running(k) => j = k

Sound ==
  /\ NoTorn
  /\ stable \subseteq Range(written)
  /\ (\A k \in Life : node[k].pc # "rewrite") => Ordered(ReadWAL, written)
  /\ \A k \in Life : Running(k) => NodeGood(node[k], ReadWAL, Rotated(rotated), wlog, written, stable)

\* The inductive invariant of the log, when Nodes do not overlap.
LInv == OneLoop /\ (~damaged => Sound)

\* A batch of entries the log has keeps its order.
LEMMA RepeatGood ==
  ASSUME NEW l \in Seq(Index), NEW b \in Seq(Index), NEW w, Ordered(l, w), Range(b) \subseteq Range(w),
         \A i \in DOMAIN b : b[i] \in 1 .. Len(l) + i
  PROVE  Ordered(l \o b, w)
<1>1. Joined(l \o b, l, b) /\ Range(l \o b) = Range(l) \cup Range(b)
  BY JoinedConcat
<1>2. Range(b) \subseteq Range(l)
  BY Zenon DEF Ordered, FirstOccurrences
<1>3. FirstOccurrences(w, l \o b)
  BY <1>1, <1>2, RepeatKeeps, Zenon DEF Ordered
<1>4. Within(l \o b)
  BY <1>1, WithinJoined, Zenon DEF Ordered
<1> QED
  BY <1>3, <1>4, Zenon DEF Ordered

\* So does a batch of the next entries.
LEMMA FreshGood ==
  ASSUME NEW l \in Seq(Index), NEW b \in Seq(Index), NEW w \in Seq(Index), Ordered(l, w), NEW m \in Nat,
         m <= Len(l), \A i \in DOMAIN b : b[i] = m + i, \A e \in Range(w) : e <= m
  PROVE  Ordered(l \o b, w \o b)
<1>1. /\ Joined(l \o b, l, b) /\ Range(l \o b) = Range(l) \cup Range(b)
      /\ Joined(w \o b, w, b) /\ Range(w \o b) = Range(w) \cup Range(b)
  BY JoinedConcat
<1>2. DOMAIN b = 1 .. Len(b) /\ Len(b) \in Nat /\ Len(l) \in Nat
  OBVIOUS
<1>3. IsInjective(b)
  <2>1. \A i, j \in DOMAIN b : b[i] = b[j] => i = j
    BY <1>2
  <2> QED
    BY <2>1, Zenon DEF IsInjective
<1>4. Range(b) \cap Range(l) = {}
  <2>1. \A i \in DOMAIN b : b[i] \in Int /\ ~(b[i] <= m)
    BY <1>2
  <2>2. Range(w) = Range(l)
    BY Zenon DEF Ordered, FirstOccurrences
  <2> QED
    BY <2>1, <2>2, Zenon DEF Range
<1>5. \A i \in DOMAIN b : b[i] \in 1 .. Len(l) + i
  BY <1>2
<1>6. FirstOccurrences(w \o b, l \o b)
  BY <1>1, <1>3, <1>4, FreshKeeps, Zenon DEF Ordered
<1>7. Within(l \o b)
  BY <1>1, <1>5, WithinJoined, Zenon DEF Ordered
<1> QED
  BY <1>6, <1>7, Zenon DEF Ordered

\* And the compacted log behind the rotated files, which are a part of it.
LEMMA PrefixGood ==
  ASSUME NEW c \in Seq(Index), NEW x \in Seq(Index), NEW w, Ordered(c \o x, w)
  PROVE  /\ Ordered(c \o (c \o x), w)
         /\ Len(c \o (c \o x)) = Len(c) + Len(c \o x) /\ Len(c) \in Nat /\ Len(c \o x) \in Nat
<1>1. PICK b \in Seq(Index) : b = c \o x
  BY ListConcat, Zenon
<1>2. /\ Joined(b, c, x) /\ Range(b) = Range(c) \cup Range(x)
      /\ Joined(c \o b, c, b) /\ Range(c \o b) = Range(c) \cup Range(b)
      /\ Len(b) = Len(c) + Len(x) /\ Len(c \o b) = Len(c) + Len(b)
      /\ DOMAIN b = 1 .. Len(b) /\ DOMAIN c = 1 .. Len(c) /\ Len(c) \in Nat /\ Len(x) \in Nat /\ Len(b) \in Nat
  <2>1. Joined(b, c, x) /\ Range(b) = Range(c) \cup Range(x)
    BY <1>1, JoinedConcat
  <2>2. Joined(c \o b, c, b) /\ Range(c \o b) = Range(c) \cup Range(b)
    BY JoinedConcat
  <2>3. Len(b) = Len(c) + Len(x) /\ Len(c \o b) = Len(c) + Len(b)
    BY <1>1, ListConcat, Zenon
  <2> QED
    BY <2>1, <2>2, <2>3, ListLen, Zenon
<1>3. FirstOccurrences(w, b) /\ Within(b)
  BY <1>1, Zenon DEF Ordered
<1>4. FirstOccurrences(w, c \o b)
  BY <1>2, <1>3, PrefixKeeps, Zenon
<1>5. Within(c)
  <2>1. \A p \in DOMAIN c : p \in DOMAIN b /\ c[p] = b[p]
    BY <1>2 DEF Joined
  <2> QED
    BY <1>3, <2>1, Zenon DEF Within
<1>6. \A i \in DOMAIN b : b[i] \in 1 .. Len(c) + i
  BY <1>2, <1>3 DEF Within
<1>7. Within(c \o b)
  BY <1>2, <1>5, <1>6, WithinJoined, Zenon
<1> QED
  BY <1>1, <1>2, <1>4, <1>7, Zenon DEF Ordered

\* The memory takes a batch that follows it in at its end.
LEMMA MemoryExtends ==
  ASSUME NEW m \in Seq(Index), NEW b \in Seq(Index), b # <<>>, b[1] = Len(m) + 1
  PROVE  MemoryAppend(m, b) = m \o b
<1>1. b[1] - 1 = Len(m)
  OBVIOUS
<1>2. SubSeq(m, 1, Len(m)) = m
  OBVIOUS
<1> QED
  BY <1>1, <1>2, Zenon DEF MemoryAppend

\* No entry of the list is beyond its length.
LEMMA WithinLength ==
  ASSUME NEW m \in Seq(Index), Within(m), NEW e \in Range(m)
  PROVE  e <= Len(m)
<1>1. PICK p \in DOMAIN m : m[p] = e
  BY Zenon DEF Range
<1>2. m[p] \in 1 .. p /\ p \in 1 .. Len(m) /\ Len(m) \in Nat
  BY Zenon, ListLen DEF Within
<1> QED
  BY <1>1, <1>2

-----------------------------------------------------------------------------
\* The files stay.
LEMMA FilesStay ==
  ASSUME UNCHANGED walVars
  PROVE  ReadWAL' = ReadWAL /\ (NoTorn => NoTorn') /\ rotated' = rotated /\ wlog' = wlog
<1>1. rotated' = rotated /\ wlog' = wlog
  BY Zenon DEF walVars
<1>2. ReadWAL' = ReadWAL
  BY <1>1, Zenon DEF ReadWAL, Files
<1> QED
  BY <1>1, <1>2, Zenon DEF NoTorn, Clean

\* A step of the one Node that runs, or that starts, leaves one.
LEMMA OnlyLoop ==
  ASSUME TInv, NEW x, NEW r, node' = [node EXCEPT ![x] = r], \A j \in Life : Running(j) => j = x
  PROVE  /\ OneLoop'
         /\ \A k \in Life : Running(k)' => node'[k] = r /\ k = x
<1>1. \A k \in Life : node'[k] = IF k = x THEN r ELSE node[k]
  BY Zenon DEF TInv, NodesTyped
<1>2. \A k \in Life : Running(k)' => node'[k] = r /\ k = x
  BY <1>1, Zenon DEF Running
<1> QED
  BY <1>2, Zenon DEF OneLoop, Running

\* What has to be shown for such a step.
LEMMA OneSound ==
  ASSUME TInv, NEW x, NEW r, node' = [node EXCEPT ![x] = r], \A j \in Life : Running(j) => j = x,
         NoTorn', stable' \subseteq Range(written'),
         Ordered(ReadWAL', written') \/ (x \in Life /\ r.pc = "rewrite"),
         r.pc \notin {"none", "ended"} => NodeGood(r, ReadWAL', Rotated(rotated'), wlog', written', stable')
  PROVE  Sound'
<1>1. x \in Life => node'[x] = r
  BY Zenon DEF TInv, NodesTyped
<1>2. \A k \in Life : Running(k)' => node'[k] = r
  BY OnlyLoop, Zenon
<1>3. (\A k \in Life : node'[k].pc # "rewrite") => Ordered(ReadWAL', written')
  BY <1>1, Zenon
<1>4. \A k \in Life : node'[k].pc \notin {"none", "ended"} =>
        NodeGood(node'[k], ReadWAL', Rotated(rotated'), wlog', written', stable')
  BY <1>2, Zenon DEF Running
<1>5. Rotated(rotated)' = Rotated(rotated')
  BY Zenon DEF Rotated, Contents
<1> QED
  BY <1>3, <1>4, <1>5, Zenon DEF Sound, Running, Ordered, NodeGood, AtReplay, AtWrite, AtStore, AtRewrite, AtRest, Remembers

\* What is known of the one Node that runs.
LEMMA Here ==
  ASSUME TInv, OneLoop, Sound, NEW k \in Life, Running(k)
  PROVE  /\ \A j \in Life : Running(j) => j = k
         /\ node[k] \in NodeType /\ Loaded(node[k])
         /\ node[k].mem \in Seq(Index) /\ node[k].batch \in Seq(Index) /\ node[k].next \in Index
         /\ NodeGood(node[k], ReadWAL, Rotated(rotated), wlog, written, stable)
         /\ node[k].pc # "rewrite" => Ordered(ReadWAL, written)
         /\ FilesTyped /\ NoTorn /\ ReadWAL \in Seq(Index) /\ written \in Seq(Index)
         /\ stable \subseteq Range(written)
<1>1. \A j \in Life : Running(j) => j = k
  BY Zenon DEF OneLoop
<1>2. node[k].pc # "rewrite" => Ordered(ReadWAL, written)
  <2>1. \A j \in Life : node[j].pc = "rewrite" => Running(j)
    BY Zenon DEF Running
  <2> QED
    BY <1>1, <2>1, Zenon DEF Sound
<1>3. node[k] \in NodeType /\ Loaded(node[k]) /\ FilesTyped /\ written \in Seq(Index)
  BY Zenon DEF TInv, NodesTyped
<1>4. node[k].mem \in Seq(Index) /\ node[k].batch \in Seq(Index) /\ node[k].next \in Index
  BY <1>3, Zenon DEF NodeType
<1>5. ReadWAL \in Seq(Index)
  BY <1>3, ReadTyped, Zenon
<1> QED
  BY <1>1, <1>2, <1>3, <1>4, <1>5, Zenon DEF Sound

\* The Nodes' steps at which nothing more is asked than at the start of a round.
Resting == {"ready", "save", "copy", "upload", "compact", "rename", "purge", "advance"}

\* A step of a Node that has settled, on its snapshots or into the next step.
LEMMA RestSound ==
  ASSUME TInv, OneLoop, Sound, NEW k \in Life, Running(k),
         node[k].pc \notin {"replay", "write", "store", "rewrite"},
         NEW r, node' = [node EXCEPT ![k] = r], r.mem = node[k].mem, r.next = node[k].next, r.pc \in Resting,
         NoTorn', ReadWAL' = ReadWAL, written' = written, stable' \subseteq stable \cup Range(written)
  PROVE  Sound'
<1>1. AtRest(node[k], ReadWAL, wlog, written) /\ Remembers(node[k], stable)
  BY Here, Zenon DEF NodeGood
<1>2. AtRest(r, ReadWAL', wlog', written')
  BY <1>1, Zenon DEF AtRest, Settled, Resting
<1>3. Remembers(r, stable')
  BY <1>1, Zenon DEF Remembers, AtRest, Settled
<1>4. NodeGood(r, ReadWAL', Rotated(rotated'), wlog', written', stable')
  BY <1>2, <1>3, Zenon DEF NodeGood, Resting
<1>5. Ordered(ReadWAL', written') /\ stable' \subseteq Range(written') /\ \A j \in Life : Running(j) => j = k
  BY Here, Zenon
<1> QED
  BY <1>4, <1>5, OneSound, Zenon

\* The replay repeats the log and takes it in.
LEMMA ReplaySound ==
  ASSUME TInv, OneLoop, Sound, NEW k \in Life, Replay(k)
  PROVE  Sound'
<1> DEFINE n == node[k]
           r == [n EXCEPT !.pc = "ready", !.batch = <<>>, !.mem = MemoryAppend(n.mem, n.batch),
                          !.next = Len(n.batch) + 1]
<1>1. Running(k) /\ n.pc = "replay" /\ AppendWAL(n.batch) /\ UNCHANGED <<written, stable>>
  BY Zenon DEF Running, Replay, histVars
<1>2. n.batch = ReadWAL /\ n.mem = <<>> /\ n.batch # <<>>
  BY <1>1, Here, Zenon DEF NodeGood, AtReplay, Loaded
<1>3. PICK l \in Seq(Index) : l = ReadWAL
  BY <1>1, Here, Zenon
<1>4. Ordered(l, written) /\ FilesTyped /\ NoTorn /\ stable \subseteq Range(written) /\ \A j \in Life : Running(j) => j = k
  BY <1>1, <1>3, Here, Zenon
<1>5. NoTorn' /\ ReadWAL' = l \o l
  BY <1>1, <1>2, <1>3, <1>4, AppendReads, Zenon
<1>6. /\ Len(l) \in Nat /\ DOMAIN l = 1 .. Len(l) /\ l # <<>>
      /\ \A i \in DOMAIN l : l[i] \in 1 .. i
  BY <1>2, <1>3, <1>4, ListLen, Zenon DEF Ordered, Within
<1>7. l[1] = 1 /\ \A i \in DOMAIN l : l[i] \in 1 .. Len(l) + i
  BY <1>6
<1>8. Range(written) = Range(l)
  BY <1>4, Zenon DEF Ordered, FirstOccurrences
<1>9. Ordered(ReadWAL', written')
  BY <1>1, <1>4, <1>5, <1>7, <1>8, RepeatGood, Zenon
<1>10. MemoryAppend(<<>>, l) = l
  <2>1. <<>> \in Seq(Index) /\ l[1] = Len(<<>>) + 1 /\ <<>> \o l = l
    BY <1>7
  <2> QED
    BY <1>6, <2>1, MemoryExtends, Zenon
<1>11. r.pc = "ready" /\ r.mem = l /\ r.next = Len(l) + 1
  BY <1>1, <1>2, <1>3, <1>10, Here, Zenon DEF NodeType
<1>12. Len(ReadWAL') = Len(l) + Len(l)
  BY <1>5, ListConcat, Zenon
<1>13. node' = [node EXCEPT ![k] = r]
  BY Zenon DEF Replay
<1> HIDE DEF r
<1>14. Len(r.mem) <= Len(ReadWAL')
  BY <1>6, <1>11, <1>12
<1>15. Remembers(r, stable') /\ AtRest(r, ReadWAL', wlog', written')
  BY <1>1, <1>4, <1>8, <1>11, <1>14, Zenon DEF Remembers, AtRest, Settled, Ordered
<1>16. NodeGood(r, ReadWAL', Rotated(rotated'), wlog', written', stable')
  BY <1>11, <1>15, Zenon DEF NodeGood
<1> QED
  BY <1>1, <1>4, <1>5, <1>9, <1>13, <1>16, OneSound, Zenon

\* A batch is handed out.
LEMMA ReadySound ==
  ASSUME TInv, OneLoop, Sound, NEW k \in Life, NEW size \in 1 .. Threshold, Ready(k, size)
  PROVE  Sound'
<1> DEFINE n == node[k]
           b == [i \in 1 .. size |-> n.next + i - 1]
           r == [n EXCEPT !.pc = "write", !.batch = b, !.next = @ + size]
<1>1. Running(k) /\ n.pc = "ready" /\ UNCHANGED walVars /\ UNCHANGED <<written, stable>>
  BY Zenon DEF Running, Ready, histVars
<1>2. AtRest(n, ReadWAL, wlog, written) /\ Remembers(n, stable) /\ n \in NodeType
  BY <1>1, Here, Zenon DEF NodeGood
<1>3. /\ Ordered(ReadWAL, written) /\ NoTorn /\ stable \subseteq Range(written) /\ \A j \in Life : Running(j) => j = k
      /\ ReadWAL' = ReadWAL /\ NoTorn'
  BY <1>1, Here, FilesStay, Zenon
<1>4. node' = [node EXCEPT ![k] = r]
  BY Zenon DEF Ready
<1>5. r.pc = "write" /\ r.mem = n.mem /\ r.batch = b /\ r.next = n.next + size
  BY <1>2, Zenon DEF NodeType
<1>6. n.next = Len(n.mem) + 1 /\ n.mem \in Seq(Index) /\ Len(n.mem) \in Nat /\ size \in Nat
  <2>1. n.next = Len(n.mem) + 1 /\ n.mem \in Seq(Index)
    BY <1>2, Zenon DEF AtRest, Settled, NodeType
  <2>2. size \in Nat
    BY NodeAssumption
  <2> QED
    BY <2>1, <2>2, ListLen, Zenon
<1>7. Numbered(r)
  <2>1. DOMAIN b = 1 .. size /\ Len(b) = size /\ \A i \in 1 .. size : b[i] = n.next + i - 1
    BY <1>6
  <2> HIDE DEF b, r
  <2>2. PICK m \in Nat : m = Len(n.mem)
    BY <1>6, Zenon
  <2>3. \A i \in 1 .. size : m + 1 + i - 1 = m + i
    BY <1>6, <2>2
  <2>4. \A i \in DOMAIN b : b[i] = m + i
    BY <1>6, <2>1, <2>2, <2>3, Zenon
  <2>5. m + 1 + size = m + size + 1
    BY <1>6, <2>2
  <2> QED
    BY <1>5, <1>6, <2>1, <2>2, <2>4, <2>5, Zenon DEF Numbered
<1> HIDE DEF r, b, n
<1>8. AtWrite(r, ReadWAL', written') /\ Remembers(r, stable')
  BY <1>1, <1>2, <1>3, <1>5, <1>7, Zenon DEF AtWrite, AtRest, Settled, Remembers
<1>9. NodeGood(r, ReadWAL', Rotated(rotated'), wlog', written', stable')
  BY <1>5, <1>8, Zenon DEF NodeGood
<1> QED
  BY <1>1, <1>3, <1>4, <1>9, OneSound, Zenon

\* The batch is written to the log.
LEMMA WriteSound ==
  ASSUME TInv, OneLoop, Sound, NEW k \in Life, Write(k)
  PROVE  Sound'
<1> DEFINE n == node[k]
           b == n.batch
           r == [n EXCEPT !.pc = "store"]
<1>1. Running(k) /\ n.pc = "write" /\ AppendWAL(b) /\ written' = written \o b /\ stable' = stable
  BY Zenon DEF Running, Write
<1>2. /\ AtWrite(n, ReadWAL, written) /\ Remembers(n, stable) /\ n \in NodeType /\ n.mem \in Seq(Index) /\ b \in Seq(Index)
      /\ Ordered(ReadWAL, written) /\ NoTorn /\ stable \subseteq Range(written) /\ \A j \in Life : Running(j) => j = k
      /\ FilesTyped /\ ReadWAL \in Seq(Index) /\ written \in Seq(Index)
  BY <1>1, Here, Zenon DEF NodeGood
<1>3. node' = [node EXCEPT ![k] = r]
  BY Zenon DEF Write, Goes
<1>4. r.pc = "store" /\ r.mem = n.mem /\ r.batch = b /\ r.next = n.next
  BY <1>2, Zenon DEF NodeType
<1>5. NoTorn' /\ ReadWAL' = ReadWAL \o b
  BY <1>1, <1>2, AppendReads, Zenon
<1> HIDE DEF r, n
<1>6. PICK m \in Nat : m = Len(n.mem)
  BY <1>2, ListLen, Zenon
<1>7. m <= Len(ReadWAL) /\ \A i \in DOMAIN b : b[i] = m + i
  BY <1>2, <1>6, Zenon DEF AtWrite, Numbered
<1>8. \A e \in Range(written) : e <= m
  BY <1>2, <1>6, WithinLength, Zenon DEF AtWrite, Remembers
<1>9. Ordered(ReadWAL', written')
  <2>1. Ordered(ReadWAL \o b, written \o b)
    BY <1>2, <1>7, <1>8, FreshGood, Zenon
  <2> QED
    BY <1>1, <1>5, <2>1, Zenon
<1>10. /\ Range(written') = Range(written) \cup Range(b)
       /\ Len(ReadWAL') = Len(ReadWAL) + Len(b) /\ Len(ReadWAL) \in Nat /\ Len(b) \in Nat
  <2>1. Range(written') = Range(written) \cup Range(b)
    <3>1. b \in Seq(Index) /\ written \in Seq(Index)
      BY <1>2, Zenon
    <3>2. Range(written \o b) = Range(written) \cup Range(b)
      BY <3>1, JoinedConcat
    <3> QED
      BY <1>1, <3>2, Zenon
  <2>2. Len(ReadWAL') = Len(ReadWAL) + Len(b)
    BY <1>2, <1>5, ListConcat, Zenon
  <2> QED
    BY <1>2, <2>1, <2>2, ListLen, Zenon
<1>11. m + Len(b) <= Len(ReadWAL')
  BY <1>6, <1>7, <1>10
<1>12. Numbered(r)
  BY <1>2, <1>4, Zenon DEF AtWrite, Numbered
<1>13. AtStore(r, ReadWAL', written')
  BY <1>2, <1>4, <1>6, <1>10, <1>11, <1>12, Zenon DEF AtStore, AtWrite
<1>14. Remembers(r, stable')
  BY <1>1, <1>2, <1>4, Zenon DEF Remembers
<1>15. NodeGood(r, ReadWAL', Rotated(rotated'), wlog', written', stable')
  BY <1>4, <1>13, <1>14, Zenon DEF NodeGood
<1>16. stable' \subseteq Range(written')
  BY <1>1, <1>2, <1>10, Zenon
<1> QED
  BY <1>2, <1>3, <1>5, <1>9, <1>15, <1>16, OneSound, Zenon

\* Nothing is missing before a batch.
LEMMA NothingMissing ==
  ASSUME TInv, OneLoop, Sound, NEW k \in Life, node[k].pc \in {"replay", "store"}
  PROVE  /\ node[k].batch # <<>> /\ node[k].batch[1] = Len(node[k].mem) + 1
         /\ ~Missing(k)
<1> DEFINE n == node[k]
<1>1. Running(k)
  BY Zenon DEF Running
<1>2. n.batch # <<>> /\ n.batch \in Seq(Index) /\ n.mem \in Seq(Index)
  BY <1>1, Here, Zenon DEF Loaded
<1>3. 1 \in DOMAIN n.batch /\ Len(n.mem) \in Nat /\ Len(<<>>) = 0
  BY <1>2
<1>4. n.batch[1] = Len(n.mem) + 1
  <2>1. CASE n.pc = "replay"
    <3>1. Within(n.batch) /\ n.mem = <<>>
      BY <1>1, <2>1, Here, Zenon DEF NodeGood, AtReplay, Ordered
    <3>2. n.batch[1] \in 1 .. 1
      BY <1>3, <3>1, Zenon DEF Within
    <3> HIDE DEF n
    <3> QED
      BY <1>3, <3>1, <3>2
  <2>2. CASE n.pc = "store"
    <3>1. Numbered(n)
      BY <1>1, <2>2, Here, Zenon DEF NodeGood, AtStore
    <3> QED
      BY <1>3, <3>1, Zenon DEF Numbered
  <2> QED
    BY <2>1, <2>2, Zenon
<1>5. ~Missing(k)
  <2>1. PICK m \in Nat : m = Len(n.mem)
    BY <1>3, Zenon
  <2>2. ~(m + 1 > m + 1)
    BY <2>1
  <2> QED
    BY <1>4, <2>1, <2>2, Zenon DEF Missing
<1> QED
  BY <1>2, <1>4, <1>5, Zenon

\* The memory takes the batch in; the log may get it again.
LEMMA StoreSound ==
  ASSUME TInv, OneLoop, Sound, NEW k \in Life, Store(k)
  PROVE  Sound'
<1> DEFINE n == node[k]
           b == n.batch
           r == [n EXCEPT !.pc = AfterStore(k), !.mem = MemoryAppend(n.mem, n.batch)]
<1>1. Running(k) /\ n.pc = "store" /\ written' = written /\ stable' = stable /\ (AppendWAL(b) \/ UNCHANGED walVars)
  BY Zenon DEF Running, Store, histVars
<1>2. /\ AtStore(n, ReadWAL, written) /\ Remembers(n, stable) /\ n \in NodeType /\ n.mem \in Seq(Index) /\ b \in Seq(Index)
      /\ Ordered(ReadWAL, written) /\ NoTorn /\ stable \subseteq Range(written) /\ \A j \in Life : Running(j) => j = k
      /\ FilesTyped /\ ReadWAL \in Seq(Index)
  BY <1>1, Here, Zenon DEF NodeGood
<1>3. node' = [node EXCEPT ![k] = r]
  BY Zenon DEF Store
<1>4. r.pc = AfterStore(k) /\ r.mem = MemoryAppend(n.mem, n.batch) /\ r.next = n.next
  BY <1>2, Zenon DEF NodeType
<1>5. MemoryAppend(n.mem, b) = n.mem \o b
  BY <1>1, <1>2, NothingMissing, MemoryExtends, Zenon
<1> HIDE DEF r, n
<1>6. PICK m \in Nat : m = Len(n.mem)
  BY <1>2, ListLen, Zenon
<1>7. /\ Range(b) \subseteq Range(written) /\ m + Len(b) <= Len(ReadWAL) /\ \A i \in DOMAIN b : b[i] = m + i
      /\ n.next = m + Len(b) + 1 /\ Range(written) \subseteq Range(n.mem) \cup Range(b)
  BY <1>2, <1>6, Zenon DEF AtStore, Numbered
<1>8. Len(b) \in Nat /\ Len(ReadWAL) \in Nat /\ DOMAIN b = 1 .. Len(b)
  BY <1>2, ListLen, Zenon
<1>9. \A i \in DOMAIN b : b[i] \in 1 .. m + i /\ b[i] \in 1 .. Len(ReadWAL) + i
  <2>1. PICK p \in Nat : p = Len(ReadWAL)
    BY <1>8, Zenon
  <2>2. PICK q \in Nat : q = Len(b)
    BY <1>8, Zenon
  <2>3. m + q <= p
    BY <1>7, <2>1, <2>2, Zenon
  <2>4. \A i \in 1 .. q : m + i \in 1 .. m + i /\ m + i \in 1 .. p + i
    BY <2>3
  <2> QED
    BY <1>7, <1>8, <2>1, <2>2, <2>4, Zenon
<1>10. NoTorn' /\ Ordered(ReadWAL', written') /\ m + Len(b) <= Len(ReadWAL')
  <2>1. CASE UNCHANGED walVars
    BY <1>1, <1>2, <1>7, <2>1, FilesStay, Zenon
  <2>2. CASE AppendWAL(b)
    <3>1. NoTorn' /\ ReadWAL' = ReadWAL \o b
      BY <1>2, <2>2, AppendReads, Zenon
    <3>2. Ordered(ReadWAL', written')
      BY <1>1, <1>2, <1>7, <1>9, <3>1, RepeatGood, Zenon
    <3>3. Len(ReadWAL') = Len(ReadWAL) + Len(b)
      BY <1>2, <3>1, ListConcat, Zenon
    <3>4. m + Len(b) <= Len(ReadWAL')
      <4>1. \A p, q \in Nat : m + q <= p => m + q <= p + q
        BY <1>6
      <4> QED
        BY <1>7, <1>8, <3>3, <4>1, Zenon
    <3> QED
      BY <3>1, <3>2, <3>4, Zenon
  <2> QED
    BY <1>1, <2>1, <2>2, Zenon
<1>11. /\ Joined(n.mem \o b, n.mem, b) /\ Range(n.mem \o b) = Range(n.mem) \cup Range(b)
       /\ Len(n.mem \o b) = m + Len(b)
  <2>1. Joined(n.mem \o b, n.mem, b) /\ Range(n.mem \o b) = Range(n.mem) \cup Range(b)
    BY <1>2, JoinedConcat
  <2> QED
    BY <1>2, <1>6, <2>1, ListConcat, Zenon
<1>12. Within(n.mem \o b)
  BY <1>2, <1>6, <1>9, <1>11, WithinJoined, Zenon DEF Remembers
<1>13. Remembers(r, stable')
  BY <1>1, <1>2, <1>4, <1>5, <1>11, <1>12, Zenon DEF Remembers
<1>14. AfterStore(k) \in {"save", "advance"}
  BY Zenon DEF AfterStore
<1>15. AtRest(r, ReadWAL', wlog', written')
  BY <1>1, <1>4, <1>5, <1>7, <1>10, <1>11, <1>14, Zenon DEF AtRest, Settled
<1>16. NodeGood(r, ReadWAL', Rotated(rotated'), wlog', written', stable')
  BY <1>4, <1>13, <1>14, <1>15, Zenon DEF NodeGood
<1> QED
  BY <1>1, <1>2, <1>3, <1>10, <1>16, OneSound, Zenon

\* Without torn frames a read of the log gives all entries.
LEMMA ReadsAll ==
  ASSUME FilesTyped, NoTorn, NEW o \in ReadOutcomes
  PROVE  o.err = FALSE /\ o.ents = ReadWAL
<1>1. rotated \in Seq(Seq(FrameType)) /\ wlog \in Seq(FrameType)
  BY Zenon DEF FilesTyped
<1>2. \A i \in DOMAIN Append(rotated, wlog) :
        \/ Append(rotated, wlog)[i] = wlog
        \/ i \in DOMAIN rotated /\ Append(rotated, wlog)[i] = rotated[i]
  <2>1. /\ Append(rotated, wlog) \in Seq(Seq(FrameType)) /\ Len(Append(rotated, wlog)) = Len(rotated) + 1
        /\ Append(rotated, wlog)[Len(rotated) + 1] = wlog
        /\ \A i \in 1 .. Len(rotated) : Append(rotated, wlog)[i] = rotated[i]
    BY <1>1, ListAppend
  <2>2. /\ DOMAIN Append(rotated, wlog) = 1 .. Len(rotated) + 1 /\ DOMAIN rotated = 1 .. Len(rotated)
        /\ Len(rotated) \in Nat
    BY <1>1, <2>1, ListLen, Zenon
  <2>3. \A n \in Nat : \A i \in 1 .. n + 1 : i = n + 1 \/ i \in 1 .. n
    OBVIOUS
  <2> QED
    BY <2>1, <2>2, <2>3, Zenon
<1>3. ~Garbled
  BY <1>2, Zenon DEF Garbled, Files, NoTorn, Clean
<1>4. o = [err |-> FALSE, ents |-> ReadWAL]
  BY <1>3, Zenon DEF ReadOutcomes
<1> QED
  BY <1>4, Zenon

\* Compact reads the log and truncates wal.log.
LEMMA CompactSound ==
  ASSUME TInv, OneLoop, Sound, NEW k \in Life, Compact(k)
  PROVE  Sound'
<1> DEFINE n == node[k]
           l == ReadWAL
           r == [n EXCEPT !.pc = "rewrite", !.batch = l]
<1>1. Running(k) /\ n.pc = "compact" /\ written' = written /\ stable' = stable
  BY Zenon DEF Running, Compact, histVars
<1>2. /\ AtRest(n, l, wlog, written) /\ Remembers(n, stable) /\ n \in NodeType
      /\ Ordered(l, written) /\ NoTorn /\ stable \subseteq Range(written) /\ \A j \in Life : Running(j) => j = k
      /\ FilesTyped /\ l \in Seq(Index)
  BY <1>1, Here, Zenon DEF NodeGood
<1>3. CompactTruncate /\ node' = [node EXCEPT ![k] = r]
  <2>1. PICK o \in ReadOutcomes :
          IF o.err THEN Goes(k, "advance") /\ UNCHANGED walVars
          ELSE CompactTruncate /\ node' = [node EXCEPT ![k].pc = "rewrite", ![k].batch = Kept(o.ents, 0)]
    BY Zenon DEF Compact
  <2>2. o.err = FALSE /\ Kept(o.ents, 0) = l
    BY <1>2, ReadsAll, KeptAll, Zenon
  <2> QED
    BY <2>1, <2>2, Zenon
<1>4. r.pc = "rewrite" /\ r.mem = n.mem /\ r.next = n.next /\ r.batch = l
  BY <1>2, Zenon DEF NodeType
<1>5. /\ NoTorn' /\ rotated' = rotated /\ wlog' = <<>>
      /\ Entries(Whole(wlog)) \in Seq(Index) /\ l = Rotated(rotated) \o Entries(Whole(wlog))
  BY <1>2, <1>3, TruncateReads, Zenon
<1> HIDE DEF r, n, l
<1>6. AtRewrite(r, Rotated(rotated'), wlog', written')
  BY <1>1, <1>2, <1>4, <1>5, Zenon DEF AtRewrite, AtRest, Settled
<1>7. Remembers(r, stable')
  BY <1>1, <1>2, <1>4, Zenon DEF Remembers
<1>8. NodeGood(r, ReadWAL', Rotated(rotated'), wlog', written', stable')
  BY <1>4, <1>6, <1>7, Zenon DEF NodeGood
<1> QED
  BY <1>1, <1>2, <1>3, <1>4, <1>5, <1>8, OneSound, Zenon

\* It writes the entries again.
LEMMA RewriteSound ==
  ASSUME TInv, OneLoop, Sound, NEW k \in Life, node[k].pc = "rewrite", CompactWrite(node[k].batch),
         Goes(k, "remove"), written' = written, stable' = stable
  PROVE  Sound'
<1> DEFINE n == node[k]
           b == n.batch
           r == [n EXCEPT !.pc = "remove"]
<1>1. Running(k)
  BY Zenon DEF Running
<1>2. /\ AtRewrite(n, Rotated(rotated), wlog, written) /\ Remembers(n, stable) /\ n \in NodeType /\ b \in Seq(Index)
      /\ n.mem \in Seq(Index)
      /\ NoTorn /\ stable \subseteq Range(written) /\ \A j \in Life : Running(j) => j = k
      /\ FilesTyped
  BY <1>1, Here, Zenon DEF NodeGood
<1>3. node' = [node EXCEPT ![k] = r]
  BY Zenon DEF Goes
<1>4. r.pc = "remove" /\ r.mem = n.mem /\ r.next = n.next /\ r.batch = b
  BY <1>2, Zenon DEF NodeType
<1>5. NoTorn' /\ ReadWAL' = Rotated(rotated) \o b /\ wlog' = <<Frame(b)>>
  BY <1>2, RewriteReads, Zenon DEF AtRewrite
<1>6. PICK x \in Seq(Index) : b = Rotated(rotated) \o x
  BY <1>2, Zenon DEF AtRewrite
<1>7. PICK c \in Seq(Index) : c = Rotated(rotated)
  BY <1>2, ReadTyped, Zenon DEF Rotated
<1>8. Ordered(b, written) /\ Settled(n, written) /\ Len(n.mem) <= Len(b)
  BY <1>2, Zenon DEF AtRewrite
<1> HIDE DEF r, n, b
<1>9. /\ Ordered(c \o (c \o x), written) /\ b = c \o x
      /\ Len(c \o (c \o x)) = Len(c) + Len(c \o x) /\ Len(c) \in Nat /\ Len(c \o x) \in Nat
  BY <1>6, <1>7, <1>8, PrefixGood, Zenon
<1>10. Ordered(ReadWAL', written') /\ Len(ReadWAL') = Len(c) + Len(b) /\ Len(c) \in Nat /\ Len(b) \in Nat
  BY <1>5, <1>7, <1>9, Zenon
<1>11. Len(r.mem) <= Len(ReadWAL')
  <2>1. Len(r.mem) \in Nat /\ Len(r.mem) <= Len(b)
    BY <1>2, <1>4, <1>8, ListLen, Zenon
  <2> QED
    BY <1>10, <2>1
<1>12. AtRest(r, ReadWAL', wlog', written')
  BY <1>4, <1>5, <1>8, <1>11, Zenon DEF AtRest, Settled
<1>13. Remembers(r, stable')
  BY <1>2, <1>4, Zenon DEF Remembers
<1>14. NodeGood(r, ReadWAL', Rotated(rotated'), wlog', written', stable')
  BY <1>4, <1>12, <1>13, Zenon DEF NodeGood
<1> QED
  BY <1>2, <1>3, <1>4, <1>5, <1>10, <1>14, OneSound, Zenon

\* The rest of the compaction's steps.
LEMMA RotateSound ==
  ASSUME TInv, OneLoop, Sound, NEW k \in Life, Rotate(k)
  PROVE  Sound'
<1> DEFINE n == node[k]
<1>1. Running(k) /\ written' = written /\ stable' = stable
  BY Zenon DEF Running, Rotate, histVars
<1>2. CASE n.pc = "rewrite"
  <2>1. CompactWrite(n.batch) /\ Goes(k, "remove")
    BY <1>2, Zenon DEF Rotate
  <2> QED
    BY <1>1, <1>2, <2>1, RewriteSound, Zenon
<1>3. CASE n.pc \in {"remove", "rename", "create", "purge"}
  <2>1. /\ AtRest(n, ReadWAL, wlog, written) /\ Remembers(n, stable) /\ n \in NodeType /\ n.batch \in Seq(Index)
        /\ Ordered(ReadWAL, written) /\ NoTorn /\ stable \subseteq Range(written) /\ \A j \in Life : Running(j) => j = k
        /\ FilesTyped
    BY <1>1, <1>3, Here, Zenon DEF NodeGood
  <2>2. ASSUME NEW pc, Goes(k, pc) PROVE /\ node' = [node EXCEPT ![k] = [n EXCEPT !.pc = pc]]
                                        /\ LET r == [n EXCEPT !.pc = pc]
                                           IN  r.pc = pc /\ r.mem = n.mem /\ r.next = n.next /\ r.batch = n.batch
    BY <2>1, <2>2, Zenon DEF Goes, NodeType
  <2>3. ASSUME NEW pc \in Resting, Goes(k, pc), NoTorn', ReadWAL' = ReadWAL PROVE Sound'
    <3> DEFINE r == [n EXCEPT !.pc = pc]
    <3>1. node' = [node EXCEPT ![k] = r] /\ r.pc = pc /\ r.mem = n.mem /\ r.next = n.next
      BY <2>2, <2>3, Zenon
    <3> HIDE DEF r
    <3>2. n.pc \notin {"replay", "write", "store", "rewrite"} /\ stable' \subseteq stable \cup Range(written)
      BY <1>1, <1>3, Zenon
    <3> QED
      BY <1>1, <2>3, <3>1, <3>2, RestSound, Zenon
  <2>4. CASE n.pc = "remove"
    <3>1. wlog = <<Frame(n.batch)>> /\ Ordered(n.batch, written) /\ Len(n.mem) <= Len(n.batch)
      BY <2>1, <2>4, Zenon DEF AtRest
    <3>2. Goes(k, "rename") /\ (RemoveRotated \/ UNCHANGED walVars)
      BY <2>4, Zenon DEF Rotate
    <3>3. CASE UNCHANGED walVars
      BY <2>1, <2>3, <3>2, <3>3, FilesStay, Zenon DEF Resting
    <3>4. CASE RemoveRotated
      <4> DEFINE r == [n EXCEPT !.pc = "rename"]
      <4>1. NoTorn' /\ ReadWAL' = n.batch
        BY <2>1, <3>1, <3>4, RemoveReads, Zenon
      <4>2. node' = [node EXCEPT ![k] = r] /\ r.pc = "rename" /\ r.mem = n.mem /\ r.next = n.next
        BY <2>2, <3>2, Zenon
      <4> HIDE DEF r
      <4>3. AtRest(r, ReadWAL', wlog', written') /\ Remembers(r, stable')
        BY <1>1, <2>1, <3>1, <4>1, <4>2, Zenon DEF AtRest, Settled, Remembers
      <4>4. NodeGood(r, ReadWAL', Rotated(rotated'), wlog', written', stable')
        BY <4>2, <4>3, Zenon DEF NodeGood
      <4> QED
        BY <1>1, <2>1, <3>1, <4>1, <4>2, <4>4, OneSound, Zenon
    <3> QED
      BY <3>2, <3>3, <3>4, Zenon
  <2>5. CASE n.pc = "rename"
    <3> DEFINE r == [n EXCEPT !.pc = "create"]
    <3>1. RotateRename /\ Goes(k, "create")
      BY <2>5, Zenon DEF Rotate
    <3>2. NoTorn' /\ ReadWAL' = ReadWAL /\ wlog' = <<>>
      BY <2>1, <3>1, RenameReads, Zenon
    <3>3. node' = [node EXCEPT ![k] = r] /\ r.pc = "create" /\ r.mem = n.mem /\ r.next = n.next
      BY <2>2, <3>1, Zenon
    <3> HIDE DEF r
    <3>4. AtRest(r, ReadWAL', wlog', written') /\ Remembers(r, stable')
      BY <1>1, <2>1, <3>2, <3>3, Zenon DEF AtRest, Settled, Remembers
    <3>5. NodeGood(r, ReadWAL', Rotated(rotated'), wlog', written', stable')
      BY <3>3, <3>4, Zenon DEF NodeGood
    <3> QED
      BY <1>1, <2>1, <3>2, <3>3, <3>5, OneSound, Zenon
  <2>6. CASE n.pc = "create"
    <3>1. CompactTruncate /\ Goes(k, "purge") /\ wlog = <<>>
      BY <2>1, <2>6, Zenon DEF Rotate, RotateCreate, AtRest
    <3>2. NoTorn' /\ ReadWAL' = ReadWAL
      BY <2>1, <3>1, TruncateReads, Zenon
    <3> QED
      BY <2>3, <3>1, <3>2, Zenon DEF Resting
  <2>7. CASE n.pc = "purge"
    <3>1. UNCHANGED walVars /\ Goes(k, "advance")
      BY <2>7, Zenon DEF Rotate
    <3> QED
      BY <2>1, <2>3, <3>1, FilesStay, Zenon DEF Resting
  <2> QED
    BY <1>3, <2>4, <2>5, <2>6, <2>7, Zenon
<1> QED
  BY <1>2, <1>3, Zenon DEF Rotate

-----------------------------------------------------------------------------
\* An empty list.
LEMMA EmptyList == Within(<<>>) /\ Range(<<>>) = {} /\ FirstOccurrences(<<>>, <<>>) /\ Len(<<>>) = 0
<1>1. DOMAIN <<>> = {} /\ Len(<<>>) = 0
  OBVIOUS
<1> QED
  BY <1>1, Zenon DEF Within, Range, FirstOccurrences

\* No Node runs, and one comes.
LEMMA BeginsAlone ==
  ASSUME ~Overlap, TInv, NEW r, Begins(r)
  PROVE  /\ \A j \in Life : ~Running(j)
         /\ UNCHANGED walVars /\ UNCHANGED <<written, stable>>
         /\ node' = [node EXCEPT ![starts + 1] = r]
         /\ OneLoop'
<1>1. (\A j \in Life : ~Running(j)) /\ node' = [node EXCEPT ![starts + 1] = r]
  BY Zenon DEF Begins
<1>2. OneLoop'
  BY <1>1, OnlyLoop, Zenon
<1>3. UNCHANGED walVars /\ UNCHANGED <<written, stable>>
  BY Zenon DEF Begins
<1> QED
  BY <1>1, <1>2, <1>3, Zenon

\* A Node starts as on an empty log.
LEMMA UnreadSound ==
  ASSUME ~Overlap, TInv, StartUnread
  PROVE  LInv'
BY BeginsAlone, Zenon DEF StartUnread, LInv

\* A Node starts.
LEMMA StartSound ==
  ASSUME ~Overlap, TInv, LInv, Start
  PROVE  LInv'
<1> DEFINE x == starts + 1
<1>2. PICK o \in ReadOutcomes : Begins(Found(o.ents))
  BY Zenon DEF Start
<1> DEFINE r == Found(o.ents)
<1>1. /\ \A j \in Life : ~Running(j)
      /\ UNCHANGED walVars /\ UNCHANGED <<written, stable>> /\ damaged' = damaged
      /\ OneLoop'
  BY <1>2, BeginsAlone, Zenon DEF Start
<1>3. node' = [node EXCEPT ![x] = r] /\ \A j \in Life : Running(j) => j = x
  BY <1>1, <1>2, BeginsAlone, Zenon
<1>4. OneLoop'
  BY <1>1, Zenon
<1>5. ASSUME ~damaged PROVE Sound'
  <2>1. /\ NoTorn /\ stable \subseteq Range(written) /\ Ordered(ReadWAL, written)
    <3>1. \A j \in Life : node[j].pc # "rewrite"
      BY <1>1, Zenon DEF Running
    <3> QED
      BY <1>5, <3>1, Zenon DEF LInv, Sound
  <2>2. ReadWAL' = ReadWAL /\ NoTorn'
    BY <1>1, <2>1, FilesStay, Zenon
  <2>3. o.ents = ReadWAL
    BY <2>1, ReadsAll, Zenon DEF TInv
  <2>4. NodeGood(r, ReadWAL', Rotated(rotated'), wlog', written', stable') /\ r.pc # "rewrite"
    <3>1. CASE o.ents = <<>>
      <4>1. r.pc = "ready" /\ r.mem = <<>> /\ r.next = 1
        BY <3>1, Zenon DEF Found, NoNode
      <4> HIDE DEF r
      <4>2. Range(written) = {}
        BY <2>1, <2>3, <3>1, EmptyList, Zenon DEF Ordered, FirstOccurrences
      <4>3. 1 = 0 + 1 /\ 0 <= 0
        OBVIOUS
      <4>4. Remembers(r, stable') /\ AtRest(r, ReadWAL', wlog', written')
        BY <1>1, <2>1, <2>2, <2>3, <3>1, <4>1, <4>2, <4>3, EmptyList, Zenon DEF Remembers, AtRest, Settled
      <4> QED
        BY <4>1, <4>4, Zenon DEF NodeGood
    <3>2. CASE o.ents # <<>>
      <4>1. r.pc = "replay" /\ r.mem = <<>> /\ r.batch = ReadWAL
        BY <2>3, <3>2, Zenon DEF Found, NoNode
      <4> HIDE DEF r
      <4> QED
        BY <2>2, <4>1, Zenon DEF NodeGood, AtReplay
    <3> QED
      BY <3>1, <3>2, Zenon
  <2> HIDE DEF r
  <2> QED
    BY <1>1, <1>3, <2>1, <2>2, <2>4, OneSound, Zenon
<1> QED
  BY <1>1, <1>4, <1>5, Zenon DEF LInv

\* The round's steps that only change snapshots, tell raft, or end it.
LEMMA LightSound ==
  ASSUME TInv, OneLoop, Sound, NEW k \in Life, Save(k) \/ StepFails(k) \/ Advance(k) \/ LoopEnds(k)
  PROVE  Sound'
<1> DEFINE n == node[k]
<1>1. /\ Running(k) /\ UNCHANGED walVars /\ written' = written /\ stable' \subseteq stable \cup Range(written)
      /\ n.pc \notin {"replay", "write", "store", "rewrite"}
  BY Zenon DEF Running, Save, StepFails, Advance, LoopEnds, histVars
<1>2. /\ NoTorn /\ Ordered(ReadWAL, written) /\ n \in NodeType /\ stable \subseteq Range(written)
      /\ \A j \in Life : Running(j) => j = k
  BY <1>1, Here, Zenon
<1>3. ReadWAL' = ReadWAL /\ NoTorn'
  BY <1>1, <1>2, FilesStay, Zenon
<1>4. ASSUME NEW r, node' = [node EXCEPT ![k] = r], r.mem = n.mem, r.next = n.next, r.pc \in Resting PROVE Sound'
  BY <1>1, <1>3, <1>4, RestSound, Zenon
<1>5. ASSUME NEW pc \in Resting, Goes(k, pc) PROVE Sound'
  <2> DEFINE r == [n EXCEPT !.pc = pc]
  <2>1. node' = [node EXCEPT ![k] = r] /\ r.mem = n.mem /\ r.next = n.next /\ r.pc \in Resting
    BY <1>2, <1>5, Zenon DEF Goes, NodeType
  <2> HIDE DEF r
  <2> QED
    BY <1>4, <2>1, Zenon
<1>6. CASE Save(k)
  <2> DEFINE r == [n EXCEPT !.pc = "copy", !.snap = snapId + 1]
  <2>1. \/ node' = [node EXCEPT ![k] = r]
        \/ Goes(k, "upload") \/ Goes(k, "compact")
    BY <1>6, Zenon DEF Save
  <2>2. r.mem = n.mem /\ r.next = n.next /\ r.pc \in Resting
    BY <1>2, Zenon DEF NodeType, Resting
  <2> HIDE DEF r
  <2> QED
    BY <1>4, <1>5, <2>1, <2>2, Zenon DEF Resting
<1>7. CASE StepFails(k)
  BY <1>5, <1>7, Zenon DEF StepFails, Resting
<1>8. CASE Advance(k)
  <2> DEFINE r == [n EXCEPT !.pc = "ready", !.batch = <<>>, !.snap = 0]
  <2>1. node' = [node EXCEPT ![k] = r]
    BY <1>8, Zenon DEF Advance
  <2>2. r.mem = n.mem /\ r.next = n.next /\ r.pc \in Resting
    BY <1>2, Zenon DEF NodeType, Resting
  <2> HIDE DEF r
  <2> QED
    BY <1>4, <2>1, <2>2, Zenon
<1>9. CASE LoopEnds(k)
  <2>1. node' = [node EXCEPT ![k] = Ended] /\ Ended.pc = "ended"
    BY <1>9, Zenon DEF LoopEnds, Ended, NoNode
  <2> QED
    BY <1>1, <1>2, <1>3, <2>1, OneSound, Zenon
<1> QED
  BY <1>6, <1>7, <1>8, <1>9, Zenon

\* A step of a Node's loop.
LEMMA LoopSound ==
  ASSUME TInv, LInv, NEW k \in Life,
         LoopStep(k) \/ \E size \in 1 .. Threshold : Ready(k, size)
  PROVE  LInv' \/ StorePanics(k)
<1> SUFFICES ASSUME ~StorePanics(k) PROVE LInv'
  BY Zenon
<1>1. Running(k)
  BY Zenon DEF Running, LoopStep, Ready, Replay, Write, Store, WriteFails, Save, StepFails, Compact, Rotate,
               RewriteFails, Advance, LoopEnds
<1>2. \A j \in Life : Running(j) => j = k
  BY <1>1, Zenon DEF LInv, OneLoop
<1>3. \E r : node' = [node EXCEPT ![k] = r]
  <2>1. ASSUME NEW pc, Goes(k, pc) PROVE \E r : node' = [node EXCEPT ![k] = r]
    BY <2>1, Zenon DEF Goes
  <2>2. CASE \E pc : Goes(k, pc)
    BY <2>1, <2>2, Zenon
  <2>3. CASE Replay(k)
    BY <2>3, Zenon DEF Replay
  <2>4. CASE Store(k)
    BY <2>4, Zenon DEF Store
  <2>5. CASE WriteFails(k)
    BY <2>2, <2>5, Zenon DEF WriteFails
  <2>6. CASE Save(k)
    BY <2>2, <2>6, Zenon DEF Save
  <2>7. CASE Compact(k)
    BY <2>2, <2>7, Zenon DEF Compact
  <2>8. CASE Advance(k) \/ LoopEnds(k)
    BY <2>8, Zenon DEF Advance, LoopEnds
  <2>9. CASE \E size \in 1 .. Threshold : Ready(k, size)
    BY <2>9, Zenon DEF Ready
  <2>10. CASE Write(k) \/ StepFails(k) \/ RewriteFails(k) \/ Rotate(k)
    BY <2>2, <2>10, Zenon DEF Write, StepFails, RewriteFails, Rotate
  <2> QED
    BY <2>3, <2>4, <2>5, <2>6, <2>7, <2>8, <2>9, <2>10, Zenon DEF LoopStep
<1>4. OneLoop'
  BY <1>2, <1>3, OnlyLoop, Zenon
<1>5. CASE WriteFails(k) \/ RewriteFails(k)
  BY <1>4, <1>5, Zenon DEF WriteFails, RewriteFails, LInv
<1>6. CASE ~(WriteFails(k) \/ RewriteFails(k))
  <2>1. damaged' = damaged
    BY <1>6, Zenon DEF LoopStep, Ready, Replay, Write, Store, Save, StepFails, Compact, Rotate,
                       Advance, LoopEnds, histVars
  <2>2. ASSUME ~damaged PROVE Sound'
    <3>1. OneLoop /\ Sound
      BY <2>2, Zenon DEF LInv
    <3> QED
      BY <1>6, <3>1, ReplaySound, WriteSound, StoreSound, CompactSound, RotateSound, LightSound, ReadySound, Zenon
         DEF LoopStep
  <2> QED
    BY <1>4, <2>1, <2>2, Zenon DEF LInv
<1> QED
  BY <1>5, <1>6, Zenon

\* The process dies, or its directory is lost.
LEMMA DeathSound ==
  ASSUME TInv, LInv, Crash \/ NewDirectory \/ \E k \in Life : StorePanics(k)
  PROVE  LInv'
<1>1. \A k \in Life : ~Running(k)' /\ node'[k].pc # "rewrite"
  <2>1. CASE Dies
    <3>1. node' = [k \in Life |-> IF Running(k) THEN Ended ELSE node[k]] /\ Ended.pc = "ended"
      BY <2>1, Zenon DEF Dies, Ended, NoNode
    <3>2. \A k \in Life : ~(node'[k].pc \notin {"none", "ended"})
      BY <3>1, Zenon DEF Running
    <3> QED
      BY <3>2, Zenon DEF Running
  <2>2. CASE NewDirectory
    BY <2>2, Zenon DEF NewDirectory, Running
  <2> QED
    BY <2>1, <2>2, Zenon DEF Crash, StorePanics
<1>2. OneLoop'
  BY <1>1, Zenon DEF OneLoop
<1>3. ASSUME NoTorn', stable' \subseteq Range(written'), Ordered(ReadWAL', written') PROVE Sound'
  BY <1>1, <1>3, Zenon DEF Sound, Ordered
<1>4. ASSUME ~damaged' PROVE Sound'
  <2>1. CASE Crash
    <3>1. ~damaged /\ UNCHANGED walVars /\ (\A k \in Life : node[k].pc # "rewrite") /\ UNCHANGED <<written, stable>>
      BY <1>4, <2>1, Zenon DEF Crash, Dies
    <3>2. NoTorn /\ stable \subseteq Range(written) /\ Ordered(ReadWAL, written)
      BY <3>1, Zenon DEF LInv, Sound
    <3> QED
      BY <1>3, <3>1, <3>2, FilesStay, Zenon
  <2>2. CASE NewDirectory
    <3>1. rotated' = <<>> /\ wlog' = <<>> /\ written' = <<>> /\ stable' = {}
      BY <2>2, Zenon DEF NewDirectory
    <3>2. FilesTyped' /\ <<>> \in Seq(Index) /\ DOMAIN <<>> = {}
      <4>1. FileStep
        BY <3>1, Zenon DEF FileStep
      <4> QED
        BY <4>1, FileStepTyped DEF TInv
    <3>3. ReadWAL' = <<>> \o <<>>
      BY <3>1, <3>2, ReadIsNext, EntriesFew, Zenon DEF ReadOf
    <3>4. ReadWAL' = <<>>
      BY <3>3
    <3>5. NoTorn'
      BY <3>1, <3>2, EntriesFew, Zenon DEF NoTorn, Clean
    <3> QED
      BY <1>3, <3>1, <3>4, <3>5, EmptyList, Zenon DEF Ordered
  <2>3. ASSUME NEW k \in Life, StorePanics(k) PROVE FALSE
    <3>1. ~damaged /\ node[k].pc \in {"replay", "store"} /\ Missing(k)
      BY <1>4, <2>3, Zenon DEF StorePanics
    <3> QED
      BY <3>1, NothingMissing, Zenon DEF LInv
  <2> QED
    BY <2>1, <2>2, <2>3, Zenon
<1> QED
  BY <1>2, <1>4, Zenon DEF LInv

\* The scheduler's steps and Stop leave the log and the Nodes.
LEMMA StillSound ==
  ASSUME LInv, SchedulerSave \/ SchedulerStop \/ Stop \/ UNCHANGED vars
  PROVE  LInv'
<1>1. UNCHANGED walVars /\ UNCHANGED <<node, written, stable, damaged>>
  BY Zenon DEF SchedulerSave, SchedulerStop, Stop, vars, histVars, lifeVars
<1>2. ReadWAL' = ReadWAL /\ rotated' = rotated /\ wlog' = wlog
  BY <1>1, FilesStay, Zenon
<1>3. OneLoop'
  BY <1>1, Zenon DEF LInv, OneLoop, Running
<1>4. ASSUME ~damaged PROVE Sound'
  <2>1. Sound
    BY <1>4, Zenon DEF LInv
  <2>2. NoTorn'
    BY <1>1, <2>1, FilesStay, Zenon DEF Sound
  <2>3. \A k \in Life : node'[k].pc \notin {"none", "ended"} =>
          NodeGood(node'[k], ReadWAL', Rotated(rotated'), wlog', written', stable')
    BY <1>1, <1>2, <2>1, Zenon DEF Sound, Running
  <2>4. stable' \subseteq Range(written')
    BY <1>1, <2>1, Zenon DEF Sound
  <2>5. (\A k \in Life : node'[k].pc # "rewrite") => Ordered(ReadWAL', written')
    BY <1>1, <1>2, <2>1, Zenon DEF Sound
  <2>6. Rotated(rotated)' = Rotated(rotated')
    BY Zenon DEF Rotated, Contents
  <2> QED
    BY <2>2, <2>3, <2>4, <2>5, <2>6, Zenon
       DEF Sound, Running, Ordered, NodeGood, AtReplay, AtWrite, AtStore, AtRewrite, AtRest, Remembers
<1> QED
  BY <1>1, <1>3, <1>4, Zenon DEF LInv

\* The invariant of the log holds always, when a Node starts only after the
\* goroutine of the last one ended.
LEMMA LogInvariance == ASSUME ~Overlap PROVE Spec => []LInv
<1>1. Init => LInv
  <2> SUFFICES ASSUME Init PROVE LInv
    BY Zenon
  <2>1. rotated = <<>> /\ wlog = <<>> /\ written = <<>> /\ stable = {}
    BY Zenon DEF Init, WALInit
  <2>2. \A S : <<>> \in Seq(S)
    OBVIOUS
  <2>3. DOMAIN <<>> = {} /\ <<>> \o <<>> = <<>>
    OBVIOUS
  <2>4. FilesTyped
    BY <2>1, <2>2, Zenon DEF FilesTyped
  <2>5. ReadWAL = <<>>
    BY <2>1, <2>2, <2>3, <2>4, ReadIs, EntriesFew, Zenon DEF ReadOf
  <2>6. NoTorn
    BY <2>1, <2>2, <2>3, EntriesFew, Zenon DEF NoTorn
  <2>7. \A k \in Life : ~Running(k)
    BY Zenon DEF Init, Running, NoNode
  <2>8. Ordered(<<>>, <<>>)
    BY EmptyList, Zenon DEF Ordered
  <2> QED
    BY <2>1, <2>5, <2>6, <2>7, <2>8, Zenon DEF LInv, OneLoop, Sound
<1>2. TInv /\ LInv /\ [Next]_vars => LInv'
  <2> SUFFICES ASSUME TInv, LInv, [Next]_vars PROVE LInv'
    BY Zenon
  <2>1. ASSUME NEW k \in Life, LoopStep(k) \/ \E size \in 1 .. Threshold : Ready(k, size)
        PROVE  LInv'
    BY <2>1, LoopSound, DeathSound, Zenon
  <2> QED
    BY <2>1, StartSound, UnreadSound, DeathSound, StillSound, Zenon DEF Next
<1> QED
  BY <1>1, <1>2, Typing, PTL DEF Spec

\* Unless a write failed or was cut short, or a start could not read the log,
\* ReadWAL gives every entry the loop ever wrote, in order, for every bound
\* on entries, starts and faults:
\* AppendWAL, Compact, RotateWAL, the replay of a start and a crash between
\* any two of their steps only repeat entries behind their first occurrence.
\* Nodes must not overlap, which Stop does not ensure.
THEOREM LogKept == ASSUME ~Overlap PROVE Spec => []LogKeepsEntries
<1>1. LInv => LogKeepsEntries
  BY Zenon DEF LInv, Sound, LogKeepsEntries, Undamaged, Ordered
<1> QED
  BY <1>1, LogInvariance, PTL

\* Under the same conditions the memory of a Node that has replayed the log
\* has every entry raft was told is stable, each at its index unless an
\* entry is repeated.
THEOREM MemoryKept == ASSUME ~Overlap PROVE Spec => []MemoryHolds
<1>1. TInv /\ LInv => MemoryHolds
  <2> SUFFICES ASSUME TInv, LInv, ~damaged, NEW k \in Life, Running(k), node[k].pc # "replay"
               PROVE  /\ stable \subseteq Range(node[k].mem)
                      /\ IsInjective(node[k].mem) => \A i \in DOMAIN node[k].mem : node[k].mem[i] = i
    BY Zenon DEF MemoryHolds
  <2>1. Remembers(node[k], stable)
    BY Zenon DEF LInv, Sound, NodeGood
  <2>2. PICK m \in Seq(Index) : m = node[k].mem
    BY Zenon DEF TInv, NodesTyped, NodeType
  <2>3. Len(m) \in Nat /\ DOMAIN m = 1 .. Len(m)
    BY ListLen, Zenon
  <2> QED
    BY <2>1, <2>2, <2>3, InPlace, Zenon DEF Remembers
<1> QED
  BY <1>1, LogInvariance, Typing, PTL
=============================================================================
