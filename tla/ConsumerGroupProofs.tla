------------------------ MODULE ConsumerGroupProofs ------------------------
(***************************************************************************)
(* Consumer groups, for every set of groups, members, partition counts,    *)
(* slots and offsets: who owns a partition and how evenly partitions are   *)
(* spread (ConsumerGroup), and what a consumer that restarts loads         *)
(* (OffsetStore).                                                          *)
(***************************************************************************)
EXTENDS ConsumerGroup, OffsetStore, FiniteSetTheorems, TLAPS

\* Two members of a set have different places in its order.
LEMMA RanksDiffer ==
  ASSUME NEW M \in SUBSET Member, NEW m \in M, NEW n \in M, m # n
  PROVE  Rank(M, m) # Rank(M, n)
<1>1. \A a, b \in M : a < b => Rank(M, a) < Rank(M, b)
  <2> SUFFICES ASSUME NEW a \in M, NEW b \in M, a < b PROVE Rank(M, a) < Rank(M, b)
    BY Zenon
  <2> DEFINE A == {x \in M : x < a}
             B == {x \in M : x < b}
  <2>1. M \subseteq Int /\ IsFiniteSet(M)
    BY GroupAssumption, FS_Subset, Zenon
  <2>2. IsFiniteSet(B) /\ A \subseteq B /\ a \in B /\ a \notin A
    <3>1. B \in SUBSET M
      BY Zenon
    <3>2. IsFiniteSet(B)
      BY <2>1, <3>1, FS_Subset, Zenon
    <3>3. a \in Int /\ b \in Int /\ \A x \in M : x \in Int
      BY <2>1, Zenon
    <3>4. \A x \in M : x < a => x < b
      BY <3>3
    <3>5. ~(a < a)
      BY <3>3
    <3> QED
      BY <3>2, <3>4, <3>5, Zenon
  <2>3. A # B
    BY <2>2, Zenon
  <2>4. Cardinality(A) <= Cardinality(B) /\ (Cardinality(A) = Cardinality(B) => A = B)
    BY <2>2, FS_Subset, Zenon
  <2>5. Cardinality(A) \in Nat /\ Cardinality(B) \in Nat
    BY <2>2, FS_Subset, FS_CardinalityType, Zenon
  <2> QED
    BY <2>3, <2>4, <2>5 DEF Rank
<1>2. \A a \in M : Rank(M, a) \in Nat
  <2> SUFFICES ASSUME NEW a \in M PROVE Rank(M, a) \in Nat
    BY Zenon
  <2>1. IsFiniteSet({x \in M : x < a})
    BY GroupAssumption, FS_Subset, Zenon
  <2> QED
    BY <2>1, FS_CardinalityType, Zenon DEF Rank
<1>3. m \in Int /\ n \in Int
  BY GroupAssumption, Zenon
<1>4. m < n \/ n < m
  BY <1>3
<1> QED
  BY <1>1, <1>2, <1>4

\* Round robin gives no partition to two members.
LEMMA RoundRobinDisjoint ==
  ASSUME NEW M \in SUBSET Member, NEW k \in Int, NEW m \in M, NEW n \in M, m # n
  PROVE  RoundRobin(M, k)[m] \cap RoundRobin(M, k)[n] = {}
BY RanksDiffer, Zenon DEF RoundRobin

\* The strengthening: besides its types and OneOwner, a member that has read
\* the assignment holds nothing that another member owns now.
IInv ==
  /\ TypeOK
  /\ assignments = [g \in Group |-> assignments[g]]
  /\ OneOwner
  /\ FreshReadersDisjoint
  /\ \A g \in Group : \A m \in fresh[g] : \A n \in Member :
       m # n => held[g][m] \cap Owned(g, n) = {}

\* The coordinator starts without groups.
LEMMA InitIInv == Init => IInv
BY DEF Init, IInv, TypeOK, OneOwner, FreshReadersDisjoint, Owned, Uncovered

\* What a member owns is disjoint from what another one does.
LEMMA OwnedDisjoint ==
  ASSUME IInv, NEW g \in Group, NEW m \in Member, NEW n \in Member, m # n
  PROVE  Owned(g, m) \cap Owned(g, n) = {} /\ Owned(g, m) \in SUBSET Nat
BY Zenon DEF IInv, OneOwner, Owned, TypeOK

\* Joining changes the member set only.
LEMMA JoinIInv ==
  ASSUME IInv, NEW h \in Group, NEW k \in Member, Join(h, k)
  PROVE  IInv'
<1>1. \A g \in Group : members'[g] \in SUBSET Member /\ members[g] \subseteq members'[g]
  BY Zenon DEF IInv, TypeOK, Join
<1>2. TypeOK'
  BY Zenon DEF IInv, TypeOK, Join
<1> QED
  BY <1>1, <1>2 DEF IInv, OneOwner, FreshReadersDisjoint, Owned, Join

\* A member that leaves owns nothing more.
LEMMA LeaveIInv ==
  ASSUME IInv, NEW h \in Group, NEW k \in Member, Leave(h, k)
  PROVE  IInv'
<1>1. \A g \in Group : assignments'[g] = IF g = h THEN Without(assignments[g], k) ELSE assignments[g]
  BY Zenon DEF IInv, Leave
<1>2. \A g \in Group : /\ DOMAIN assignments'[g] \subseteq DOMAIN assignments[g]
                       /\ g = h => k \notin DOMAIN assignments'[g]
                       /\ \A m \in DOMAIN assignments'[g] : assignments'[g][m] = assignments[g][m]
  BY <1>1, Zenon DEF Without
<1>3. \A g \in Group : members'[g] = IF g = h THEN members[g] \ {k} ELSE members[g]
  BY Zenon DEF IInv, TypeOK, Leave
<1>4. TypeOK'
  <2>1. members' \in [Group -> SUBSET Member] /\ covered' \in [Group -> Int]
    BY DEF IInv, TypeOK, Leave, Uncovered
  <2>2. \A g \in Group : /\ DOMAIN assignments'[g] \subseteq Member
                         /\ \A m \in DOMAIN assignments'[g] : assignments'[g][m] \subseteq Nat
    <3> SUFFICES ASSUME NEW g \in Group
                 PROVE  /\ DOMAIN assignments'[g] \subseteq Member
                        /\ \A m \in DOMAIN assignments'[g] : assignments'[g][m] \subseteq Nat
      BY Zenon
    <3>1. DOMAIN assignments[g] \subseteq Member /\ \A m \in DOMAIN assignments[g] : assignments[g][m] \subseteq Nat
      BY Zenon DEF IInv, TypeOK
    <3> QED
      BY <1>2, <3>1, Zenon
  <2> QED
    BY <2>1, <2>2, Zenon DEF IInv, TypeOK, Leave
<1>5. OneOwner'
  <2> SUFFICES ASSUME NEW g \in Group
               PROVE  /\ DOMAIN assignments'[g] \subseteq members'[g]
                      /\ \A m, n \in DOMAIN assignments'[g] : m # n => assignments'[g][m] \cap assignments'[g][n] = {}
    BY Zenon DEF OneOwner
  <2>1. /\ DOMAIN assignments[g] \subseteq members[g]
        /\ \A m, n \in DOMAIN assignments[g] : m # n => assignments[g][m] \cap assignments[g][n] = {}
    BY Zenon DEF IInv, OneOwner
  <2>2. DOMAIN assignments'[g] \subseteq members'[g]
    BY <1>2, <1>3, <2>1, Zenon
  <2>3. \A m, n \in DOMAIN assignments'[g] : m # n => assignments'[g][m] \cap assignments'[g][n] = {}
    <3> SUFFICES ASSUME NEW m \in DOMAIN assignments'[g], NEW n \in DOMAIN assignments'[g], m # n
                 PROVE  assignments'[g][m] \cap assignments'[g][n] = {}
      BY Zenon
    <3>1. m \in DOMAIN assignments[g] /\ n \in DOMAIN assignments[g]
      BY <1>2, Zenon
    <3>2. assignments'[g][m] = assignments[g][m] /\ assignments'[g][n] = assignments[g][n]
      BY <1>2, Zenon
    <3> QED
      BY <2>1, <3>1, <3>2, Zenon
  <2> QED
    BY <2>2, <2>3, Zenon
<1>6. \A g \in Group : \A n \in Member : Owned(g, n)' \subseteq Owned(g, n)
  <2> SUFFICES ASSUME NEW g \in Group, NEW n \in Member PROVE Owned(g, n)' \subseteq Owned(g, n)
    BY Zenon
  <2>1. CASE n \in DOMAIN assignments'[g]
    <3>1. n \in DOMAIN assignments[g] /\ assignments'[g][n] = assignments[g][n]
      BY <1>2, <2>1, Zenon
    <3> QED
      BY <2>1, <3>1, Zenon DEF Owned
  <2>2. CASE n \notin DOMAIN assignments'[g]
    BY <2>2, Zenon DEF Owned
  <2> QED
    BY <2>1, <2>2, Zenon
<1>7. FreshReadersDisjoint' /\ assignments' = [g \in Group |-> assignments'[g]]
  BY Zenon DEF IInv, FreshReadersDisjoint, Leave
<1>8. held' = held /\ fresh' = fresh
  BY Zenon DEF Leave
<1>9. \A g \in Group : \A m \in fresh'[g] : \A n \in Member : m # n => held'[g][m] \cap Owned(g, n)' = {}
  BY <1>6, <1>8, Zenon DEF IInv
<1> QED
  BY <1>4, <1>5, <1>7, <1>9, Zenon DEF IInv

\* A member takes over what it owns now, which no other one holds or owns.
LEMMA AssignmentIInv ==
  ASSUME IInv, NEW h \in Group, NEW k \in Member, Assignment(h, k)
  PROVE  IInv'
<1>1. /\ \A g \in Group : \A m \in Member : held'[g][m] = IF g = h /\ m = k THEN Owned(h, k) ELSE held[g][m]
      /\ \A g \in Group : fresh'[g] = IF g = h THEN fresh[g] \cup {k} ELSE fresh[g]
  BY Zenon DEF IInv, TypeOK, Assignment
<1>2. Owned(h, k) \in SUBSET Nat
  BY Zenon DEF IInv, TypeOK, Owned
<1>3. TypeOK'
  <2>1. held' \in [Group -> [Member -> SUBSET Nat]]
    BY <1>2, Zenon DEF IInv, TypeOK, Assignment
  <2>2. fresh' \in [Group -> SUBSET Member]
    BY Zenon DEF IInv, TypeOK, Assignment
  <2> QED
    BY <2>1, <2>2, Zenon DEF IInv, TypeOK, Assignment
<1>4. OneOwner' /\ assignments' = [g \in Group |-> assignments'[g]]
  BY Zenon DEF IInv, OneOwner, Assignment
<1>5. \A g \in Group : \A n \in Member : Owned(g, n)' = Owned(g, n)
  BY Zenon DEF Owned, Assignment
<1>6. \A g \in Group : \A m \in fresh'[g] : m \in Member /\ (m \in fresh[g] \/ (g = h /\ m = k))
  <2> SUFFICES ASSUME NEW g \in Group, NEW m \in fresh'[g]
               PROVE  m \in Member /\ (m \in fresh[g] \/ (g = h /\ m = k))
    BY Zenon
  <2>1. fresh[g] \subseteq Member
    BY Zenon DEF IInv, TypeOK
  <2>2. CASE g = h
    <3>1. fresh'[g] = fresh[g] \cup {k}
      BY <1>1, <2>2, Zenon
    <3> QED
      BY <2>1, <2>2, <3>1, Zenon
  <2>3. CASE g # h
    <3>1. fresh'[g] = fresh[g]
      BY <1>1, <2>3, Zenon
    <3> QED
      BY <2>1, <3>1, Zenon
  <2> QED
    BY <2>2, <2>3, Zenon
<1>7. \A g \in Group : \A m \in fresh'[g] : \A n \in Member : m # n => held'[g][m] \cap Owned(g, n)' = {}
  <2> SUFFICES ASSUME NEW g \in Group, NEW m \in fresh'[g], NEW n \in Member, m # n
               PROVE  held'[g][m] \cap Owned(g, n) = {}
    BY <1>5, Zenon
  <2>1. m \in Member /\ (m \in fresh[g] \/ (g = h /\ m = k))
    BY <1>6, Zenon
  <2>2. CASE g = h /\ m = k
    <3>1. held'[g][m] = Owned(g, m)
      BY <1>1, <2>1, <2>2, Zenon
    <3> QED
      BY <2>1, <3>1, OwnedDisjoint, Zenon
  <2>3. CASE ~(g = h /\ m = k)
    <3>1. held'[g][m] = held[g][m] /\ m \in fresh[g]
      BY <1>1, <2>1, <2>3, Zenon
    <3> QED
      BY <3>1, Zenon DEF IInv
  <2> QED
    BY <2>2, <2>3, Zenon
<1>8. FreshReadersDisjoint'
  <2> SUFFICES ASSUME NEW g \in Group, NEW m \in fresh'[g], NEW n \in fresh'[g], m # n
               PROVE  held'[g][m] \cap held'[g][n] = {}
    BY Zenon DEF FreshReadersDisjoint
  <2>1. /\ m \in Member /\ (m \in fresh[g] \/ (g = h /\ m = k))
        /\ n \in Member /\ (n \in fresh[g] \/ (g = h /\ n = k))
    BY <1>6, Zenon
  <2>2. CASE g = h /\ m = k
    <3>1. held'[g][m] = Owned(g, m) /\ held'[g][n] = held[g][n] /\ n \in fresh[g]
      BY <1>1, <2>1, <2>2, Zenon
    <3>2. held[g][n] \cap Owned(g, m) = {}
      BY <2>1, <3>1, Zenon DEF IInv
    <3> QED
      BY <3>1, <3>2, Zenon
  <2>3. CASE g = h /\ n = k
    <3>1. held'[g][n] = Owned(g, n) /\ held'[g][m] = held[g][m] /\ m \in fresh[g]
      BY <1>1, <2>1, <2>3, Zenon
    <3>2. held[g][m] \cap Owned(g, n) = {}
      BY <2>1, <3>1, Zenon DEF IInv
    <3> QED
      BY <3>1, <3>2, Zenon
  <2>4. CASE ~(g = h /\ m = k) /\ ~(g = h /\ n = k)
    <3>1. /\ held'[g][m] = held[g][m] /\ m \in fresh[g]
          /\ held'[g][n] = held[g][n] /\ n \in fresh[g]
      BY <1>1, <2>1, <2>4, Zenon
    <3> QED
      BY <3>1, Zenon DEF IInv, FreshReadersDisjoint
  <2> QED
    BY <2>2, <2>3, <2>4, Zenon
<1> QED
  BY <1>3, <1>4, <1>7, <1>8, Zenon DEF IInv

\* A rebalance replaces all lists, since only members had one, and nobody
\* has read the new ones.
LEMMA RebalanceIInv ==
  ASSUME IInv, NEW h \in Group, NEW k \in Partitions, Rebalance(h, k)
  PROVE  IInv'
<1>1. members[h] \in SUBSET Member /\ DOMAIN assignments[h] \subseteq members[h] /\ k \in Int
  BY GroupAssumption, Zenon DEF IInv, TypeOK, OneOwner
<1>2. Overwrite(assignments[h], RoundRobin(members[h], k)) = RoundRobin(members[h], k)
  BY <1>1, Zenon DEF Overwrite, RoundRobin
<1>3. \A g \in Group : assignments'[g] = IF g = h THEN RoundRobin(members[h], k) ELSE assignments[g]
  BY <1>2, Zenon DEF IInv, Rebalance
<1>4. DOMAIN RoundRobin(members[h], k) = members[h]
  BY Zenon DEF RoundRobin
<1>5. \A m \in members[h] : RoundRobin(members[h], k)[m] \subseteq Nat
  BY <1>1 DEF RoundRobin
<1>6. TypeOK'
  <2>1. \A g \in Group : /\ DOMAIN assignments'[g] \subseteq Member
                         /\ \A m \in DOMAIN assignments'[g] : assignments'[g][m] \subseteq Nat
    <3> SUFFICES ASSUME NEW g \in Group
                 PROVE  /\ DOMAIN assignments'[g] \subseteq Member
                        /\ \A m \in DOMAIN assignments'[g] : assignments'[g][m] \subseteq Nat
      BY Zenon
    <3>1. CASE g = h
      BY <1>1, <1>3, <1>4, <1>5, <3>1, Zenon
    <3>2. CASE g # h
      BY <1>3, <3>2, Zenon DEF IInv, TypeOK
    <3> QED
      BY <3>1, <3>2, Zenon
  <2>2. covered' \in [Group -> Int]
    BY <1>1 DEF IInv, TypeOK, Rebalance, Uncovered
  <2>3. fresh' \in [Group -> SUBSET Member]
    BY Zenon DEF IInv, TypeOK, Rebalance
  <2> QED
    BY <2>1, <2>2, <2>3, Zenon DEF IInv, TypeOK, Rebalance
<1>7. OneOwner'
  <2>1. \A m, n \in members[h] : m # n => RoundRobin(members[h], k)[m] \cap RoundRobin(members[h], k)[n] = {}
    BY <1>1, RoundRobinDisjoint, Zenon
  <2> QED
    BY <1>3, <1>4, <2>1 DEF IInv, OneOwner, Rebalance
<1>8. \A g \in Group : fresh'[g] = IF g = h THEN {} ELSE fresh[g]
  BY Zenon DEF IInv, TypeOK, Rebalance
<1>9. held' = held /\ assignments' = [g \in Group |-> assignments'[g]]
  BY Zenon DEF IInv, Rebalance
<1>10. \A g \in Group \ {h} : \A n \in Member : Owned(g, n)' = Owned(g, n)
  BY <1>3, Zenon DEF Owned
<1>11. FreshReadersDisjoint'
  BY <1>8, <1>9, Zenon DEF IInv, FreshReadersDisjoint
<1>12. \A g \in Group : \A m \in fresh'[g] : \A n \in Member : m # n => held'[g][m] \cap Owned(g, n)' = {}
  BY <1>8, <1>9, <1>10 DEF IInv
<1> QED
  BY <1>6, <1>7, <1>9, <1>11, <1>12, Zenon DEF IInv

\* The strengthening holds always.
LEMMA Invariance == Spec => []IInv
<1>1. IInv /\ [Next]_vars => IInv'
  <2>1. ASSUME IInv, UNCHANGED vars PROVE IInv'
    BY <2>1 DEF IInv, TypeOK, OneOwner, FreshReadersDisjoint, Owned, vars
  <2> QED
    BY <2>1, JoinIInv, LeaveIInv, AssignmentIInv, RebalanceIInv, Zenon DEF Next
<1> QED
  BY <1>1, InitIInv, PTL DEF Spec

\* However members join, leave and rebalance, only members own partitions
\* and no partition has two owners.
THEOREM Owners == Spec => []OneOwner
<1>1. IInv => OneOwner
  BY Zenon DEF IInv
<1> QED
  BY <1>1, Invariance, PTL

\* Members that have read the assignment since the last rebalance work on
\* different partitions, although each keeps its own copy.
THEOREM Readers == Spec => []FreshReadersDisjoint
<1>1. IInv => FreshReadersDisjoint
  BY Zenon DEF IInv
<1> QED
  BY <1>1, Invariance, PTL

-----------------------------------------------------------------------------
\* The ranks of the members are exactly the indices of the sorted list.
LEMMA RanksFill ==
  ASSUME NEW M \in SUBSET Member, M # {}
  PROVE  /\ Cardinality(M) \in Nat \ {0}
         /\ \A m \in M : Rank(M, m) \in 0 .. Cardinality(M) - 1
         /\ \A r \in 0 .. Cardinality(M) - 1 : \E m \in M : Rank(M, m) = r
<1> DEFINE c == Cardinality(M)
           f == [m \in M |-> Rank(M, m)]
<1>1. M \subseteq Int /\ IsFiniteSet(M)
  BY GroupAssumption, FS_Subset, Zenon
<1>2. c \in Nat /\ c # 0
  BY <1>1, FS_CardinalityType, FS_EmptySet, Zenon
<1>3. \A m \in M : Rank(M, m) \in 0 .. c - 1
  <2> SUFFICES ASSUME NEW m \in M PROVE Rank(M, m) \in 0 .. c - 1
    BY Zenon
  <2> DEFINE B == {x \in M : x < m}
  <2>1. ~(m < m)
    BY <1>1
  <2>2. B \in SUBSET M /\ B # M
    BY <2>1, Zenon
  <2>3. IsFiniteSet(B) /\ Cardinality(B) <= c /\ Cardinality(B) # c
    BY <1>1, <2>2, FS_Subset, Zenon
  <2>4. Cardinality(B) \in Nat
    BY <2>3, FS_CardinalityType, Zenon
  <2>5. Cardinality(B) \in 0 .. c - 1
    <3> HIDE DEF B, c
    <3> QED
      BY <1>2, <2>3, <2>4
  <2> QED
    BY <2>5, Zenon DEF Rank
<1>4. f \in Injection(M, 0 .. c - 1)
  <2>1. f \in [M -> 0 .. c - 1]
    BY <1>3, Zenon
  <2>2. \A m, n \in M : f[m] = f[n] => m = n
    BY RanksDiffer, Zenon
  <2> QED
    BY <2>1, <2>2, Zenon DEF Injection, IsInjective
<1>5. IsFiniteSet(0 .. c - 1) /\ Cardinality(0 .. c - 1) = c
  <2> HIDE DEF c
  <2>1. 0 \in Int /\ c - 1 \in Int /\ ~(0 > c - 1) /\ c - 1 - 0 + 1 = c
    BY <1>2
  <2> QED
    BY <2>1, FS_Interval, Zenon
<1>6. f \in Surjection(M, 0 .. c - 1)
  BY <1>4, <1>5, FS_Injection, Zenon
<1> QED
  BY <1>2, <1>3, <1>6, Zenon DEF Surjection

\* A positive multiple of c is at least c.
LEMMA MultipleAtLeast ==
  ASSUME NEW c \in Nat \ {0}, NEW d \in Int, d >= 1
  PROVE  c * d >= c
OBVIOUS

\* The remainder of a division by c is unique.
LEMMA RemainderUnique ==
  ASSUME NEW c \in Nat \ {0}, NEW k \in Int, NEW l \in Int,
         NEW r \in 0 .. c - 1, NEW s \in 0 .. c - 1, c * k + r = c * l + s
  PROVE  r = s
<1>1. CASE k - l >= 1
  <2>1. c * (k - l) = s - r
    OBVIOUS
  <2>2. c * (k - l) >= c
    BY <1>1, MultipleAtLeast
  <2> QED
    BY <2>1, <2>2
<1>2. CASE l - k >= 1
  <2>1. c * (l - k) = r - s
    OBVIOUS
  <2>2. c * (l - k) >= c
    BY <1>2, MultipleAtLeast
  <2> QED
    BY <2>1, <2>2
<1> QED
  BY <1>1, <1>2

\* A partition after the first of remainder r has, c places before, one of
\* any other remainder s in the same row of the list.
LEMMA RowBefore ==
  ASSUME NEW c \in Nat \ {0}, NEW p \in Nat, NEW r \in 0 .. c - 1, NEW s \in 0 .. c - 1,
         p % c = r, p # r
  PROVE  /\ p - r - c + s \in Nat
         /\ p - r - c + s < p
         /\ (p - r - c + s) % c = s
<1> DEFINE q == p \div c
           w == p - r - c + s
<1>1. q \in Int /\ p = c * q + r
  OBVIOUS
<1>2. q >= 1
  <2>1. CASE q = 0
    BY <1>1, <2>1
  <2>2. CASE 0 - q >= 1
    <3>1. c * (0 - q) >= c
      BY <1>1, <2>2, MultipleAtLeast
    <3>2. c * (0 - q) = r - p
      BY <1>1
    <3> QED
      BY <3>1, <3>2
  <2> HIDE DEF q
  <2> QED
    BY <1>1, <2>1, <2>2
<1>3. w \in Int /\ w = c * (q - 1) + s
  BY <1>1
<1>4. c * q >= c
  BY <1>1, <1>2, MultipleAtLeast
<1>5. w \in Nat /\ w < p
  <2> HIDE DEF q
  <2> QED
    BY <1>1, <1>4
<1>6. w % c \in 0 .. c - 1 /\ w \div c \in Int /\ w = c * (w \div c) + (w % c)
  <2> HIDE DEF w
  <2> QED
    BY <1>3
<1>7. w % c = s
  <2> HIDE DEF w, q
  <2>1. q - 1 \in Int
    BY <1>1
  <2> QED
    BY <1>3, <1>6, <2>1, RemainderUnique
<1> QED
  BY <1>5, <1>7

\* Of the partitions below n, no remainder has two more than another.
LEMMA RemaindersBalanced ==
  ASSUME NEW c \in Nat \ {0}, NEW n \in Int, NEW r \in 0 .. c - 1, NEW s \in 0 .. c - 1
  PROVE  Cardinality({p \in 0 .. n - 1 : p % c = r}) <= Cardinality({p \in 0 .. n - 1 : p % c = s}) + 1
<1> DEFINE A == {p \in 0 .. n - 1 : p % c = r}
           B == {p \in 0 .. n - 1 : p % c = s}
           R == A \ {r}
           f == [p \in R |-> p - r - c + s]
<1>1. IsFiniteSet(0 .. n - 1)
  <2>1. 0 \in Int /\ n - 1 \in Int
    OBVIOUS
  <2> QED
    BY <2>1, FS_Interval, Zenon
<1>2. IsFiniteSet(A) /\ IsFiniteSet(B)
  <2>1. A \in SUBSET (0 .. n - 1) /\ B \in SUBSET (0 .. n - 1)
    BY Zenon
  <2> QED
    BY <1>1, <2>1, FS_Subset, Zenon
<1>3. \A p \in R : p - r - c + s \in B
  <2> SUFFICES ASSUME NEW p \in R PROVE p - r - c + s \in B
    BY Zenon
  <2>1. p \in Nat /\ p <= n - 1 /\ p % c = r /\ p # r
    OBVIOUS
  <2>2. /\ p - r - c + s \in Nat
        /\ p - r - c + s < p
        /\ (p - r - c + s) % c = s
    <3> HIDE DEF R
    <3> QED
      BY <2>1, RowBefore, Zenon
  <2>3. p - r - c + s \in 0 .. n - 1
    BY <2>1, <2>2
  <2> QED
    BY <2>2, <2>3, Zenon
<1>4. \A p, q \in R : p - r - c + s = q - r - c + s => p = q
  OBVIOUS
<1>5. f \in Injection(R, B)
  <2> HIDE DEF R, B
  <2>1. f \in [R -> B]
    BY <1>3, Zenon
  <2>2. \A p, q \in R : f[p] = f[q] => p = q
    BY <1>4, Zenon
  <2> QED
    BY <2>1, <2>2, Zenon DEF Injection, IsInjective
<1>6. Cardinality(R) <= Cardinality(B)
  BY <1>2, <1>5, FS_Injection, Zenon
<1>7. Cardinality(R) = IF r \in A THEN Cardinality(A) - 1 ELSE Cardinality(A)
  BY <1>2, FS_RemoveElement, Zenon
<1>8. Cardinality(A) \in Nat /\ Cardinality(B) \in Nat
  BY <1>2, FS_CardinalityType, Zenon
<1> HIDE DEF A, B, R
<1>9. Cardinality(A) <= Cardinality(B) + 1
  BY <1>6, <1>7, <1>8
<1> QED
  BY <1>9, Zenon DEF A, B

\* What CompleteAndBalanced says of an assignment f for n partitions.
Fair(f, n) ==
  /\ UNION {f[m] : m \in DOMAIN f} = 0 .. n - 1
  /\ \A m, k \in DOMAIN f : Cardinality(f[m]) <= Cardinality(f[k]) + 1

\* Round robin gives every partition to some member, and as many to each.
LEMMA RoundRobinFair ==
  ASSUME NEW M \in SUBSET Member, M # {}, NEW n \in Int
  PROVE  Fair(RoundRobin(M, n), n)
<1> DEFINE c == Cardinality(M)
           f == RoundRobin(M, n)
<1>1. c \in Nat \ {0}
  BY RanksFill, Zenon
<1>2. DOMAIN f = M /\ \A m \in M : f[m] = {p \in 0 .. n - 1 : p % c = Rank(M, m)}
  BY Zenon DEF RoundRobin
<1>3. \A p \in 0 .. n - 1 : \E m \in M : p \in f[m]
  <2> SUFFICES ASSUME NEW p \in 0 .. n - 1 PROVE \E m \in M : p \in f[m]
    BY Zenon
  <2>1. p % c \in 0 .. c - 1
    <3> HIDE DEF c
    <3> QED
      BY <1>1
  <2>2. PICK m \in M : Rank(M, m) = p % c
    BY <2>1, RanksFill, Zenon
  <2> QED
    BY <1>2, <2>2, Zenon
<1>4. \A m, k \in M : Cardinality(f[m]) <= Cardinality(f[k]) + 1
  <2> SUFFICES ASSUME NEW m \in M, NEW k \in M
               PROVE  Cardinality(f[m]) <= Cardinality(f[k]) + 1
    BY Zenon
  <2>1. Rank(M, m) \in 0 .. c - 1 /\ Rank(M, k) \in 0 .. c - 1
    BY RanksFill, Zenon
  <2> HIDE DEF c, f
  <2>2. \A r, s \in 0 .. c - 1 :
          Cardinality({p \in 0 .. n - 1 : p % c = r}) <= Cardinality({p \in 0 .. n - 1 : p % c = s}) + 1
    BY <1>1, RemaindersBalanced, Zenon
  <2> QED
    BY <1>2, <2>1, <2>2, Zenon
<1> HIDE DEF c, f
<1>5. UNION {f[m] : m \in DOMAIN f} = 0 .. n - 1
  <2>1. \A m \in M : f[m] \subseteq 0 .. n - 1
    BY <1>2, Zenon
  <2> QED
    BY <1>2, <1>3, <2>1, Zenon
<1>6. Fair(f, n)
  BY <1>2, <1>4, <1>5, Zenon DEF Fair
<1> QED
  BY <1>6, Zenon DEF f

\* An assignment that is left as it was stays fair.
LEMMA FairKept ==
  ASSUME NEW f, NEW h, NEW n, Fair(f, n), DOMAIN h = DOMAIN f, \A m \in DOMAIN f : h[m] = f[m]
  PROVE  Fair(h, n)
<1>1. {h[m] : m \in DOMAIN h} = {f[m] : m \in DOMAIN f}
  BY Zenon
<1> QED
  BY <1>1, Zenon DEF Fair

\* CompleteAndBalanced needs no strengthening beyond IInv: a rebalance makes
\* the assignment fair, and a member that leaves either had no partitions
\* assigned or ends the period in which everything is covered.
LEMMA FairStep ==
  ASSUME IInv, CompleteAndBalanced, [Next]_vars
  PROVE  CompleteAndBalanced'
<1> SUFFICES ASSUME NEW g \in Group, covered'[g] # Uncovered
             PROVE  Fair(assignments'[g], covered'[g])
  BY Zenon DEF CompleteAndBalanced, Fair, Uncovered
<1>1. covered[g] # Uncovered => Fair(assignments[g], covered[g])
  BY Zenon DEF CompleteAndBalanced, Fair
<1>2. ASSUME assignments' = assignments, covered' = covered PROVE Fair(assignments'[g], covered'[g])
  BY <1>1, <1>2, Zenon
<1>3. ASSUME NEW h \in Group, NEW m \in Member, Leave(h, m) PROVE Fair(assignments'[g], covered'[g])
  <2>1. /\ covered'[g] = IF g = h /\ m \in DOMAIN assignments[h] THEN Uncovered ELSE covered[g]
        /\ assignments'[g] = IF g = h THEN Without(assignments[h], m) ELSE assignments[g]
    BY <1>3, Zenon DEF Leave, IInv, TypeOK
  <2>2. CASE g = h
    <3>1. m \notin DOMAIN assignments[g] /\ covered'[g] = covered[g] /\ assignments'[g] = Without(assignments[g], m)
      BY <2>1, <2>2, Zenon
    <3>2. DOMAIN assignments'[g] = DOMAIN assignments[g] /\ \A x \in DOMAIN assignments[g] : assignments'[g][x] = assignments[g][x]
      BY <3>1, Zenon DEF Without
    <3> QED
      BY <1>1, <3>1, <3>2, FairKept, Zenon
  <2>3. CASE g # h
    BY <1>1, <2>1, <2>3, Zenon
  <2> QED
    BY <2>2, <2>3, Zenon
<1>4. ASSUME NEW h \in Group, NEW n \in Partitions, Rebalance(h, n) PROVE Fair(assignments'[g], covered'[g])
  <2>1. members[h] \in SUBSET Member /\ DOMAIN assignments[h] \subseteq members[h] /\ n \in Int
    BY GroupAssumption, Zenon DEF IInv, TypeOK, OneOwner
  <2>2. Overwrite(assignments[h], RoundRobin(members[h], n)) = RoundRobin(members[h], n)
    BY <2>1, Zenon DEF Overwrite, RoundRobin
  <2>3. /\ covered'[g] = IF g = h THEN IF members[h] = {} THEN Uncovered ELSE n ELSE covered[g]
        /\ assignments'[g] = IF g = h THEN RoundRobin(members[h], n) ELSE assignments[g]
    BY <1>4, <2>2, Zenon DEF Rebalance, IInv, TypeOK
  <2>4. CASE g = h
    <3>1. members[h] # {} /\ covered'[g] = n /\ assignments'[g] = RoundRobin(members[h], n)
      BY <2>3, <2>4, Zenon
    <3> QED
      BY <2>1, <3>1, RoundRobinFair, Zenon
  <2>5. CASE g # h
    BY <1>1, <2>3, <2>5, Zenon
  <2> QED
    BY <2>4, <2>5, Zenon
<1> QED
  BY <1>2, <1>3, <1>4, Zenon DEF Next, Join, Assignment, vars

\* From a rebalance until an assigned member leaves, every partition has an
\* owner and no member has two more than another, for every number of
\* members and partitions.
THEOREM Complete == Spec => []CompleteAndBalanced
<1>1. Init => CompleteAndBalanced
  BY Zenon DEF Init, CompleteAndBalanced
<1> QED
  BY <1>1, FairStep, Invariance, PTL DEF Spec

-----------------------------------------------------------------------------
(* The committed offsets.                                                  *)

\* What the file of a slot holds outside of commits.
Latest(s) == IF unanswered[s] # Nothing THEN unanswered[s] ELSE acked[s]

\* The strengthening: what is in the file during a commit, and what the cut
\* slots are.
OffsetInv ==
  /\ OffsetTypeOK
  /\ commit.pc = "write" => file[commit.slot] = Blank
  /\ commit.pc = "return" => file[commit.slot] = commit.offset /\ commit.slot \notin cut
  /\ \A s \in Slot : ~Writing(s) =>
       IF s \in cut THEN file[s] = Blank
       ELSE file[s] = IF Latest(s) = Nothing THEN Absent ELSE Latest(s)

\* The names that stand for no offset are no offsets, and differ.
LEMMA NoOffset ==
  /\ Absent \notin Offset /\ Blank \notin Offset /\ Nothing \notin Offset
  /\ Absent # Blank /\ Absent # Nothing /\ Blank # Nothing
BY OffsetAssumption, Zenon DEF Absent, Blank, Nothing

\* A commit in progress is a record, and NoCommit is none.
LEMMA CommitShape ==
  ASSUME OffsetTypeOK
  PROVE  /\ commit.pc \in {"idle", "write", "return"}
         /\ commit = NoCommit <=> commit.pc = "idle"
         /\ commit # NoCommit => /\ commit.slot \in Slot /\ commit.offset \in Offset
                                 /\ commit \in [pc : {"write", "return"}, slot : Slot, offset : Offset]
         /\ NoCommit.pc = "idle"
BY DEF OffsetTypeOK, NoCommit

\* The strengthening holds at first, before any file exists.
LEMMA OffsetsBegin == OffsetInit => OffsetInv
BY NoOffset DEF OffsetInit, OffsetInv, OffsetTypeOK, Writing, NoCommit, Latest

\* Every step of CommitOffset, its failure and a crash preserve it.
LEMMA OffsetsKept == OffsetInv /\ [OffsetNext]_offsetVars => OffsetInv'
<1> SUFFICES ASSUME OffsetInv, [OffsetNext]_offsetVars PROVE OffsetInv'
  BY Zenon
<1> USE NoOffset
<1>t. OffsetTypeOK
  BY Zenon DEF OffsetInv
<1>c. /\ commit.pc \in {"idle", "write", "return"}
      /\ commit = NoCommit <=> commit.pc = "idle"
      /\ commit # NoCommit => /\ commit.slot \in Slot /\ commit.offset \in Offset
                              /\ commit \in [pc : {"write", "return"}, slot : Slot, offset : Offset]
      /\ NoCommit.pc = "idle"
  BY <1>t, CommitShape, Zenon
<1>1. CASE UNCHANGED offsetVars
  BY <1>1, Zenon DEF OffsetInv, OffsetTypeOK, Writing, Latest, offsetVars
<1>2. ASSUME NEW s \in Slot, NEW o \in Offset, CommitTruncate(s, o) PROVE OffsetInv'
  <2>1. OffsetTypeOK'
    BY <1>2, <1>t, Zenon DEF CommitTruncate, OffsetTypeOK
  <2>2. \A r \in Slot \ {s} : file'[r] = file[r] /\ ~Writing(r)
    BY <1>2, <1>t, <1>c, Zenon DEF CommitTruncate, OffsetTypeOK, Writing
  <2>3. commit'.pc = "write" /\ commit'.slot = s /\ file'[s] = Blank
    BY <1>2, <1>t, Zenon DEF CommitTruncate, OffsetTypeOK
  <2> QED
    BY <1>2, <2>1, <2>2, <2>3 DEF OffsetInv, CommitTruncate, Writing, Latest
<1>3. CASE CommitWrite
  <2>1. commit # NoCommit
    BY <1>3, <1>c, Zenon DEF CommitWrite
  <2>2. commit'.pc = "return" /\ commit'.slot = commit.slot /\ commit'.offset = commit.offset
    BY <1>3, <1>c, <2>1, Zenon DEF CommitWrite
  <2>3. OffsetTypeOK'
    <3>1. commit' \in [pc : {"write", "return"}, slot : Slot, offset : Offset]
      BY <1>3, <1>c, <2>1, Zenon DEF CommitWrite
    <3> QED
      BY <1>3, <1>t, <1>c, <2>1, <3>1, Zenon DEF CommitWrite, OffsetTypeOK
  <2>4. file'[commit.slot] = commit.offset /\ \A r \in Slot \ {commit.slot} : file'[r] = file[r]
    BY <1>3, <1>t, <1>c, <2>1, Zenon DEF CommitWrite, OffsetTypeOK
  <2> QED
    BY <1>3, <1>c, <2>1, <2>2, <2>3, <2>4 DEF OffsetInv, CommitWrite, Writing, Latest
<1>4. CASE CommitReturn
  <2>1. commit # NoCommit
    BY <1>4, <1>c, Zenon DEF CommitReturn
  <2>2. OffsetTypeOK'
    BY <1>4, <1>t, <1>c, <2>1, Zenon DEF CommitReturn, OffsetTypeOK
  <2>3. \A r \in Slot : Latest(r)' = IF r = commit.slot THEN commit.offset ELSE Latest(r)
    BY <1>4, <1>t, <1>c, <2>1, Zenon DEF CommitReturn, OffsetTypeOK, Latest
  <2>4. commit'.pc = "idle"
    BY <1>4, <1>c, Zenon DEF CommitReturn
  <2> QED
    BY <1>4, <1>c, <2>1, <2>2, <2>3, <2>4 DEF OffsetInv, CommitReturn, Writing
<1>5. CASE CommitFails
  <2>1. commit # NoCommit
    BY <1>5, <1>c, Zenon DEF CommitFails
  <2>2. OffsetTypeOK'
    BY <1>5, <1>t, <1>c, <2>1, Zenon DEF CommitFails, OffsetTypeOK
  <2> QED
    BY <1>5, <1>c, <2>1, <2>2, Zenon DEF OffsetInv, CommitFails, Writing, Latest
<1>6. CASE Crash
  <2>1. OffsetTypeOK'
    BY <1>6, <1>t, <1>c, Zenon DEF Crash, OffsetTypeOK
  <2>2. commit'.pc = "idle"
    BY <1>6, <1>c, Zenon DEF Crash
  <2>3. CASE commit.pc = "return"
    <3>1. \A r \in Slot : Latest(r)' = IF r = commit.slot THEN commit.offset ELSE Latest(r)
      BY <1>6, <1>t, <1>c, <2>3, Zenon DEF Crash, OffsetTypeOK, Latest
    <3> QED
      BY <1>6, <1>c, <2>1, <2>2, <2>3, <3>1 DEF OffsetInv, Crash, Writing
  <2>4. CASE commit.pc # "return"
    BY <1>6, <1>c, <2>1, <2>2, <2>4, Zenon DEF OffsetInv, Crash, Writing, Latest
  <2> QED
    BY <2>3, <2>4, Zenon
<1> QED
  BY <1>1, <1>2, <1>3, <1>4, <1>5, <1>6, Zenon DEF OffsetNext

\* Outside a commit of the same slot, and unless its last commit was cut
\* short, LoadOffset serves the last commit: CommitOffset's write, its
\* failures and crashes between its steps included.
THEOREM LatestLoads == OffsetSpec => []LoadServesLatest
<1>1. OffsetInv => LoadServesLatest
  <2> SUFFICES ASSUME OffsetInv, NEW s \in Slot, ~Writing(s), s \notin cut
               PROVE  LoadOffset(s) = IF unanswered[s] # Nothing THEN unanswered[s]
                                      ELSE IF acked[s] # Nothing THEN acked[s] ELSE LoadError
    BY Zenon DEF LoadServesLatest
  <2>1. Latest(s) \in Offset \cup {Nothing}
    BY Zenon DEF OffsetInv, OffsetTypeOK, Latest
  <2> QED
    BY <2>1, NoOffset, Zenon DEF OffsetInv, LoadOffset, Latest
<1> QED
  BY <1>1, OffsetsBegin, OffsetsKept, PTL DEF OffsetSpec
=============================================================================
