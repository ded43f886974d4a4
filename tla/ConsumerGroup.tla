--------------------------- MODULE ConsumerGroup ---------------------------
(***************************************************************************)
(* The consumer group coordinator (broker/consumer_group.go).  Every call  *)
(* holds the coordinator's lock from start to end, so each is one step.    *)
(* Joining and leaving do not rebalance; a member works on the copy of the *)
(* assignment it last read.                                                *)
(*                                                                         *)
(* A member is its place in the order of member names (sort.Strings).  The *)
(* code appends partitions in increasing order, so a list is its set.      *)
(***************************************************************************)
EXTENDS Integers, FiniteSets

CONSTANTS
  Group,            \* group names
  Member,           \* members, by the order of their names
  Partitions        \* the partition counts Rebalance is called with

ASSUME GroupAssumption ==
  /\ Member \subseteq Int
  /\ IsFiniteSet(Member)
  /\ Partitions \subseteq Int

VARIABLES
  members,          \* members[g]
  assignments,      \* assignments[g]: member -> partitions
  held,             \* held[g][m]: what m last read of its own assignment
  fresh,            \* history: the members that read since the last rebalance
  covered           \* history: partition count of the last rebalance, or
                    \* Uncovered when nobody or not everybody is there any more

vars == <<members, assignments, held, fresh, covered>>

Uncovered == -1

Without(f, m) == [x \in DOMAIN f \ {m} |-> f[x]]

\* The index of m in the sorted list of the members M.
Rank(M, m) == Cardinality({x \in M : x < m})

\* Mutant: the loop leaves the last partition out.
RoundRobin_OneShort(M, n) ==
  [m \in M |-> {p \in 0 .. n - 2 : p % Cardinality(M) = Rank(M, m)}]

\* Round robin: partition p goes to members[p % len(members)].
RoundRobin(M, n) ==
  [m \in M |-> {p \in 0 .. n - 1 : p % Cardinality(M) = Rank(M, m)}]

\* Mutant: the new partitions are added to the old ones.
Overwrite_Adds(f, h) ==
  [m \in DOMAIN f \cup DOMAIN h |->
     (IF m \in DOMAIN h THEN h[m] ELSE {}) \cup (IF m \in DOMAIN f THEN f[m] ELSE {})]

\* What Rebalance writes: the lists of the current members, over the old map.
Overwrite(f, h) ==
  [m \in DOMAIN f \cup DOMAIN h |-> IF m \in DOMAIN h THEN h[m] ELSE f[m]]

Owned(g, m) == IF m \in DOMAIN assignments[g] THEN assignments[g][m] ELSE {}

-----------------------------------------------------------------------------
Init ==
  /\ members = [g \in Group |-> {}]
  /\ assignments = [g \in Group |-> [m \in {} |-> {}]]
  /\ held = [g \in Group |-> [m \in Member |-> {}]]
  /\ fresh = [g \in Group |-> {}]
  /\ covered = [g \in Group |-> Uncovered]

Join(g, m) ==
  /\ members' = [members EXCEPT ![g] = @ \cup {m}]
  /\ UNCHANGED <<assignments, held, fresh, covered>>

\* Mutant: the partitions of the member stay assigned.
Leave_KeepsAssignment(g, m) ==
  /\ members' = [members EXCEPT ![g] = @ \ {m}]
  /\ UNCHANGED <<assignments, covered, held, fresh>>

Leave(g, m) ==
  /\ members' = [members EXCEPT ![g] = @ \ {m}]
  /\ assignments' = [assignments EXCEPT ![g] = Without(@, m)]
  /\ covered' = [covered EXCEPT ![g] = IF m \in DOMAIN assignments[g] THEN Uncovered ELSE @]
  /\ UNCHANGED <<held, fresh>>

Rebalance(g, n) ==
  /\ assignments' = [assignments EXCEPT ![g] = Overwrite(@, RoundRobin(members[g], n))]
  /\ covered' = [covered EXCEPT ![g] = IF members[g] = {} THEN Uncovered ELSE n]
  /\ fresh' = [fresh EXCEPT ![g] = {}]
  /\ UNCHANGED <<members, held>>

\* A member reads the assignment and takes its own partitions from it.
Assignment(g, m) ==
  /\ held' = [held EXCEPT ![g][m] = Owned(g, m)]
  /\ fresh' = [fresh EXCEPT ![g] = @ \cup {m}]
  /\ UNCHANGED <<members, assignments, covered>>

Next ==
  \E g \in Group :
    \/ \E m \in Member : Join(g, m) \/ Leave(g, m) \/ Assignment(g, m)
    \/ \E n \in Partitions : Rebalance(g, n)

Spec == Init /\ [][Next]_vars

-----------------------------------------------------------------------------
\* The types of the coordinator's maps.
TypeOK ==
  /\ members \in [Group -> SUBSET Member]
  /\ \A g \in Group : /\ DOMAIN assignments[g] \subseteq Member
                      /\ \A m \in DOMAIN assignments[g] : assignments[g][m] \subseteq Nat
  /\ held \in [Group -> [Member -> SUBSET Nat]]
  /\ fresh \in [Group -> SUBSET Member]
  /\ covered \in [Group -> Int]

\* Only members own partitions, and no partition has two owners, whatever
\* joined and left since the last rebalance.
OneOwner ==
  \A g \in Group :
    /\ DOMAIN assignments[g] \subseteq members[g]
    /\ \A m, n \in DOMAIN assignments[g] :
         m # n => assignments[g][m] \cap assignments[g][n] = {}

\* From a rebalance until an assigned member leaves, every partition has an
\* owner, and no assigned member owns two more than another.
CompleteAndBalanced ==
  \A g \in Group :
    covered[g] # Uncovered =>
      /\ UNION {assignments[g][m] : m \in DOMAIN assignments[g]} = 0 .. covered[g] - 1
      /\ \A m, n \in DOMAIN assignments[g] :
           Cardinality(assignments[g][m]) <= Cardinality(assignments[g][n]) + 1

\* Two members that both read the assignment since the last rebalance never
\* work on the same partition, even if one of them has left meanwhile.
FreshReadersDisjoint ==
  \A g \in Group : \A m, n \in fresh[g] :
    m # n => held[g][m] \cap held[g][n] = {}
=============================================================================
