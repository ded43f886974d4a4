------------------------------- MODULE Broker -------------------------------
(***************************************************************************)
(* The state every produce path of the broker shares (broker/broker.go):   *)
(* the topics open in this process, their logs, and the drain window.      *)
(* Each operator is one critical section under Broker.mu.  A topic's log   *)
(* is the log of AppendLog, which Segment implements; the offset of entry  *)
(* i is i - 1.  What was acknowledged survives a restart, but for a topic  *)
(* whose index a crash finds exposed: persistIndexes truncates the file it *)
(* rewrites, so a process that dies inside the rewrite, or after one that  *)
(* failed and was not repeated, may leave any beginning of the log.        *)
(*                                                                         *)
(* The drain window is kept as the answer isDrainingLocked gives: Drain    *)
(* opens it, and time may pass its end at any later moment.  A second      *)
(* Drain may move that end either way, which changes nothing here.         *)
(***************************************************************************)
EXTENDS Integers, Sequences, FiniteSets

CONSTANTS
  Topic,            \* topic names
  DiskFails,        \* TRUE: writing or opening a segment may fail
  MaxLog            \* bound: entries of one topic's log

ASSUME BrokerAssumption ==
  /\ DiskFails \in BOOLEAN
  /\ MaxLog \in Nat

VARIABLES
  topics,           \* Broker.topics: the topics created since the start
  log,              \* log[t]: the entries of topic t
  safe,             \* safe[t]: entries that a restart keeps, unless the
                    \* index of t is exposed: those up to the last one
                    \* acknowledged, and those the last restart found
  cut,              \* the topics whose index a failed rewrite left short
  draining          \* isDrainingLocked()

logs       == <<log, safe, cut>>
brokerVars == <<topics, logs, draining>>

BrokerInit ==
  /\ topics = {}
  /\ log = [t \in Topic |-> <<>>]
  /\ safe = [t \in Topic |-> 0]
  /\ cut = {}
  /\ draining = FALSE

Plain == [kind |-> "plain"]

\* CreateTopic: opens the topic's segment unless it is open already.
CreateTopic(t) == topics' = topics \cup {t}

\* Produce gets past its two early returns.
Accepts(t) == ~draining /\ t \in topics

\* The segment takes the entry in; its offset is the length before.
AppendEntry(t, entry) == log' = [log EXCEPT ![t] = Append(@, entry)]

\* Segment.Append succeeds, and Produce returns the offset.
Appends(t, entry) ==
  /\ AppendEntry(t, entry)
  /\ safe' = [safe EXCEPT ![t] = Len(log[t]) + 1]
  /\ cut' = cut \ {t}

\* Segment.Append fails before it touches the in-memory index, or after it,
\* with the record readable: the index could not be rewritten, which leaves
\* its file as it was or cut, or it was and the time index could not.
AppendFails(t, entry) ==
  /\ DiskFails
  /\ \/ UNCHANGED <<log, cut>>
     \/ AppendEntry(t, entry) /\ cut' \in {cut, cut \cup {t}, cut \ {t}}
  /\ UNCHANGED safe

\* Produce returns an error.
ProduceError(t, entry) == IF Accepts(t) THEN AppendFails(t, entry) ELSE UNCHANGED logs

\* Produce by a client that uses neither sequences nor transactions.
Produce(t) ==
  /\ Accepts(t)
  /\ Appends(t, Plain) \/ AppendFails(t, Plain)
  /\ UNCHANGED <<topics, draining>>

Drain ==
  /\ draining' = TRUE
  /\ UNCHANGED <<topics, logs>>

DrainEnds ==
  /\ draining
  /\ draining' = FALSE
  /\ UNCHANGED <<topics, logs>>

\* The topics whose index a crash may find exposed: those left cut, and the
\* one whose Produce, if one is running, is rewriting it.
ExposedTopics == {cut} \cup {cut \cup {t} : t \in {u \in Topic : Accepts(u)}}

\* How much of each log a restart may find.
Found(exposed) ==
  {kept \in [Topic -> UNION {0 .. Len(log[t]) : t \in Topic}] :
     \A t \in Topic : kept[t] <= Len(log[t]) /\ (t \notin exposed => kept[t] >= safe[t])}

\* The process dies and NewBroker starts on the same directory.
BrokerRestart ==
  /\ topics' = {}
  /\ draining' = FALSE
  /\ \E exposed \in ExposedTopics : safe' \in Found(exposed)
  /\ log' = [t \in Topic |-> SubSeq(log[t], 1, safe'[t])]
  /\ cut' = {}

\* What was safe before a restart and is gone after it.
Dropped == UNION {{log[t][i] : i \in safe'[t] + 1 .. safe[t]} : t \in Topic}
=============================================================================
