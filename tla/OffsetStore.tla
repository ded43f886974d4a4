---------------------------- MODULE OffsetStore ----------------------------
(***************************************************************************)
(* The committed offsets of consumer groups (CommitOffset and LoadOffset   *)
(* of broker/broker.go): one file per group and topic.  CommitOffset holds *)
(* Broker.mu while os.WriteFile truncates the file and writes it; but      *)
(* LoadOffset takes no lock, and the process may die in between.           *)
(***************************************************************************)
CONSTANTS
  Slot,             \* pairs of group and topic
  Offset            \* the offsets consumers commit; "%d" and Sscanf invert
                    \* each other, and CommitOffset compares no offsets

ASSUME OffsetAssumption == Offset \cap {"absent", "blank", "nothing", "error"} = {}

Absent  == "absent"     \* no such file
Blank   == "blank"      \* the file is there and empty: Sscanf fails on it
Nothing == "nothing"    \* no commit was acknowledged

VARIABLES
  file,             \* file[s]: Absent, Blank or the offset it holds
  commit,           \* the CommitOffset that holds Broker.mu
  acked,            \* history: acked[s], the last acknowledged commit
  unanswered,       \* history: unanswered[s], a later commit whose caller
                    \* got no answer because the process died
  cut               \* history: the slots whose last commit was cut short
                    \* between the truncation and the write

offsetVars == <<file, commit, acked, unanswered, cut>>

NoCommit == [pc |-> "idle"]

LoadError == "error"

\* LoadOffset: one read of the file, at any moment.
LoadOffset(s) == IF file[s] \in {Absent, Blank} THEN LoadError ELSE file[s]

OffsetInit ==
  /\ file = [s \in Slot |-> Absent]
  /\ commit = NoCommit
  /\ acked = [s \in Slot |-> Nothing]
  /\ unanswered = [s \in Slot |-> Nothing]
  /\ cut = {}

\* CommitOffset takes the lock; os.WriteFile opens the file, truncating it.
CommitTruncate(s, o) ==
  /\ commit = NoCommit
  /\ file' = [file EXCEPT ![s] = Blank]
  /\ commit' = [pc |-> "write", slot |-> s, offset |-> o]
  /\ UNCHANGED <<acked, unanswered, cut>>

CommitWrite ==
  /\ commit.pc = "write"
  /\ file' = [file EXCEPT ![commit.slot] = commit.offset]
  /\ commit' = [commit EXCEPT !.pc = "return"]
  /\ cut' = cut \ {commit.slot}
  /\ UNCHANGED <<acked, unanswered>>

CommitReturn ==
  /\ commit.pc = "return"
  /\ acked' = [acked EXCEPT ![commit.slot] = commit.offset]
  /\ unanswered' = [unanswered EXCEPT ![commit.slot] = Nothing]
  /\ commit' = NoCommit
  /\ UNCHANGED <<file, cut>>

\* Mutant: the error is swallowed, and the commit is acknowledged.
CommitFails_Acknowledged ==
  /\ commit.pc = "write"
  /\ acked' = [acked EXCEPT ![commit.slot] = commit.offset]
  /\ unanswered' = [unanswered EXCEPT ![commit.slot] = Nothing]
  /\ commit' = NoCommit
  /\ UNCHANGED <<file, cut>>

\* os.WriteFile reports an error after the truncation.
CommitFails ==
  /\ commit.pc = "write"
  /\ cut' = cut \cup {commit.slot}
  /\ commit' = NoCommit
  /\ UNCHANGED <<file, acked, unanswered>>

\* The process dies; the next one finds the files as they are.
Crash ==
  /\ cut' = IF commit.pc = "write" THEN cut \cup {commit.slot} ELSE cut
  /\ unanswered' = IF commit.pc = "return"
                     THEN [unanswered EXCEPT ![commit.slot] = commit.offset]
                     ELSE unanswered
  /\ commit' = NoCommit
  /\ UNCHANGED <<file, acked>>

OffsetNext ==
  \/ \E s \in Slot, o \in Offset : CommitTruncate(s, o)
  \/ CommitWrite
  \/ CommitReturn
  \/ CommitFails
  \/ Crash

OffsetSpec == OffsetInit /\ [][OffsetNext]_offsetVars

-----------------------------------------------------------------------------
\* The types of the files and of the commit in progress.
OffsetTypeOK ==
  /\ file \in [Slot -> Offset \cup {Absent, Blank}]
  /\ commit \in [pc : {"write", "return"}, slot : Slot, offset : Offset] \cup {NoCommit}
  /\ acked \in [Slot -> Offset \cup {Nothing}]
  /\ unanswered \in [Slot -> Offset \cup {Nothing}]
  /\ cut \subseteq Slot

Writing(s) == commit.pc # "idle" /\ commit.slot = s

\* Outside a commit of the same slot, and unless its last commit was cut
\* short, LoadOffset returns the last commit that was acknowledged, or a
\* later one that took effect unanswered: one whole commit repairs a slot.
LoadServesLatest ==
  \A s \in Slot :
    ~Writing(s) /\ s \notin cut =>
      LoadOffset(s) = IF unanswered[s] # Nothing THEN unanswered[s]
                      ELSE IF acked[s] # Nothing THEN acked[s] ELSE LoadError

=============================================================================
