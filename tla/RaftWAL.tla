------------------------------ MODULE RaftWAL ------------------------------
(***************************************************************************)
(* The directory of a raft node (broker/internal/raft/wal.go): the log     *)
(* file wal.log, the rotated logs before it, and the snapshots, with their *)
(* copies in the offload store.  Each operator is one file operation; what *)
(* is between two of them may be interrupted.                              *)
(*                                                                         *)
(* An entry is its raft index.  A log file is a sequence of frames; a torn *)
(* frame lacks a part of its header or payload.  A snapshot is the number  *)
(* its name carries (the clock's nanoseconds).                             *)
(***************************************************************************)
EXTENDS Integers, Sequences, FiniteSets, FiniteSetsExt, Functions, Lists

CONSTANT Offload         \* TRUE: the store has an Offloader

ASSUME OffloadAssumption == Offload \in BOOLEAN

VARIABLES
  rotated,          \* the files wal.<time>.log, oldest first
  wlog,             \* the frames of wal.log, none if it does not exist
  snaps,            \* the files snapshot.<id>.snap
  cut,              \* of these, the ones that are not (yet) whole
  uploads,          \* the snapshots in the offload store
  snapId            \* the last id given out

walVars  == <<rotated, wlog>>
snapVars == <<snaps, cut, uploads, snapId>>

Frame(ents) == [ents |-> ents, whole |-> TRUE]
Torn        == [ents |-> <<>>, whole |-> FALSE]

WALInit ==
  /\ rotated = <<>>
  /\ wlog = <<>>
  /\ snaps = {}
  /\ cut = {}
  /\ uploads = {}
  /\ snapId = 0

\* Mutant: wal.log is read before the rotated files.
Files_LogFirst == <<wlog>> \o rotated

\* The files in the order of their names: digits sort before "log".
Files == Append(rotated, wlog)

IsTorn(frame) == ~frame.whole

\* The frames before the first torn one, at which the reading of f stops.
Whole(f) ==
  LET torn == {j \in DOMAIN f : IsTorn(f[j])}
  IN  IF torn = {} THEN f ELSE SubSeq(f, 1, Min(torn) - 1)

Entries(f) == Flatten([i \in DOMAIN f |-> f[i].ents])

\* ReadWAL(0).
ReadWAL == Flatten([i \in DOMAIN Files |-> Entries(Whole(Files[i]))])

\* A frame was appended behind a torn one, whose length now covers it.
Garbled == \E i \in DOMAIN Files : \E j \in DOMAIN Files[i] : IsTorn(Files[i][j]) /\ j < Len(Files[i])

\* unmarshalEntries of ReadWAL.  Garbled bytes are skipped with the rest of
\* their file, or read as entries that end early (no entries, no error), or
\* as an entry that does not parse (an error).
ReadOutcomes ==
  {[err |-> FALSE, ents |-> ReadWAL]} \cup
  IF Garbled THEN {[err |-> e, ents |-> <<>>] : e \in BOOLEAN} ELSE {}

\* AppendWAL: opens wal.log for appending, creating it.
AppendWAL(ents) ==
  /\ wlog' = Append(wlog, Frame(ents))
  /\ UNCHANGED rotated

\* A part of the frame, or nothing of it, gets written.
AppendWALTorn ==
  /\ wlog' \in {wlog, Append(wlog, Torn)}
  /\ UNCHANGED rotated

\* Compact: the entries above the compaction index.  Entries from raft carry
\* an index from 1 on, so the rule for entries without one does not apply.
Kept(ents, compactIndex) ==
  Flatten([i \in DOMAIN ents |-> IF ents[i] > compactIndex THEN <<ents[i]>> ELSE <<>>])

CompactTruncate ==
  /\ wlog' = <<>>
  /\ UNCHANGED rotated

\* Compact writes its frame at the start of the file it truncated.  Frames
\* appended by another node meanwhile are overwritten in part or whole.
CompactWrite(ents) ==
  /\ wlog' \in {<<Frame(ents)>>} \cup IF wlog = <<>> THEN {} ELSE {<<Frame(ents), Torn>>}
  /\ UNCHANGED rotated

RemoveRotated ==
  /\ rotated' = <<>>
  /\ UNCHANGED wlog

\* RotateWAL: the rename (Compact has made sure that there is a wal.log),
\* and the creation of the next wal.log.
RotateRename ==
  /\ rotated' = Append(rotated, wlog)
  /\ wlog' = <<>>

RotateCreate == CompactTruncate

\* SaveSnapshot: the file is created, then filled, then uploaded.
SaveCreate ==
  /\ snapId' = snapId + 1
  /\ snaps' = snaps \cup {snapId + 1}
  /\ cut' = cut \cup {snapId + 1}
  /\ UNCHANGED uploads

SaveCopy(id) ==
  /\ cut' = cut \ {id}
  /\ UNCHANGED <<snaps, uploads, snapId>>

\* S3Offloader.Upload: the object is stored as a whole, or there is an error.
Upload(id) == uploads' \in {uploads, uploads \cup {id}}

\* The upload, unless the file was purged meanwhile; its error is dropped.
SaveUpload(id) ==
  /\ IF Offload /\ id \in snaps THEN Upload(id) ELSE UNCHANGED uploads
  /\ UNCHANGED <<snaps, cut, snapId>>

\* The newest key S3Offloader.List gives.
Newest(S) == IF S = {} THEN 0 ELSE Max(S)

\* The newest of the files S is opened (0: there is none), unless that fails;
\* the directory then has the files S, of which c are cut.
Opened(S, c, failed) == [snap |-> IF failed THEN 0 ELSE Newest(S), failed |-> failed, snaps |-> S, cut |-> c]

Openings(S, c) == {Opened(S, c, failed) : failed \in BOOLEAN}

\* Mutant: a file is written although the offload store has no snapshot.
LoadSnapshot_Always ==
  IF snaps # {} THEN Openings(snaps, cut) ELSE Openings({Newest(uploads)}, {})

\* The outcomes of LoadSnapshot.  If the directory has no snapshot, the newest
\* of the offload store is copied into it: this fails before the file is
\* created, or the copy ends early, which is not looked at, or is whole.
LoadSnapshot ==
  LET key == {Newest(uploads)}
  IN  IF snaps # {} \/ uploads = {} THEN Openings(snaps, cut)
      ELSE {Opened(snaps, cut, TRUE)} \cup Openings(key, {}) \cup Openings(key, key)

\* Mutant: the newest ones are removed.
Purged_Newest(keep) == {s \in snaps : Cardinality({t \in snaps : t < s}) < keep}

\* PurgeOldSnapshots: all but the newest go.
Purged(keep) == {s \in snaps : Cardinality({t \in snaps : t > s}) < keep}

PurgeOldSnapshots(keep) ==
  /\ snaps' = Purged(keep)
  /\ cut' = cut \cap Purged(keep)
  /\ UNCHANGED <<uploads, snapId>>
=============================================================================
