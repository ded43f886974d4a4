------------------------------ MODULE RaftNode ------------------------------
(***************************************************************************)
(* A raft node on its directory (broker/internal/raft/node.go,             *)
(* persistent_mem.go), and the checkpoint scheduler that saves snapshots   *)
(* to the same directory (checkpoint_scheduler.go).                        *)
(*                                                                         *)
(* Start replays the log into memory; from then on one goroutine takes the *)
(* batches of entries raft hands out (Ready), writes and stores each, and  *)
(* after a long one saves a snapshot, compacts and rotates the log.  The   *)
(* process may die between any two steps.  Stop does not wait for that     *)
(* goroutine, which goes on to the end of its round; every start is a new  *)
(* Node, its number counts the starts.  No Node is given peers, so there   *)
(* are no messages.                                                        *)
(***************************************************************************)
EXTENDS RaftWAL

CONSTANTS
  DiskFails,        \* TRUE: writes and reads of the log may fail
  Crashes,          \* TRUE: the process may die
  Overlap,          \* TRUE: a Node may start before the last one's goroutine
                    \* ended, as Stop allows
  Threshold,        \* snapshotThreshold
  MaxStarts,        \* bound: starts of a Node
  MaxEntries,       \* bound: entries handed out
  MaxFaults,        \* bound: failed writes, unread logs, crashes and lost
                    \* directories
  MaxSnaps          \* bound: the scheduler saves none after this many

ASSUME NodeAssumption ==
  /\ {DiskFails, Crashes, Overlap} \subseteq BOOLEAN
  /\ {Threshold, MaxStarts, MaxEntries, MaxFaults, MaxSnaps} \subseteq Nat

Life == 1 .. MaxStarts

VARIABLES
  node,             \* node[k]: the goroutine and the memory of start k
  starts,           \* how many there were
  stopped,          \* Stop was called on the last one
  sched,            \* the scheduler's goroutine: "idle", or the snapshot it
                    \* saves, or "ended"
  written,          \* history: entries in the order the loop wrote them
  stable,           \* history: the entries raft was told are stable
  saved,            \* history: snapshots whose SaveSnapshot returned, and
                    \* that no copy from the offload store cut short since
  damaged,          \* history: a write failed or was cut short, or a start
                    \* could not read the log
  faults            \* how many there were

lifeVars == <<starts, stopped>>
histVars == <<written, stable, saved, damaged, faults>>
vars     == <<walVars, snapVars, node, lifeVars, sched, histVars>>

Keep == 2           \* PurgeOldSnapshots(2)

NoNode == [pc |-> "none", batch |-> <<>>, mem |-> <<>>, next |-> 1, pm |-> FALSE, snap |-> 0]

Init ==
  /\ WALInit
  /\ node = [k \in Life |-> NoNode]
  /\ starts = 0
  /\ stopped = TRUE
  /\ sched = [pc |-> "idle", snap |-> 0]
  /\ written = <<>>
  /\ stable = {}
  /\ saved = {}
  /\ damaged = FALSE
  /\ faults = 0

Running(k) == node[k].pc \notin {"none", "ended"}

Goes(k, pc) == node' = [node EXCEPT ![k].pc = pc]

Fault(may) == may /\ faults < MaxFaults /\ faults' = faults + 1

\* The goroutine has returned; nobody holds the Node's memory any more.
Ended == [NoNode EXCEPT !.pc = "ended"]

-----------------------------------------------------------------------------
\* A Node that found the entries ents in the log.
Found(ents) ==
  IF ents = <<>> THEN [NoNode EXCEPT !.pc = "ready"]
  ELSE [NoNode EXCEPT !.pc = "replay", !.batch = ents, !.pm = TRUE]

\* Start, up to the replay.  The snapshot, if one is loaded, is read and
\* offered to the memory storage with index 0, which refuses it as out of date.
Begins(n) ==
  /\ stopped /\ starts < MaxStarts
  /\ Overlap \/ \A k \in Life : ~Running(k)
  /\ starts' = starts + 1
  /\ stopped' = FALSE
  /\ \E l \in LoadSnapshot : snaps' = l.snaps /\ cut' = l.cut /\ saved' = saved \ l.cut
  /\ node' = [node EXCEPT ![starts + 1] = n]
  /\ UNCHANGED <<walVars, uploads, snapId, sched, written, stable>>

Start ==
  /\ \E o \in ReadOutcomes : Begins(Found(o.ents))
  /\ UNCHANGED <<damaged, faults>>

\* A file of the log cannot be read: the Node starts as on an empty log.
StartUnread ==
  /\ Fault(DiskFails)
  /\ damaged' = TRUE
  /\ Begins(Found(<<>>))

\* MemoryStorage.Append: overwrites from the batch's first index on.
MemoryAppend(mem, ents) == SubSeq(mem, 1, ents[1] - 1) \o ents

\* MemoryStorage.Append panics when entries are missing before the batch.
Missing(k) == node[k].batch[1] > Len(node[k].mem) + 1

\* persistentMemory.Append: to the log, and then to the memory.
Replay(k) ==
  LET n == node[k]
  IN  /\ n.pc = "replay" /\ ~Missing(k)
      /\ AppendWAL(n.batch)
      /\ node' = [node EXCEPT ![k].pc = "ready", ![k].batch = <<>>, ![k].mem = MemoryAppend(n.mem, n.batch),
                              ![k].next = Len(n.batch) + 1]
      /\ UNCHANGED <<snapVars, lifeVars, sched, histVars>>

\* raft hands out a batch, once it was told that the last one is stable; the
\* indexes go on from the memory's last one.
Ready(k, size) ==
  /\ node[k].pc = "ready" /\ node[k].batch = <<>> /\ k = starts /\ ~stopped
  /\ Len(written) + size <= MaxEntries
  /\ node' = [node EXCEPT ![k].pc = "write", ![k].batch = [i \in 1 .. size |-> node[k].next + i - 1],
                          ![k].next = @ + size]
  /\ UNCHANGED <<walVars, snapVars, lifeVars, sched, histVars>>

\* The log, first.
Write(k) ==
  /\ node[k].pc = "write"
  /\ AppendWAL(node[k].batch)
  /\ written' = written \o node[k].batch
  /\ Goes(k, "store")
  /\ UNCHANGED <<snapVars, lifeVars, sched, stable, saved, damaged, faults>>

AfterStore(k) == IF Len(node[k].batch) >= Threshold THEN "save" ELSE "advance"

\* Mutant: a persistent memory only writes the log.
Store_LogOnly(k) ==
  LET n == node[k]
  IN  /\ n.pc = "store" /\ ~Missing(k)
      /\ IF n.pm THEN AppendWAL(n.batch) ELSE UNCHANGED walVars
      /\ node' = [node EXCEPT ![k].pc = AfterStore(k),
                              ![k].mem = IF n.pm THEN n.mem ELSE MemoryAppend(n.mem, n.batch)]
      /\ UNCHANGED <<snapVars, lifeVars, sched, histVars>>

\* Then the memory, which after a replay writes the log a second time.
Store(k) ==
  LET n == node[k]
  IN  /\ n.pc = "store" /\ ~Missing(k)
      /\ IF n.pm THEN AppendWAL(n.batch) ELSE UNCHANGED walVars
      /\ node' = [node EXCEPT ![k].pc = AfterStore(k), ![k].mem = MemoryAppend(n.mem, n.batch)]
      /\ UNCHANGED <<snapVars, lifeVars, sched, histVars>>

\* The log cannot be written.  The error is dropped; a persistent memory has
\* not taken the entries in.
WriteFails(k) ==
  LET n == node[k]
  IN  /\ Fault(DiskFails)
      /\ \/ n.pc = "write" /\ Goes(k, "store")
         \/ n.pc = "store" /\ n.pm /\ Goes(k, AfterStore(k))
         \/ n.pc = "replay" /\ node' = [node EXCEPT ![k].pc = "ready", ![k].batch = <<>>]
      /\ AppendWALTorn
      /\ damaged' = TRUE
      /\ UNCHANGED <<snapVars, lifeVars, sched, written, stable, saved>>

\* SaveSnapshot of the loop, in its three steps.
Save(k) ==
  LET n == node[k]
  IN  /\ \/ n.pc = "save" /\ SaveCreate /\ node' = [node EXCEPT ![k].pc = "copy", ![k].snap = snapId + 1]
            /\ UNCHANGED saved
         \/ n.pc = "copy" /\ SaveCopy(n.snap) /\ Goes(k, "upload") /\ UNCHANGED saved
         \/ n.pc = "upload" /\ SaveUpload(n.snap) /\ Goes(k, "compact") /\ saved' = saved \cup {n.snap}
      /\ UNCHANGED <<walVars, lifeVars, sched, written, stable, damaged, faults>>

\* Mutant: the round is left without Advance.
StepFails_Continues(k) ==
  /\ Fault(DiskFails)
  /\ node[k].pc \in {"save", "copy", "compact", "rename", "create", "purge"}
  /\ Goes(k, "ready")
  /\ UNCHANGED <<walVars, snapVars, lifeVars, sched, written, stable, saved, damaged>>

\* A file cannot be opened, written or renamed: the rest of the snapshot's
\* or the compaction's steps is left out.
StepFails(k) ==
  /\ Fault(DiskFails)
  /\ node[k].pc \in {"save", "copy", "compact", "rename", "create", "purge"}
  /\ Goes(k, "advance")
  /\ UNCHANGED <<walVars, snapVars, lifeVars, sched, written, stable, saved, damaged>>

\* Node.Compact(0): reads the log, which may fail, and truncates wal.log.
Compact(k) ==
  /\ node[k].pc = "compact"
  /\ \E o \in ReadOutcomes :
       IF o.err THEN Goes(k, "advance") /\ UNCHANGED walVars
       ELSE CompactTruncate /\ node' = [node EXCEPT ![k].pc = "rewrite", ![k].batch = Kept(o.ents, 0)]
  /\ UNCHANGED <<snapVars, lifeVars, sched, histVars>>

\* The rest of Compact, RotateWAL and PurgeOldSnapshots.
Rotate(k) ==
  LET n == node[k]
  IN  /\ \/ n.pc = "rewrite" /\ CompactWrite(n.batch) /\ Goes(k, "remove") /\ UNCHANGED snapVars
         \/ n.pc = "remove" /\ (RemoveRotated \/ (DiskFails /\ UNCHANGED walVars)) /\ Goes(k, "rename") /\ UNCHANGED snapVars
         \/ n.pc = "rename" /\ RotateRename /\ Goes(k, "create") /\ UNCHANGED snapVars
         \/ n.pc = "create" /\ RotateCreate /\ Goes(k, "purge") /\ UNCHANGED snapVars
         \/ n.pc = "purge" /\ PurgeOldSnapshots(Keep) /\ Goes(k, "advance") /\ UNCHANGED walVars
      /\ UNCHANGED <<lifeVars, sched, histVars>>

\* The frame of the compacted log cannot be written: it is empty or torn.
RewriteFails(k) ==
  /\ Fault(DiskFails)
  /\ node[k].pc = "rewrite"
  /\ AppendWALTorn
  /\ damaged' = TRUE
  /\ Goes(k, "advance")
  /\ UNCHANGED <<snapVars, lifeVars, sched, written, stable, saved>>

\* Advance tells raft that the batch is stable; Node.next holds its end.
Advance(k) ==
  /\ node[k].pc = "advance"
  /\ stable' = stable \cup {e \in Range(written) : e < node[k].next}
  /\ node' = [node EXCEPT ![k].pc = "ready", ![k].batch = <<>>, ![k].snap = 0]
  /\ UNCHANGED <<walVars, snapVars, lifeVars, sched, written, saved, damaged, faults>>

\* Stop; the goroutine sees it when its round is over.
Stop ==
  /\ ~stopped /\ node[starts].pc # "replay"
  /\ stopped' = TRUE
  /\ UNCHANGED <<walVars, snapVars, node, starts, sched, histVars>>

LoopEnds(k) ==
  /\ node[k].pc = "ready" /\ (k < starts \/ stopped)
  /\ node' = [node EXCEPT ![k] = Ended]
  /\ UNCHANGED <<walVars, snapVars, lifeVars, sched, histVars>>

\* CheckpointScheduler.Run: a tick saves a snapshot; errors are dropped.
SchedulerSave ==
  /\ \/ sched.pc = "idle" /\ snapId < MaxSnaps /\ SaveCreate
        /\ sched' = [pc |-> "copy", snap |-> snapId + 1] /\ UNCHANGED saved
     \/ sched.pc = "copy" /\ SaveCopy(sched.snap) /\ sched' = [sched EXCEPT !.pc = "upload"] /\ UNCHANGED saved
     \/ sched.pc = "upload" /\ SaveUpload(sched.snap) /\ sched' = [pc |-> "idle", snap |-> 0]
        /\ saved' = saved \cup {sched.snap}
  /\ UNCHANGED <<walVars, node, lifeVars, written, stable, damaged, faults>>

\* CheckpointScheduler.Stop; Run sees it between two snapshots.
SchedulerStop ==
  /\ sched.pc = "idle"
  /\ sched' = [pc |-> "ended", snap |-> 0]
  /\ UNCHANGED <<walVars, snapVars, node, lifeVars, histVars>>

\* Everything in memory is gone.
Dies ==
  /\ node' = [k \in Life |-> IF Running(k) THEN Ended ELSE node[k]]
  /\ stopped' = TRUE
  /\ sched' = [pc |-> "idle", snap |-> 0]
  /\ UNCHANGED <<snapVars, starts, written, stable, saved>>

Writing(k) == node[k].pc \in {"write", "replay", "rewrite"} \/ (node[k].pc = "store" /\ node[k].pm)

\* The process dies.  A write in progress may leave a torn frame, and a
\* rewrite in progress leaves at least the truncation.
Crash ==
  /\ starts > 0 /\ Fault(Crashes)
  /\ \/ UNCHANGED walVars /\ damaged' = (damaged \/ \E k \in Life : node[k].pc = "rewrite")
     \/ (\E k \in Life : Writing(k)) /\ AppendWALTorn /\ wlog' # wlog /\ damaged' = TRUE
  /\ Dies

\* MemoryStorage.Append panics, after the log of a persistent memory has
\* taken the batch in.
StorePanics(k) ==
  /\ node[k].pc \in {"replay", "store"} /\ Missing(k)
  /\ IF node[k].pm THEN AppendWAL(node[k].batch) ELSE UNCHANGED walVars
  /\ UNCHANGED <<damaged, faults>>
  /\ Dies

\* The directory is lost with its machine; a new one takes its place.
NewDirectory ==
  /\ Offload /\ Fault(Crashes)
  /\ \A k \in Life : ~Running(k)
  /\ sched.pc = "idle"
  /\ rotated' = <<>> /\ wlog' = <<>>
  /\ snaps' = {} /\ cut' = {}
  /\ written' = <<>> /\ stable' = {} /\ damaged' = FALSE
  /\ saved' = uploads
  /\ stopped' = TRUE
  /\ UNCHANGED <<uploads, snapId, node, starts, sched>>

LoopStep(k) ==
  \/ Replay(k) \/ Write(k) \/ Store(k) \/ WriteFails(k) \/ Save(k) \/ StepFails(k)
  \/ Compact(k) \/ Rotate(k) \/ RewriteFails(k) \/ Advance(k) \/ LoopEnds(k) \/ StorePanics(k)

Next ==
  \/ Start \/ StartUnread \/ Stop \/ Crash \/ NewDirectory
  \/ SchedulerSave \/ SchedulerStop
  \/ \E k \in Life : LoopStep(k) \/ \E size \in 1 .. Threshold : Ready(k, size)

Spec == Init /\ [][Next]_vars

\* The goroutine of a Node keeps running, and no step of its round waits.
FairSpec == Spec /\ \A k \in Life : WF_vars(LoopStep(k))

-----------------------------------------------------------------------------
\* The types of the files and of the goroutines.
TypeOK ==
  /\ \A f \in Range(Files) : f \in Seq([ents : Seq(Nat \ {0}), whole : BOOLEAN])
  /\ cut \subseteq snaps
  /\ \A s \in snaps \cup uploads : s \in 1 .. snapId
  /\ node \in [Life -> [pc : {"none", "replay", "ready", "write", "store", "save", "copy", "upload", "compact",
                            "rewrite", "remove", "rename", "create", "purge", "advance", "ended"},
                       batch : Seq(Nat), mem : Seq(Nat), next : Nat, pm : BOOLEAN, snap : Nat]]
  /\ sched \in [pc : {"idle", "copy", "upload", "ended"}, snap : 0 .. snapId]

\* a occurs in ents, and b not before it.
Before(ents, a, b) == \E p \in DOMAIN ents : ents[p] = a /\ \A q \in 1 .. p : ents[q] # b

\* w has every entry of ents once, in the order in which they first occur.
FirstOccurrences(w, ents) ==
  /\ Range(w) = Range(ents)
  /\ \A i, j \in DOMAIN w : i < j <=> Before(ents, w[i], w[j])

Undamaged == ~damaged /\ \A k \in Life : node[k].pc # "rewrite"

\* Unless a write failed or was cut short (or a start could not read the log,
\* and began with index 1 again), the log read from the files holds
\* every entry ever written, in order, whatever was rotated, compacted and
\* replayed, and wherever the process died: repetitions come after.
LogKeepsEntries == Undamaged => FirstOccurrences(written, ReadWAL)

\* Under the same condition a Node that has replayed the log has all stable
\* entries in memory, and each at its index if no entry was repeated.
MemoryHolds ==
  ~damaged =>
    \A k \in Life : Running(k) /\ node[k].pc # "replay" =>
      LET mem == node[k].mem
      IN  /\ stable \subseteq Range(mem)
          /\ IsInjective(mem) => \A i \in DOMAIN mem : mem[i] = i

\* A LoadSnapshot that fails nowhere opens a snapshot at least as new as every
\* one whose save returned and every one in the offload store, although the
\* loop purges while the scheduler saves, and the directory may be lost.  And
\* if the save of the one it opens returned, that is whole, unless it had been
\* copied back from the offload store and the copy ended early.
SnapshotNewest ==
  \A l \in LoadSnapshot : ~l.failed =>
    /\ \A s \in saved \cup uploads : l.snap >= s
    /\ l.snap \in saved => l.snap \notin cut

\* raft, which waits for it, is told of every batch it handed out, whatever
\* step of the round failed, unless the process dies or the Node is stopped.
ReadyAdvanced ==
  \A k \in Life : node[k].pc = "write" ~> \/ node[k].pc = "ended"
                                          \/ node[k].pc = "ready" /\ node[k].batch = <<>>

\* A Node that was started on a directory with entries finds them.
DataAfterRestart ==
  \A k \in Life : ~damaged /\ k = starts /\ node[k].pc = "ready" /\ written # <<>> => ReadWAL # <<>>
=============================================================================
