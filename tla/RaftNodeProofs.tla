--------------------------- MODULE RaftNodeProofs ---------------------------
(***************************************************************************)
(* Proof that the snapshot a raft node loads at its start is never older   *)
(* than one whose save returned, nor cut if its own save returned and no   *)
(* copy from the offload store cut it, for any thresholds, numbers of      *)
(* starts and faults, with the scheduler saving and the loop purging at    *)
(* once.                                                                   *)
(***************************************************************************)
EXTENDS RaftNode, FiniteSetTheorems, TLAPS

\* m is the newest of S.
IsNewest(m, S) == m \in S /\ \A s \in S : s <= m

HasNewest(S) == S = {} \/ \E m \in S : IsNewest(m, S)

\* A snapshot as new as s is in the directory.
Reaches(s) == \E t \in snaps : s <= t

Fields == {"pc", "batch", "mem", "next", "pm", "snap"}

\* Saving a snapshot, and not done.
Saves(n) == n.pc \in {"copy", "upload"}

\* The sets of snapshots have a newest one.
SetsOK ==
  /\ snapId \in Nat
  /\ snaps \subseteq 1 .. snapId /\ HasNewest(snaps)
  /\ uploads \subseteq 1 .. snapId /\ HasNewest(uploads)
  /\ saved \subseteq 1 .. snapId

Formed ==
  /\ node = [k \in Life |-> node[k]]
  /\ \A k \in Life : node[k] = [f \in Fields |-> node[k][f]]
  /\ sched = [f \in {"pc", "snap"} |-> sched[f]]

\* What is being saved is reached in the directory.
SavesReach ==
  /\ \A k \in Life : Saves(node[k]) => node[k].snap \in Nat \ {0} /\ Reaches(node[k].snap)
  /\ Saves(sched) => sched.snap \in Nat \ {0} /\ Reaches(sched.snap)

\* So is what was saved; if the directory is empty, in the offload store.
SavedReach ==
  \A s \in saved \cup uploads : IF snaps # {} THEN Reaches(s) ELSE \E u \in uploads : s <= u

\* n is a save, and its file has been filled.
Filled(n) == n.pc = "upload"

\* What was saved is whole, and so is what is about to be.
SavedWhole ==
  /\ \A s \in saved : s \notin cut
  /\ \A k \in Life : Filled(node[k]) => node[k].snap \notin cut
  /\ Filled(sched) => sched.snap \notin cut

IInv == SetsOK /\ Formed /\ SavesReach /\ SavedReach /\ SavedWhole

\* The newest one is what Newest gives.
LEMMA NewestIs ==
  ASSUME NEW S, HasNewest(S), S \subseteq Nat, S # {}
  PROVE  IsNewest(Newest(S), S)
<1>1. PICK m \in S : \A s \in S : m >= s
  BY Zenon DEF HasNewest, IsNewest
<1>2. Max(S) \in S /\ \A s \in S : Max(S) >= s
  BY <1>1, Zenon DEF Max
<1> QED
  BY <1>2, Zenon DEF Newest, IsNewest

LEMMA NewestOfOne ==
  ASSUME NEW m \in Nat
  PROVE  Newest({m}) = m
<1>1. m \in {m} /\ \A y \in {m} : m >= y
  OBVIOUS
<1>2. Max({m}) \in {m}
  BY <1>1, Zenon DEF Max
<1> QED
  BY <1>2, Zenon DEF Newest

\* What a LoadSnapshot that does not fail opens.
LEMMA LoadedIs ==
  ASSUME NEW l \in LoadSnapshot, ~l.failed
  PROVE  /\ snaps # {} => l.snap = Newest(snaps)
         /\ snaps = {} /\ uploads # {} /\ Newest(uploads) \in Nat => l.snap = Newest(uploads)
<1>1. ASSUME NEW S, NEW c, l \in Openings(S, c) PROVE l.snap = Newest(S)
  <2>1. PICK f \in BOOLEAN : l = Opened(S, c, f)
    BY <1>1, Zenon DEF Openings
  <2> QED
    BY <2>1 DEF Opened
<1>2. l # Opened(snaps, cut, TRUE)
  BY DEF Opened
<1>3. CASE snaps # {}
  BY <1>1, <1>3, Zenon DEF LoadSnapshot
<1>4. CASE snaps = {} /\ uploads # {} /\ Newest(uploads) \in Nat
  <2>1. PICK c : l \in Openings({Newest(uploads)}, c)
    BY <1>2, <1>4, Zenon DEF LoadSnapshot
  <2>2. l.snap = Newest({Newest(uploads)})
    BY <1>1, <2>1, Zenon
  <2> QED
    BY <1>4, <2>2, NewestOfOne, Zenon
<1> QED
  BY <1>3, <1>4, Zenon

\* A start loads a snapshot as new as all that were saved.
LEMMA LoadsNewest == IInv => SnapshotNewest
<1> SUFFICES ASSUME IInv, NEW l \in LoadSnapshot, ~l.failed, NEW s \in saved \cup uploads PROVE l.snap >= s
  <2>1. ASSUME IInv, NEW l \in LoadSnapshot, l.snap \in saved PROVE l.snap \notin cut
    BY <2>1, Zenon DEF IInv, SavedWhole
  <2> QED
    BY <2>1, Zenon DEF SnapshotNewest
<1>1. s \in Nat /\ snaps \subseteq Nat /\ uploads \subseteq Nat
  BY DEF IInv, SetsOK
<1>2. CASE snaps # {}
  <2>1. PICK t \in snaps : s <= t
    BY <1>2, Zenon DEF IInv, SavedReach, Reaches
  <2>2. IsNewest(Newest(snaps), snaps)
    BY <1>1, <1>2, NewestIs, Zenon DEF IInv, SetsOK
  <2>3. l.snap = Newest(snaps)
    BY <1>2, LoadedIs, Zenon
  <2>4. Newest(snaps) \in Nat /\ t \in Nat /\ t <= Newest(snaps)
    BY <1>1, <2>1, <2>2, Zenon DEF IsNewest
  <2> QED
    BY <1>1, <2>1, <2>3, <2>4
<1>3. CASE snaps = {}
  <2>1. PICK t \in uploads : s <= t
    BY <1>3, Zenon DEF IInv, SavedReach
  <2>2. IsNewest(Newest(uploads), uploads)
    BY <1>1, <2>1, NewestIs, Zenon DEF IInv, SetsOK
  <2>4. Newest(uploads) \in Nat /\ t \in Nat /\ t <= Newest(uploads)
    BY <1>1, <2>1, <2>2, Zenon DEF IsNewest
  <2>3. l.snap = Newest(uploads)
    BY <1>1, <1>3, <2>1, <2>4, LoadedIs, Zenon
  <2> QED
    BY <1>1, <2>1, <2>3, <2>4
<1> QED
  BY <1>2, <1>3, Zenon

\* There are no snapshots at first, and nothing runs.
LEMMA InitIInv == Init => IInv
<1> SUFFICES ASSUME Init PROVE IInv
  BY Zenon
<1>1. SetsOK
  BY Zenon DEF Init, WALInit, SetsOK, HasNewest
<1>2. Formed
  BY Zenon DEF Init, Formed, NoNode, Fields
<1>3. SavesReach /\ SavedReach /\ SavedWhole
  BY Zenon DEF Init, WALInit, SavesReach, SavedReach, SavedWhole, Saves, Filled, NoNode
<1> QED
  BY <1>1, <1>2, <1>3, Zenon DEF IInv

\* n goes on saving what m saved.
SameSave(m, n) == (Saves(n) => Saves(m) /\ n.snap = m.snap) /\ (Filled(n) => Filled(m))

\* No save has begun in this step, or filled its file.
Quiet == (\A k \in Life : SameSave(node[k], node'[k])) /\ SameSave(sched, sched')

\* Nothing comes to be cut in a quiet step.
LEMMA QuietWhole ==
  ASSUME IInv, Quiet, cut' \subseteq cut, saved' \subseteq saved
  PROVE  SavedWhole'
<1>1. \A k \in Life : Filled(node'[k]) => node'[k].snap \notin cut
  BY Zenon DEF IInv, SavedWhole, Quiet, SameSave, Saves, Filled
<1>2. Filled(sched') => sched'.snap \notin cut
  BY Zenon DEF IInv, SavedWhole, Quiet, SameSave, Saves, Filled
<1> QED
  BY <1>1, <1>2, Zenon DEF IInv, SavedWhole, Filled

\* Steps that touch no snapshot and begin no save.
LEMMA QuietIInv ==
  ASSUME IInv, Formed', Quiet, UNCHANGED <<snaps, uploads, snapId, saved>>, cut' \subseteq cut
  PROVE  IInv'
<1>1. SetsOK'
  BY Zenon DEF IInv, SetsOK
<1>2. SavesReach'
  <2>1. \A k \in Life : Saves(node[k])' => node'[k].snap \in Nat \ {0} /\ \E t \in snaps : node'[k].snap <= t
    BY Zenon DEF IInv, SavesReach, Reaches, Quiet, SameSave, Saves
  <2>2. Saves(sched)' => sched'.snap \in Nat \ {0} /\ \E t \in snaps : sched'.snap <= t
    BY Zenon DEF IInv, SavesReach, Reaches, Quiet, SameSave, Saves
  <2> QED
    BY <2>1, <2>2, Zenon DEF SavesReach, Reaches
<1>3. SavedReach'
  BY Zenon DEF IInv, SavedReach, Reaches
<1>4. SavedWhole'
  BY QuietWhole, Zenon
<1> QED
  BY <1>1, <1>2, <1>3, <1>4, Zenon DEF IInv

\* One Node changes, into the record r, and begins no save.
LEMMA OneNode ==
  ASSUME IInv, NEW x, NEW r, r = [f \in Fields |-> r[f]],
         node' = [node EXCEPT ![x] = r], UNCHANGED sched
  PROVE  /\ Formed'
         /\ ~Saves(r) => Quiet
<1>1. node = [k \in Life |-> node[k]] /\ \A k \in Life : node[k] = [f \in Fields |-> node[k][f]]
  BY Zenon DEF IInv, Formed
<1>2. \A k \in Life : node'[k] = IF k = x THEN r ELSE node[k]
  BY <1>1, Zenon
<1>3. node' = [k \in Life |-> node'[k]]
  BY <1>1, Zenon
<1>4. \A k \in Life : node'[k] = [f \in Fields |-> node'[k][f]]
  BY <1>1, <1>2, Zenon
<1>5. Formed'
  BY <1>3, <1>4, Zenon DEF IInv, Formed
<1> QED
  BY <1>2, <1>5, Zenon DEF Quiet, SameSave, Saves, Filled

\* A Node's goroutine goes on to pc.
LEMMA GoesOn ==
  ASSUME IInv, NEW k \in Life, NEW pc, Goes(k, pc), UNCHANGED sched
  PROVE  /\ Formed'
         /\ pc \notin {"copy", "upload"} => Quiet
         /\ \A j \in Life : node'[j].snap = node[j].snap
<1> DEFINE r == [node[k] EXCEPT !.pc = pc]
<1>1. node' = [node EXCEPT ![k] = r]
  BY Zenon DEF Goes
<1>2. node[k] = [f \in Fields |-> node[k][f]]
  BY Zenon DEF IInv, Formed
<1>3. r = [f \in Fields |-> r[f]] /\ r.pc = pc /\ r.snap = node[k].snap
  BY <1>2, Zenon DEF Fields
<1> HIDE DEF r
<1>4. node = [j \in Life |-> node[j]]
  BY Zenon DEF IInv, Formed
<1> QED
  BY <1>1, <1>3, <1>4, OneNode, Zenon DEF Saves

\* A step that loses nobody's reach in the directory keeps the saves in it.
LEMMA KeepsReach ==
  ASSUME IInv, Formed', Quiet, SetsOK',
         \A s \in Nat : Reaches(s) => \E t \in snaps' : s <= t
  PROVE  SavesReach'
<1>1. \A k \in Life : Saves(node[k])' => node'[k].snap \in Nat \ {0} /\ \E t \in snaps' : node'[k].snap <= t
  BY Zenon DEF IInv, SavesReach, Quiet, SameSave, Saves
<1>2. Saves(sched)' => sched'.snap \in Nat \ {0} /\ \E t \in snaps' : sched'.snap <= t
  BY Zenon DEF IInv, SavesReach, Quiet, SameSave, Saves
<1> QED
  BY <1>1, <1>2, Zenon DEF SavesReach, Reaches

\* A new snapshot file is newer than all others.
LEMMA SaveCreateIInv ==
  ASSUME IInv, SaveCreate, UNCHANGED saved, Formed',
         \A k \in Life : SameSave(node[k], node'[k]) \/ (node'[k].pc = "copy" /\ node'[k].snap = snapId + 1),
         SameSave(sched, sched') \/ (sched'.pc = "copy" /\ sched'.snap = snapId + 1)
  PROVE  IInv'
<1>1. /\ snapId' = snapId + 1 /\ snaps' = snaps \cup {snapId + 1} /\ uploads' = uploads /\ saved' = saved
      /\ cut' = cut \cup {snapId + 1}
      /\ snapId \in Nat /\ snaps \subseteq 1 .. snapId /\ uploads \subseteq 1 .. snapId /\ saved \subseteq 1 .. snapId
  BY Zenon DEF SaveCreate, IInv, SetsOK
<1>2. SetsOK'
  <2>1. IsNewest(snapId + 1, snaps')
    BY <1>1 DEF IsNewest
  <2>2. HasNewest(snaps) /\ HasNewest(uploads)
    BY Zenon DEF IInv, SetsOK
  <2>3. HasNewest(snaps') /\ HasNewest(uploads')
    BY <1>1, <2>1, <2>2, Zenon DEF HasNewest, IsNewest
  <2>4. snapId' \in Nat /\ snaps' \subseteq 1 .. snapId' /\ uploads' \subseteq 1 .. snapId' /\ saved' \subseteq 1 .. snapId'
    BY <1>1
  <2> QED
    BY <2>3, <2>4, Zenon DEF SetsOK, HasNewest, IsNewest
<1>3. \A s \in Nat : Reaches(s) => \E t \in snaps' : s <= t
  BY <1>1, Zenon DEF Reaches
<1>4. SavesReach'
  <2>1. \A k \in Life : Saves(node[k])' => node'[k].snap \in Nat \ {0} /\ \E t \in snaps' : node'[k].snap <= t
    BY <1>1, <1>3 DEF IInv, SavesReach, SameSave, Saves
  <2>2. Saves(sched)' => sched'.snap \in Nat \ {0} /\ \E t \in snaps' : sched'.snap <= t
    BY <1>1, <1>3 DEF IInv, SavesReach, SameSave, Saves
  <2> QED
    BY <2>1, <2>2, Zenon DEF SavesReach, Reaches
<1>5. SavedReach'
  <2>1. \A s \in saved \cup uploads : s <= snapId + 1
    BY <1>1
  <2> QED
    BY <1>1, <2>1, Zenon DEF SavedReach, Reaches
<1>6. SavedWhole'
  <2>1. \A s \in snaps \cup saved : s < snapId + 1
    BY <1>1
  <2>2. \A s \in Nat : Reaches(s) => s # snapId + 1
    BY <1>1, <2>1 DEF Reaches
  <2>3. \A s \in saved : s # snapId + 1
    BY <1>1
  <2>4. \A k \in Life : Filled(node'[k]) => node'[k].snap \notin cut /\ node'[k].snap # snapId + 1
    BY <2>2, Zenon DEF IInv, SavedWhole, SavesReach, SameSave, Saves, Filled
  <2>5. Filled(sched') => sched'.snap \notin cut /\ sched'.snap # snapId + 1
    BY <2>2, Zenon DEF IInv, SavedWhole, SavesReach, SameSave, Saves, Filled
  <2> QED
    BY <1>1, <2>3, <2>4, <2>5, Zenon DEF IInv, SavedWhole, Filled
<1> QED
  BY <1>2, <1>4, <1>5, <1>6, Zenon DEF IInv

\* The file id has been filled.
LEMMA SaveCopyIInv ==
  ASSUME IInv, NEW id, SaveCopy(id), UNCHANGED saved, Formed',
         \A k \in Life : SameSave(node[k], node'[k]) \/ (Saves(node[k]) /\ node[k].snap = id /\ node'[k].snap = id),
         SameSave(sched, sched') \/ (Saves(sched) /\ sched.snap = id /\ sched'.snap = id)
  PROVE  IInv'
<1>1. UNCHANGED <<snaps, uploads, snapId, saved>> /\ cut' = cut \ {id}
  BY Zenon DEF SaveCopy
<1>2. SetsOK'
  BY <1>1, Zenon DEF IInv, SetsOK
<1>3. SavedReach'
  BY <1>1, Zenon DEF IInv, SavedReach, Reaches
<1>4. SavesReach'
  <2>1. \A k \in Life : Saves(node'[k]) => node'[k].snap \in Nat \ {0} /\ Reaches(node'[k].snap)
    BY Zenon DEF IInv, SavesReach, SameSave
  <2>2. Saves(sched') => sched'.snap \in Nat \ {0} /\ Reaches(sched'.snap)
    BY Zenon DEF IInv, SavesReach, SameSave
  <2> QED
    BY <1>1, <2>1, <2>2, Zenon DEF SavesReach, Reaches, Saves
<1>5. SavedWhole'
  <2>1. \A k \in Life : Filled(node'[k]) => node'[k].snap \notin cut'
    BY <1>1, Zenon DEF IInv, SavedWhole, SameSave, Saves, Filled
  <2>2. Filled(sched') => sched'.snap \notin cut'
    BY <1>1, Zenon DEF IInv, SavedWhole, SameSave, Saves, Filled
  <2> QED
    BY <1>1, <2>1, <2>2, Zenon DEF IInv, SavedWhole, Filled
<1> QED
  BY <1>2, <1>3, <1>4, <1>5, Zenon DEF IInv

\* A save that returns has its snapshot, or a newer one, in the directory.
LEMMA SaveUploadIInv ==
  ASSUME IInv, NEW id \in Nat \ {0}, Reaches(id), id \notin cut, SaveUpload(id), saved' = saved \cup {id},
         Formed', Quiet
  PROVE  IInv'
<1>1. /\ snapId' = snapId /\ snaps' = snaps /\ cut' = cut
      /\ snapId \in Nat /\ snaps \subseteq 1 .. snapId /\ uploads \subseteq 1 .. snapId /\ saved \subseteq 1 .. snapId
      /\ uploads' = uploads \/ (uploads' = uploads \cup {id} /\ id \in snaps)
  BY Zenon DEF SaveUpload, Upload, IInv, SetsOK
<1>2. id \in 1 .. snapId
  BY <1>1 DEF Reaches
<1>3. HasNewest(uploads')
  <2>1. HasNewest(uploads)
    BY Zenon DEF IInv, SetsOK
  <2>2. CASE uploads = {}
    BY <1>1, <1>2, <2>1, <2>2 DEF HasNewest, IsNewest
  <2>3. CASE uploads # {}
    <3>1. PICK m \in uploads : IsNewest(m, uploads)
      BY <2>1, <2>3, Zenon DEF HasNewest
    <3>2. m \in Nat /\ \A u \in uploads : u \in Nat
      BY <1>1
    <3>3. CASE uploads' = uploads
      BY <2>1, <3>3, Zenon
    <3>4. CASE uploads' = uploads \cup {id} /\ m <= id
      <4>1. IsNewest(id, uploads')
        BY <3>1, <3>2, <3>4 DEF IsNewest
      <4> QED
        BY <3>4, <4>1, Zenon DEF HasNewest
    <3>5. CASE uploads' = uploads \cup {id} /\ ~(m <= id)
      <4>1. IsNewest(m, uploads')
        BY <3>1, <3>2, <3>5 DEF IsNewest
      <4> QED
        BY <3>5, <4>1, Zenon DEF HasNewest
    <3> QED
      BY <1>1, <3>3, <3>4, <3>5, Zenon
  <2> QED
    BY <2>2, <2>3, Zenon
<1>4. SetsOK'
  <2>1. uploads' \subseteq 1 .. snapId /\ saved' \subseteq 1 .. snapId
    BY <1>1, <1>2, Zenon
  <2>2. HasNewest(snaps')
    BY <1>1, Zenon DEF IInv, SetsOK
  <2> QED
    BY <1>1, <1>3, <2>1, <2>2, Zenon DEF SetsOK, HasNewest, IsNewest
<1>5. SavesReach'
  BY <1>1, <1>4, KeepsReach, Zenon DEF Reaches
<1>6. SavedReach'
  <2>1. snaps # {}
    BY Zenon DEF Reaches
  <2> QED
    BY <1>1, <2>1, Zenon DEF IInv, SavedReach, Reaches
<1>7. SavedWhole'
  <2>1. \A k \in Life : Filled(node'[k]) => node'[k].snap \notin cut
    BY Zenon DEF IInv, SavedWhole, Quiet, SameSave, Saves, Filled
  <2>2. Filled(sched') => sched'.snap \notin cut
    BY Zenon DEF IInv, SavedWhole, Quiet, SameSave, Saves, Filled
  <2> QED
    BY <1>1, <2>1, <2>2, Zenon DEF IInv, SavedWhole, Filled
<1> QED
  BY <1>4, <1>5, <1>6, <1>7, Zenon DEF IInv

\* The purge leaves the newest snapshot, which reaches as far as all others.
LEMMA PurgeIInv ==
  ASSUME IInv, PurgeOldSnapshots(Keep), UNCHANGED saved, Formed', Quiet
  PROVE  IInv'
<1>1. /\ snapId' = snapId /\ uploads' = uploads /\ saved' = saved
      /\ snaps' = {s \in snaps : Cardinality({t \in snaps : t > s}) < 2}
      /\ snapId \in Nat /\ snaps \subseteq 1 .. snapId /\ uploads \subseteq 1 .. snapId /\ cut' \subseteq cut
  BY Zenon DEF PurgeOldSnapshots, Purged, Keep, IInv, SetsOK
<1>2. snaps' \subseteq snaps
  BY <1>1, Zenon
<1>3. CASE snaps = {}
  <2>1. snaps' = snaps
    BY <1>2, <1>3, Zenon
  <2> QED
    BY <1>1, <2>1, QuietIInv, Zenon
<1>4. CASE snaps # {}
  <2>1. PICK m \in snaps : IsNewest(m, snaps)
    BY <1>4, Zenon DEF IInv, SetsOK, HasNewest
  <2>2. {t \in snaps : t > m} = {}
    <3>1. m \in Nat /\ \A t \in snaps : t \in Nat /\ t <= m
      BY <1>1, <2>1 DEF IsNewest
    <3>2. \A t \in snaps : ~(t > m)
      BY <3>1
    <3> QED
      BY <3>2, Zenon
  <2>3. m \in snaps'
    BY <1>1, <2>2, FS_EmptySet
  <2>4. IsNewest(m, snaps')
    BY <1>2, <2>1, <2>3, Zenon DEF IsNewest
  <2>5. SetsOK'
    <3>1. HasNewest(uploads') /\ HasNewest(snaps')
      BY <1>1, <2>3, <2>4, Zenon DEF IInv, SetsOK, HasNewest
    <3> QED
      BY <1>1, <1>2, <3>1, Zenon DEF IInv, SetsOK, HasNewest, IsNewest
  <2>6. \A s \in Nat : Reaches(s) => \E t \in snaps' : s <= t
    <3> SUFFICES ASSUME NEW s \in Nat, NEW t \in snaps, s <= t PROVE s <= m
      BY <2>3, Zenon DEF Reaches
    <3>1. t <= m /\ t \in Nat /\ m \in Nat
      BY <1>1, <2>1 DEF IsNewest
    <3> QED
      BY <3>1
  <2>7. SavesReach'
    BY <2>5, <2>6, KeepsReach, Zenon
  <2>8. SavedReach'
    <3>1. \A s \in saved \cup uploads : s \in Nat /\ Reaches(s)
      BY <1>4 DEF IInv, SetsOK, SavedReach
    <3>2. \A s \in saved' \cup uploads' : \E t \in snaps' : s <= t
      BY <1>1, <2>6, <3>1, Zenon
    <3> QED
      BY <2>3, <3>2, Zenon DEF SavedReach, Reaches
  <2>9. SavedWhole'
    BY <1>1, QuietWhole, Zenon
  <2> QED
    BY <2>5, <2>7, <2>8, <2>9, Zenon DEF IInv
<1> QED
  BY <1>3, <1>4, Zenon

\* What a LoadSnapshot leaves in the directory: what was there or, if there
\* was no snapshot, the newest of the offload store.
LEMMA LoadLeaves ==
  ASSUME NEW l \in LoadSnapshot
  PROVE  \/ l.snaps = snaps /\ l.cut = cut
         \/ snaps = {} /\ uploads # {} /\ l.snaps = {Newest(uploads)}
<1>1. ASSUME NEW S, NEW c, l \in Openings(S, c) PROVE l.snaps = S /\ l.cut = c
  <2>1. PICK f : l = Opened(S, c, f)
    BY <1>1, Zenon DEF Openings
  <2> QED
    BY <2>1 DEF Opened
<1>2. CASE l \in Openings(snaps, cut)
  BY <1>1, <1>2, Zenon
<1>3. CASE l = Opened(snaps, cut, TRUE)
  BY <1>3 DEF Opened
<1>4. CASE snaps = {} /\ uploads # {} /\ \E c : l \in Openings({Newest(uploads)}, c)
  <2>1. PICK c : l \in Openings({Newest(uploads)}, c)
    BY <1>4, Zenon
  <2> QED
    BY <1>1, <1>4, <2>1, Zenon
<1> QED
  BY <1>2, <1>3, <1>4, Zenon DEF LoadSnapshot

\* A start that finds no snapshot in the directory takes the newest upload.
LEMMA LoadIInv ==
  ASSUME IInv, NEW l \in LoadSnapshot, snaps' = l.snaps, cut' = l.cut, saved' = saved \ l.cut,
         UNCHANGED <<uploads, snapId>>, Formed', Quiet
  PROVE  IInv'
<1>1. /\ snapId \in Nat /\ snaps \subseteq 1 .. snapId /\ uploads \subseteq 1 .. snapId /\ saved \subseteq 1 .. snapId
      /\ HasNewest(snaps) /\ HasNewest(uploads)
  BY Zenon DEF IInv, SetsOK
<1>2. snaps \subseteq Nat /\ uploads \subseteq Nat
  BY <1>1
<1>3. CASE l.snaps = snaps /\ l.cut = cut
  <2>1. saved' = saved
    BY <1>3, Zenon DEF IInv, SavedWhole
  <2> QED
    BY <1>3, <2>1, QuietIInv, Zenon
<1>4. CASE snaps = {} /\ uploads # {} /\ l.snaps = {Newest(uploads)}
  <2>1. PICK m : m = Newest(uploads)
    BY Zenon
  <2>2. IsNewest(m, uploads)
    BY <1>1, <1>2, <1>4, <2>1, NewestIs, Zenon
  <2>3. m \in uploads /\ m \in 1 .. snapId /\ \A u \in uploads : u <= m
    BY <1>1, <2>2, Zenon DEF IsNewest
  <2>4. snaps' = {m} /\ saved' \subseteq saved
    BY <1>4, <2>1, Zenon
  <2>5. IsNewest(m, snaps')
    BY <2>3, <2>4, Zenon DEF IsNewest
  <2>6. SetsOK'
    <3>1. HasNewest(snaps') /\ HasNewest(uploads')
      BY <1>1, <2>4, <2>5, Zenon DEF HasNewest
    <3>2. snaps' \subseteq 1 .. snapId /\ saved' \subseteq 1 .. snapId
      BY <1>1, <2>3, <2>4, Zenon
    <3> QED
      BY <1>1, <3>1, <3>2, Zenon DEF SetsOK, HasNewest, IsNewest
  <2>7. \A s \in Nat : ~Reaches(s)
    BY <1>4, Zenon DEF Reaches
  <2>8. SavesReach'
    BY <2>6, <2>7, KeepsReach, Zenon
  <2>9. SavedReach'
    <3>1. \A s \in saved \cup uploads : \E u \in uploads : s <= u
      BY <1>4, Zenon DEF IInv, SavedReach
    <3>2. saved \subseteq Nat /\ m \in Nat
      BY <1>1, <2>3
    <3>3. ASSUME NEW s \in saved \cup uploads
          PROVE  s <= m
      <4>1. PICK u \in uploads : s <= u
        BY <3>1, Zenon
      <4>2. s \in Nat /\ u \in Nat
        BY <1>2, <3>2, Zenon
      <4>3. u <= m
        BY <2>3, Zenon
      <4> QED
        BY <3>2, <4>1, <4>2, <4>3
    <3> QED
      BY <2>4, <3>3, Zenon DEF SavedReach, Reaches
  <2>10. SavedWhole'
    <3>1. (\A k \in Life : ~Saves(node'[k])) /\ ~Saves(sched')
      BY <2>7, Zenon DEF IInv, SavesReach, Quiet, SameSave
    <3> QED
      BY <3>1, Zenon DEF SavedWhole, Saves, Filled
  <2> QED
    BY <2>6, <2>8, <2>9, <2>10, Zenon DEF IInv
<1> QED
  BY <1>3, <1>4, LoadLeaves, Zenon

\* The start of a Node, on the log or as on an empty one.
LEMMA StartIInv ==
  ASSUME IInv, Start \/ StartUnread
  PROVE  IInv'
<1>1. PICK ents : Begins(Found(ents))
  BY Zenon DEF Start, StartUnread
<1> DEFINE r == Found(ents)
<1>2. r = [f \in Fields |-> r[f]] /\ ~Saves(r)
  BY Zenon DEF Found, NoNode, Fields, Saves
<1>3. node' = [node EXCEPT ![starts + 1] = r] /\ UNCHANGED sched /\ UNCHANGED <<uploads, snapId>>
  BY <1>1, Zenon DEF Begins
<1>4. PICK l \in LoadSnapshot : snaps' = l.snaps /\ cut' = l.cut /\ saved' = saved \ l.cut
  BY <1>1, Zenon DEF Begins
<1> HIDE DEF r
<1>5. Formed' /\ Quiet
  BY <1>2, <1>3, OneNode, Zenon
<1> QED
  BY <1>3, <1>4, <1>5, LoadIInv, Zenon

\* Where all that runs ends, no save goes on.
LEMMA DiesIInv ==
  ASSUME IInv, Dies
  PROVE  IInv'
<1>1. /\ node' = [k \in Life |-> IF Running(k) THEN Ended ELSE node[k]]
      /\ sched' = [pc |-> "idle", snap |-> 0]
      /\ UNCHANGED <<snaps, uploads, snapId, saved>> /\ cut' = cut
  BY Zenon DEF Dies, snapVars
<1>2. Ended = [f \in Fields |-> Ended[f]] /\ ~Saves(Ended)
  BY Zenon DEF Ended, NoNode, Fields, Saves
<1>3. \A k \in Life : ~Running(k) => ~Saves(node[k])
  BY Zenon DEF Running, Saves
<1>4. Formed'
  <2>1. \A k \in Life : node'[k] = [f \in Fields |-> node'[k][f]]
    BY <1>1, <1>2, Zenon DEF IInv, Formed
  <2>2. node' = [k \in Life |-> node'[k]]
    BY <1>1, Zenon
  <2>3. sched' = [f \in {"pc", "snap"} |-> sched'[f]]
    BY <1>1, Zenon
  <2> QED
    BY <2>1, <2>2, <2>3, Zenon DEF Formed
<1>5. Quiet
  <2>1. \A k \in Life : ~Saves(node'[k])
    BY <1>1, <1>2, <1>3, Zenon
  <2>2. ~Saves(sched')
    BY <1>1, Zenon DEF Saves
  <2> QED
    BY <2>1, <2>2, Zenon DEF Quiet, SameSave, Saves, Filled
<1> QED
  BY <1>1, <1>4, <1>5, QuietIInv, Zenon

\* A lost directory leaves the uploads; nothing runs then.
LEMMA NewDirectoryIInv ==
  ASSUME IInv, NewDirectory
  PROVE  IInv'
<1>1. /\ snaps' = {} /\ cut' = {} /\ saved' = uploads /\ UNCHANGED <<uploads, snapId, node, sched>>
      /\ \A k \in Life : ~Running(k)
      /\ sched.pc = "idle"
  BY Zenon DEF NewDirectory
<1>2. SetsOK'
  BY <1>1, Zenon DEF IInv, SetsOK, HasNewest, IsNewest
<1>3. Formed'
  BY <1>1, Zenon DEF IInv, Formed
<1>4. SavesReach'
  BY <1>1, Zenon DEF SavesReach, Saves, Running
<1>5. SavedReach'
  <2>1. \A s \in saved' \cup uploads' : s \in uploads' /\ s <= s
    BY <1>1 DEF IInv, SetsOK
  <2> QED
    BY <1>1, <2>1, Zenon DEF SavedReach
<1>6. SavedWhole'
  BY <1>1, Zenon DEF SavedWhole
<1> QED
  BY <1>2, <1>3, <1>4, <1>5, <1>6, Zenon DEF IInv

\* One Node changes without saving.
LEMMA NodeIInv ==
  ASSUME IInv, NEW k \in Life, NEW r, r = [f \in Fields |-> r[f]], ~Saves(r),
         node' = [node EXCEPT ![k] = r], UNCHANGED <<sched, snaps, uploads, snapId, saved, cut>>
  PROVE  IInv'
BY OneNode, QuietIInv, Zenon

\* The loop's steps on the log.
LEMMA LogStepIInv ==
  ASSUME IInv, NEW k \in Life,
         \/ Replay(k) \/ Write(k) \/ Store(k) \/ WriteFails(k) \/ StepFails(k) \/ Compact(k)
         \/ RewriteFails(k) \/ Advance(k) \/ LoopEnds(k) \/ \E size \in 1 .. Threshold : Ready(k, size)
  PROVE  IInv'
<1> DEFINE Same == UNCHANGED <<sched, snaps, uploads, snapId, saved, cut>>
<1>1. node[k] = [f \in Fields |-> node[k][f]]
  BY Zenon DEF IInv, Formed
<1>2. ASSUME NEW pc, pc \notin {"copy", "upload"}, Goes(k, pc), Same PROVE IInv'
  BY <1>2, GoesOn, QuietIInv, Zenon
<1>3. ASSUME NEW r, r = [f \in Fields |-> r[f]], r.pc \notin {"copy", "upload"},
             node' = [node EXCEPT ![k] = r], Same
      PROVE  IInv'
  BY <1>3, NodeIInv, Zenon DEF Saves
<1>4. CASE Replay(k)
  <2> DEFINE r == [node[k] EXCEPT !.pc = "ready", !.batch = <<>>, !.mem = MemoryAppend(node[k].mem, node[k].batch),
                              !.next = Len(node[k].batch) + 1]
  <2>1. Same
    BY <1>4, Zenon DEF Replay, snapVars, histVars
  <2>2. node' = [node EXCEPT ![k] = r]
    BY <1>4, Zenon DEF Replay
  <2>3. r = [f \in Fields |-> r[f]] /\ r.pc = "ready"
    BY <1>1, Zenon DEF Fields
  <2> HIDE DEF r
  <2> QED
    BY <1>3, <2>1, <2>2, <2>3, Zenon
<1>5. CASE Write(k)
  BY <1>2, <1>5, Zenon DEF Write, snapVars
<1>6. CASE Store(k)
  <2> DEFINE r == [node[k] EXCEPT !.pc = AfterStore(k), !.mem = MemoryAppend(node[k].mem, node[k].batch)]
  <2>1. Same
    BY <1>6, Zenon DEF Store, snapVars, histVars
  <2>2. node' = [node EXCEPT ![k] = r]
    BY <1>6, Zenon DEF Store
  <2>3. r = [f \in Fields |-> r[f]] /\ r.pc = AfterStore(k)
    BY <1>1, Zenon DEF Fields
  <2>4. AfterStore(k) \notin {"copy", "upload"}
    BY Zenon DEF AfterStore
  <2> HIDE DEF r
  <2> QED
    BY <1>3, <2>1, <2>2, <2>3, <2>4, Zenon
<1>7. CASE WriteFails(k)
  <2> DEFINE r == [node[k] EXCEPT !.pc = "ready", !.batch = <<>>]
  <2>1. Same /\ AfterStore(k) \notin {"copy", "upload"}
    BY <1>7, Zenon DEF WriteFails, snapVars, AfterStore
  <2>2. Goes(k, "store") \/ Goes(k, AfterStore(k)) \/ node' = [node EXCEPT ![k] = r]
    BY <1>7, Zenon DEF WriteFails
  <2>3. r = [f \in Fields |-> r[f]] /\ r.pc = "ready"
    BY <1>1, Zenon DEF Fields
  <2> HIDE DEF r
  <2> QED
    BY <1>2, <1>3, <2>1, <2>2, <2>3, Zenon
<1>8. CASE StepFails(k)
  BY <1>2, <1>8, Zenon DEF StepFails, snapVars
<1>9. CASE Compact(k)
  <2>1. Same
    BY <1>9, Zenon DEF Compact, snapVars, histVars
  <2>2. PICK o \in ReadOutcomes :
          Goes(k, "advance") \/ node' = [node EXCEPT ![k].pc = "rewrite", ![k].batch = Kept(o.ents, 0)]
    BY <1>9, Zenon DEF Compact
  <2> DEFINE r == [node[k] EXCEPT !.pc = "rewrite", !.batch = Kept(o.ents, 0)]
  <2>3. Goes(k, "advance") \/ node' = [node EXCEPT ![k] = r]
    BY <2>2, Zenon
  <2>4. r = [f \in Fields |-> r[f]] /\ r.pc = "rewrite"
    BY <1>1, Zenon DEF Fields
  <2> HIDE DEF r
  <2> QED
    BY <1>2, <1>3, <2>1, <2>3, <2>4, Zenon
<1>10. CASE RewriteFails(k)
  BY <1>2, <1>10, Zenon DEF RewriteFails, snapVars
<1>11. CASE Advance(k)
  <2> DEFINE r == [node[k] EXCEPT !.pc = "ready", !.batch = <<>>, !.snap = 0]
  <2>1. Same
    BY <1>11, Zenon DEF Advance, snapVars
  <2>2. node' = [node EXCEPT ![k] = r]
    BY <1>11, Zenon DEF Advance
  <2>3. r = [f \in Fields |-> r[f]] /\ r.pc = "ready"
    BY <1>1, Zenon DEF Fields
  <2> HIDE DEF r
  <2> QED
    BY <1>3, <2>1, <2>2, <2>3, Zenon
<1>12. CASE LoopEnds(k)
  <2>1. Same /\ node' = [node EXCEPT ![k] = Ended]
    BY <1>12, Zenon DEF LoopEnds, snapVars, histVars
  <2>2. Ended = [f \in Fields |-> Ended[f]] /\ ~Saves(Ended)
    BY Zenon DEF Ended, NoNode, Fields, Saves
  <2> QED
    BY <2>1, <2>2, NodeIInv, Zenon
<1>13. ASSUME NEW size \in 1 .. Threshold, Ready(k, size) PROVE IInv'
  <2>1. Same
    BY <1>13, Zenon DEF Ready, snapVars, histVars
  <2>w. PICK b, x : node' = [node EXCEPT ![k].pc = "write", ![k].batch = b, ![k].next = x]
    BY <1>13, Zenon DEF Ready
  <2> DEFINE r == [node[k] EXCEPT !.pc = "write", !.batch = b, !.next = x]
  <2>2. node' = [node EXCEPT ![k] = r]
    BY <2>w, Zenon
  <2>3. r = [f \in Fields |-> r[f]] /\ r.pc = "write"
    BY <1>1, Zenon DEF Fields
  <2> HIDE DEF r
  <2> QED
    BY <1>3, <2>1, <2>2, <2>3, Zenon
<1> QED
  BY <1>4, <1>5, <1>6, <1>7, <1>8, <1>9, <1>10, <1>11, <1>12, <1>13, Zenon

\* The three steps of the loop's save.
LEMMA SaveIInv ==
  ASSUME IInv, NEW k \in Life, Save(k)
  PROVE  IInv'
<1>1. UNCHANGED sched
  BY Zenon DEF Save
<1>2. node[k] = [f \in Fields |-> node[k][f]] /\ node = [j \in Life |-> node[j]]
  BY Zenon DEF IInv, Formed
<1>3. CASE SaveCreate /\ node' = [node EXCEPT ![k].pc = "copy", ![k].snap = snapId + 1] /\ UNCHANGED saved
  <2> DEFINE r == [node[k] EXCEPT !.pc = "copy", !.snap = snapId + 1]
  <2>1. node' = [node EXCEPT ![k] = r]
    BY <1>3, Zenon
  <2>2. r = [f \in Fields |-> r[f]] /\ r.snap = snapId + 1 /\ r.pc = "copy"
    BY <1>2, Zenon DEF Fields
  <2> HIDE DEF r
  <2>3. Formed'
    BY <1>1, <2>1, <2>2, OneNode, Zenon
  <2>4. \A j \in Life : node'[j] = IF j = k THEN r ELSE node[j]
    BY <1>2, <2>1, Zenon
  <2>5. \A j \in Life : SameSave(node[j], node'[j]) \/ (node'[j].pc = "copy" /\ node'[j].snap = snapId + 1)
    BY <2>2, <2>4, Zenon DEF SameSave
  <2>6. SameSave(sched, sched')
    BY <1>1, Zenon DEF SameSave
  <2> QED
    BY <1>3, <2>3, <2>5, <2>6, SaveCreateIInv, Zenon
<1>4. CASE node[k].pc = "copy" /\ SaveCopy(node[k].snap) /\ Goes(k, "upload") /\ UNCHANGED saved
  <2>1. Formed' /\ \A j \in Life : node'[j].snap = node[j].snap
    BY <1>1, <1>4, GoesOn, Zenon
  <2>2. \A j \in Life : j # k => node'[j] = node[j]
    BY <1>2, <1>4, Zenon DEF Goes
  <2>3. PICK id : id = node[k].snap
    BY Zenon
  <2>4. \A j \in Life : \/ SameSave(node[j], node'[j])
                        \/ Saves(node[j]) /\ node[j].snap = id /\ node'[j].snap = id
    BY <1>4, <2>1, <2>2, <2>3, Zenon DEF SameSave, Saves
  <2>5. SameSave(sched, sched')
    BY <1>1, Zenon DEF SameSave
  <2> QED
    BY <1>4, <2>1, <2>3, <2>4, <2>5, SaveCopyIInv, Zenon
<1>5. CASE node[k].pc = "upload" /\ SaveUpload(node[k].snap) /\ Goes(k, "compact")
           /\ saved' = saved \cup {node[k].snap}
  <2>1. node[k].snap \in Nat \ {0} /\ Reaches(node[k].snap) /\ node[k].snap \notin cut
    BY <1>5, Zenon DEF IInv, SavesReach, SavedWhole, Saves, Filled
  <2>2. Formed' /\ Quiet
    BY <1>1, <1>5, GoesOn
  <2>3. PICK id : id = node[k].snap
    BY Zenon
  <2> QED
    BY <1>5, <2>1, <2>2, <2>3, SaveUploadIInv, Zenon
<1> QED
  BY <1>3, <1>4, <1>5, Zenon DEF Save

\* The rest of the compaction; its last step purges.
LEMMA RotateIInv ==
  ASSUME IInv, NEW k \in Life, Rotate(k)
  PROVE  IInv'
<1>1. UNCHANGED <<sched, saved>>
  BY Zenon DEF Rotate, histVars
<1>2. \/ UNCHANGED snapVars /\ \E pc \in {"remove", "rename", "create", "purge"} : Goes(k, pc)
      \/ PurgeOldSnapshots(Keep) /\ Goes(k, "advance")
  BY Zenon DEF Rotate
<1>3. Formed' /\ Quiet
  BY <1>1, <1>2, GoesOn
<1> QED
  BY <1>1, <1>2, <1>3, QuietIInv, PurgeIInv, Zenon DEF snapVars

\* The scheduler's saves.
LEMMA SchedulerIInv ==
  ASSUME IInv, SchedulerSave \/ SchedulerStop
  PROVE  IInv'
<1>1. UNCHANGED node
  BY Zenon DEF SchedulerSave, SchedulerStop
<1>2. ASSUME sched' = [f \in {"pc", "snap"} |-> sched'[f]] PROVE Formed'
  BY <1>1, <1>2, Zenon DEF IInv, Formed
<1>3. \A k \in Life : SameSave(node[k], node'[k])
  BY <1>1, Zenon DEF SameSave
<1>4. sched = [f \in {"pc", "snap"} |-> sched[f]]
  BY Zenon DEF IInv, Formed
<1>5. CASE SaveCreate /\ sched' = [pc |-> "copy", snap |-> snapId + 1] /\ UNCHANGED saved
  <2>1. Formed' /\ sched'.snap = snapId + 1 /\ sched'.pc = "copy"
    BY <1>2, <1>5, Zenon
  <2> QED
    BY <1>3, <1>5, <2>1, SaveCreateIInv, Zenon
<1>6. CASE sched.pc = "copy" /\ SaveCopy(sched.snap) /\ sched' = [sched EXCEPT !.pc = "upload"] /\ UNCHANGED saved
  <2>1. Formed' /\ sched'.snap = sched.snap
    BY <1>2, <1>4, <1>6, Zenon
  <2>2. PICK id : id = sched.snap
    BY Zenon
  <2> QED
    BY <1>3, <1>6, <2>1, <2>2, SaveCopyIInv, Zenon DEF Saves
<1>7. CASE sched.pc = "upload" /\ SaveUpload(sched.snap) /\ sched' = [pc |-> "idle", snap |-> 0]
           /\ saved' = saved \cup {sched.snap}
  <2>1. sched.snap \in Nat \ {0} /\ Reaches(sched.snap) /\ sched.snap \notin cut
    BY <1>7, Zenon DEF IInv, SavesReach, SavedWhole, Saves, Filled
  <2>2. Formed'
    BY <1>2, <1>7, Zenon
  <2>3. Quiet
    BY <1>3, <1>7, Zenon DEF Quiet, SameSave, Saves, Filled
  <2>4. PICK id : id = sched.snap
    BY Zenon
  <2> QED
    BY <1>7, <2>1, <2>2, <2>3, <2>4, SaveUploadIInv, Zenon
<1>8. CASE SchedulerStop
  <2>1. sched' = [pc |-> "ended", snap |-> 0] /\ UNCHANGED <<snaps, uploads, snapId, saved, cut>>
    BY <1>8, Zenon DEF SchedulerStop, snapVars, histVars
  <2>2. Formed'
    BY <1>2, <2>1, Zenon
  <2>3. Quiet
    BY <1>3, <2>1, Zenon DEF Quiet, SameSave, Saves, Filled
  <2> QED
    BY <2>1, <2>2, <2>3, QuietIInv, Zenon
<1> QED
  BY <1>5, <1>6, <1>7, <1>8, Zenon DEF SchedulerSave

\* Steps that change neither a Node nor a snapshot.
LEMMA StillIInv ==
  ASSUME IInv, Stop \/ UNCHANGED vars
  PROVE  IInv'
<1>1. UNCHANGED <<node, sched, snaps, uploads, snapId, saved, cut>>
  BY Zenon DEF Stop, vars, snapVars, histVars
<1>2. Formed' /\ Quiet
  BY <1>1, Zenon DEF IInv, Formed, Quiet, SameSave
<1> QED
  BY <1>1, <1>2, QuietIInv, Zenon

\* The strengthening holds always.
LEMMA Invariance == Spec => []IInv
<1>1. IInv /\ [Next]_vars => IInv'
  <2> SUFFICES ASSUME IInv, [Next]_vars PROVE IInv'
    BY Zenon
  <2>1. CASE Start \/ StartUnread
    BY <2>1, StartIInv, Zenon
  <2>2. CASE Stop \/ UNCHANGED vars
    BY <2>2, StillIInv, Zenon
  <2>3. CASE Crash
    BY <2>3, DiesIInv, Zenon DEF Crash
  <2>4. CASE NewDirectory
    BY <2>4, NewDirectoryIInv, Zenon
  <2>5. CASE SchedulerSave \/ SchedulerStop
    BY <2>5, SchedulerIInv, Zenon
  <2>6. ASSUME NEW k \in Life, LoopStep(k) \/ \E size \in 1 .. Threshold : Ready(k, size)
        PROVE  IInv'
    <3>1. CASE StorePanics(k)
      BY <3>1, DiesIInv, Zenon DEF StorePanics
    <3> QED
      BY <2>6, <3>1, LogStepIInv, SaveIInv, RotateIInv, Zenon DEF LoopStep
  <2> QED
    BY <2>1, <2>2, <2>3, <2>4, <2>5, <2>6, Zenon DEF Next
<1> QED
  BY <1>1, InitIInv, PTL DEF Spec

\* A LoadSnapshot that fails nowhere opens a snapshot at least as new as every
\* one whose save returned or that is in the offload store, and a whole one if
\* its own save returned and no copy from that store ended early: whatever
\* SaveSnapshot of the loop and of the scheduler, PurgeOldSnapshots, failed
\* loads, crashes and the loss of the directory do in between.
THEOREM NewestLoaded == Spec => []SnapshotNewest
BY Invariance, LoadsNewest, PTL
=============================================================================
