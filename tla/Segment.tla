------------------------------ MODULE Segment ------------------------------
(***************************************************************************)
(* One topic of the broker: its only segment (broker/types.go), the files  *)
(* of that segment, and Topic.NextOffset (broker/broker.go).  Produce      *)
(* holds Broker.mu for its whole duration, so no other call sees an append *)
(* half done; a crash of the process and a failing write do, and that is   *)
(* why every write to a file is a step of its own.                         *)
(*                                                                         *)
(* The log file is a sequence of cells.  A frame is the cell of the length *)
(* prefix and the cells of the payload; position p of the code is the      *)
(* number of cells before the frame.  An index file is the function its    *)
(* 16-byte entries spell out.                                              *)
(***************************************************************************)
EXTENDS Integers, Sequences, Functions

CONSTANTS
  Value,            \* what producers send
  Size,             \* Size[v]: cells of the encoded record that holds v
  Time,             \* readings of the clock, time.Now().UnixNano()
  MaxCells,         \* bound: length of the log file
  MaxFetch          \* bound: records of one Fetch

ASSUME SegmentAssumption ==
  /\ Size \in [Value -> Nat \ {0}]
  /\ "none" \notin Value
  /\ Time \subseteq Int
  /\ MaxCells \in Nat
  /\ MaxFetch \in Nat \ {0}

VARIABLES
  logFile,          \* segment.log: a sequence of cells
  indexFile,        \* segment.index: offset -> position
  timeFile,         \* segment.timeindex: timestamp -> offset
  open,             \* the topic is in Broker.topics
  position,         \* Segment.position
  nextOffset,       \* Segment.nextOffset
  offsets,          \* Segment.offsets
  timeOffsets,      \* Segment.timeOffsets
  topicNext,        \* Topic.NextOffset
  append,           \* the Append in progress
  fetch,            \* the Fetch in progress
  acked,            \* history: offset -> value, what Produce acknowledged
                    \* and no crash of an exposed index has lost
  safe,             \* history: the offsets below it survive a crash, unless
                    \* the index is exposed
  cut,              \* history: a failed rewrite took entries out of
                    \* segment.index, and none has put them back
  lost              \* history: the offsets that crashes of an exposed index
                    \* have lost

files   == <<logFile, indexFile, timeFile>>
memory  == <<open, position, nextOffset, offsets, timeOffsets, topicNext>>
history == <<acked, safe, cut, lost>>
vars    == <<files, memory, append, fetch, history>>

-----------------------------------------------------------------------------
(* The encoding of records.                                                *)

Record == [value : Value, offset : Nat]

NoRecord == [value |-> "none", offset |-> 0]

Header(n) == [kind |-> "length", n |-> n, rec |-> NoRecord]

Data(rec, j) == [kind |-> "data", n |-> j, rec |-> rec]

Payload(rec) == [j \in 1 .. Size[rec.value] |-> Data(rec, j)]

Empty == [x \in {} |-> 0]

\* The file after WriteAt(cells, p): overwrites, and extends at the end.
WriteAt(file, p, cells) ==
  [i \in 1 .. IF Len(file) > p + Len(cells) THEN Len(file) ELSE p + Len(cells)
      |-> IF i \in p + 1 .. p + Len(cells) THEN cells[i - p] ELSE file[i]]

\* Position p holds a whole frame: the prefix, and the payload it announces.
FrameAt(file, p) ==
  /\ p + 2 <= Len(file)
  /\ LET rec == file[p + 2].rec
     IN  /\ file[p + 1].kind = "length"
         /\ file[p + 2].kind = "data"
         /\ file[p + 1].n = Size[rec.value]
         /\ p + 1 + Size[rec.value] <= Len(file)
         /\ \A j \in 1 .. Size[rec.value] : file[p + 1 + j] = Data(rec, j)

\* readByOffset: the record stored at an offset of an index, or an error.
ReadError == NoRecord

ReadByOffset(index, o) ==
  IF o \in DOMAIN index /\ FrameAt(logFile, index[o])
    THEN logFile[index[o] + 2].rec
    ELSE ReadError

\* ReadRange with max = 1, the only use Fetch makes of it.
FirstFrom(from) == {o \in DOMAIN offsets : o >= from /\ \A x \in DOMAIN offsets : x >= from => o <= x}

\* Mutant: the largest offset itself, the loop's initial -1 if there is none.
NextAfter_Largest(index) ==
  IF index = Empty THEN -1 ELSE CHOOSE o \in DOMAIN index : \A x \in DOMAIN index : x <= o

\* The offset after the largest one of an index, 0 if it has none.
NextAfter(index) ==
  IF index = Empty THEN 0
  ELSE 1 + CHOOSE o \in DOMAIN index : \A x \in DOMAIN index : x <= o

\* What os.WriteFile can leave of the sorted entries f when it stops early.
TornPrefixes(f) == {Restrict(f, {x \in DOMAIN f : x < b}) : b \in DOMAIN f}

\* The files an interrupted os.WriteFile of f over old can leave behind: the
\* old one when the file could not be opened, a beginning of the entries, or
\* nothing at all, when it was opened, and by that truncated.
Interrupted(f, old) == TornPrefixes(f) \cup {old}

\* A crash now may leave segment.index without entries it once had.
Exposed == cut \/ append.pc = "index"

-----------------------------------------------------------------------------
Idle == [pc |-> "idle", rec |-> NoRecord, ts |-> 0]

NoFetch == [active |-> FALSE, from |-> 0, next |-> 0, acc |-> <<>>]

Init ==
  /\ logFile = <<>>
  /\ indexFile = Empty
  /\ timeFile = Empty
  /\ open = FALSE
  /\ position = 0
  /\ nextOffset = 0
  /\ offsets = Empty
  /\ timeOffsets = Empty
  /\ topicNext = 0
  /\ append = Idle
  /\ fetch = NoFetch
  /\ acked = Empty
  /\ safe = 0
  /\ cut = FALSE
  /\ lost = {}

\* Mutant: the position is not taken from the size of the file.
CreateTopic_PositionZero ==
  /\ ~open
  /\ open' = TRUE
  /\ position' = 0
  /\ offsets' = indexFile
  /\ timeOffsets' = timeFile
  /\ nextOffset' = NextAfter(indexFile)
  /\ topicNext' = 0
  /\ UNCHANGED <<files, append, fetch, history>>

\* Mutant: the index file is not read.
CreateTopic_NoLoad ==
  /\ ~open
  /\ open' = TRUE
  /\ position' = Len(logFile)
  /\ nextOffset' = 0
  /\ topicNext' = 0
  /\ UNCHANGED <<files, offsets, timeOffsets, append, fetch, history>>

\* CreateTopic, newSegment, loadIndexes: the first use of the topic since
\* the process started.  Topic.NextOffset starts at 0 whatever was loaded.
CreateTopic ==
  /\ ~open
  /\ open' = TRUE
  /\ position' = Len(logFile)
  /\ offsets' = indexFile
  /\ timeOffsets' = timeFile
  /\ nextOffset' = NextAfter(indexFile)
  /\ topicNext' = 0
  /\ UNCHANGED <<files, append, fetch, history>>

\* Produce up to the length prefix.  A prefix that cannot be written
\* returns an error and leaves everything as it was.
WritePrefix(v, ts) ==
  /\ open
  /\ append = Idle
  /\ position + 1 + Size[v] <= MaxCells
  /\ append' = [pc |-> "payload", rec |-> [value |-> v, offset |-> topicNext], ts |-> ts]
  /\ logFile' = WriteAt(logFile, position, <<Header(Size[v])>>)
  /\ UNCHANGED <<indexFile, timeFile, memory, fetch, history>>

\* Mutant: the position does not move on.
WritePayload_SamePosition ==
  /\ append.pc = "payload"
  /\ logFile' = WriteAt(logFile, position + 1, Payload(append.rec))
  /\ offsets' = [o \in DOMAIN offsets \cup {nextOffset} |->
                   IF o = nextOffset THEN position ELSE offsets[o]]
  /\ nextOffset' = nextOffset + 1
  /\ append' = [append EXCEPT !.pc = "index"]
  /\ UNCHANGED <<indexFile, timeFile, open, position, timeOffsets, topicNext, fetch, history>>

\* The payload is written and the in-memory index takes the record in.
WritePayload ==
  /\ append.pc = "payload"
  /\ logFile' = WriteAt(logFile, position + 1, Payload(append.rec))
  /\ offsets' = [o \in DOMAIN offsets \cup {nextOffset} |->
                   IF o = nextOffset THEN position ELSE offsets[o]]
  /\ timeOffsets' = [t \in DOMAIN timeOffsets \cup {append.ts} |->
                       IF t = append.ts THEN nextOffset ELSE timeOffsets[t]]
  /\ position' = position + 1 + Size[append.rec.value]
  /\ nextOffset' = nextOffset + 1
  /\ append' = [append EXCEPT !.pc = "index"]
  /\ UNCHANGED <<indexFile, timeFile, open, topicNext, fetch, history>>

\* A short write of the payload: an error before memory is touched.
WritePayloadFails ==
  /\ append.pc = "payload"
  /\ \E k \in 0 .. Size[append.rec.value] - 1 :
       logFile' = WriteAt(logFile, position + 1, SubSeq(Payload(append.rec), 1, k))
  /\ append' = Idle
  /\ UNCHANGED <<indexFile, timeFile, memory, fetch, history>>

\* Mutant: the last entry is left out.
WriteIndex_AllButLast ==
  /\ append.pc = "index"
  /\ indexFile' = Restrict(offsets, DOMAIN offsets \ {nextOffset - 1})
  /\ append' = [append EXCEPT !.pc = "timeindex"]
  /\ cut' = FALSE
  /\ UNCHANGED <<logFile, timeFile, memory, fetch, acked, safe, lost>>

\* Mutant: the time index is written before the index.
WriteIndex_TimeFirst ==
  /\ append.pc = "index"
  /\ timeFile' = timeOffsets
  /\ append' = [append EXCEPT !.pc = "timeindex"]
  /\ cut' = FALSE
  /\ UNCHANGED <<logFile, indexFile, memory, fetch, acked, safe, lost>>

\* persistIndexes, first file.
WriteIndex ==
  /\ append.pc = "index"
  /\ indexFile' = offsets
  /\ append' = [append EXCEPT !.pc = "timeindex"]
  /\ cut' = FALSE
  /\ UNCHANGED <<logFile, timeFile, memory, fetch, acked, safe, lost>>

\* persistIndexes fails on the first file: Produce returns an error, but the
\* record stays in the in-memory index and Topic.NextOffset stays behind.
WriteIndexFails ==
  /\ append.pc = "index"
  /\ indexFile' \in Interrupted(offsets, indexFile)
  /\ cut' = (cut \/ ~ DOMAIN indexFile \subseteq DOMAIN indexFile')
  /\ append' = Idle
  /\ UNCHANGED <<logFile, timeFile, memory, fetch, acked, safe, lost>>

\* persistIndexes, second file; Append and Produce return the offset.
WriteTimeIndex ==
  /\ append.pc = "timeindex"
  /\ timeFile' = timeOffsets
  /\ topicNext' = nextOffset
  /\ append' = Idle
  /\ acked' = [o \in DOMAIN acked \cup {nextOffset - 1} |->
                 IF o = nextOffset - 1 THEN append.rec.value ELSE acked[o]]
  /\ safe' = nextOffset
  /\ UNCHANGED <<logFile, indexFile, open, position, nextOffset, offsets, timeOffsets, fetch, cut, lost>>

WriteTimeIndexFails ==
  /\ append.pc = "timeindex"
  /\ timeFile' \in Interrupted(timeOffsets, timeFile)
  /\ append' = Idle
  /\ UNCHANGED <<logFile, indexFile, memory, fetch, history>>

\* Fetch takes the read lock once per record, so appends may come in between.
FetchStart(from) ==
  /\ open
  /\ ~fetch.active
  /\ fetch' = [active |-> TRUE, from |-> from, next |-> from, acc |-> <<>>]
  /\ UNCHANGED <<files, memory, append, history>>

\* Mutant: the offset does not move on.
FetchStep_SameOffset ==
  /\ fetch.active
  /\ append = Idle
  /\ fetch' = IF FirstFrom(fetch.next) = {}
                THEN NoFetch
                ELSE LET o   == CHOOSE x \in FirstFrom(fetch.next) : TRUE
                         acc == Append(fetch.acc, ReadByOffset(offsets, o))
                     IN  [fetch EXCEPT !.active = Len(acc) < MaxFetch, !.acc = acc]
  /\ UNCHANGED <<files, memory, append, history>>

FetchStep ==
  /\ fetch.active
  /\ append = Idle
  /\ fetch' = IF FirstFrom(fetch.next) = {}
                THEN NoFetch
                ELSE LET o   == CHOOSE x \in FirstFrom(fetch.next) : TRUE
                         acc == Append(fetch.acc, ReadByOffset(offsets, o))
                     IN  [active |-> Len(acc) < MaxFetch,
                          from   |-> fetch.from,
                          next   |-> fetch.next + 1,
                          acc    |-> acc]
  /\ UNCHANGED <<files, memory, append, history>>

\* The process dies: memory is gone, a write in progress may be half done.
Crash ==
  /\ open
  /\ open' = FALSE
  /\ position' = 0
  /\ nextOffset' = 0
  /\ offsets' = Empty
  /\ timeOffsets' = Empty
  /\ topicNext' = 0
  /\ append' = Idle
  /\ fetch' = NoFetch
  /\ logFile' \in IF append.pc = "payload"
                    THEN {WriteAt(logFile, position + 1, SubSeq(Payload(append.rec), 1, k)) :
                            k \in 0 .. Size[append.rec.value]}
                    ELSE {logFile}
  /\ indexFile' \in IF append.pc = "index" THEN Interrupted(offsets, indexFile) ELSE {indexFile}
  /\ timeFile' \in IF append.pc = "timeindex" THEN Interrupted(timeOffsets, timeFile) ELSE {timeFile}
  /\ acked' = IF Exposed THEN Restrict(acked, DOMAIN acked \cap DOMAIN indexFile') ELSE acked
  /\ lost' = IF Exposed THEN lost \cup (DOMAIN offsets \ DOMAIN indexFile') ELSE lost
  /\ safe' = NextAfter(indexFile')
  /\ cut' = FALSE

Next ==
  \/ CreateTopic
  \/ \E v \in Value, ts \in Time : WritePrefix(v, ts)
  \/ WritePayload
  \/ WritePayloadFails
  \/ WriteIndex
  \/ WriteIndexFails
  \/ WriteTimeIndex
  \/ WriteTimeIndexFails
  \/ \E from \in 0 .. nextOffset : FetchStart(from)
  \/ FetchStep
  \/ Crash

Spec == Init /\ [][Next]_vars

-----------------------------------------------------------------------------
\* f is what an index file with keys in K and values in Nat spells out.
IsIndex(f, K) == f = [x \in DOMAIN f |-> f[x]] /\ DOMAIN f \subseteq K /\ \A x \in DOMAIN f : f[x] \in Nat

Cell == [kind : {"length"}, n : Nat, rec : {NoRecord}] \cup [kind : {"data"}, n : Nat, rec : Record]

\* The types of the files, of the segment's fields and of the calls.
TypeOK ==
  /\ logFile \in Seq(Cell)
  /\ IsIndex(indexFile, Nat)
  /\ IsIndex(timeFile, Time)
  /\ open \in BOOLEAN
  /\ position \in Nat
  /\ nextOffset \in Nat
  /\ IsIndex(offsets, Nat)
  /\ IsIndex(timeOffsets, Time)
  /\ topicNext \in Nat
  /\ append \in [pc : {"payload", "index", "timeindex"}, rec : Record, ts : Time] \cup {Idle}
  /\ fetch \in [active : BOOLEAN, from : Nat, next : Nat, acc : Seq(Record \cup {ReadError})]
  /\ DOMAIN acked \subseteq Nat
  /\ safe \in Nat
  /\ cut \in BOOLEAN
  /\ lost \subseteq Nat

\* Whatever was interrupted or failed, an offset of the in-memory index or
\* of the index file leads to a whole frame of the log file: reading it
\* back (readByOffset) never meets a torn or overwritten record.
IndexedFramesWhole ==
  /\ \A o \in DOMAIN offsets : FrameAt(logFile, offsets[o])
  /\ \A o \in DOMAIN indexFile : FrameAt(logFile, indexFile[o])

\* The index has no gap: Segment.offsets holds exactly the offsets below
\* nextOffset, and an index file cut short is still a prefix.  Fetch counts
\* on it: it steps from an offset to the next and would repeat a record
\* where one is missing.
OffsetsDense ==
  /\ open => DOMAIN offsets = 0 .. nextOffset - 1
  /\ \A o \in DOMAIN indexFile : 0 .. o \subseteq DOMAIN indexFile

\* A Fetch returns the records of consecutive offsets, each once, although
\* it releases the broker's lock between two of them.
FetchContiguous ==
  \A i \in 1 .. Len(fetch.acc) :
    /\ fetch.acc[i] # ReadError
    /\ fetch.acc[i] = ReadByOffset(offsets, fetch.from + i - 1)

\* As long as the process lives, what a consumer reads at an offset never
\* changes: later appends, failed ones too, leave it alone.
ReadsStable ==
  [][open /\ open' =>
       \A o \in DOMAIN offsets :
         /\ o \in DOMAIN offsets'
         /\ ReadByOffset(offsets, o)' = ReadByOffset(offsets, o)]_vars

\* An acknowledged value stays at its offset, in memory while the topic is
\* open and in what the next start loads from the files.  The one way out is
\* os.WriteFile in persistIndexes, which truncates segment.index first: a
\* value can go when the process dies inside the rewrite of the index, or
\* while the index is as a failed rewrite left it, and then only if the file
\* left behind lacks its entry.  A later append that succeeds repairs a file
\* that was cut.
AckedDurable ==
  \A o \in DOMAIN acked :
    /\ open => ReadByOffset(offsets, o).value = acked[o]
    /\ ~cut => ReadByOffset(indexFile, o).value = acked[o]

\* The time index never runs ahead of the offset index: every timestamp
\* leads to an offset of the index, after a crash between the writes of the
\* two files too.  Only offsets that went with an exposed index can be left
\* behind in segment.timeindex.
TimeIndexWithinIndex ==
  /\ \A t \in DOMAIN timeOffsets : timeOffsets[t] \in DOMAIN offsets \cup lost
  /\ ~cut => \A t \in DOMAIN timeFile : timeFile[t] \in DOMAIN indexFile \cup lost

-----------------------------------------------------------------------------
\* The log a client may count on: the readable values while the topic is
\* open, and the values the index file leads to while it is not.
readable == LET index == IF open THEN offsets ELSE indexFile
            IN  [i \in 1 .. NextAfter(index) |-> ReadByOffset(index, i - 1).value]

Promise == INSTANCE AppendLog WITH log <- readable, exposed <- Exposed

\* The segment implements the append-only log of AppendLog: across appends
\* that fail at any write, crashes at any write and starts, the readable
\* values grow by one at the end, or shrink to a beginning of themselves at
\* a crash, which goes below what is safe only if the index was exposed.
ImplementsAppendLog == Promise!Spec
=============================================================================
