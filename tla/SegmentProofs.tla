--------------------------- MODULE SegmentProofs ---------------------------
(***************************************************************************)
(* Proofs about Segment, for every set of values and sizes, every clock    *)
(* and every bound: the index and the offsets; and what readers may rely   *)
(* on: a record that can be read is never changed, a fetch reads a part of *)
(* the log without a gap, and what was acknowledged stays, unless the      *)
(* process dies while the index file is exposed.                           *)
(***************************************************************************)
EXTENDS Segment, TLAPS

-----------------------------------------------------------------------------
(* Facts about the encoding.                                               *)

\* Writing a record's cells keeps a file a sequence of cells, changes no
\* cell before the position, and puts the cells after it.
LEMMA WriteAtFacts ==
  ASSUME NEW file \in Seq(Cell), NEW cells \in Seq(Cell), NEW p \in Nat, p <= Len(file)
  PROVE  /\ WriteAt(file, p, cells) \in Seq(Cell)
         /\ Len(WriteAt(file, p, cells)) \in Nat
         /\ Len(WriteAt(file, p, cells)) >= Len(file)
         /\ Len(WriteAt(file, p, cells)) >= p + Len(cells)
         /\ \A i \in 1 .. p : WriteAt(file, p, cells)[i] = file[i]
         /\ \A i \in 1 .. Len(cells) : WriteAt(file, p, cells)[p + i] = cells[i]
<1> DEFINE n == IF Len(file) > p + Len(cells) THEN Len(file) ELSE p + Len(cells)
           w == WriteAt(file, p, cells)
<1>1. n \in Nat /\ n >= Len(file) /\ n >= p + Len(cells)
  OBVIOUS
<1>2. \A i \in 1 .. n : (i \in p + 1 .. p + Len(cells)) \/ i \in 1 .. Len(file)
  BY <1>1
<1>3. w = [i \in 1 .. n |-> IF i \in p + 1 .. p + Len(cells) THEN cells[i - p] ELSE file[i]]
  BY Zenon DEF WriteAt
<1>4. \A i \in 1 .. n : (IF i \in p + 1 .. p + Len(cells) THEN cells[i - p] ELSE file[i]) \in Cell
  <2> TAKE i \in 1 .. n
  <2>1. CASE i \in p + 1 .. p + Len(cells)
    <3>1. i - p \in 1 .. Len(cells)
      BY <2>1
    <3> QED BY <2>1, <3>1
  <2>2. CASE i \notin p + 1 .. p + Len(cells)
    BY <2>2, <1>2
  <2> QED BY <2>1, <2>2, Zenon
<1> HIDE DEF n
<1>5. w \in [1 .. n -> Cell]
  BY <1>3, <1>4, Zenon
<1> HIDE DEF w
<1>6. w \in Seq(Cell) /\ Len(w) = n
  BY <1>5, <1>1
<1>7. \A i \in 1 .. p : w[i] = file[i]
  BY <1>3, <1>1
<1>8. \A i \in 1 .. Len(cells) : w[p + i] = cells[i]
  BY <1>3, <1>1
<1> QED BY <1>1, <1>6, <1>7, <1>8, Zenon DEF w
\* A frame that ends before the position of a write survives the write.
LEMMA FrameKept ==
  ASSUME NEW file \in Seq(Cell), NEW cells \in Seq(Cell), NEW p \in Nat, p <= Len(file),
         NEW q \in Nat, FrameAt(file, q), q + 1 + file[q + 1].n <= p
  PROVE  /\ FrameAt(WriteAt(file, p, cells), q)
         /\ WriteAt(file, p, cells)[q + 1] = file[q + 1]
         /\ WriteAt(file, p, cells)[q + 2] = file[q + 2]
<1> DEFINE w == WriteAt(file, p, cells)
           n == file[q + 1].n
           rec == file[q + 2].rec
<1>1. /\ w \in Seq(Cell) /\ Len(w) >= Len(file) /\ Len(w) \in Nat
      /\ \A i \in 1 .. p : w[i] = file[i]
  BY WriteAtFacts, Zenon
<1>2. /\ q + 2 <= Len(file)
      /\ file[q + 1].kind = "length" /\ file[q + 2].kind = "data"
      /\ n = Size[rec.value]
      /\ \A j \in 1 .. n : file[q + 1 + j] = Data(rec, j)
  BY Zenon DEF FrameAt
<1>3. rec \in Record
  BY <1>2 DEF Cell
<1>4. n \in Nat /\ n >= 1
  BY <1>2, <1>3, SegmentAssumption DEF Record
<1> HIDE DEF w
<1>5. w[q + 1] = file[q + 1] /\ w[q + 2] = file[q + 2]
  BY <1>1, <1>4
<1>6. \A j \in 1 .. n : w[q + 1 + j] = Data(rec, j)
  <2> TAKE j \in 1 .. n
  <2>1. q + 1 + j \in 1 .. p
    BY <1>4
  <2> QED BY <2>1, <1>1, <1>2, Zenon
<1>7. q + 1 + n <= Len(w) /\ q + 2 <= Len(w)
  BY <1>1, <1>4
<1>8. FrameAt(w, q)
  BY <1>2, <1>5, <1>6, <1>7, Zenon DEF FrameAt
<1> QED BY <1>5, <1>8, Zenon DEF w

\* A payload written behind its length prefix is a whole frame.
LEMMA FrameMade ==
  ASSUME NEW file \in Seq(Cell), NEW p \in Nat, p + 1 <= Len(file),
         NEW rec \in Record, file[p + 1] = Header(Size[rec.value])
  PROVE  LET w == WriteAt(file, p + 1, Payload(rec))
         IN  /\ FrameAt(w, p)
             /\ w[p + 1].n = Size[rec.value]
             /\ w[p + 2].rec = rec
             /\ p + 1 + Size[rec.value] <= Len(w)
<1> DEFINE n == Size[rec.value]
           w == WriteAt(file, p + 1, Payload(rec))
<1>1. n \in Nat /\ n >= 1
  BY SegmentAssumption DEF Record
<1>2. Payload(rec) \in Seq(Cell) /\ Len(Payload(rec)) = n /\ \A j \in 1 .. n : Payload(rec)[j] = Data(rec, j)
  <2>1. \A j \in 1 .. n : Data(rec, j) \in Cell
    BY DEF Data, Cell
  <2>2. Payload(rec) = [j \in 1 .. n |-> Data(rec, j)]
    BY Zenon DEF Payload
  <2> HIDE DEF n
  <2>3. Payload(rec) \in [1 .. n -> Cell]
    BY <2>1, <2>2, Zenon
  <2> QED BY <1>1, <2>2, <2>3
<1>3. /\ w \in Seq(Cell) /\ Len(w) \in Nat /\ Len(w) >= p + 1 + n
      /\ \A i \in 1 .. p + 1 : w[i] = file[i]
      /\ \A i \in 1 .. n : w[p + 1 + i] = Data(rec, i)
  <2> DEFINE cells == Payload(rec)
  <2> HIDE DEF cells
  <2>1. p + 1 \in Nat /\ cells \in Seq(Cell)
    BY <1>2 DEF cells
  <2>2. /\ WriteAt(file, p + 1, cells) \in Seq(Cell)
        /\ Len(WriteAt(file, p + 1, cells)) \in Nat
        /\ Len(WriteAt(file, p + 1, cells)) >= p + 1 + Len(cells)
        /\ \A i \in 1 .. p + 1 : WriteAt(file, p + 1, cells)[i] = file[i]
        /\ \A i \in 1 .. Len(cells) : WriteAt(file, p + 1, cells)[p + 1 + i] = cells[i]
    BY <2>1, WriteAtFacts, Zenon
  <2> QED BY <1>2, <2>2, Zenon DEF cells
<1> HIDE DEF w
<1>4. w[p + 1] = Header(n) /\ w[p + 2] = Data(rec, 1)
  <2>1. w[p + 1] = Header(n)
    BY <1>3
  <2>2. w[p + 1 + 1] = Data(rec, 1)
    BY <1>3, <1>1
  <2> QED BY <2>1, <2>2
<1>5. w[p + 1].kind = "length" /\ w[p + 1].n = n /\ w[p + 2].kind = "data" /\ w[p + 2].rec = rec
  BY <1>4 DEF Header, Data
<1>6. FrameAt(w, p)
  BY <1>1, <1>3, <1>5 DEF FrameAt
<1> QED BY <1>3, <1>5, <1>6, Zenon DEF w

-----------------------------------------------------------------------------
(* The inductive invariant.                                                *)

\* Bytes below this mark are never written again.
Limit == IF open THEN position ELSE Len(logFile)

\* The entries of an index lead to whole frames below the mark.
Placed(index) ==
  \A o \in DOMAIN index :
    /\ FrameAt(logFile, index[o])
    /\ index[o] + 1 + logFile[index[o] + 1].n <= Limit

\* What holds while the length prefix is written and the payload is not.
PrefixWritten ==
  append.pc = "payload" =>
    /\ position + 1 <= Len(logFile)
    /\ logFile[position + 1] = Header(Size[append.rec.value])

\* Once the payload is written, the record being appended is counted.
Counted == append.pc \in {"index", "timeindex"} => nextOffset > 0

Closed == ~open => offsets = Empty /\ append = Idle

IndexIsPrefix == \E n \in Nat : DOMAIN indexFile = 0 .. n - 1

IInv ==
  /\ TypeOK
  /\ Closed
  /\ open => position <= Len(logFile)
  /\ open => DOMAIN offsets = 0 .. nextOffset - 1
  /\ IndexIsPrefix
  /\ Placed(offsets)
  /\ Placed(indexFile)
  /\ PrefixWritten
  /\ Counted

LEMMA IdlePc == Idle.pc = "idle"
BY DEF Idle

\* An append in progress has its record, and its topic is open.
LEMMA Busy ==
  ASSUME IInv, append.pc \in {"payload", "index", "timeindex"}
  PROVE  open /\ append \in [pc : {"payload", "index", "timeindex"}, rec : Record, ts : Time]
<1>1. append # Idle
  BY IdlePc
<1> QED BY <1>1, Zenon DEF IInv, TypeOK, Closed

\* It keeps its record at its next step.
LEMMA NextStep ==
  ASSUME NEW a \in [pc : {"payload", "index", "timeindex"}, rec : Record, ts : Time], NEW pc \in {"index", "timeindex"}
  PROVE  /\ [a EXCEPT !.pc = pc] \in [pc : {"payload", "index", "timeindex"}, rec : Record, ts : Time]
         /\ [a EXCEPT !.pc = pc].pc = pc /\ [a EXCEPT !.pc = pc].rec = a.rec
OBVIOUS

\* The length a frame begins with is a natural number.
LEMMA FrameLength ==
  ASSUME logFile \in Seq(Cell), NEW q \in Nat, FrameAt(logFile, q)
  PROVE  logFile[q + 1].n \in Nat
<1>1. q + 1 \in 1 .. Len(logFile)
  BY DEF FrameAt
<1>2. logFile[q + 1] \in Cell
  BY <1>1
<1> QED BY <1>2, Zenon DEF Cell

\* Reading at an entry of an index yields a record.
LEMMA ReadIsRecord ==
  ASSUME logFile \in Seq(Cell), NEW p \in Nat, FrameAt(logFile, p)
  PROVE  logFile[p + 2].rec \in Record
BY DEF FrameAt, Cell

\* A read through an index yields a record or nothing.
LEMMA ReadType ==
  ASSUME logFile \in Seq(Cell), IsIndex(offsets, Nat), NEW o
  PROVE  ReadByOffset(offsets, o) \in Record \cup {ReadError}
BY ReadIsRecord, Zenon DEF ReadByOffset, IsIndex

\* loadIndexes finds the length of an index without gaps.
LEMMA NextAfterPrefix ==
  ASSUME NEW index, index = [x \in DOMAIN index |-> index[x]],
         NEW n \in Nat, DOMAIN index = 0 .. n - 1
  PROVE  NextAfter(index) = n
<1>1. CASE n = 0
  <2>1. DOMAIN index = {}
    BY <1>1
  <2>2. index = Empty
    BY <2>1, Zenon DEF Empty
  <2> QED BY <1>1, <2>2, Zenon DEF NextAfter
<1>2. CASE n > 0
  <2>1. n - 1 \in DOMAIN index /\ \A x \in DOMAIN index : x <= n - 1
    BY <1>2
  <2>2. index # Empty
    BY <2>1, Zenon DEF Empty
  <2>3. \A o \in DOMAIN index : (\A x \in DOMAIN index : x <= o) => o = n - 1
    BY <2>1
  <2>4. (CHOOSE o \in DOMAIN index : \A x \in DOMAIN index : x <= o) = n - 1
    BY <2>1, <2>3, Zenon
  <2>5. NextAfter(index) = 1 + (n - 1)
    BY <2>2, <2>4, Zenon DEF NextAfter
  <2> QED BY <2>5
<1> QED BY <1>1, <1>2

\* The empty directory NewBroker starts with satisfies the invariant.
LEMMA InitIInv == Init => IInv
<1> SUFFICES ASSUME Init PROVE IInv
  BY Zenon
<1> USE DEF Init
<1>1. IsIndex(Empty, Nat) /\ IsIndex(Empty, Time)
  BY Zenon DEF IsIndex, Empty
<1>2. fetch \in [active : BOOLEAN, from : Nat, next : Nat, acc : Seq(Record \cup {ReadError})]
  BY DEF NoFetch
<1>3. TypeOK
  <2>1. DOMAIN acked = {}
    BY Zenon DEF Empty
  <2>2. logFile \in Seq(Cell)
    OBVIOUS
  <2>3. /\ open \in BOOLEAN /\ position \in Nat /\ nextOffset \in Nat /\ topicNext \in Nat
        /\ safe \in Nat /\ cut \in BOOLEAN /\ lost \subseteq Nat
    BY Zenon
  <2> QED BY <1>1, <1>2, <2>1, <2>2, <2>3, Zenon DEF TypeOK
<1>4. DOMAIN indexFile = 0 .. 0 - 1
  BY DEF Empty
<1>5. PrefixWritten /\ Counted
  BY Zenon DEF PrefixWritten, Counted, Idle
<1> QED BY <1>3, <1>4, <1>5, Zenon DEF IInv, Closed, IndexIsPrefix, Placed, Empty

\* The frames an index leads to survive a write at or above the mark, if the
\* mark does not go down.
LEMMA PlacedKept ==
  ASSUME logFile \in Seq(Cell), NEW index, IsIndex(index, Nat), Placed(index),
         NEW cells \in Seq(Cell), NEW p \in Nat, p <= Len(logFile),
         Limit \in Nat, Limit <= p, logFile' = WriteAt(logFile, p, cells),
         Limit' \in Nat, Limit <= Limit'
  PROVE  \A o \in DOMAIN index :
           /\ FrameAt(logFile', index[o])
           /\ index[o] + 1 + logFile'[index[o] + 1].n <= Limit'
           /\ logFile'[index[o] + 2] = logFile[index[o] + 2]
<1> TAKE o \in DOMAIN index
<1> DEFINE q == index[o]
<1>1. q \in Nat /\ FrameAt(logFile, q) /\ q + 1 + logFile[q + 1].n <= Limit
  BY Zenon DEF Placed, IsIndex
<1> HIDE DEF q
<1>2. logFile[q + 1].n \in Nat
  BY <1>1, FrameLength, Zenon
<1>3. q + 1 + logFile[q + 1].n <= p
  BY <1>1, <1>2
<1>4. /\ FrameAt(logFile', q)
      /\ logFile'[q + 1] = logFile[q + 1]
      /\ logFile'[q + 2] = logFile[q + 2]
  BY <1>1, <1>3, FrameKept
<1> QED BY <1>1, <1>2, <1>4 DEF q

\* newSegment, which loads the index file and appends at the end of the log.
LEMMA CreateTopicIInv == IInv /\ CreateTopic => IInv'
<1> SUFFICES ASSUME IInv, CreateTopic PROVE IInv'
  BY Zenon
<1> USE DEF CreateTopic, IInv
<1>0. TypeOK /\ ~open /\ append = Idle
  BY Zenon DEF Closed
<1>1. PICK n \in Nat : DOMAIN indexFile = 0 .. n - 1
  BY Zenon DEF IndexIsPrefix
<1>2. nextOffset' = n
  BY <1>0, <1>1, NextAfterPrefix, Zenon DEF TypeOK, IsIndex
<1>3. TypeOK'
  BY <1>0, <1>2 DEF TypeOK, files, history
<1>4. DOMAIN offsets' = 0 .. nextOffset' - 1
  BY <1>1, <1>2, Zenon
<1>5. Limit' = Limit /\ logFile' = logFile /\ indexFile' = indexFile /\ offsets' = indexFile
  BY <1>0, Zenon DEF Limit, files
<1>6. Placed(indexFile)' /\ Placed(offsets)'
  BY <1>5, Zenon DEF Placed
<1>7. PrefixWritten' /\ Counted'
  BY <1>0, Zenon DEF PrefixWritten, Counted, Idle
<1>8. open' /\ Closed' /\ IndexIsPrefix'
  BY <1>1, <1>5, Zenon DEF Closed, IndexIsPrefix
<1>9. position' <= Len(logFile')
  <2>1. Len(logFile) \in Nat /\ position' = Len(logFile)
    BY <1>0 DEF TypeOK
  <2> QED BY <1>5, <2>1
<1> HIDE DEF CreateTopic
<1> QED BY <1>3, <1>4, <1>6, <1>7, <1>8, <1>9, Zenon

\* The length prefix Append writes is a sequence of cells.
LEMMA PrefixCells ==
  ASSUME NEW v \in Value
  PROVE  <<Header(Size[v])>> \in Seq(Cell) /\ Len(<<Header(Size[v])>>) = 1
<1>1. Header(Size[v]) \in Cell
  BY SegmentAssumption, Zenon DEF Header, Cell
<1> QED BY <1>1

\* A payload is a sequence of cells, all of them data of its record.
LEMMA PayloadCells ==
  ASSUME NEW rec \in Record
  PROVE  Payload(rec) \in Seq(Cell) /\ Len(Payload(rec)) = Size[rec.value] /\ Size[rec.value] \in Nat \ {0}
<1> DEFINE n == Size[rec.value]
<1>1. n \in Nat \ {0}
  BY SegmentAssumption, Zenon DEF Record
<1>2. \A j \in 1 .. n : Data(rec, j) \in Cell
  BY DEF Data, Cell
<1>3. Payload(rec) = [j \in 1 .. n |-> Data(rec, j)]
  BY Zenon DEF Payload
<1> HIDE DEF n
<1>4. Payload(rec) \in [1 .. n -> Cell]
  BY <1>2, <1>3, Zenon
<1> QED BY <1>1, <1>4 DEF n

\* So is what a short write leaves of a payload.
LEMMA ShortPayloadCells ==
  ASSUME NEW rec \in Record, NEW k \in 0 .. Size[rec.value]
  PROVE  SubSeq(Payload(rec), 1, k) \in Seq(Cell)
BY PayloadCells

\* What an interrupted os.WriteFile leaves is the old file or a beginning
\* of the new one.
LEMMA InterruptedFacts ==
  ASSUME NEW K, NEW f, IsIndex(f, K), NEW old, NEW g \in Interrupted(f, old)
  PROVE  g = old \/ IsIndex(g, K)
<1> SUFFICES ASSUME g # old PROVE IsIndex(g, K)
  BY Zenon
<1>1. g \in TornPrefixes(f)
  BY Zenon DEF Interrupted
<1>2. PICK b \in DOMAIN f : g = [x \in {y \in DOMAIN f : y < b} |-> f[x]]
  BY <1>1, Zenon DEF TornPrefixes, Restrict
<1> QED BY <1>2, Zenon DEF IsIndex

\* The first WriteAt of Append, at the position of the segment.
LEMMA WritePrefixIInv ==
  ASSUME NEW v \in Value, NEW ts \in Time
  PROVE  IInv /\ WritePrefix(v, ts) => IInv'
<1> SUFFICES ASSUME IInv, WritePrefix(v, ts) PROVE IInv'
  BY Zenon
<1> USE DEF IInv
<1> DEFINE cells == <<Header(Size[v])>>
<1>1. /\ open /\ append = Idle /\ position \in Nat /\ position <= Len(logFile)
      /\ logFile \in Seq(Cell) /\ logFile' = WriteAt(logFile, position, cells)
      /\ append' = [pc |-> "payload", rec |-> [value |-> v, offset |-> topicNext], ts |-> ts]
      /\ UNCHANGED <<indexFile, timeFile, open, position, nextOffset, offsets, timeOffsets, topicNext, fetch, acked, safe, cut, lost>>
  BY Zenon DEF WritePrefix, memory, history, TypeOK
<1>2. cells \in Seq(Cell) /\ Len(cells) = 1 /\ cells[1] = Header(Size[v])
  BY PrefixCells, Zenon
<1> HIDE DEF cells
<1>3. /\ logFile' \in Seq(Cell) /\ Len(logFile') \in Nat
      /\ Len(logFile') >= Len(logFile) /\ Len(logFile') >= position + 1
      /\ logFile'[position + 1] = Header(Size[v])
  <2>1. /\ WriteAt(logFile, position, cells) \in Seq(Cell)
        /\ Len(WriteAt(logFile, position, cells)) \in Nat
        /\ Len(WriteAt(logFile, position, cells)) >= Len(logFile)
        /\ Len(WriteAt(logFile, position, cells)) >= position + Len(cells)
        /\ \A i \in 1 .. Len(cells) : WriteAt(logFile, position, cells)[position + i] = cells[i]
    BY <1>1, <1>2, WriteAtFacts, Zenon
  <2>2. 1 \in 1 .. Len(cells)
    BY <1>2
  <2> QED BY <1>1, <1>2, <2>1, <2>2, Zenon
<1>4. Limit = position /\ Limit' = position
  BY <1>1, Zenon DEF Limit
<1>5. Placed(offsets)' /\ Placed(indexFile)'
  <2>1. ASSUME NEW index, IsIndex(index, Nat), Placed(index)
        PROVE  \A o \in DOMAIN index :
                 /\ FrameAt(logFile', index[o])
                 /\ index[o] + 1 + logFile'[index[o] + 1].n <= Limit'
    <3>1. Limit \in Nat /\ Limit <= position /\ Limit' \in Nat /\ Limit <= Limit'
      BY <1>1, <1>4
    <3>2. logFile \in Seq(Cell) /\ position \in Nat /\ position <= Len(logFile)
      BY <1>1, Zenon
    <3>3. cells \in Seq(Cell) /\ logFile' = WriteAt(logFile, position, cells)
      BY <1>1, <1>2, Zenon
    <3> HIDE DEF IInv
    <3> QED BY <2>1, <3>1, <3>2, <3>3, PlacedKept, Zenon
  <2>2. IsIndex(offsets, Nat) /\ IsIndex(indexFile, Nat)
    BY Zenon DEF TypeOK
  <2> QED BY <1>1, <2>1, <2>2, Zenon DEF Placed
<1>6. TypeOK'
  <2>1. append' \in [pc : {"payload", "index", "timeindex"}, rec : Record, ts : Time]
    BY <1>1, Zenon DEF TypeOK, Record
  <2> QED BY <1>1, <1>3, <2>1, Zenon DEF TypeOK
<1>7. PrefixWritten'
  <2>1. position' = position /\ append'.rec.value = v
    BY <1>1, Zenon
  <2>2. logFile'[position' + 1] = Header(Size[append'.rec.value]) /\ position' + 1 <= Len(logFile')
    BY <1>1, <1>3, <2>1, Zenon
  <2> QED BY <2>2, Zenon DEF PrefixWritten
<1>8. position' = position /\ position <= Len(logFile')
  <2>1. Len(logFile) \in Nat
    BY <1>1
  <2> QED BY <1>1, <1>3, <2>1
<1>9. open' /\ DOMAIN offsets' = 0 .. nextOffset' - 1
  BY <1>1, Zenon
<1>10. IndexIsPrefix' /\ Counted'
  BY <1>1, Zenon DEF IndexIsPrefix, Counted
<1> QED BY <1>5, <1>6, <1>7, <1>8, <1>9, <1>10, Zenon DEF Closed

\* The second WriteAt of Append, and the entry in the in-memory index.
LEMMA WritePayloadIInv == IInv /\ WritePayload => IInv'
<1> SUFFICES ASSUME IInv, WritePayload PROVE IInv'
  BY Zenon
<1> USE DEF IInv
<1> DEFINE rec == append.rec
           n == Size[rec.value]
           p == position + 1
<1>1. append \in [pc : {"payload", "index", "timeindex"}, rec : Record, ts : Time] /\ append.pc = "payload"
  BY Busy, Zenon DEF WritePayload
<1>2. rec \in Record /\ append.ts \in Time /\ open
  BY <1>1, Busy, Zenon
<1>3. /\ position \in Nat /\ p \in Nat /\ p <= Len(logFile) /\ logFile \in Seq(Cell)
      /\ logFile[position + 1] = Header(n)
  BY <1>1 DEF PrefixWritten, TypeOK
<1>4. Payload(rec) \in Seq(Cell) /\ n \in Nat \ {0}
  BY <1>2, PayloadCells, Zenon
<1>5. /\ logFile' = WriteAt(logFile, p, Payload(rec))
      /\ position' = position + 1 + n /\ nextOffset' = nextOffset + 1
      /\ append' = [append EXCEPT !.pc = "index"]
      /\ UNCHANGED <<indexFile, timeFile, open, topicNext, fetch, acked, safe, cut, lost>>
  BY Zenon DEF WritePayload, history
<1>6. /\ offsets' = [o \in DOMAIN offsets \cup {nextOffset} |-> IF o = nextOffset THEN position ELSE offsets[o]]
      /\ timeOffsets' = [t \in DOMAIN timeOffsets \cup {append.ts} |->
                           IF t = append.ts THEN nextOffset ELSE timeOffsets[t]]
  BY Zenon DEF WritePayload
<1> HIDE DEF p, n, rec
<1>7. /\ logFile' \in Seq(Cell) /\ Len(logFile') \in Nat /\ Len(logFile') >= Len(logFile)
      /\ FrameAt(logFile', position) /\ logFile'[position + 1].n = n /\ position + 1 + n <= Len(logFile')
  <2>1. /\ FrameAt(WriteAt(logFile, position + 1, Payload(rec)), position)
        /\ WriteAt(logFile, position + 1, Payload(rec))[position + 1].n = n
        /\ position + 1 + n <= Len(WriteAt(logFile, position + 1, Payload(rec)))
    BY <1>2, <1>3, FrameMade, Zenon DEF p, n
  <2>2. /\ WriteAt(logFile, p, Payload(rec)) \in Seq(Cell)
        /\ Len(WriteAt(logFile, p, Payload(rec))) \in Nat
        /\ Len(WriteAt(logFile, p, Payload(rec))) >= Len(logFile)
    BY <1>3, <1>4, WriteAtFacts, Zenon
  <2> QED BY <1>5, <2>1, <2>2, Zenon DEF p
<1>8. Limit = position /\ Limit' = position + 1 + n
  BY <1>2, <1>5, Zenon DEF Limit
<1>9. ASSUME NEW index, IsIndex(index, Nat), Placed(index)
      PROVE  \A o \in DOMAIN index :
               /\ FrameAt(logFile', index[o])
               /\ index[o] + 1 + logFile'[index[o] + 1].n <= Limit'
  <2>1. Limit \in Nat /\ Limit <= p /\ Limit' \in Nat /\ Limit <= Limit'
    BY <1>3, <1>4, <1>8 DEF p
  <2> QED BY <1>3, <1>4, <1>5, <1>9, <2>1, PlacedKept, Zenon
<1>10. IsIndex(offsets, Nat) /\ IsIndex(indexFile, Nat) /\ IsIndex(timeOffsets, Time) /\ nextOffset \in Nat
  BY Zenon DEF TypeOK
<1>11. Placed(indexFile)'
  BY <1>5, <1>9, <1>10, Zenon DEF Placed
<1>12. Placed(offsets)'
  <2> SUFFICES ASSUME NEW o \in DOMAIN offsets'
               PROVE  /\ FrameAt(logFile', offsets'[o])
                      /\ offsets'[o] + 1 + logFile'[offsets'[o] + 1].n <= Limit'
    BY Zenon DEF Placed
  <2>1. CASE o = nextOffset
    <3>1. offsets'[o] = position
      BY <2>1, <1>6, Zenon
    <3> QED BY <3>1, <1>3, <1>4, <1>7, <1>8
  <2>2. CASE o # nextOffset
    <3>1. o \in DOMAIN offsets /\ offsets'[o] = offsets[o]
      BY <2>2, <1>6, Zenon
    <3> QED BY <3>1, <1>9, <1>10, Zenon
  <2> QED BY <2>1, <2>2, Zenon
<1>13. IsIndex(offsets', Nat) /\ IsIndex(timeOffsets', Time)
  BY <1>2, <1>3, <1>6, <1>10, Zenon DEF IsIndex
<1>14. TypeOK'
  <2>1. append' \in [pc : {"payload", "index", "timeindex"}, rec : Record, ts : Time]
    BY <1>1, <1>5, Zenon
  <2>2. position' \in Nat /\ nextOffset' \in Nat
    BY <1>3, <1>4, <1>5, <1>10
  <2> QED BY <1>5, <1>7, <1>13, <2>1, <2>2, Zenon DEF TypeOK
<1>15. DOMAIN offsets' = 0 .. nextOffset' - 1
  <2>1. DOMAIN offsets = 0 .. nextOffset - 1
    BY <1>2, Zenon
  <2> QED BY <1>5, <1>6, <1>10, <2>1
<1>16. PrefixWritten' /\ Counted'
  BY <1>1, <1>5, <1>10 DEF PrefixWritten, Counted
<1>17. position' <= Len(logFile')
  BY <1>5, <1>7, Zenon
<1> QED BY <1>2, <1>5, <1>11, <1>12, <1>14, <1>15, <1>16, <1>17, Zenon DEF Closed, IndexIsPrefix

\* What WritePayloadFails and Crash do to the log file: a part of the payload
\* lands behind the prefix, and no frame the indexes know of is touched.
LEMMA ShortPayloadIInv ==
  ASSUME IInv, append.pc = "payload", NEW k \in 0 .. Size[append.rec.value],
         logFile' = WriteAt(logFile, position + 1, SubSeq(Payload(append.rec), 1, k)),
         Limit' \in Nat, position <= Limit'
  PROVE  /\ logFile' \in Seq(Cell) /\ Len(logFile') >= Len(logFile) /\ Len(logFile') \in Nat
         /\ \A index : IsIndex(index, Nat) /\ Placed(index) =>
              \A o \in DOMAIN index :
                /\ FrameAt(logFile', index[o])
                /\ index[o] + 1 + logFile'[index[o] + 1].n <= Limit'
                /\ logFile'[index[o] + 2] = logFile[index[o] + 2]
<1> USE DEF IInv
<1> DEFINE cells == SubSeq(Payload(append.rec), 1, k)
           p == position + 1
<1>1. append.rec \in Record /\ open
  BY DEF TypeOK, Idle, Closed
<1>2. cells \in Seq(Cell)
  BY <1>1, ShortPayloadCells, Zenon
<1>3. position \in Nat /\ p \in Nat /\ p <= Len(logFile) /\ logFile \in Seq(Cell) /\ Limit = position
  BY <1>1 DEF PrefixWritten, TypeOK, Limit
<1>4. logFile' = WriteAt(logFile, p, cells)
  BY Zenon
<1>5. Limit \in Nat /\ Limit <= p /\ Limit <= Limit'
  BY <1>3
<1> HIDE DEF cells, p
<1>6. logFile' \in Seq(Cell) /\ Len(logFile') >= Len(logFile) /\ Len(logFile') \in Nat
  BY <1>2, <1>3, <1>4, WriteAtFacts
<1>7. ASSUME NEW index, IsIndex(index, Nat), Placed(index)
      PROVE  \A o \in DOMAIN index :
               /\ FrameAt(logFile', index[o])
               /\ index[o] + 1 + logFile'[index[o] + 1].n <= Limit'
               /\ logFile'[index[o] + 2] = logFile[index[o] + 2]
  BY <1>2, <1>3, <1>4, <1>5, <1>7, PlacedKept, Zenon
<1> QED BY <1>6, <1>7, Zenon

\* A short write of the payload: Append returns with the index untouched.
LEMMA WritePayloadFailsIInv == IInv /\ WritePayloadFails => IInv'
<1> SUFFICES ASSUME IInv, WritePayloadFails PROVE IInv'
  BY Zenon
<1> USE DEF IInv
<1>1. /\ append.pc = "payload" /\ append' = Idle
      /\ UNCHANGED <<indexFile, timeFile, open, position, nextOffset, offsets, timeOffsets, topicNext, fetch, acked, safe, cut, lost>>
  BY Zenon DEF WritePayloadFails, memory, history
<1>2. open /\ position \in Nat /\ position <= Len(logFile) /\ logFile \in Seq(Cell)
  BY <1>1, Busy, Zenon DEF TypeOK
<1>3. PICK k \in 0 .. Size[append.rec.value] - 1 :
        logFile' = WriteAt(logFile, position + 1, SubSeq(Payload(append.rec), 1, k))
  BY Zenon DEF WritePayloadFails
<1>4. k \in 0 .. Size[append.rec.value]
  <2>1. append.rec \in Record
    BY <1>1, Busy, Zenon
  <2>2. Size[append.rec.value] \in Nat
    BY <2>1, PayloadCells, Zenon
  <2> QED BY <2>2
<1>5. Limit' = position
  BY <1>1, <1>2, Zenon DEF Limit
<1>6. /\ logFile' \in Seq(Cell) /\ Len(logFile') >= Len(logFile) /\ Len(logFile') \in Nat
      /\ \A index : IsIndex(index, Nat) /\ Placed(index) =>
           \A o \in DOMAIN index :
             /\ FrameAt(logFile', index[o])
             /\ index[o] + 1 + logFile'[index[o] + 1].n <= Limit'
  <2>1. Limit' \in Nat /\ position <= Limit'
    BY <1>2, <1>5
  <2> QED BY <1>1, <1>3, <1>4, <2>1, ShortPayloadIInv, Zenon
<1>7. IsIndex(offsets, Nat) /\ IsIndex(indexFile, Nat)
  BY Zenon DEF TypeOK
<1>8. Placed(offsets)' /\ Placed(indexFile)'
  BY <1>1, <1>6, <1>7, Zenon DEF Placed
<1>9. TypeOK'
  BY <1>1, <1>6, Zenon DEF TypeOK
<1>10. position' <= Len(logFile') /\ DOMAIN offsets' = 0 .. nextOffset' - 1 /\ open'
  <2>1. Len(logFile) \in Nat /\ position \in Nat /\ position <= Len(logFile)
    BY <1>2
  <2>2. Len(logFile') \in Nat /\ Len(logFile') >= Len(logFile)
    BY <1>6, Zenon
  <2>3. position' = position
    BY <1>1, Zenon
  <2>4. position' <= Len(logFile')
    BY <2>1, <2>2, <2>3
  <2>5. DOMAIN offsets' = 0 .. nextOffset' - 1 /\ open'
    BY <1>1, <1>2, Zenon
  <2> QED BY <2>4, <2>5, Zenon
<1>11. IndexIsPrefix' /\ PrefixWritten' /\ Counted' /\ Closed'
  <2>1. IndexIsPrefix'
    BY <1>1, Zenon DEF IndexIsPrefix
  <2>2. PrefixWritten' /\ Counted'
    BY <1>1, Zenon DEF PrefixWritten, Counted, Idle
  <2>3. Closed'
    BY <1>1, <1>2, Zenon DEF Closed
  <2> QED BY <2>1, <2>2, <2>3, Zenon
<1> QED BY <1>8, <1>9, <1>10, <1>11, Zenon

\* An index file that a rewrite leaves behind, whole or interrupted: it is a
\* beginning of the in-memory index or the old file, so it leads to frames
\* only, and its offsets have no gap.
LEMMA RewrittenIndex ==
  ASSUME IInv, open, NEW g \in Interrupted(offsets, indexFile) \cup {offsets}
  PROVE  /\ IsIndex(g, Nat)
         /\ \E n \in Nat : DOMAIN g = 0 .. n - 1
         /\ Placed(g)
<1> USE DEF IInv
<1>1. /\ IsIndex(offsets, Nat) /\ IsIndex(indexFile, Nat) /\ nextOffset \in Nat
      /\ DOMAIN offsets = 0 .. nextOffset - 1
  BY Zenon DEF TypeOK
<1>2. CASE g = offsets
  BY <1>1, <1>2, Zenon
<1>3. CASE g = indexFile
  BY <1>1, <1>3, Zenon DEF IndexIsPrefix
<1>4. CASE g # offsets /\ g # indexFile
  <2>1. g \in TornPrefixes(offsets)
    BY <1>4, Zenon DEF Interrupted
  <2>2. PICK b \in DOMAIN offsets : g = [x \in {y \in DOMAIN offsets : y < b} |-> offsets[x]]
    BY <2>1, Zenon DEF TornPrefixes, Restrict
  <2>3. b \in Nat /\ DOMAIN g = 0 .. b - 1
    BY <1>1, <2>2
  <2>4. \A x \in DOMAIN g : x \in DOMAIN offsets /\ g[x] = offsets[x]
    BY <2>2
  <2>5. Placed(g)
    BY <2>4, Zenon DEF Placed
  <2>6. IsIndex(g, Nat)
    BY <1>1, <2>2, <2>4 DEF IsIndex
  <2> QED BY <2>3, <2>5, <2>6, Zenon
<1> QED BY <1>2, <1>3, <1>4, Zenon

\* persistIndexes rewrites the offset index, or fails to.
LEMMA WriteIndexIInv == IInv /\ (WriteIndex \/ WriteIndexFails) => IInv'
<1> SUFFICES ASSUME IInv, WriteIndex \/ WriteIndexFails PROVE IInv'
  BY Zenon
<1> USE DEF IInv
<1>1. /\ append.pc = "index"
      /\ append' = Idle \/ append' = [append EXCEPT !.pc = "timeindex"]
      /\ indexFile' \in Interrupted(offsets, indexFile) \cup {offsets}
      /\ UNCHANGED <<logFile, timeFile, open, position, nextOffset, offsets, timeOffsets, topicNext, fetch, acked, safe, lost>>
  BY Zenon DEF WriteIndex, WriteIndexFails, memory
<1>2. open /\ append \in [pc : {"payload", "index", "timeindex"}, rec : Record, ts : Time]
  BY <1>1, Busy, Zenon
<1>3. IsIndex(indexFile', Nat) /\ (\E n \in Nat : DOMAIN indexFile' = 0 .. n - 1) /\ Placed(indexFile')
  BY <1>1, <1>2, RewrittenIndex, Zenon
<1>4. Limit' = Limit
  BY <1>1, Zenon DEF Limit
<1>5. Placed(indexFile)' /\ Placed(offsets)'
  BY <1>1, <1>3, <1>4, Zenon DEF Placed
<1>6. TypeOK'
  <2>1. append' \in [pc : {"payload", "index", "timeindex"}, rec : Record, ts : Time] \cup {Idle}
    BY <1>1, <1>2, NextStep, Zenon
  <2>2. cut' \in BOOLEAN
    BY Zenon DEF WriteIndex, WriteIndexFails
  <2> QED BY <1>1, <1>3, <2>1, <2>2, Zenon DEF TypeOK
<1>7. PrefixWritten' /\ Counted'
  <2>1. append'.pc \in {"idle", "timeindex"} /\ nextOffset' = nextOffset
    BY <1>1, <1>2, NextStep, IdlePc, Zenon
  <2>2. nextOffset > 0
    BY <1>1, Zenon DEF Counted
  <2> QED BY <2>1, <2>2, Zenon DEF PrefixWritten, Counted
<1>8. IndexIsPrefix' /\ Closed'
  BY <1>1, <1>2, <1>3, Zenon DEF IndexIsPrefix, Closed
<1>9. position' <= Len(logFile') /\ DOMAIN offsets' = 0 .. nextOffset' - 1
  BY <1>1, <1>2, Zenon
<1> QED BY <1>5, <1>6, <1>7, <1>8, <1>9, Zenon

\* What a rewrite of the time index leaves behind has the type of one.
LEMMA RewrittenTimeIndex ==
  ASSUME TypeOK, NEW g \in Interrupted(timeOffsets, timeFile) \cup {timeOffsets}
  PROVE  IsIndex(g, Time)
<1>1. IsIndex(timeOffsets, Time) /\ IsIndex(timeFile, Time) /\ Time \subseteq Int
  BY SegmentAssumption, Zenon DEF TypeOK
<1>2. CASE g = timeOffsets \/ g = timeFile
  BY <1>1, <1>2, Zenon
<1>3. CASE g # timeOffsets /\ g # timeFile
  <2>1. g \in Interrupted(timeOffsets, timeFile)
    BY <1>3, Zenon
  <2> QED BY <1>1, <1>3, <2>1, InterruptedFacts, Zenon
<1> QED BY <1>2, <1>3, Zenon

\* persistIndexes rewrites the time index, or fails to.
LEMMA WriteTimeIndexIInv == IInv /\ (WriteTimeIndex \/ WriteTimeIndexFails) => IInv'
<1> SUFFICES ASSUME IInv, WriteTimeIndex \/ WriteTimeIndexFails PROVE IInv'
  BY Zenon
<1> USE DEF IInv
<1>1. /\ append.pc = "timeindex" /\ append' = Idle
      /\ timeFile' \in Interrupted(timeOffsets, timeFile) \cup {timeOffsets}
      /\ topicNext' \in {topicNext, nextOffset}
      /\ UNCHANGED <<logFile, indexFile, open, position, nextOffset, offsets, timeOffsets, fetch, cut, lost>>
      /\ safe' \in {safe, nextOffset}
  BY Zenon DEF WriteTimeIndex, WriteTimeIndexFails, memory, history
<1>2. open /\ nextOffset \in Nat /\ DOMAIN offsets = 0 .. nextOffset - 1
  BY <1>1, Busy, Zenon DEF TypeOK
<1>3. DOMAIN acked' \subseteq Nat
  <2>1. CASE WriteTimeIndexFails
    BY <2>1, Zenon DEF WriteTimeIndexFails, TypeOK, history
  <2>2. CASE WriteTimeIndex
    <3>1. nextOffset - 1 \in Nat
      BY <1>1, <1>2 DEF Counted
    <3> QED BY <2>2, <3>1, Zenon DEF WriteTimeIndex, TypeOK
  <2> QED BY <2>1, <2>2, Zenon
<1>4. Limit' = Limit
  BY <1>1, Zenon DEF Limit
<1>5. Placed(indexFile)' /\ Placed(offsets)'
  BY <1>1, <1>4, Zenon DEF Placed
<1>6. TypeOK'
  <2>1. IsIndex(timeFile', Time)
    BY <1>1, RewrittenTimeIndex, Zenon
  <2> QED BY <1>1, <1>2, <1>3, <2>1, Zenon DEF TypeOK
<1>7. PrefixWritten' /\ Counted'
  BY <1>1, Zenon DEF PrefixWritten, Counted, Idle
<1>8. IndexIsPrefix' /\ Closed'
  BY <1>1, <1>2, Zenon DEF IndexIsPrefix, Closed
<1>9. position' <= Len(logFile') /\ DOMAIN offsets' = 0 .. nextOffset' - 1
  BY <1>1, <1>2, Zenon
<1> QED BY <1>5, <1>6, <1>7, <1>8, <1>9, Zenon

\* A step that leaves the files and the segment alone and keeps the types
\* of the calls keeps the invariant: stuttering, and both steps of Fetch.
LEMMA QuietIInv ==
  ASSUME IInv, UNCHANGED <<files, memory, append, history>>,
         fetch' \in [active : BOOLEAN, from : Nat, next : Nat, acc : Seq(Record \cup {ReadError})]
  PROVE  IInv'
<1> USE DEF IInv, files, memory, history
<1>1. TypeOK'
  BY Zenon DEF TypeOK
<1>2. Limit' = Limit
  BY Zenon DEF Limit
<1>3. Placed(indexFile)' /\ Placed(offsets)'
  BY <1>2, Zenon DEF Placed
<1>4. PrefixWritten' /\ Counted' /\ IndexIsPrefix' /\ Closed'
  BY Zenon DEF PrefixWritten, Counted, IndexIsPrefix, Closed
<1> QED BY <1>1, <1>3, <1>4, Zenon

\* A Fetch begins: only the call changes.
LEMMA FetchStartIInv ==
  ASSUME NEW from \in 0 .. nextOffset, IInv, FetchStart(from)
  PROVE  IInv'
<1>1. from \in Nat
  BY DEF IInv, TypeOK
<1>2. fetch' \in [active : BOOLEAN, from : Nat, next : Nat, acc : Seq(Record \cup {ReadError})]
  BY <1>1 DEF FetchStart
<1> QED BY <1>2, QuietIInv, Zenon DEF FetchStart

\* One Consume of a Fetch: only the call changes.
LEMMA FetchStepIInv == IInv /\ FetchStep => IInv'
<1> SUFFICES ASSUME IInv, FetchStep PROVE IInv'
  BY Zenon
<1> DEFINE o   == CHOOSE x \in FirstFrom(fetch.next) : TRUE
           acc == Append(fetch.acc, ReadByOffset(offsets, o))
           R   == Record \cup {ReadError}
<1>1. fetch \in [active : BOOLEAN, from : Nat, next : Nat, acc : Seq(R)]
  BY Zenon DEF IInv, TypeOK
<1>2. fetch' = NoFetch \/ fetch' = [active |-> Len(acc) < MaxFetch, from |-> fetch.from, next |-> fetch.next + 1, acc |-> acc]
  BY Zenon DEF FetchStep
<1>3. ReadByOffset(offsets, o) \in R
  BY ReadType, Zenon DEF IInv, TypeOK
<1> HIDE DEF R, o
<1>4. acc \in Seq(R)
  BY <1>1, <1>3
<1> HIDE DEF acc
<1>5. fetch' \in [active : BOOLEAN, from : Nat, next : Nat, acc : Seq(R)]
  <2>1. NoFetch \in [active : BOOLEAN, from : Nat, next : Nat, acc : Seq(R)]
    BY DEF NoFetch
  <2>2. fetch.from \in Nat /\ fetch.next + 1 \in Nat
    BY <1>1
  <2>3. (Len(acc) < MaxFetch) \in BOOLEAN
    OBVIOUS
  <2>4. [active |-> Len(acc) < MaxFetch, from |-> fetch.from, next |-> fetch.next + 1, acc |-> acc]
          \in [active : BOOLEAN, from : Nat, next : Nat, acc : Seq(R)]
    BY <1>4, <2>2, <2>3, Zenon
  <2> QED BY <1>2, <2>1, <2>4, Zenon
<1>6. UNCHANGED <<files, memory, append, history>>
  BY Zenon DEF FetchStep
<1> QED BY <1>5, <1>6, QuietIInv, Zenon DEF R

\* The process dies, in the middle of any write.
LEMMA CrashIInv == IInv /\ Crash => IInv'
<1> SUFFICES ASSUME IInv, Crash PROVE IInv'
  BY Zenon
<1> USE DEF IInv
<1>1. /\ open /\ open' = FALSE /\ position' = 0 /\ nextOffset' = 0 /\ topicNext' = 0
      /\ offsets' = Empty /\ timeOffsets' = Empty /\ append' = Idle /\ fetch' = NoFetch /\ cut' = FALSE
  BY Zenon DEF Crash
<1>2. position \in Nat /\ position <= Len(logFile) /\ logFile \in Seq(Cell) /\ Len(logFile) \in Nat
  BY <1>1 DEF TypeOK
<1>3. Limit = position /\ Limit' = Len(logFile')
  BY <1>1, Zenon DEF Limit
<1>4. /\ logFile' \in Seq(Cell) /\ Len(logFile') >= Len(logFile) /\ Len(logFile') \in Nat
      /\ \A index : IsIndex(index, Nat) /\ Placed(index) =>
           \A o \in DOMAIN index :
             /\ FrameAt(logFile', index[o])
             /\ index[o] + 1 + logFile'[index[o] + 1].n <= Limit'
  <2>1. CASE append.pc = "payload"
    <3>1. PICK k \in 0 .. Size[append.rec.value] :
            logFile' = WriteAt(logFile, position + 1, SubSeq(Payload(append.rec), 1, k))
      BY <2>1, Zenon DEF Crash
    <3>2. Len(logFile') \in Nat /\ Len(logFile') >= Len(logFile)
      <4>1. SubSeq(Payload(append.rec), 1, k) \in Seq(Cell)
        BY <2>1, ShortPayloadCells DEF TypeOK, Idle
      <4>2. position + 1 \in Nat /\ position + 1 <= Len(logFile)
        BY <1>2, <2>1 DEF PrefixWritten
      <4> QED BY <1>2, <3>1, <4>1, <4>2, WriteAtFacts, Zenon
    <3>3. Limit' \in Nat /\ position <= Limit'
      BY <1>2, <1>3, <3>2
    <3> QED BY <2>1, <3>1, <3>3, ShortPayloadIInv, Zenon
  <2>2. CASE append.pc # "payload"
    <3>1. logFile' = logFile
      BY <2>2, Zenon DEF Crash
    <3>2. ASSUME NEW index, IsIndex(index, Nat), Placed(index)
          PROVE  \A o \in DOMAIN index :
                   /\ FrameAt(logFile', index[o])
                   /\ index[o] + 1 + logFile'[index[o] + 1].n <= Limit'
      <4> TAKE o \in DOMAIN index
      <4>1. index[o] \in Nat /\ FrameAt(logFile, index[o]) /\ index[o] + 1 + logFile[index[o] + 1].n <= position
        BY <1>3, <3>2, Zenon DEF Placed, IsIndex
      <4>2. logFile[index[o] + 1].n \in Nat
        BY <1>2, <4>1, FrameLength, Zenon
      <4>3. index[o] + 1 + logFile[index[o] + 1].n <= Len(logFile)
        BY <1>2, <4>1, <4>2
      <4> QED BY <1>3, <3>1, <4>1, <4>3, Zenon
    <3> QED BY <1>2, <3>1, <3>2
  <2> QED BY <2>1, <2>2, Zenon
<1>5. IsIndex(indexFile', Nat) /\ (\E n \in Nat : DOMAIN indexFile' = 0 .. n - 1) /\ Placed(indexFile')
  <2>1. CASE indexFile' = indexFile
    BY <2>1, Zenon DEF TypeOK, IndexIsPrefix
  <2>2. CASE indexFile' # indexFile
    <3>1. indexFile' \in Interrupted(offsets, indexFile) \cup {offsets}
      BY <2>2, Zenon DEF Crash
    <3> QED BY <1>1, <3>1, RewrittenIndex, Zenon
  <2> QED BY <2>1, <2>2, Zenon
<1>6. Placed(indexFile)' /\ Placed(offsets)'
  BY <1>1, <1>4, <1>5, Zenon DEF Placed, Empty
<1>7. IsIndex(timeFile', Time)
  <2>1. timeFile' \in Interrupted(timeOffsets, timeFile) \cup {timeOffsets} \/ timeFile' = timeFile
    BY Zenon DEF Crash
  <2>2. TypeOK /\ IsIndex(timeFile, Time)
    BY Zenon DEF TypeOK
  <2> QED BY <2>1, <2>2, RewrittenTimeIndex, Zenon
<1>8. IsIndex(Empty, Nat) /\ IsIndex(Empty, Time)
  BY Zenon DEF IsIndex, Empty
<1>9. TypeOK'
  <2>1. NoFetch \in [active : BOOLEAN, from : Nat, next : Nat, acc : Seq(Record \cup {ReadError})]
    BY DEF NoFetch
  <2>2. open' \in BOOLEAN /\ position' \in Nat /\ nextOffset' \in Nat /\ topicNext' \in Nat
    BY <1>1, Zenon
  <2>3. DOMAIN acked' \subseteq Nat
    BY Zenon DEF Crash, TypeOK, Restrict
  <2>4. lost' \subseteq Nat
    BY Zenon DEF Crash, TypeOK, IsIndex
  <2>5. safe' \in Nat
    BY <1>5, NextAfterPrefix, Zenon DEF Crash, IsIndex
  <2>6. cut' \in BOOLEAN
    BY <1>1, Zenon
  <2> QED BY <1>1, <1>4, <1>5, <1>7, <1>8, <2>1, <2>2, <2>3, <2>4, <2>5, <2>6, Zenon DEF TypeOK
<1>10. PrefixWritten' /\ Counted'
  BY <1>1, Zenon DEF PrefixWritten, Counted, Idle
<1>11. IndexIsPrefix' /\ Closed'
  BY <1>1, <1>5, Zenon DEF IndexIsPrefix, Closed
<1> QED BY <1>1, <1>6, <1>9, <1>10, <1>11, Zenon

-----------------------------------------------------------------------------
(* The theorems.                                                           *)

\* The inductive invariant holds in every state of every behaviour of the
\* segment, crashes and failing writes included.
THEOREM Inductive == Spec => []IInv
<1>1. IInv /\ [Next]_vars => IInv'
  <2> SUFFICES ASSUME IInv, [Next]_vars PROVE IInv'
    BY Zenon
  <2>1. CASE UNCHANGED vars
    BY <2>1, QuietIInv, Zenon DEF vars, IInv, TypeOK
  <2>2. CASE CreateTopic
    BY <2>2, CreateTopicIInv, Zenon
  <2>3. CASE \E v \in Value, ts \in Time : WritePrefix(v, ts)
    BY <2>3, WritePrefixIInv, Zenon
  <2>4. CASE WritePayload
    BY <2>4, WritePayloadIInv, Zenon
  <2>5. CASE WritePayloadFails
    BY <2>5, WritePayloadFailsIInv, Zenon
  <2>6. CASE WriteIndex \/ WriteIndexFails
    BY <2>6, WriteIndexIInv, Zenon
  <2>7. CASE WriteTimeIndex \/ WriteTimeIndexFails
    BY <2>7, WriteTimeIndexIInv, Zenon
  <2>8. CASE \E from \in 0 .. nextOffset : FetchStart(from)
    BY <2>8, FetchStartIInv, Zenon
  <2>9. CASE FetchStep
    BY <2>9, FetchStepIInv, Zenon
  <2>10. CASE Crash
    BY <2>10, CrashIInv, Zenon
  <2> QED BY <2>1, <2>2, <2>3, <2>4, <2>5, <2>6, <2>7, <2>8, <2>9, <2>10, Zenon DEF Next
<1> QED BY <1>1, InitIInv, PTL DEF Spec

\* The files, the segment's fields and the calls keep their types.
THEOREM TypeCorrect == Spec => []TypeOK
BY Inductive, PTL DEF IInv

\* Whatever write is interrupted or fails, an indexed offset leads to a whole
\* frame of the log file: readByOffset never meets a torn record.
THEOREM FramesWhole == Spec => []IndexedFramesWhole
<1>1. IInv => IndexedFramesWhole
  BY Zenon DEF IInv, IndexedFramesWhole, Placed
<1> QED BY <1>1, Inductive, PTL

\* The offsets of the in-memory index and of the index file have no gap.
THEOREM NoGap == Spec => []OffsetsDense
<1>1. IInv => OffsetsDense
  BY DEF IInv, OffsetsDense, IndexIsPrefix
<1> QED BY <1>1, Inductive, PTL

-----------------------------------------------------------------------------
(* What readers of a segment may rely on.                                  *)

\* A write at or above the high mark leaves the first data cell of every
\* indexed frame as it is.
LEMMA WriteKeepsCells ==
  ASSUME IInv, open, NEW p \in Nat, position <= p, p <= Len(logFile), NEW cells \in Seq(Cell),
         NEW index, IsIndex(index, Nat), Placed(index), NEW o \in DOMAIN index
  PROVE  WriteAt(logFile, p, cells)[index[o] + 2] = logFile[index[o] + 2]
<1> DEFINE q == index[o]
<1>1. logFile \in Seq(Cell) /\ Limit = position /\ position \in Nat
  BY Zenon DEF IInv, TypeOK, Limit
<1>2. q \in Nat /\ FrameAt(logFile, q) /\ q + 1 + logFile[q + 1].n <= position
  BY <1>1, Zenon DEF Placed, IsIndex
<1> HIDE DEF q
<1>3. logFile[q + 1].n \in Nat
  BY <1>1, <1>2, FrameLength, Zenon
<1>4. q + 1 + logFile[q + 1].n <= p
  BY <1>1, <1>2, <1>3
<1>5. WriteAt(logFile, p, cells)[q + 2] = logFile[q + 2]
  <2>1. logFile \in Seq(Cell) /\ q \in Nat /\ FrameAt(logFile, q)
    BY <1>1, <1>2, Zenon
  <2> QED BY <1>4, <2>1, FrameKept, Zenon
<1> QED BY <1>5, Zenon DEF q

\* The log file of the next state: as it was, or written at or above the mark.
LEMMA LogFileWrites ==
  ASSUME IInv, Next, logFile' # logFile
  PROVE  /\ open
         /\ \E p \in Nat : \E cells \in Seq(Cell) :
              position <= p /\ p <= Len(logFile) /\ logFile' = WriteAt(logFile, p, cells)
<1> USE DEF IInv
<1>1. CASE \E v \in Value, ts \in Time : WritePrefix(v, ts)
  <2>0. PICK v \in Value, ts \in Time : WritePrefix(v, ts)
    BY <1>1, Zenon
  <2>1. logFile' = WriteAt(logFile, position, <<Header(Size[v])>>)
    BY <2>0, Zenon DEF WritePrefix
  <2>2. open /\ position \in Nat /\ position <= Len(logFile)
    BY <2>0, Zenon DEF WritePrefix, TypeOK
  <2>3. <<Header(Size[v])>> \in Seq(Cell)
    BY PrefixCells, Zenon
  <2>4. \E cells \in Seq(Cell) : logFile' = WriteAt(logFile, position, cells)
    BY <2>1, <2>3, Zenon
  <2>5. position <= position
    BY <2>2
  <2> QED BY <2>2, <2>4, <2>5, Zenon
<1>2. CASE append.pc = "payload" /\ (WritePayload \/ WritePayloadFails \/ Crash)
  <2>1. open /\ append.rec \in Record /\ position \in Nat /\ position + 1 <= Len(logFile)
    BY <1>2 DEF TypeOK, Idle, Closed, PrefixWritten
  <2>2. Payload(append.rec) \in Seq(Cell) /\ Size[append.rec.value] \in Nat
    BY <2>1, PayloadCells, Zenon
  <2>3. \/ logFile' = WriteAt(logFile, position + 1, Payload(append.rec))
        \/ \E k \in 0 .. Size[append.rec.value] :
             logFile' = WriteAt(logFile, position + 1, SubSeq(Payload(append.rec), 1, k))
    <3>1. CASE WritePayload
      BY <3>1, Zenon DEF WritePayload
    <3>2. CASE WritePayloadFails
      <4>1. PICK k \in 0 .. Size[append.rec.value] - 1 :
              logFile' = WriteAt(logFile, position + 1, SubSeq(Payload(append.rec), 1, k))
        BY <3>2, Zenon DEF WritePayloadFails
      <4>2. k \in 0 .. Size[append.rec.value]
        BY <2>2
      <4> QED BY <4>1, <4>2, Zenon
    <3>3. CASE Crash
      BY <1>2, <3>3, Zenon DEF Crash
    <3> QED BY <1>2, <3>1, <3>2, <3>3, Zenon
  <2>4. \A k \in 0 .. Size[append.rec.value] : SubSeq(Payload(append.rec), 1, k) \in Seq(Cell)
    BY <2>1, ShortPayloadCells, Zenon
  <2>5. \E cells \in Seq(Cell) : logFile' = WriteAt(logFile, position + 1, cells)
    BY <2>2, <2>3, <2>4, Zenon
  <2>6. position + 1 \in Nat /\ position <= position + 1
    BY <2>1
  <2> QED BY <2>1, <2>5, <2>6, Zenon
<1>3. CASE ~(\E v \in Value, ts \in Time : WritePrefix(v, ts))
           /\ ~(append.pc = "payload" /\ (WritePayload \/ WritePayloadFails \/ Crash))
  <2>1. \/ CreateTopic \/ WriteIndex \/ WriteIndexFails \/ WriteTimeIndex \/ WriteTimeIndexFails
        \/ (\E from \in 0 .. nextOffset : FetchStart(from)) \/ FetchStep
        \/ Crash /\ append.pc # "payload"
    BY <1>3, Zenon DEF Next, WritePayload, WritePayloadFails
  <2> QED BY <2>1, Zenon DEF CreateTopic, WriteIndex, WriteIndexFails, WriteTimeIndex, WriteTimeIndexFails,
                      FetchStart, FetchStep, Crash, files
<1> QED BY <1>1, <1>2, <1>3, Zenon

\* No step changes the record an indexed frame holds.
LEMMA IndexedCellsKept ==
  ASSUME IInv, Next, NEW index, IsIndex(index, Nat), Placed(index), NEW o \in DOMAIN index
  PROVE  logFile'[index[o] + 2] = logFile[index[o] + 2]
<1>1. CASE logFile' = logFile
  BY <1>1, Zenon
<1>2. CASE logFile' # logFile
  <2>1. PICK p \in Nat, cells \in Seq(Cell) :
          position <= p /\ p <= Len(logFile) /\ logFile' = WriteAt(logFile, p, cells)
    BY <1>2, LogFileWrites, Zenon
  <2>2. open
    BY <1>2, LogFileWrites, Zenon
  <2>3. WriteAt(logFile, p, cells)[index[o] + 2] = logFile[index[o] + 2]
    BY <2>1, <2>2, WriteKeepsCells
  <2> QED BY <2>1, <2>3, Zenon
<1> QED BY <1>1, <1>2, Zenon

\* While the topic stays open, its in-memory index only grows.
LEMMA OffsetsGrow ==
  ASSUME IInv, Next, open, open', NEW o \in DOMAIN offsets
  PROVE  o \in DOMAIN offsets' /\ offsets'[o] = offsets[o]
<1>1. CASE WritePayload
  <2>1. DOMAIN offsets = 0 .. nextOffset - 1 /\ nextOffset \in Nat
    BY Zenon DEF IInv, TypeOK
  <2>2. o # nextOffset
    BY <2>1
  <2> QED BY <1>1, <2>2, Zenon DEF WritePayload
<1>2. CASE ~WritePayload
  <2>1. offsets' = offsets
    BY <1>2, Zenon DEF Next, CreateTopic, WritePrefix, WritePayloadFails, WriteIndex, WriteIndexFails,
                WriteTimeIndex, WriteTimeIndexFails, FetchStart, FetchStep, Crash, memory
  <2> QED BY <2>1, Zenon
<1> QED BY <1>1, <1>2, Zenon

\* While the topic stays open, a read through its index gives the same record.
LEMMA ReadKept ==
  ASSUME IInv, IInv', Next, open, open', NEW o \in DOMAIN offsets
  PROVE  /\ o \in DOMAIN offsets'
         /\ ReadByOffset(offsets, o)' = ReadByOffset(offsets, o)
<1>1. o \in DOMAIN offsets' /\ offsets'[o] = offsets[o]
  BY OffsetsGrow, Zenon
<1>2. IsIndex(offsets, Nat) /\ Placed(offsets)
  BY Zenon DEF IInv, TypeOK
<1>3. logFile'[offsets[o] + 2] = logFile[offsets[o] + 2]
  BY <1>2, IndexedCellsKept, Zenon
<1>4. FrameAt(logFile, offsets[o]) /\ FrameAt(logFile', offsets'[o])
  BY <1>1, Zenon DEF IInv, Placed
<1>5. ReadByOffset(offsets, o) = logFile[offsets[o] + 2].rec
  BY <1>4, Zenon DEF ReadByOffset
<1>6. ReadByOffset(offsets, o)' = logFile'[offsets'[o] + 2].rec
  BY <1>1, <1>4, Zenon DEF ReadByOffset
<1> QED BY <1>1, <1>3, <1>5, <1>6, Zenon

\* As long as the process lives, what a consumer reads at an offset never
\* changes, whatever is appended after it and however that fails.
THEOREM StableReads == Spec => ReadsStable
<1>1. ASSUME IInv, IInv', [Next]_vars
      PROVE  [open /\ open' => \A o \in DOMAIN offsets :
                /\ o \in DOMAIN offsets'
                /\ ReadByOffset(offsets, o)' = ReadByOffset(offsets, o)]_vars
  <2>1. CASE UNCHANGED vars
    BY <2>1, Zenon
  <2>2. CASE Next
    BY <1>1, <2>2, ReadKept, Zenon
  <2> QED BY <1>1, <2>1, <2>2, Zenon
<1> QED BY <1>1, Inductive, PTL DEF Spec, ReadsStable

-----------------------------------------------------------------------------
(* What a Fetch returns.                                                   *)

\* What was read so far is what the index leads to now, and the offsets
\* follow one another from the first one on.
FetchInv ==
  /\ ~open => fetch = NoFetch
  /\ fetch.active => fetch.next = fetch.from + Len(fetch.acc)
  /\ \A i \in 1 .. Len(fetch.acc) :
       /\ fetch.from + i - 1 \in DOMAIN offsets
       /\ fetch.acc[i] = ReadByOffset(offsets, fetch.from + i - 1)

\* In an index without gaps the first offset from n on is n.
LEMMA FirstFromDense ==
  ASSUME IInv, open, NEW n \in Nat, FirstFrom(n) # {}
  PROVE  n \in DOMAIN offsets /\ (CHOOSE x \in FirstFrom(n) : TRUE) = n
<1>1. DOMAIN offsets = 0 .. nextOffset - 1 /\ nextOffset \in Nat
  BY Zenon DEF IInv, TypeOK
<1>2. PICK x \in FirstFrom(n) : TRUE
  BY Zenon
<1>3. n \in DOMAIN offsets
  BY <1>1, <1>2 DEF FirstFrom
<1>4. n \in FirstFrom(n)
  BY <1>1, <1>3 DEF FirstFrom
<1>5. \A y \in FirstFrom(n) : y = n
  BY <1>1, <1>3 DEF FirstFrom
<1> QED BY <1>3, <1>4, <1>5, Zenon

\* A read through the in-memory index never fails.
LEMMA ReadSucceeds ==
  ASSUME IInv, NEW o \in DOMAIN offsets
  PROVE  ReadByOffset(offsets, o) \in Record /\ ReadByOffset(offsets, o) # ReadError
<1>1. logFile \in Seq(Cell) /\ offsets[o] \in Nat /\ FrameAt(logFile, offsets[o])
  BY Zenon DEF IInv, TypeOK, IsIndex, Placed
<1>2. ReadByOffset(offsets, o) \in Record
  BY <1>1, ReadIsRecord, Zenon DEF ReadByOffset
<1>3. ReadError \notin Record
  BY SegmentAssumption, Zenon DEF ReadError, NoRecord, Record
<1> QED BY <1>2, <1>3, Zenon

\* One record more, or none left.
LEMMA FetchStepInv ==
  ASSUME IInv, FetchInv, FetchStep
  PROVE  FetchInv'
<1>1. /\ fetch.active /\ open /\ fetch.from \in Nat /\ fetch.next \in Nat
      /\ fetch.acc \in Seq(Record \cup {ReadError})
  BY DEF FetchStep, FetchInv, NoFetch, IInv, TypeOK
<1>2. offsets' = offsets /\ logFile' = logFile /\ open' = open
  BY Zenon DEF FetchStep, files, memory
<1>3. \A o : ReadByOffset(offsets, o)' = ReadByOffset(offsets, o)
  BY <1>2, Zenon DEF ReadByOffset
<1>4. CASE FirstFrom(fetch.next) = {}
  <2>1. fetch' = NoFetch
    BY <1>4, Zenon DEF FetchStep
  <2> QED BY <2>1 DEF FetchInv, NoFetch
<1>5. CASE FirstFrom(fetch.next) # {}
  <2>1. PICK n \in Nat : n = fetch.next
    BY <1>1, Zenon
  <2>2. n \in DOMAIN offsets /\ (CHOOSE x \in FirstFrom(n) : TRUE) = n
    BY <1>1, <1>5, <2>1, FirstFromDense, Zenon
  <2>3. PICK acc \in Seq(Record \cup {ReadError}) : acc = Append(fetch.acc, ReadByOffset(offsets, n))
    <3>1. ReadByOffset(offsets, n) \in Record \cup {ReadError}
      BY <2>2, ReadSucceeds, Zenon
    <3>2. \A S : \A f \in Seq(S), r \in S : Append(f, r) \in Seq(S)
      OBVIOUS
    <3> QED BY <1>1, <3>1, <3>2, Zenon
  <2>4. fetch' = [active |-> Len(acc) < MaxFetch, from |-> fetch.from, next |-> n + 1, acc |-> acc]
    BY <1>5, <2>1, <2>2, <2>3, Zenon DEF FetchStep
  <2>5. fetch'.acc = acc /\ fetch'.from = fetch.from /\ fetch'.next = n + 1
    BY <2>4, Zenon
  <2>6. n = fetch.from + Len(fetch.acc) /\ Len(acc) = Len(fetch.acc) + 1 /\ Len(fetch.acc) \in Nat
    BY <1>1, <2>1, <2>3 DEF FetchInv
  <2>7. fetch'.next = fetch'.from + Len(fetch'.acc)
    BY <1>1, <2>5, <2>6
  <2>8. ASSUME NEW i \in 1 .. Len(acc)
        PROVE  fetch.from + i - 1 \in DOMAIN offsets /\ acc[i] = ReadByOffset(offsets, fetch.from + i - 1)
    <3>1. CASE i \in 1 .. Len(fetch.acc)
      <4>1. acc[i] = fetch.acc[i]
        BY <1>1, <2>3, <3>1
      <4> QED BY <3>1, <4>1, Zenon DEF FetchInv
    <3>2. CASE i = Len(fetch.acc) + 1
      <4>1. acc[i] = ReadByOffset(offsets, n) /\ fetch.from + i - 1 = n
        BY <1>1, <2>3, <2>6, <3>2
      <4> QED BY <2>2, <4>1, Zenon
    <3> QED BY <2>6, <3>1, <3>2
  <2> QED BY <1>1, <1>2, <1>3, <2>5, <2>7, <2>8, Zenon DEF FetchInv
<1> QED BY <1>4, <1>5, Zenon

\* The other steps leave what was read alone, or forget it.
LEMMA FetchInvStep ==
  ASSUME IInv, IInv', FetchInv, Next
  PROVE  FetchInv'
<1>1. CASE FetchStep
  BY <1>1, FetchStepInv, Zenon
<1>2. ASSUME NEW from \in 0 .. nextOffset, FetchStart(from) PROVE FetchInv'
  <2>1. nextOffset \in Nat
    BY Zenon DEF IInv, TypeOK
  <2> QED BY <1>2, <2>1 DEF FetchStart, FetchInv, memory
<1>3. CASE Crash
  BY <1>3 DEF Crash, FetchInv, NoFetch
<1>4. CASE CreateTopic
  BY <1>4 DEF CreateTopic, FetchInv, NoFetch
<1>5. CASE open /\ open' = open /\ fetch' = fetch
  BY <1>5, ReadKept, Zenon DEF FetchInv
<1>6. \/ FetchStep \/ (\E from \in 0 .. nextOffset : FetchStart(from)) \/ Crash \/ CreateTopic
      \/ open /\ open' = open /\ fetch' = fetch
  <2>1. append # Idle => open
    BY Zenon DEF IInv, Closed
  <2>2. \A pc : append.pc = pc /\ pc # "idle" => append # Idle
    BY DEF Idle
  <2> QED BY <2>1, <2>2, Zenon DEF Next, WritePrefix, WritePayload, WritePayloadFails, WriteIndex, WriteIndexFails,
                            WriteTimeIndex, WriteTimeIndexFails, memory
<1> QED BY <1>1, <1>2, <1>3, <1>4, <1>5, <1>6, Zenon

\* A Fetch returns the records of consecutive offsets, each once and none
\* unreadable, although it gives up the broker's lock after each.
THEOREM FetchReads == Spec => []FetchContiguous
<1>1. Init => FetchInv
  BY DEF Init, FetchInv, NoFetch
<1>2. IInv /\ IInv' /\ FetchInv /\ [Next]_vars => FetchInv'
  <2> SUFFICES ASSUME IInv, IInv', FetchInv, [Next]_vars PROVE FetchInv'
    BY Zenon
  <2>1. CASE UNCHANGED vars
    BY <2>1, Zenon DEF vars, files, memory, FetchInv, ReadByOffset
  <2> QED BY <2>1, FetchInvStep, Zenon
<1>3. IInv /\ FetchInv => FetchContiguous
  BY ReadSucceeds, Zenon DEF FetchInv, FetchContiguous
<1> QED BY <1>1, <1>2, <1>3, Inductive, PTL DEF Spec

-----------------------------------------------------------------------------
(* Durability of what was acknowledged.                                    *)

\* The index file is a part of the in-memory index.
FileWithinMemory ==
  open => \A o \in DOMAIN indexFile : o \in DOMAIN offsets /\ indexFile[o] = offsets[o]

\* The record being appended is the last one of the in-memory index, and
\* when the time index is written the index file is whole.
LastIsAppended ==
  /\ append.pc \in {"index", "timeindex"} => logFile[offsets[nextOffset - 1] + 2].rec = append.rec
  /\ append.pc = "timeindex" => indexFile = offsets /\ ~cut
  /\ ~open => ~cut

\* What is acknowledged leads to its value, through the index file unless a
\* failed rewrite has cut it.
AckedIndexed ==
  \A o \in DOMAIN acked :
    /\ open => o \in DOMAIN offsets /\ logFile[offsets[o] + 2].rec.value = acked[o]
    /\ ~cut => o \in DOMAIN indexFile /\ logFile[indexFile[o] + 2].rec.value = acked[o]

\* So are the offsets that a crash keeps.
SafeIndexed ==
  \A o \in 0 .. safe - 1 :
    /\ open => o \in DOMAIN offsets
    /\ ~cut => o \in DOMAIN indexFile

AckInv == FileWithinMemory /\ LastIsAppended /\ AckedIndexed /\ SafeIndexed

\* Together with IInv it gives durability.
LEMMA AckInvDurable == IInv /\ AckInv => AckedDurable
<1> SUFFICES ASSUME IInv, AckInv, NEW o \in DOMAIN acked
             PROVE  /\ open => ReadByOffset(offsets, o).value = acked[o]
                    /\ ~cut => ReadByOffset(indexFile, o).value = acked[o]
  BY Zenon DEF AckedDurable
<1>1. ASSUME open PROVE ReadByOffset(offsets, o).value = acked[o]
  <2>1. o \in DOMAIN offsets /\ logFile[offsets[o] + 2].rec.value = acked[o]
    BY <1>1, Zenon DEF AckInv, AckedIndexed
  <2>2. FrameAt(logFile, offsets[o])
    BY <2>1, Zenon DEF IInv, Placed
  <2> QED BY <2>1, <2>2, Zenon DEF ReadByOffset
<1>2. ASSUME ~cut PROVE ReadByOffset(indexFile, o).value = acked[o]
  <2>1. o \in DOMAIN indexFile /\ logFile[indexFile[o] + 2].rec.value = acked[o]
    BY <1>2, Zenon DEF AckInv, AckedIndexed
  <2>2. FrameAt(logFile, indexFile[o])
    BY <2>1, Zenon DEF IInv, Placed
  <2> QED BY <2>1, <2>2, Zenon DEF ReadByOffset
<1> QED BY <1>1, <1>2, Zenon

\* Whatever a step leaves of the index file, it is a part of the index that
\* was in memory before the step.
LEMMA FileFromMemory ==
  ASSUME IInv, AckInv, Next, open, NEW o \in DOMAIN indexFile'
  PROVE  o \in DOMAIN offsets /\ indexFile'[o] = offsets[o]
<1>1. \/ indexFile' = indexFile \/ indexFile' = offsets
      \/ indexFile' \in TornPrefixes(offsets)
  BY Zenon DEF Next, CreateTopic, WritePrefix, WritePayload, WritePayloadFails, WriteIndex, WriteIndexFails,
               WriteTimeIndex, WriteTimeIndexFails, FetchStart, FetchStep, Crash, files, Interrupted
<1>2. CASE indexFile' = indexFile
  BY <1>2, Zenon DEF AckInv, FileWithinMemory
<1>3. CASE indexFile' = offsets
  BY <1>3, Zenon
<1>4. CASE indexFile' \in TornPrefixes(offsets)
  <2>1. PICK b \in DOMAIN offsets : indexFile' = [x \in {y \in DOMAIN offsets : y < b} |-> offsets[x]]
    BY <1>4, Zenon DEF TornPrefixes, Restrict
  <2> QED BY <2>1, Zenon
<1> QED BY <1>1, <1>2, <1>3, <1>4, Zenon

\* A closed topic takes no step but CreateTopic, and a Fetch.
LEMMA ClosedSteps ==
  ASSUME IInv, Next, ~open
  PROVE  /\ CreateTopic \/ FetchStep
         /\ UNCHANGED <<logFile, indexFile, timeFile, append, acked, safe, cut, lost>>
<1>1. append.pc = "idle"
  BY IdlePc, Zenon DEF IInv, Closed
<1>2. CreateTopic \/ FetchStep
  BY <1>1, Zenon DEF Next, WritePrefix, WritePayload, WritePayloadFails, WriteIndex, WriteIndexFails,
                    WriteTimeIndex, WriteTimeIndexFails, FetchStart, Crash
<1> QED BY <1>2, Zenon DEF CreateTopic, FetchStep, files, history

\* An offset that both indexes hold, the file unless it is cut, stays in the
\* file, unless it gets cut or the process dies while it is exposed.
LEMMA StaysIndexed ==
  ASSUME IInv, AckInv, Next, ~cut', ~(Crash /\ Exposed),
         NEW o, open => o \in DOMAIN offsets, ~cut => o \in DOMAIN indexFile
  PROVE  o \in DOMAIN indexFile'
<1>1. CASE ~open
  BY <1>1, ClosedSteps, Zenon DEF AckInv, LastIsAppended
<1>2. CASE open /\ WriteIndex
  BY <1>2, Zenon DEF WriteIndex
<1>3. CASE open /\ WriteIndexFails
  BY <1>3, Zenon DEF WriteIndexFails
<1>4. CASE open /\ Crash
  BY <1>4, Zenon DEF Crash, Exposed
<1>5. CASE open /\ ~WriteIndex /\ ~WriteIndexFails /\ ~Crash
  <2>1. indexFile' = indexFile /\ cut' = cut
    BY <1>5, Zenon DEF Next, CreateTopic, WritePrefix, WritePayload, WritePayloadFails,
                       WriteTimeIndex, WriteTimeIndexFails, FetchStart, FetchStep, files, history
  <2> QED BY <2>1, Zenon
<1> QED BY <1>1, <1>2, <1>3, <1>4, <1>5, Zenon

\* No step puts an entry in the index file that the memory does not have.
LEMMA FileWithinMemoryStep ==
  ASSUME IInv, IInv', AckInv, Next
  PROVE  FileWithinMemory'
<1> SUFFICES ASSUME open', NEW o \in DOMAIN indexFile'
             PROVE  o \in DOMAIN offsets' /\ indexFile'[o] = offsets'[o]
  BY Zenon DEF FileWithinMemory
<1>1. CASE open
  <2>1. o \in DOMAIN offsets /\ indexFile'[o] = offsets[o]
    BY <1>1, FileFromMemory, Zenon
  <2>2. o \in DOMAIN offsets' /\ offsets'[o] = offsets[o]
    BY <1>1, <2>1, OffsetsGrow, Zenon
  <2> QED BY <2>1, <2>2, Zenon
<1>2. CASE ~open
  <2>1. CreateTopic
    BY <1>2, ClosedSteps, Zenon DEF FetchStep, memory
  <2> QED BY <2>1, Zenon DEF CreateTopic, files
<1> QED BY <1>1, <1>2, Zenon

\* While persistIndexes runs, the last in-memory entry is the record being
\* appended.
LEMMA LastIsAppendedStep ==
  ASSUME IInv, AckInv, Next
  PROVE  LastIsAppended'
<1>1. CASE WritePayload
  <2>1. /\ append.rec \in Record /\ append.pc = "payload" /\ position \in Nat /\ nextOffset \in Nat
        /\ logFile \in Seq(Cell) /\ position + 1 <= Len(logFile)
        /\ append \in [pc : {"payload", "index", "timeindex"}, rec : Record, ts : Time]
    BY <1>1 DEF WritePayload, IInv, TypeOK, Idle, PrefixWritten
  <2>2. /\ append'.pc = "index" /\ append'.rec = append.rec
        /\ nextOffset' - 1 = nextOffset /\ offsets'[nextOffset] = position
        /\ logFile' = WriteAt(logFile, position + 1, Payload(append.rec))
    BY <1>1, <2>1 DEF WritePayload
  <2>3. /\ Payload(append.rec) \in Seq(Cell) /\ 1 \in 1 .. Len(Payload(append.rec))
        /\ Payload(append.rec)[1] = Data(append.rec, 1)
    <3>1. /\ Payload(append.rec) \in Seq(Cell) /\ Size[append.rec.value] \in Nat \ {0}
          /\ Len(Payload(append.rec)) = Size[append.rec.value]
      BY <2>1, PayloadCells, Zenon
    <3>2. 1 \in 1 .. Size[append.rec.value]
      BY <3>1
    <3> QED BY <3>1, <3>2, Zenon DEF Payload
  <2>4. WriteAt(logFile, position + 1, Payload(append.rec))[position + 1 + 1] = Data(append.rec, 1)
    <3>1. position + 1 \in Nat
      BY <2>1
    <3>2. \A i \in 1 .. Len(Payload(append.rec)) :
            WriteAt(logFile, position + 1, Payload(append.rec))[position + 1 + i] = Payload(append.rec)[i]
      BY <2>1, <2>3, <3>1, WriteAtFacts, Zenon
    <3> QED BY <2>3, <3>2, Zenon
  <2>5. position + 1 + 1 = position + 2
    BY <2>1
  <2>6. logFile'[position + 2].rec = append.rec
    BY <2>2, <2>4, <2>5 DEF Data
  <2>7. open'
    BY <1>1, Busy, Zenon DEF WritePayload
  <2> QED BY <2>2, <2>6, <2>7, Zenon DEF LastIsAppended
<1>2. CASE WriteIndex
  <2>1. /\ append.pc = "index" /\ nextOffset \in Nat /\ nextOffset > 0 /\ open
        /\ DOMAIN offsets = 0 .. nextOffset - 1
        /\ append \in [pc : {"payload", "index", "timeindex"}, rec : Record, ts : Time]
    BY <1>2, Busy, Zenon DEF WriteIndex, IInv, TypeOK, Counted
  <2>2. /\ append'.rec = append.rec /\ indexFile' = offsets /\ ~cut'
        /\ logFile' = logFile /\ offsets' = offsets /\ nextOffset' = nextOffset
    BY <1>2, <2>1, Zenon DEF WriteIndex, memory
  <2> QED BY <2>1, <2>2, Zenon DEF AckInv, LastIsAppended
<1>3. CASE CreateTopic
  BY <1>3, IdlePc, Zenon DEF CreateTopic, IInv, Closed, LastIsAppended
<1>4. CASE \E v \in Value, ts \in Time : WritePrefix(v, ts)
  <2>1. append'.pc = "payload" /\ open'
    BY <1>4 DEF WritePrefix, memory
  <2> QED BY <2>1, Zenon DEF LastIsAppended
<1>5. CASE WritePayloadFails \/ WriteIndexFails \/ WriteTimeIndex \/ WriteTimeIndexFails \/ Crash
  <2>1. append'.pc = "idle"
    BY <1>5 DEF WritePayloadFails, WriteIndexFails, WriteTimeIndex, WriteTimeIndexFails, Crash, Idle
  <2>2. ~open' => ~cut'
    <3>1. CASE Crash
      BY <3>1, Zenon DEF Crash
    <3>2. CASE ~Crash
      <4>1. append.pc \in {"payload", "index", "timeindex"} /\ open' = open
        BY <1>5, <3>2, Zenon DEF WritePayloadFails, WriteIndexFails, WriteTimeIndex, WriteTimeIndexFails, memory
      <4> QED BY <4>1, Busy, Zenon
    <3> QED BY <3>1, <3>2, Zenon
  <2> QED BY <2>1, <2>2, Zenon DEF LastIsAppended
<1>6. CASE (\E from \in 0 .. nextOffset : FetchStart(from)) \/ FetchStep
  <2>1. UNCHANGED <<logFile, indexFile, open, offsets, nextOffset, append, cut>>
    BY <1>6, Zenon DEF FetchStart, FetchStep, files, memory, history
  <2> QED BY <2>1, Zenon DEF AckInv, LastIsAppended
<1> QED BY <1>1, <1>2, <1>3, <1>4, <1>5, <1>6, Zenon DEF Next

\* An acknowledged value that no crash took keeps leading to its cell.
LEMMA AckedStays ==
  ASSUME IInv, AckInv, Next, NEW o \in DOMAIN acked, Crash /\ Exposed => o \in DOMAIN indexFile'
  PROVE  /\ open' => o \in DOMAIN offsets' /\ logFile'[offsets'[o] + 2].rec.value = acked[o]
         /\ ~cut' => o \in DOMAIN indexFile' /\ logFile'[indexFile'[o] + 2].rec.value = acked[o]
<1>1. IsIndex(offsets, Nat) /\ Placed(offsets) /\ IsIndex(indexFile, Nat) /\ Placed(indexFile)
  BY Zenon DEF IInv, TypeOK
<1>2. CASE open
  <2>1. o \in DOMAIN offsets /\ logFile[offsets[o] + 2].rec.value = acked[o]
    BY <1>2, Zenon DEF AckInv, AckedIndexed
  <2>2. logFile'[offsets[o] + 2].rec.value = acked[o]
    BY <1>1, <2>1, IndexedCellsKept, Zenon
  <2>3. ASSUME open' PROVE o \in DOMAIN offsets' /\ offsets'[o] = offsets[o]
    BY <1>2, <2>1, <2>3, OffsetsGrow, Zenon
  <2>4. ASSUME ~cut' PROVE o \in DOMAIN indexFile' /\ indexFile'[o] = offsets[o]
    <3>1. ~cut => o \in DOMAIN indexFile
      BY Zenon DEF AckInv, AckedIndexed
    <3>2. o \in DOMAIN indexFile'
      BY <2>1, <2>4, <3>1, StaysIndexed, Zenon
    <3> QED BY <1>2, <3>2, FileFromMemory, Zenon
  <2> QED BY <2>2, <2>3, <2>4, Zenon
<1>3. CASE ~open
  <2>1. o \in DOMAIN indexFile /\ logFile[indexFile[o] + 2].rec.value = acked[o]
    BY <1>3, Zenon DEF AckInv, LastIsAppended, AckedIndexed
  <2>2. logFile' = logFile /\ indexFile' = indexFile
    BY <1>3, ClosedSteps, Zenon
  <2>3. open' => offsets' = indexFile
    BY <1>3, ClosedSteps, Zenon DEF CreateTopic, FetchStep, memory
  <2> QED BY <2>1, <2>2, <2>3, Zenon
<1> QED BY <1>2, <1>3, Zenon

\* What is acknowledged is in the indexes with its value, and stays.
LEMMA AckedIndexedStep ==
  ASSUME IInv, AckInv, Next
  PROVE  AckedIndexed'
<1>1. CASE WriteTimeIndex
  <2>1. /\ append.pc = "timeindex" /\ logFile' = logFile /\ indexFile' = indexFile /\ offsets' = offsets /\ open
        /\ acked' = [o \in DOMAIN acked \cup {nextOffset - 1} |->
                       IF o = nextOffset - 1 THEN append.rec.value ELSE acked[o]]
    BY <1>1, Busy, Zenon DEF WriteTimeIndex
  <2>2. indexFile = offsets /\ logFile[offsets[nextOffset - 1] + 2].rec = append.rec
    BY <2>1, Zenon DEF AckInv, LastIsAppended
  <2>3. nextOffset - 1 \in DOMAIN offsets
    <3>1. DOMAIN offsets = 0 .. nextOffset - 1 /\ nextOffset \in Nat /\ nextOffset > 0
      BY <2>1, Zenon DEF IInv, TypeOK, Counted
    <3> QED BY <3>1
  <2> DEFINE m == nextOffset - 1
  <2> HIDE DEF m
  <2>4. /\ m \in DOMAIN offsets' /\ m \in DOMAIN indexFile' /\ indexFile' = offsets'
        /\ logFile'[offsets'[m] + 2].rec.value = append.rec.value
        /\ acked' = [o \in DOMAIN acked \cup {m} |-> IF o = m THEN append.rec.value ELSE acked[o]]
    BY <2>1, <2>2, <2>3, Zenon DEF m
  <2>5. append'.pc = "idle" /\ ~Crash
    BY <1>1, <2>1, Zenon DEF WriteTimeIndex, Crash, Idle
  <2>6. ASSUME NEW o \in DOMAIN acked'
        PROVE  /\ open' => o \in DOMAIN offsets' /\ logFile'[offsets'[o] + 2].rec.value = acked'[o]
               /\ ~cut' => o \in DOMAIN indexFile' /\ logFile'[indexFile'[o] + 2].rec.value = acked'[o]
    <3>1. CASE o = m
      BY <2>4, <3>1, Zenon
    <3>2. CASE o # m
      <4>1. o \in DOMAIN acked /\ acked'[o] = acked[o]
        BY <2>4, <3>2, Zenon
      <4> QED BY <2>5, <4>1, AckedStays, Zenon
    <3> QED BY <3>1, <3>2, Zenon
  <2> QED BY <2>6, Zenon DEF AckedIndexed
<1>2. CASE ~WriteTimeIndex
  <2>1. ASSUME NEW o \in DOMAIN acked'
        PROVE  o \in DOMAIN acked /\ acked'[o] = acked[o] /\ (Crash /\ Exposed => o \in DOMAIN indexFile')
    <3>1. CASE Crash /\ Exposed
      <4>1. acked' = [x \in DOMAIN acked \cap DOMAIN indexFile' |-> acked[x]]
        BY <3>1, Zenon DEF Crash, Restrict
      <4> QED BY <2>1, <4>1, Zenon
    <3>2. CASE ~(Crash /\ Exposed)
      <4>1. acked' = acked
        BY <1>2, <3>2, Zenon DEF Next, CreateTopic, WritePrefix, WritePayload, WritePayloadFails, WriteIndex,
                    WriteIndexFails, WriteTimeIndexFails, FetchStart, FetchStep, Crash, history
      <4> QED BY <2>1, <3>2, <4>1, Zenon
    <3> QED BY <3>1, <3>2, Zenon
  <2>2. ASSUME NEW o \in DOMAIN acked'
        PROVE  /\ open' => o \in DOMAIN offsets' /\ logFile'[offsets'[o] + 2].rec.value = acked'[o]
               /\ ~cut' => o \in DOMAIN indexFile' /\ logFile'[indexFile'[o] + 2].rec.value = acked'[o]
    BY <2>1, AckedStays, Zenon
  <2> QED BY <2>2, Zenon DEF AckedIndexed
<1> QED BY <1>1, <1>2, Zenon

\* The offsets that a crash keeps are in the indexes, and stay.
LEMMA SafeIndexedStep ==
  ASSUME IInv, IInv', AckInv, Next
  PROVE  SafeIndexed'
<1>1. CASE WriteTimeIndex
  <2>1. append.pc = "timeindex" /\ safe' = nextOffset /\ indexFile' = indexFile /\ offsets' = offsets
    BY <1>1, Zenon DEF WriteTimeIndex
  <2>2. indexFile = offsets
    BY <2>1, Zenon DEF AckInv, LastIsAppended
  <2>3. open
    BY <2>1, Busy, Zenon
  <2>4. DOMAIN offsets = 0 .. nextOffset - 1
    BY <2>3, Zenon DEF IInv
  <2> QED BY <2>1, <2>2, <2>4, Zenon DEF SafeIndexed
<1>2. CASE Crash
  <2>1. safe' = NextAfter(indexFile') /\ ~open'
    BY <1>2, Zenon DEF Crash
  <2>2. PICK n \in Nat : DOMAIN indexFile' = 0 .. n - 1
    BY Zenon DEF IInv, IndexIsPrefix
  <2>3. indexFile' = [x \in DOMAIN indexFile' |-> indexFile'[x]]
    BY Zenon DEF IInv, TypeOK, IsIndex
  <2>4. safe' = n
    BY <2>1, <2>2, <2>3, NextAfterPrefix, Zenon
  <2> QED BY <2>1, <2>2, <2>4, Zenon DEF SafeIndexed
<1>3. CASE ~WriteTimeIndex /\ ~Crash
  <2>1. safe' = safe
    BY <1>3, Zenon DEF Next, CreateTopic, WritePrefix, WritePayload, WritePayloadFails, WriteIndex,
                WriteIndexFails, WriteTimeIndexFails, FetchStart, FetchStep, history
  <2>2. ASSUME NEW o \in 0 .. safe - 1
        PROVE  /\ open' => o \in DOMAIN offsets'
               /\ ~cut' => o \in DOMAIN indexFile'
    <3>1. (open => o \in DOMAIN offsets) /\ (~cut => o \in DOMAIN indexFile)
      BY Zenon DEF AckInv, SafeIndexed
    <3>2. ~cut' => o \in DOMAIN indexFile'
      BY <1>3, <3>1, StaysIndexed, Zenon
    <3>3. CASE open
      BY <3>1, <3>2, <3>3, OffsetsGrow, Zenon
    <3>4. CASE ~open
      <4>1. open' => offsets' = indexFile
        BY <3>4, ClosedSteps, Zenon DEF CreateTopic, FetchStep, memory
      <4> QED BY <3>1, <3>2, <3>4, <4>1, Zenon DEF AckInv, LastIsAppended
    <3> QED BY <3>3, <3>4, Zenon
  <2> QED BY <2>1, <2>2, Zenon DEF SafeIndexed
<1> QED BY <1>1, <1>2, <1>3, Zenon

\* AckInv holds throughout.
LEMMA AckAlways == Spec => []AckInv
<1>1. Init => AckInv
  BY DEF Init, AckInv, FileWithinMemory, LastIsAppended, AckedIndexed, SafeIndexed, Empty, Idle
<1>2. IInv /\ IInv' /\ AckInv /\ [Next]_vars => AckInv'
  <2> SUFFICES ASSUME IInv, IInv', AckInv, [Next]_vars PROVE AckInv'
    BY Zenon
  <2>1. CASE UNCHANGED vars
    <3>1. UNCHANGED <<logFile, indexFile, open, offsets, nextOffset, append, acked, safe, cut>>
      BY <2>1, Zenon DEF vars, files, memory, history
    <3> QED BY <3>1, Zenon DEF AckInv, FileWithinMemory, LastIsAppended, AckedIndexed, SafeIndexed
  <2>2. CASE Next
    BY <2>2, FileWithinMemoryStep, LastIsAppendedStep, AckedIndexedStep, SafeIndexedStep, Zenon DEF AckInv
  <2> QED BY <2>1, <2>2, Zenon
<1> QED BY <1>1, <1>2, Inductive, PTL DEF Spec

\* A value that Produce acknowledged is at its offset in memory while the
\* topic is open, and in what the next start loads from the files unless a
\* failed rewrite has cut the index.  It goes only with a crash that leaves
\* an exposed index without its entry.
THEOREM Durable == Spec => []AckedDurable
BY AckAlways, Inductive, AckInvDurable, PTL

-----------------------------------------------------------------------------
(* The time index.                                                         *)

\* While the topic is open, the times in the file are in memory too.
TimeInv ==
  /\ TimeIndexWithinIndex
  /\ open => \A t \in DOMAIN timeFile : timeFile[t] \in DOMAIN offsets \cup lost

\* What a rewrite leaves of the time index are times it had or was to get.
LEMMA TimesFrom ==
  ASSUME NEW g \in Interrupted(timeOffsets, timeFile) \cup {timeFile, timeOffsets}, NEW S,
         \A t \in DOMAIN timeOffsets : timeOffsets[t] \in S,
         \A t \in DOMAIN timeFile : timeFile[t] \in S
  PROVE  \A t \in DOMAIN g : g[t] \in S
<1>1. CASE g = timeFile \/ g = timeOffsets
  BY <1>1, Zenon
<1>2. CASE g \in TornPrefixes(timeOffsets)
  <2>1. PICK b \in DOMAIN timeOffsets : g = [x \in {y \in DOMAIN timeOffsets : y < b} |-> timeOffsets[x]]
    BY <1>2, Zenon DEF TornPrefixes, Restrict
  <2>2. \A t \in DOMAIN g : t \in DOMAIN timeOffsets /\ g[t] = timeOffsets[t]
    BY <2>1
  <2> QED BY <2>2, Zenon
<1> QED BY <1>1, <1>2, Zenon DEF Interrupted

\* persistIndexes writes the index before the time index, so that no step
\* leaves a time without its offset.
LEMMA TimeInvStep ==
  ASSUME IInv, AckInv, TimeInv, Next
  PROVE  TimeInv'
<1>1. CASE ~open
  <2>1. ~cut /\ UNCHANGED <<indexFile, timeFile, cut, lost>>
    BY <1>1, ClosedSteps, Zenon DEF AckInv, LastIsAppended
  <2>2. CASE CreateTopic
    <3>1. offsets' = indexFile /\ timeOffsets' = timeFile
      BY <2>2, Zenon DEF CreateTopic
    <3> QED BY <2>1, <3>1, Zenon DEF TimeInv, TimeIndexWithinIndex
  <2>3. CASE FetchStep
    <3>1. UNCHANGED <<open, offsets, timeOffsets>>
      BY <2>3, Zenon DEF FetchStep, memory
    <3> QED BY <2>1, <3>1, Zenon DEF TimeInv, TimeIndexWithinIndex
  <2> QED BY <1>1, <2>2, <2>3, ClosedSteps, Zenon
<1>2. CASE WritePayload
  <2>1. /\ DOMAIN offsets' = DOMAIN offsets \cup {nextOffset} /\ UNCHANGED <<indexFile, timeFile, open, cut, lost>>
        /\ timeOffsets' = [t \in DOMAIN timeOffsets \cup {append.ts} |->
                             IF t = append.ts THEN nextOffset ELSE timeOffsets[t]]
    BY <1>2, Zenon DEF WritePayload, history
  <2> QED BY <2>1, Zenon DEF TimeInv, TimeIndexWithinIndex
<1>3. CASE open /\ WriteIndex
  <2>1. indexFile' = offsets /\ UNCHANGED <<timeFile, timeOffsets, offsets, open, lost>>
    BY <1>3, Zenon DEF WriteIndex, memory
  <2> QED BY <1>3, <2>1, Zenon DEF TimeInv, TimeIndexWithinIndex
<1>4. CASE WriteIndexFails
  <2>1. /\ UNCHANGED <<timeFile, timeOffsets, offsets, open, lost>>
        /\ ~cut' => ~cut /\ DOMAIN indexFile \subseteq DOMAIN indexFile'
    BY <1>4, Zenon DEF WriteIndexFails, memory
  <2> QED BY <2>1, Zenon DEF TimeInv, TimeIndexWithinIndex
<1>5. CASE open /\ (WriteTimeIndex \/ WriteTimeIndexFails)
  <2>1. /\ append.pc = "timeindex" /\ timeFile' \in Interrupted(timeOffsets, timeFile) \cup {timeFile, timeOffsets}
        /\ UNCHANGED <<indexFile, timeOffsets, offsets, open, lost>>
    BY <1>5, Zenon DEF WriteTimeIndex, WriteTimeIndexFails, memory, history
  <2>2. indexFile = offsets
    BY <2>1, Zenon DEF AckInv, LastIsAppended
  <2>3. \A t \in DOMAIN timeFile' : timeFile'[t] \in DOMAIN offsets \cup lost
    BY <1>5, <2>1, TimesFrom, Zenon DEF TimeInv, TimeIndexWithinIndex
  <2> QED BY <2>1, <2>2, <2>3, Zenon DEF TimeInv, TimeIndexWithinIndex
<1>6. CASE open /\ Crash
  <2>1. DOMAIN timeOffsets' = {} /\ ~open'
    BY <1>6, Zenon DEF Crash, Empty
  <2>2. ASSUME NEW t \in DOMAIN timeFile' PROVE timeFile'[t] \in DOMAIN indexFile' \cup lost'
    <3>1. timeFile'[t] \in DOMAIN offsets \cup lost
      <4>1. timeFile' \in Interrupted(timeOffsets, timeFile) \cup {timeFile, timeOffsets}
        BY <1>6, Zenon DEF Crash
      <4> QED BY <1>6, <4>1, TimesFrom, Zenon DEF TimeInv, TimeIndexWithinIndex
    <3>2. CASE Exposed
      BY <1>6, <3>1, <3>2, Zenon DEF Crash
    <3>3. CASE ~Exposed /\ append.pc = "timeindex"
      <4>1. indexFile' = indexFile /\ lost' = lost
        BY <1>6, <3>3, Zenon DEF Crash, Exposed
      <4>2. indexFile = offsets
        BY <3>3, Zenon DEF AckInv, LastIsAppended
      <4> QED BY <3>1, <4>1, <4>2, Zenon
    <3>4. CASE ~Exposed /\ append.pc # "timeindex"
      <4>1. indexFile' = indexFile /\ lost' = lost /\ timeFile' = timeFile /\ ~cut
        BY <1>6, <3>4, Zenon DEF Crash, Exposed
      <4> QED BY <4>1, Zenon DEF TimeInv, TimeIndexWithinIndex
    <3> QED BY <3>2, <3>3, <3>4, Zenon
  <2> QED BY <2>1, <2>2, Zenon DEF TimeInv, TimeIndexWithinIndex
<1>7. CASE open /\ ((\E v \in Value, ts \in Time : WritePrefix(v, ts)) \/ WritePayloadFails
                    \/ (\E from \in 0 .. nextOffset : FetchStart(from)) \/ FetchStep)
  <2>1. UNCHANGED <<indexFile, timeFile, timeOffsets, offsets, open, cut, lost>>
    BY <1>7, Zenon DEF WritePrefix, WritePayloadFails, FetchStart, FetchStep, files, memory, history
  <2> QED BY <2>1, Zenon DEF TimeInv, TimeIndexWithinIndex
<1>8. CASE open /\ CreateTopic
  BY <1>8, Zenon DEF CreateTopic
<1> QED BY <1>1, <1>2, <1>3, <1>4, <1>5, <1>6, <1>7, <1>8, Zenon DEF Next

\* A timestamp of either time index leads to an offset of the index beside
\* it, wherever persistIndexes stops, or to one that went with an index
\* that was exposed when the process died.
THEOREM TimesReadable == Spec => []TimeIndexWithinIndex
<1>1. Init => TimeInv
  BY Zenon DEF Init, TimeInv, TimeIndexWithinIndex, Empty
<1>2. IInv /\ AckInv /\ TimeInv /\ [Next]_vars => TimeInv'
  <2> SUFFICES ASSUME IInv, AckInv, TimeInv, [Next]_vars PROVE TimeInv'
    BY Zenon
  <2>1. CASE UNCHANGED vars
    <3>1. UNCHANGED <<indexFile, timeFile, timeOffsets, offsets, open, cut, lost>>
      BY <2>1, Zenon DEF vars, files, memory, history
    <3> QED BY <3>1, Zenon DEF TimeInv, TimeIndexWithinIndex
  <2> QED BY <2>1, TimeInvStep, Zenon
<1>3. TimeInv => TimeIndexWithinIndex
  BY Zenon DEF TimeInv
<1> QED BY <1>1, <1>2, <1>3, Inductive, AckAlways, PTL DEF Spec

-----------------------------------------------------------------------------
(* The refinement: the readable values are the log of AppendLog.           *)

\* The index a client's reads go through, now or after the next start.
Current == IF open THEN offsets ELSE indexFile

\* readable lists what the current index leads to.
Listed ==
  \E n \in Nat :
    /\ DOMAIN Current = 0 .. n - 1
    /\ readable \in Seq(Value) /\ Len(readable) = n
    /\ \A i \in 1 .. n : readable[i] = logFile[Current[i - 1] + 2].rec.value

\* The abstract log lists what the index leads to,
LEMMA ListedNow == IInv => Listed
<1> SUFFICES ASSUME IInv PROVE Listed
  BY Zenon
<1>1. IsIndex(Current, Nat) /\ Placed(Current) /\ logFile \in Seq(Cell)
  BY Zenon DEF IInv, TypeOK, Current
<1>2. PICK n \in Nat : DOMAIN Current = 0 .. n - 1
  BY Zenon DEF IInv, TypeOK, IndexIsPrefix, Current
<1>3. NextAfter(Current) = n
  BY <1>1, <1>2, NextAfterPrefix, Zenon DEF IsIndex
<1>4. readable = [i \in 1 .. n |-> ReadByOffset(Current, i - 1).value]
  BY <1>3, Zenon DEF readable, Current
<1>5. ASSUME NEW i \in 1 .. n
      PROVE  /\ ReadByOffset(Current, i - 1) = logFile[Current[i - 1] + 2].rec
             /\ ReadByOffset(Current, i - 1).value \in Value
  <2>1. i - 1 \in DOMAIN Current
    BY <1>2
  <2>2. FrameAt(logFile, Current[i - 1]) /\ Current[i - 1] \in Nat
    BY <1>1, <2>1, Zenon DEF Placed, IsIndex
  <2>3. ReadByOffset(Current, i - 1) = logFile[Current[i - 1] + 2].rec
    BY <2>1, <2>2, Zenon DEF ReadByOffset
  <2>4. logFile[Current[i - 1] + 2].rec \in Record
    BY <1>1, <2>2, ReadIsRecord, Zenon
  <2> QED BY <2>3, <2>4, Zenon DEF Record
<1>6. readable \in [1 .. n -> Value]
  BY <1>4, <1>5, Zenon
<1>7. readable \in Seq(Value) /\ Len(readable) = n
  BY <1>6
<1>8. \A i \in 1 .. n : readable[i] = logFile[Current[i - 1] + 2].rec.value
  BY <1>4, <1>5, Zenon
<1> QED BY <1>2, <1>7, <1>8, Zenon DEF Listed

\* and does so after a step.
LEMMA ListedNext == IInv' => Listed'
BY ListedNow, PTL

\* No step changes the value an offset leads to, while it leads to one.
LEMMA CellsKept ==
  ASSUME IInv, AckInv, Next, NEW o \in DOMAIN Current, o \in DOMAIN Current'
  PROVE  logFile'[Current'[o] + 2] = logFile[Current[o] + 2]
<1>1. IsIndex(Current, Nat) /\ Placed(Current)
  BY Zenon DEF IInv, TypeOK, Current
<1>2. logFile'[Current[o] + 2] = logFile[Current[o] + 2]
  BY <1>1, IndexedCellsKept, Zenon
<1>3. CASE open /\ open'
  <2>1. Current' = offsets' /\ Current = offsets
    BY <1>3, Zenon DEF Current
  <2> QED BY <1>2, <1>3, <2>1, OffsetsGrow, Zenon
<1>4. CASE open /\ ~open'
  <2>1. Current' = indexFile' /\ Current = offsets
    BY <1>4, Zenon DEF Current
  <2>2. Current'[o] = Current[o]
    BY <1>4, <2>1, FileFromMemory, Zenon
  <2> QED BY <1>2, <2>2, Zenon
<1>5. CASE ~open
  <2>1. CASE CreateTopic
    <3>1. open' /\ offsets' = indexFile
      BY <2>1, Zenon DEF CreateTopic
    <3>2. Current' = Current
      BY <1>5, <3>1, Zenon DEF Current
    <3> QED BY <1>2, <3>2, Zenon
  <2>2. CASE FetchStep
    <3>1. Current' = Current
      BY <2>2, Zenon DEF FetchStep, files, memory, Current
    <3> QED BY <1>2, <3>1, Zenon
  <2> QED BY <1>5, <2>1, <2>2, ClosedSteps, Zenon
<1> QED BY <1>3, <1>4, <1>5, Zenon

\* So the readable values of before and after agree as far as both go.
LEMMA CommonPrefix ==
  ASSUME IInv, IInv', AckInv, Next
  PROVE  /\ readable \in Seq(Value) /\ readable' \in Seq(Value)
         /\ DOMAIN Current = 0 .. Len(readable) - 1 /\ DOMAIN Current' = 0 .. Len(readable') - 1
         /\ \A i \in 1 .. Len(readable) : i <= Len(readable') => readable'[i] = readable[i]
<1>1. PICK n \in Nat : /\ DOMAIN Current = 0 .. n - 1 /\ readable \in Seq(Value) /\ Len(readable) = n
                       /\ \A i \in 1 .. n : readable[i] = logFile[Current[i - 1] + 2].rec.value
  BY ListedNow, Zenon DEF Listed
<1>2. PICK m \in Nat : /\ DOMAIN Current' = 0 .. m - 1 /\ readable' \in Seq(Value) /\ Len(readable') = m
                       /\ \A i \in 1 .. m : readable'[i] = logFile'[Current'[i - 1] + 2].rec.value
  BY ListedNext, Zenon DEF Listed
<1>3. ASSUME NEW i \in 1 .. n, i <= m PROVE readable'[i] = readable[i]
  <2>1. i \in 1 .. m /\ i - 1 \in DOMAIN Current /\ i - 1 \in DOMAIN Current'
    BY <1>1, <1>2, <1>3
  <2>2. logFile'[Current'[i - 1] + 2] = logFile[Current[i - 1] + 2]
    BY <2>1, CellsKept, Zenon
  <2> QED BY <1>1, <1>2, <2>1, <2>2, Zenon
<1> QED BY <1>1, <1>2, <1>3, Zenon

\* The record whose payload is written is appended to the readable values.
LEMMA PayloadAppends ==
  ASSUME IInv, IInv', AckInv, WritePayload
  PROVE  \E v \in Value : Promise!AppendValue(v)
<1>1. /\ readable \in Seq(Value) /\ readable' \in Seq(Value)
      /\ DOMAIN Current = 0 .. Len(readable) - 1 /\ DOMAIN Current' = 0 .. Len(readable') - 1
      /\ \A i \in 1 .. Len(readable) : i <= Len(readable') => readable'[i] = readable[i]
  BY CommonPrefix, Zenon DEF Next
<1>2. append.pc = "payload" /\ append # Idle
  BY DEF WritePayload, Idle
<1>3. open /\ open'
  BY <1>2, Zenon DEF WritePayload, IInv, Closed
<1>4. /\ DOMAIN offsets = 0 .. nextOffset - 1 /\ DOMAIN offsets' = 0 .. nextOffset' - 1
      /\ nextOffset \in Nat /\ nextOffset' = nextOffset + 1 /\ safe' = safe
  BY <1>3, Zenon DEF WritePayload, IInv, TypeOK, history
<1>5. Current = offsets /\ Current' = offsets'
  BY <1>3, Zenon DEF Current
<1>6. Len(readable) = nextOffset /\ Len(readable') = nextOffset + 1
  <2>1. \A m, n \in Nat : 0 .. m - 1 = 0 .. n - 1 => m = n
    OBVIOUS
  <2> QED BY <1>1, <1>4, <1>5, <2>1
<1>7. PICK v \in Value : v = readable'[nextOffset + 1]
  BY <1>1, <1>4, <1>6
<1>8. readable' = Append(readable, v)
  BY <1>1, <1>4, <1>6, <1>7
<1>9. Exposed' = TRUE
  <2>1. append'.pc = "index"
    BY <1>2 DEF WritePayload, IInv, TypeOK, Idle
  <2> QED BY <2>1, Zenon DEF Exposed
<1> QED BY <1>4, <1>8, <1>9, Zenon DEF Promise!AppendValue

\* Every step that appends nothing and is no crash leaves the readable
\* values alone.
LEMMA OthersKeepReadable ==
  ASSUME IInv, IInv', AckInv, Next, ~WritePayload, ~Crash
  PROVE  readable' = readable
<1>1. /\ readable \in Seq(Value) /\ readable' \in Seq(Value)
      /\ DOMAIN Current = 0 .. Len(readable) - 1 /\ DOMAIN Current' = 0 .. Len(readable') - 1
      /\ \A i \in 1 .. Len(readable) : i <= Len(readable') => readable'[i] = readable[i]
  BY CommonPrefix, Zenon
<1>2. Current' = Current
  <2>1. CASE CreateTopic
    <3>1. ~open /\ open' /\ offsets' = indexFile
      BY <2>1, Zenon DEF CreateTopic
    <3> QED BY <3>1, Zenon DEF Current
  <2>2. CASE ~CreateTopic /\ open
    <3>1. UNCHANGED <<open, offsets>>
      BY <2>2, Zenon DEF Next, WritePrefix, WritePayloadFails, WriteIndex, WriteIndexFails,
                         WriteTimeIndex, WriteTimeIndexFails, FetchStart, FetchStep, memory
    <3> QED BY <2>2, <3>1, Zenon DEF Current
  <2>3. CASE ~CreateTopic /\ ~open
    <3>1. FetchStep
      BY <2>3, ClosedSteps, Zenon
    <3> QED BY <3>1, Zenon DEF FetchStep, files, memory, Current
  <2> QED BY <2>1, <2>2, <2>3, Zenon
<1>3. Len(readable') = Len(readable)
  <2>1. \A m, n \in Nat : 0 .. m - 1 = 0 .. n - 1 => m = n
    OBVIOUS
  <2> QED BY <1>1, <1>2, <2>1
<1> QED BY <1>1, <1>3

\* A rewrite of the index that ends with a whole file settles the log.
LEMMA RewriteSettles ==
  ASSUME IInv, IInv', AckInv, WriteIndex \/ WriteIndexFails
  PROVE  Promise!Settle \/ UNCHANGED Promise!vars
<1>1. append.pc = "index" /\ safe' = safe
  BY Zenon DEF WriteIndex, WriteIndexFails
<1>2. ~WritePayload /\ ~Crash
  <2>1. open /\ open' = open
    BY <1>1, Busy, Zenon DEF WriteIndex, WriteIndexFails, memory
  <2> QED BY <1>1, <2>1, Zenon DEF WritePayload, Crash
<1>3. readable' = readable
  BY <1>2, OthersKeepReadable, Zenon DEF Next
<1>4. append'.pc # "index"
  BY <1>1, Busy, NextStep, IdlePc, Zenon DEF WriteIndex, WriteIndexFails
<1>5. Exposed = TRUE
  BY <1>1, Zenon DEF Exposed
<1>6. cut' \in BOOLEAN
  BY Zenon DEF IInv, TypeOK
<1>7. Exposed' = TRUE \/ Exposed' = FALSE
  BY <1>4, <1>6, Zenon DEF Exposed
<1> QED BY <1>1, <1>3, <1>5, <1>7, Zenon DEF Promise!Settle, Promise!vars

\* A return of Produce acknowledges all that is readable.
LEMMA ReturnAcknowledges ==
  ASSUME IInv, IInv', AckInv, WriteTimeIndex
  PROVE  Promise!Acknowledge
<1>1. append.pc = "timeindex" /\ append # Idle /\ append'.pc = "idle"
  BY DEF WriteTimeIndex, Idle
<1>2. open /\ open' /\ logFile' = logFile /\ offsets' = offsets /\ safe' = nextOffset /\ cut' = cut
  BY <1>1, Zenon DEF WriteTimeIndex, IInv, Closed
<1>3. readable' = readable
  BY <1>2, Zenon DEF readable, ReadByOffset
<1>4. PICK n \in Nat : DOMAIN Current = 0 .. n - 1 /\ Len(readable) = n
  BY ListedNow, Zenon DEF Listed
<1>5. DOMAIN offsets = 0 .. nextOffset - 1 /\ nextOffset \in Nat /\ Current = offsets
  BY <1>1, <1>2, Zenon DEF IInv, TypeOK, Current
<1>6. n = nextOffset
  BY <1>4, <1>5
<1>7. ~cut
  BY <1>1, Zenon DEF AckInv, LastIsAppended
<1>8. ~Exposed /\ Exposed' = Exposed
  <2>1. append.pc # "index" /\ append'.pc # "index"
    BY <1>1
  <2> QED BY <1>2, <1>7, <2>1, Zenon DEF Exposed
<1> QED BY <1>2, <1>3, <1>4, <1>6, <1>8, Zenon DEF Promise!Acknowledge

\* A crash loses nothing but a tail, and nothing that is safe unless the
\* index is exposed.
LEMMA CrashRestarts ==
  ASSUME IInv, IInv', AckInv, Crash
  PROVE  Promise!Restart
<1>1. /\ readable \in Seq(Value) /\ readable' \in Seq(Value)
      /\ DOMAIN Current = 0 .. Len(readable) - 1 /\ DOMAIN Current' = 0 .. Len(readable') - 1
      /\ \A i \in 1 .. Len(readable) : i <= Len(readable') => readable'[i] = readable[i]
  BY CommonPrefix, Zenon DEF Next
<1>2. open /\ ~open' /\ cut' = FALSE /\ append' = Idle /\ safe' = NextAfter(indexFile')
  BY Zenon DEF Crash
<1>3. Current = offsets /\ Current' = indexFile'
  BY <1>2, Zenon DEF Current
<1>4. DOMAIN indexFile' \subseteq DOMAIN offsets
  BY <1>2, FileFromMemory, Zenon DEF Next
<1>5. PICK n \in Nat : n = Len(readable')
  BY <1>1
<1>6. n <= Len(readable)
  <2>1. 0 .. n - 1 \subseteq 0 .. Len(readable) - 1 /\ Len(readable) \in Nat
    BY <1>1, <1>3, <1>4, <1>5
  <2> QED BY <2>1
<1>7. safe' = n
  <2>1. DOMAIN indexFile' = 0 .. n - 1
    BY <1>1, <1>3, <1>5, Zenon
  <2>2. indexFile' = [x \in DOMAIN indexFile' |-> indexFile'[x]]
    BY Zenon DEF IInv, TypeOK, IsIndex
  <2> QED BY <1>2, <2>1, <2>2, NextAfterPrefix, Zenon
<1>8. ~Exposed => n >= safe
  <2> SUFFICES ASSUME ~Exposed PROVE n >= safe
    BY Zenon
  <2>1. indexFile' = indexFile /\ ~cut
    BY Zenon DEF Crash, Exposed
  <2>2. 0 .. safe - 1 \subseteq 0 .. n - 1
    BY <1>1, <1>3, <1>5, <2>1, Zenon DEF AckInv, SafeIndexed
  <2>3. safe \in Nat
    BY Zenon DEF IInv, TypeOK
  <2> QED BY <2>2, <2>3
<1>9. readable' = SubSeq(readable, 1, n)
  BY <1>1, <1>5, <1>6
<1>10. n \in 0 .. Len(readable)
  BY <1>1, <1>6
<1>11. Exposed' = FALSE
  BY <1>2 DEF Exposed, Idle
<1> QED BY <1>7, <1>8, <1>9, <1>10, <1>11, Zenon DEF Promise!Restart

\* Every other step leaves the log of the clients alone.
LEMMA OthersStutter ==
  ASSUME IInv, IInv', AckInv, Next, ~WritePayload, ~WriteIndex, ~WriteIndexFails, ~WriteTimeIndex, ~Crash
  PROVE  UNCHANGED Promise!vars
<1>1. readable' = readable
  BY OthersKeepReadable, Zenon
<1>2. safe' = safe /\ cut' = cut
  BY Zenon DEF Next, CreateTopic, WritePrefix, WritePayloadFails, WriteTimeIndexFails, FetchStart, FetchStep, history
<1>3. append' = append \/ (append.pc # "index" /\ append'.pc # "index")
  <2>1. CASE \E v \in Value, ts \in Time : WritePrefix(v, ts)
    BY <2>1 DEF WritePrefix, Idle
  <2>2. CASE WritePayloadFails \/ WriteTimeIndexFails
    BY <2>2 DEF WritePayloadFails, WriteTimeIndexFails, Idle
  <2>3. CASE CreateTopic \/ (\E from \in 0 .. nextOffset : FetchStart(from)) \/ FetchStep
    BY <2>3, Zenon DEF CreateTopic, FetchStart, FetchStep
  <2> QED BY <2>1, <2>2, <2>3, Zenon DEF Next
<1>4. Exposed' = Exposed
  BY <1>2, <1>3, Zenon DEF Exposed
<1> QED BY <1>1, <1>2, <1>4, Zenon DEF Promise!vars

\* The segment implements the append-only log: what clients can read only
\* grows at its end, and a restart finds a beginning of it, with all that is
\* safe unless the process died while the index was exposed.
THEOREM Refinement == Spec => ImplementsAppendLog
<1>1. Init => Promise!Init
  <2> SUFFICES ASSUME Init PROVE Promise!Init
    BY Zenon
  <2>1. NextAfter(Empty) = 0 /\ ~open /\ indexFile = Empty /\ safe = 0
    BY Zenon DEF Init, NextAfter
  <2>2. readable = [i \in 1 .. 0 |-> ReadByOffset(indexFile, i - 1).value]
    BY <2>1, Zenon DEF readable
  <2>3. readable = <<>>
    BY <2>2
  <2>4. Exposed = FALSE
    BY DEF Init, Exposed, Idle
  <2> QED BY <2>1, <2>3, <2>4, Zenon DEF Promise!Init
<1>2. IInv /\ IInv' /\ AckInv /\ [Next]_vars => [Promise!Next]_(Promise!vars)
  <2> SUFFICES ASSUME IInv, IInv', AckInv, [Next]_vars
               PROVE  Promise!Next \/ UNCHANGED Promise!vars
    BY Zenon
  <2>1. CASE UNCHANGED vars
    BY <2>1, Zenon DEF vars, files, memory, history, readable, ReadByOffset, Exposed, Promise!vars
  <2>2. CASE WritePayload
    BY <2>2, PayloadAppends, Zenon DEF Promise!Next
  <2>3. CASE WriteTimeIndex
    BY <2>3, ReturnAcknowledges, Zenon DEF Promise!Next
  <2>4. CASE Crash
    BY <2>4, CrashRestarts, Zenon DEF Promise!Next
  <2>5. CASE WriteIndex \/ WriteIndexFails
    BY <2>5, RewriteSettles, Zenon DEF Promise!Next
  <2>6. CASE Next /\ ~WritePayload /\ ~WriteIndex /\ ~WriteIndexFails /\ ~WriteTimeIndex /\ ~Crash
    BY <2>6, OthersStutter, Zenon
  <2> QED BY <2>1, <2>2, <2>3, <2>4, <2>5, <2>6, Zenon
<1> QED BY <1>1, <1>2, Inductive, AckAlways, PTL DEF Spec, ImplementsAppendLog, Promise!Spec
=============================================================================
