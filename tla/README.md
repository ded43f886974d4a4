# StreamFlow in TLA+

This directory holds a TLA+ model of StreamFlow, the log broker and stream
processor of this repository: modules translated from the Go code, TLC runs
that check them on small instances, and TLAPS proofs that hold for every value
of their constants. `PROJECT.json` maps each definition to the lines it models.

## The system

A broker process owns a directory. Each topic has one segment: a log file of
length-prefixed JSON records, an index file (offset to position) and a time
index file (timestamp to offset), both rewritten as a whole after each append.
`Broker.mu` guards the topics; consumers read under its read lock. On top of
`Produce` sit an idempotent producer (sequence numbers per topic and producer),
transactions (staged in memory, appended at commit), a drain window, committed
consumer offsets (one small file per group and topic) and a consumer group
coordinator that lives in memory only. A raft node over etcd's library keeps
its own write-ahead log and snapshots. A management HTTP API forwards to the
broker, and the SDK's client calls it. The stream side has operators that run
as goroutines in a chain, window functions, StreamQL, which plans such chains,
and a planner that sends records to processor servers and gathers the answers.

| Part | State | Operations | Module |
|---|---|---|---|
| Segment | three files; position, nextOffset, offsets, timeOffsets | Append, ReadRange, loadIndexes, persistIndexes | `Segment` |
| Broker | topics, Topic.NextOffset, drainUntil | CreateTopic, Produce, Consume, Fetch, Drain | `Segment`, `Broker` |
| Idempotent producer | producerSeq, dedupCache | ProduceIdempotent | `Idempotent` |
| Transactions | txState | Begin, TxProduce, Commit, Abort | `Transactions` |
| Consumer offsets | offset files | CommitOffset, LoadOffset | `OffsetStore` |
| Consumer groups | members, assignments | Join, Leave, Rebalance, Assignment | `ConsumerGroup` |
| Raft WAL and snapshots | wal.log, rotated files, snapshots, offloaded copies | AppendWAL, ReadWAL, RotateWAL, Compact, SaveSnapshot, LoadSnapshot, PurgeOldSnapshots | `RaftWAL` |
| Raft node, checkpoint scheduler | MemoryStorage, the Ready loop, a stop channel | Start, Stop, Compact, Run | `RaftNode` |
| Management API, SDK client | requests in progress | produce, idempotent produce, consume, drain | `Management` |
| Operators, StreamQL plans | operator buffers, channels | Process, Planify, BuildOperators, RunPlan | `Operators`, `Pipeline` |
| Window functions | none | TumblingWindows, SlidingWindows, SessionWindows, watermark, CEP, StreamJoinWithin | `Windows` |
| Distributed runner, processor transport | connections, receivers, outputs | RunDistributed, Send, Recv, handle, Stop | `Distributed` |

### What is hard about it

* Every append is four writes to three files, and the process may die, or a
  write may fail, between or inside any two of them.
* `Fetch` takes the lock once per record; `ProduceIdempotent` and
  `CommitTransaction` release it between their sections; `LoadOffset` takes
  none. Other calls, drains and restarts fall in between.
* Everything above the segment is lost at a restart, the log is not.
* The WAL is compacted, rotated and replayed, with crashes in between, and
  `Stop` does not wait for the goroutine that does so. The scheduler saves
  snapshots in the directory in which the loop purges them.
* An SDK caller may leave while the handler goes on, and send the record again.
* Operators block on unbuffered channels, and a ticker cuts windows.
* Workers of the distributed runner die, fill up, or answer after the timeout.

`PROJECT.json` lists these as hazards, each at its line.

### What correctness means here

1. An indexed offset always leads to a whole record; offsets have no gap; what
   is read at an offset never changes; an acknowledged record survives every
   crash but one that finds the index being rewritten or left short.
2. Answers of the idempotent producer point at the producer's own entry, and
   an acknowledged sequence number is neither appended again nor overtaken.
3. A transaction's records appear at commit only, once each and in order, and
   all of them if it reports "committed". Every commit returns.
4. No partition has two owners; a rebalance covers the partitions evenly.
5. A committed consumer offset is the one loaded, unless a write was cut short.
6. The WAL keeps every entry through compaction, rotation and replay; the
   memory holds what raft was told is stable; a load opens the newest snapshot;
   every batch raft hands out is advanced.
7. A record whose SDK call returned is in the log, with the exception of 1; one
   retried in turn is appended once; every request ends.
8. A chain of operators yields what its operators compute from whole streams,
   and ends; the window functions agree with their reference definitions.
9. `RunDistributed` returns records of its source, once each and in order per
   worker, ends, and leaves nothing behind.

## The modules

| Module | Models | State and actions |
|---|---|---|
| `AppendLog` | what a topic's log promises | `log`, the length `safe` of what a restart keeps, and `exposed`, while it may not; append, settle, acknowledge, restart |
| `Segment` | `broker/types.go`, and `Produce`, `Consume`, `Fetch`, `CreateTopic` of `broker/broker.go` for one topic | the files, the fields of `Segment` and `Topic.NextOffset`, the append and the fetch in progress; one action per file write, its failure, `CreateTopic`, one `Fetch` step, `Crash` |
| `Broker` | the state all produce paths share | critical sections under `Broker.mu` over abstract logs |
| `Idempotent` | `broker/idempotent.go` | `producerSeq`, `dedupCache`, a call per client; one action per critical section |
| `Transactions` | `broker/transactions.go` | `txState`, a commit per client; one action per operation and per step of the commit loop |
| `ConsumerGroup` | `broker/consumer_group.go` | `members`, `assignments`, what each member last read |
| `OffsetStore` | `CommitOffset`, `LoadOffset` | the offset files and the commit that holds the lock |
| `RaftWAL` | `broker/internal/raft/wal.go`, and the parts of `storage/offload.go` it calls | the files; one operator per file operation |
| `RaftNode` | `node.go`, `persistent_mem.go`, `checkpoint_scheduler.go` | a Node per start with its memory and batch, the scheduler; one action per step of the Ready loop, its failure, `Start`, `StartUnread`, `Stop`, `Crash`, a lost directory |
| `Operators` | `processor/op.go`; `streamql/planner.go`, `executor.go` | functions: what an operator does with a record and at the end of its input, and the chain a query becomes |
| `Pipeline` | `processor/runtime.go` and the goroutines of `op.go` | a stage per operator with its buffer and the record it offers; receive, end of input, tick, close, read |
| `Windows` | `processor/advanced_streaming.go` | pure functions |
| `Streaming` | `Pipeline` and `Windows` on the same streams | their properties |
| `Distributed` | `planner/runner.go`, `planner/planner.go`, `processor/transport_grpc.go` | `RunDistributed`, its receivers, connections and servers |
| `Management` | `management/api/server.go`, `sdk/client.go` | users, handlers; the handlers' calls are the actions of `Idempotent` and `Broker` |
| `MC...` | | the small instances for TLC |
| `Lists` | the loop of `ReadWAL` that gathers the entries of all files | `Flatten`, which `Distributed` also uses to state its properties |
| `...Proofs` | | theorems |

`Idempotent` and `Transactions` extend `Broker`, whose logs are those of
`AppendLog`; `Segment` is shown to implement `AppendLog`. What this log promises
has one exception, and `Broker` has it too: `os.WriteFile` truncates
`segment.index` before it writes it, so that a process that dies inside the
rewrite, or after a rewrite that failed and was not repeated, may come back with
any beginning of the log, acknowledged records missing. The index is then
`Exposed` (in `Broker`: one of the `ExposedTopics`). `Promise` in `Segment`
is the refinement mapping: the abstract log is what the in-memory index leads
to while the topic is open, and what the index file leads to while it is not.
`Management` composes the SDK, the API, `Idempotent` and `Broker`; `RaftNode`
composes the node, the scheduler and `RaftWAL`.

### Abstractions

* The log file is a sequence of cells; the 4-byte length prefix is one cell,
  the payload of a value `Size[v]` cells. JSON is not modelled: a frame whose
  cells all belong to one record decodes to it, any other does not.
* An index file is the function its 16-byte entries spell out. A torn one ends
  between two entries: `loadIndexes` ignores a partial entry.
* A crash is the death of the process. What `write` returned is in the file;
  the code calls no `fsync`, and power loss is outside the model.
* `os.WriteFile` of an index truncates and writes; a crash or an error in
  between leaves a beginning of the entries, or none (`Interrupted`). The
  history variables `cut` (a failed rewrite left the file short), `safe`
  and `lost` say what this can take away, so that the properties can name it.
* In `Broker` a restart with an exposed index may happen at any moment at which
  a `Produce` could run: the running append itself is one step there.
* The drain window is the boolean `isDrainingLocked` answers; time may pass its
  end at any moment.
* Names are sequences of their parts between `|`, so joining names is `\o`.
  `NamesAssumption` excludes names whose keys coincide.
* Transaction ids are distinct (they carry nanoseconds). Sequence numbers are
  not negative. A member is its place in name order. An offset file's few
  digits are written as a whole or not at all after the truncation.
* In `RaftWAL` an entry is its raft index and a snapshot the number in its name.
  A frame is whole or torn; what stands behind a torn frame reads as any of the
  outcomes `ReadOutcomes` lists. `LoadSnapshot` is the set of its outcomes: what
  it opens, or that it failed, and what it leaves in the directory; `List`,
  `Download` and opening a file may fail, and the copy may end early, at any
  load. `Compact` removes the rotated files in one step, all or none of them; in
  the code a crash in that loop may leave some, whose entries the new `wal.log`
  repeats. What raft hands out in a Ready is external:
  the entries that follow on its memory, in batches of any size. There is one
  node, no peers, no votes and no hard state.
* `Overlap` says whether a Node may start while the goroutine of the one before
  is still in its round. The code allows it (`Stop` returns at once); `FALSE`
  is the caller that waits, or a new process.
* A value of a stream is a Go type and a number, so that conversions
  (`fmt.Sprint`, the numeric cases, JSON) do what they do in the code. A query
  is its parsed form; the predicates are those of one comparison.
* Times are integers and durations have a largest value, `MaxDuration`; `Sub`
  saturates as `time.Time.Sub` does. Durations given to the window functions are
  positive: `SlidingWindows` does not end on a slide of 0. That it sorts its
  caller's slice in place is left out.
* The ticker of a time window may fire at any moment between two receives.
* A record that `RunDistributed` sends is an identity and the Go type of its
  value. A connection is a queue of `Window` lines each way; both sides block
  when it is full. A server echoes, as the code's does; it may stop accepting or die.
  A receiver gets nothing after `Close`; in the code it may still read lines
  that were buffered, which `RunDistributed` has no more use for.
* A request's answer may be lost, and a caller may leave, at any moment.
  Authentication, metrics and the parsing of requests are left out. Values are
  text, which the JSON of a request leaves alone; in the answer to a `Consume`
  they are base64, which the client does not decode (`Base64`).
* A `Fetch` starts at an offset that is not negative, as all callers' do.
* `answered` in `Idempotent` (emptied at a restart, since the code forgets),
  `acked`, `safe`, `lost`, `fresh`, `covered`, `unanswered`, `written`, `stable`,
  `saved`, `damaged`, `returned`, `doubtful`, and `cut` in `Segment` and
  `OffsetStore`, are history variables: they record what was written or told, and
  no action of the code reads them. In `Broker`, which has no files, `safe` and
  `cut` stand for what the index files hold, and bound what a restart may find.
* `FetchRaw` and `ListTopics` only read; they are not actions.

## The runs

| Run | Shows | Bounds |
|---|---|---|
| `segment` | indexed frames are whole, offsets are dense, a `Fetch` is contiguous and reads are stable, although index files may be torn; acknowledged values are durable, the time index is never ahead, and `Segment` implements `AppendLog`, all three with the exception of an exposed index | two values of 1 and 2 cells, 6 cells: up to three records, a short record over a long torn one, two timestamps so that one repeats, two records per `Fetch` |
| `idempotent` | answers are sound, acknowledged numbers are not repeated or overtaken, a producer with one request at a time gets one answer per number | two clients that share a producer id, one of them with a second id of its own; numbers 0 to 2; four entries |
| `idempotent_once` | counterexample: two racing calls append one number twice | the same, three entries, no disk errors |
| `transactions` | nothing before commit, once and in order, complete when committed, and every commit returns | two clients, two transactions of up to two records, two topics, one plain record per topic |
| `consumer_group` | one owner, complete and balanced, fresh readers disjoint | three members; 0, 2 and 5 partitions: none, fewer than members, and a remainder |
| `offset_store` | a load serves the last commit unless one was cut short | two files, three offsets |
| `raft_node` | the log keeps its entries, the memory holds what is stable, the newest snapshot is loaded, every batch is advanced | two starts, four entries in batches of up to two (a batch of `Threshold = 2` triggers snapshot and compaction, so that the second one removes a rotated file), one fault (a failed write, an unread log, a crash or a lost directory) at any step, loads that fail or copy a snapshot in part, the scheduler saves a snapshot beside the loop's two |
| `raft_restart` | counterexample: a node started while the last one's goroutine is inside `Compact` reads an empty log | two starts, `Overlap`, no faults, no scheduler |
| `streaming` | the output of a chain, time windows that partition their input, termination; windows, sessions, watermark, pattern matcher and join against reference definitions | all streams of up to three records of six kinds (an integer as group, a string, a near and a far record of one group, a missing group, a missing number), eight chains (six of them planned from StreamQL queries), ticks anywhere; durations 1, 2, 3 and 5, the last one the largest there is, and times further apart than it; sliding windows of one and two slides |
| `distributed` | connections lose nothing, results are source records, nothing is left open, everything ends | 0 to 2 workers, streams of 0, 4 and 5 records, two of them not encodable, one line per direction |
| `management` | a retried sequence number is appended once, a returned record is read, every request ends | two users (one sequenced, with two records), two handlers, three requests, one restart, a page of two records, so that a third is cut off |

The bounds suffice for the interesting cases: a failed append followed by a
shorter one, a crash in each write, a second start after it; two calls in each
section of `ProduceIdempotent` at once; two commits whose records interleave in
one topic; a member that leaves and joins again around a rebalance; a log that
is compacted, rotated and replayed; three snapshots, so that a purge has one to
remove while another is being saved; windows of two records with a third after
them, and times further apart than a duration can say; a worker that holds a line in each queue when it dies; a request sent
again while the first attempt is still served.

### Fairness

* `CommitReturns`: weak fairness of the steps of a commit already begun. The
  goroutine of a call keeps running, and no step of the loop waits for another
  call except for `Broker.mu`, which is never held across a wait.
* `ReadyAdvanced`: weak fairness of the loop of each Node; no step of a round
  waits.
* `Completes`: weak fairness of each goroutine of the chain and of the reader,
  as `RunPlan`'s caller ranges over the output; none of the ticker.
* `EndsAndCleansUp`: weak fairness of `RunDistributed`, of its receivers and of
  the handlers of live servers. The timeout may come at any moment of the wait,
  and deaths and stops are never forced.
* `RequestEnds`: weak fairness of each handler goroutine.

No fairness is assumed of drains, restarts, faults, callers or clients.
Deadlock is not checked where the bounds on starts, requests or inputs end the
behaviour.

### Counterexamples to what the repository says

* `idempotent_once`: the check and the append are separate critical sections,
  while ADR 0003 decides to "deduplicate repeated sequence entries".
* `raft_restart`: `Stop` closes `stopc` and returns, the goroutine may be between
  the truncation and the rewrite of `wal.log` in `Compact`, and a node started
  then begins empty, while `rolling_restart_test.go` fails a node that comes back
  without its WAL data.

The properties of the passing runs state their exceptions. They mark the places
where the code promises less than one may expect: a crash inside the rewrite of
an index file loses acknowledged records (`AckedDurable`, `cut`, `lost`), and so
it may take one topic's part of a committed transaction (`AppendedOnceInOrder`)
and a record whose call returned (`ReturnedIsRead`);
`Topic.NextOffset` lags behind the segment after a failed append and after a
restart, and the lagging value is stored in the record; a commit that fails half
done leaves its first records readable; a load inside a commit finds no offset
(`LoadServesLatest`); a crash inside the rewrite of `wal.log` loses it
(`LogKeepsEntries`, `damaged`); a member may work on an old copy of the
assignment (`FreshReadersDisjoint` is about readers since the last rebalance);
a partial snapshot file is preferred to older whole ones, and a partial copy from
the offload store to the store (`SnapshotNewest`); the pattern matcher misses
occurrences of patterns that repeat an event; a left record whose time was never
set joins every right one of its group (`JoinWithinBound`); a sequence number
sent again while the first attempt is served may be appended twice
(`RetriesAppendOnce`, `doubtful`); the distributed result may be read while a
late receiver appends.

## The proofs

Each proof module extends the component's module and proves an inductive
invariant (`IInv` in most of them), with one lemma per action or per kind of
step. Every theorem holds for every value of the constants that satisfies the
assumptions named with it.

Every safety property of the passing runs is proved, except those of
`Streaming`; see "Only model-checked" below.

### `SegmentProofs`

For every set of values, sizes, clock readings and bounds, with index files torn
wherever `os.WriteFile` may stop (only `SegmentAssumption` is used):

* `TypeCorrect`: `Spec => []TypeOK`;
* `FramesWhole`: `Spec => []IndexedFramesWhole`;
* `NoGap`: `Spec => []OffsetsDense`;
* `StableReads`: `Spec => ReadsStable`, an action property, from the lemma that
  a write leaves the record cell of every indexed frame alone;
* `FetchReads`: `Spec => []FetchContiguous`. `FetchInv` says that the next
  offset a `Fetch` asks for is the first one plus the number collected, and that
  what it collected is still what these offsets lead to. It needs a dense index
  (the first record at or after an indexed offset is the one at it) and stable
  reads (an append between two records of the answer changes none).

None of the first three is inductive. That frames stay whole needs to know that
no write lands on one: `Placed` says that every frame an index leads to ends
below `Limit`, the position while the topic is open and the end of the file
while it is not, and all writes go to the position or above. That the payload
completes a frame needs `PrefixWritten`: the cell before it holds its length.
That an index has no gap needs the in-memory index to be exactly
`0 .. nextOffset - 1` and the file to be a prefix (`IndexIsPrefix`), which
survives the rewriting and the tearing of the file and is what `NextAfter` finds
again at the next start.

What survives a crash:

* `Durable`: `Spec => []AckedDurable`. The strengthening is `AckInv`: the index
  file is a part of the in-memory index, the record being appended is the last
  one of it, and every acknowledged value is in memory, and in the file unless
  a failed rewrite has cut it;
* `TimesReadable`: `Spec => []TimeIndexWithinIndex`. `LastIsAppended` says that
  the index file is up to date when `persistIndexes` gets to the time index, and
  `TimeInv` that times lead to offsets in memory or lost ones;
* `Refinement`: `Spec => ImplementsAppendLog`. Every action is a step of
  `AppendLog` or a stutter under the mapping `Promise`. `CellsKept` (no step
  changes what an offset leads to) and `SafeIndexed` are what the simulation of a
  restart needs: the index read back is a prefix, and unless the index was
  exposed it reaches at least as far as `safe`.

These are about the code as it is: no theorem assumes that a rewrite is atomic.

### `ConsumerGroupProofs`

For every finite set of members, every set of groups and every partition count
(`GroupAssumption`):

* `Owners`: `Spec => []OneOwner`. Two members have different ranks in the sorted
  list, and a partition is given to the rank it leaves modulo their number;
* `Readers`: `Spec => []FreshReadersDisjoint`. What a fresh reader holds is also
  disjoint from what every other member owns now, which is what a second read
  needs;
* `Complete`: `Spec => []CompleteAndBalanced`. The ranks of `n` members are
  `0 .. n - 1` (`RanksFill`, from the cardinality of their range), so that every
  remainder has an owner; and between two partitions of one remainder lies one
  of every other, so that no share is larger than another by two
  (`RemaindersBalanced`). `Fair` says both of one assignment, and a leave marks the group as not
  covered any more.

The module also extends `OffsetStore`, and proves, for every set of files and of
offsets (`OffsetAssumption`):

* `LatestLoads`: `OffsetSpec => []LoadServesLatest`. `OffsetInv` adds what the
  file holds while a commit is between its truncation, its write and its return,
  and that a cut file is blank.

### `IdempotentProofs`

For every set of clients, names and sequence numbers (`NamesAssumption`,
`SequenceAssumption`, `UsesAssumption`):

* `Answers`: `Spec => []AnswersSound`. A call about to remember its offset, and
  every cached offset, must point at the entry (`CallsSound`, `CacheSound`);
  logs only grow;
* `Monotone`: `Spec => []AcknowledgedBelow`. What is acknowledged is cached
  (`AnswersKept`), what is cached is covered by the last sequence number
  (`CacheCovered`), so a call that passes the check is above everything
  acknowledged before it (`CallsOrdered`), and stays so until it appends;
* `AnswersRepeat`: `Spec => []AnswersAgree`. For a producer of one client only,
  a number that is being produced is not cached (`CallsNew`), so that no cached
  offset is replaced, and every answer given is the cached one
  (`CacheAnswers`).

### `TransactionsProofs`

For every set of clients, transactions and topics (`StagedAssumption`), with
drains, failing disks, and restarts that find any beginning of an exposed log:

* `BeforeCommit`: `Spec => []NothingBeforeCommit`. The induction needs that what
  is in a log belongs to a transaction that is marked or forgotten
  (`LogsLeft`), and that the transaction of a running commit is still marked
  (`CommitsOK`);
* `CommittedWhole`: `Spec => []CommittedComplete`. `CommitsOK` also says that
  the records copied at the start are those of the transaction and that all
  before `next` are in the logs; `Alone`, that no two calls commit one
  transaction, so that the end of one leaves the other's facts alone;
* `OnceInOrder`: `Spec => []AppendedOnceInOrder`. `Ordered` says it of places in
  the logs: a record has one place, places in a topic follow the staging order,
  and all records before one that is there are there too or were lost at a
  restart. `CommitsReach` says that a running commit has appended exactly the
  records before `next`: so the next append is new, and behind the others;
* `TypeCorrect`: `Spec => []TypeOK`. A record's place is bounded by `MaxStaged`
  since its transaction is no longer than that (`Short`).

### `RaftNodeProofs` and `RaftLogProofs`

For every threshold, number of starts, entries and faults, with and without an
offloader:

* `NewestLoaded`: `Spec => []SnapshotNewest`, overlapping Nodes included.
  `SavesReach` says that a snapshot as new as the one being saved is in the
  directory, although the purge of the loop may remove the very file the
  scheduler is about to upload: a purge removes older ones only. `SavedReach`
  moves the same to what was saved or offloaded, and to the offload store when
  the directory is empty. `SavedWhole` says that a file whose save returned was
  not cut, by a failed copy from the offload store included;
* `TypesHold`: `Spec => []TypeOK`, overlapping Nodes included. `TInv` adds that
  no entry has index 0 and that a batch to be written is not empty;
* `LogKept`: if Nodes do not overlap, `Spec => []LogKeepsEntries`;
* `MemoryKept`: if Nodes do not overlap, `Spec => []MemoryHolds`.

The last two assume `~Overlap`; `raft_restart` is the counterexample without it.
The invariant is `LInv`: one loop runs (`OneLoop`), and unless a write failed or
was cut short, or a start could not read the log and went on without it
(`StartUnread`), the files are `Sound`. That is: no frame is torn; what `ReadWAL`
reads is `Ordered` (the first occurrences of its entries are those ever written,
in order, and none stands before the place its index gives), except between the
truncation and the rewrite of `Compact`; and `NodeGood` says what holds at each
step of the loop. One that replays holds exactly the log in its batch. One that
writes has every written entry in memory and a batch that follows on it; one
that stores has them in memory and batch together. One between truncation and
rewrite holds in its batch all that the files held, beginning with what the
rotated files still hold. The proofs about `ReadWAL` rest on what `Flatten` of
`Lists` computes, and on what an append or a rewrite does to the first
occurrences. `NodeAssumption` is used.

### `ManagementProofs`

For every set of users, handlers, topics and sequence numbers and any number of
requests and restarts (`NamesAssumption`, `SequenceAssumption`,
`ManagementAssumption`):

* `RetriesOnce`: `MSpec => []RetriesAppendOnce`;
* `ReturnedStays`: `MSpec => []ReturnedIsRead`.

The invariant speaks of a record as user and number. A call of
`ProduceIdempotent` is that of its handler's request (`Linked`), a user waits
for the handler of its current record (`Waiting`), and nothing is served or
appended that was not sent (`Sent`). A record without doubt has one handler
(`Single`) and one place (`Unique`). If it has a place, it is cached, about to
be, or past and not served (`Known`), and it is not cached while a handler is
about to append it (`Fresh`): together these let no second append happen.
`Grounded` says that what is about to return, or is cached, is in the `safe` part
of the log, and that what returned is there too unless a restart with an exposed
index dropped it (`lost`).

### `DistributedProofs`

For any number of workers, any streams and any capacity of the connections
(`DistributedAssumption`):

* `Conserved`: `Spec => []ConnectionConserves`;
* `SourceOnly`: `Spec => []ResultsFromSource`;
* `AllClosed`: `Spec => []ConnectionsClosed`.

The first is not inductive: a connection that breaks leaves `ConnectionConserves`
and its worker's results still have to be a beginning of what was sent. `Sums`
says that what was gathered, read and is coming back is, for every worker, the
beginning of what was sent to it, and that the rest is on its way to the server
if the connection is in use. `Handed` keeps that of the result after the return,
`Shut` says where all connections are closed and that the panic needs an empty
list of workers, and `Fresh` that nothing moves while workers are dialled. That
the server's second encoding changes nothing is in the types: lines are `Coded`
records, which `Json` leaves alone.

### Only model-checked

* Liveness under fairness (`CommitReturns`, `ReadyAdvanced`, `Completes`,
  `EndsAndCleansUp`, `RequestEnds`) and `ENABLED` are outside this prover's
  reach.
* The properties of `Streaming`. What its operators and windows compute is
  written with folds of operators and selections (`FoldLeft`, `SelectSeq`),
  which for every input is an induction over an operator the provers cannot
  instantiate.
* The two counterexamples are runs; there is nothing to prove about them.

Where a proof needs an induction over a list, as for `Flatten`, it is done over
a set of numbers: the set of the lengths at which the claim fails has no least
element, so it is empty (`LeastOf`, `SetInduction`). This works for recursive
functions, not for operators passed as parameters.

## What is not modelled

`PROJECT.json` lists every part with its status.

* Never called by other code of the repository, so that no run could say how it
  is used: the tenant broker, the sparse mmap index, the processor state stores,
  the window manager, `persistent_storage.go`, the `minISR` gate of the in-sync
  replicas, and the placeholders of the region gateway and of incremental
  snapshots.
* The raft transports: no code outside the tests gives a Node peers. Votes, terms
  and replication are etcd's library.
* The schema registry: sequential maps under one lock.
* TLS and certificates, gRPC stubs, HTTP parsing, metrics, the sendfile copy,
  connectors, entry points and benchmarks: I/O without state of their own. The
  StreamQL parser splits text.

What could be added next: a proof of `OutputExpected` for chains of the
operators without state, with a recursive function in place of the fold; the
in-process raft transport with several Nodes, should the broker be given peers.
