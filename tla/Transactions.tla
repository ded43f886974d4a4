---------------------------- MODULE Transactions ----------------------------
(***************************************************************************)
(* Transactions (broker/transactions.go).  A transaction stages records in *)
(* memory.  CommitTransaction marks it "committing" and copies the staged  *)
(* records under the lock, and then, without holding it, creates the topic *)
(* of each record and appends it with Produce, so other calls, a drain or  *)
(* a restart fall between any two of these steps.                          *)
(*                                                                         *)
(* Transaction ids carry the clock's nanoseconds, and here two calls of    *)
(* BeginTransaction never get the same one.                                *)
(***************************************************************************)
EXTENDS Broker

CONSTANTS
  Client,           \* concurrent callers of CommitTransaction
  TxId,             \* transaction ids
  MaxStaged         \* bound: records of one transaction

ASSUME StagedAssumption == MaxStaged \in Nat

VARIABLES
  txState,          \* Broker.txState: id -> status and staged records
  begun,            \* the ids given out so far
  commit,           \* commit[c]: the CommitTransaction of client c
  lost              \* history: the safe entries that restarts dropped

txVars == <<txState, begun, commit, lost>>
vars   == <<brokerVars, txVars>>

NoCommit == [pc |-> "idle"]

\* A staged record is its topic; its identity is its place in the transaction.
Staged(id, i) == [kind |-> "tx", tx |-> id, i |-> i]

Put(f, k, v) == [x \in DOMAIN f \cup {k} |-> IF x = k THEN v ELSE f[x]]

\* Mutant: the status is not looked at.
Open_AnyStatus(id) == id \in DOMAIN txState

Open(id) == id \in DOMAIN txState /\ txState[id].status = "open"

-----------------------------------------------------------------------------
Init ==
  /\ BrokerInit
  /\ txState = [id \in {} |-> 0]
  /\ begun = {}
  /\ commit = [c \in Client |-> NoCommit]
  /\ lost = {}

OpenTopic(t) ==
  /\ t \notin topics
  /\ CreateTopic(t)
  /\ UNCHANGED <<logs, draining, txVars>>

PlainProduce(t) ==
  /\ Len(log[t]) < MaxLog
  /\ Produce(t)
  /\ UNCHANGED txVars

BeginTransaction(id) ==
  /\ id \notin begun
  /\ begun' = begun \cup {id}
  /\ txState' = Put(txState, id, [status |-> "open", records |-> <<>>])
  /\ UNCHANGED <<brokerVars, commit, lost>>

TxProduce(id, t) ==
  /\ Open(id)
  /\ Len(txState[id].records) < MaxStaged
  /\ txState' = [txState EXCEPT ![id].records = Append(@, t)]
  /\ UNCHANGED <<brokerVars, begun, commit, lost>>

\* Mutant: the transaction is reset to Go's zero value.
AbortTransaction_Zero(id) ==
  /\ Open(id)
  /\ txState' = [txState EXCEPT ![id] = [status |-> "", records |-> <<>>]]
  /\ UNCHANGED <<brokerVars, begun, commit, lost>>

AbortTransaction(id) ==
  /\ Open(id)
  /\ txState' = [txState EXCEPT ![id] = [status |-> "aborted", records |-> <<>>]]
  /\ UNCHANGED <<brokerVars, begun, commit, lost>>

\* Mutant: the transaction is not marked while it commits.
CommitStart_Unmarked(c, id) ==
  /\ commit[c] = NoCommit
  /\ Open(id)
  /\ commit' = [commit EXCEPT ![c] =
       [pc |-> "create", tx |-> id, records |-> txState[id].records, next |-> 1]]
  /\ UNCHANGED <<brokerVars, txState, begun, lost>>

\* CommitTransaction, first section: mark, and copy the staged records.
CommitStart(c, id) ==
  /\ commit[c] = NoCommit
  /\ Open(id)
  /\ txState' = [txState EXCEPT ![id].status = "committing"]
  /\ commit' = [commit EXCEPT ![c] =
       [pc |-> "create", tx |-> id, records |-> txState[id].records, next |-> 1]]
  /\ UNCHANGED <<brokerVars, begun, lost>>

\* The loop: CreateTopic of the next record.
CommitCreate(c) ==
  /\ commit[c].pc = "create"
  /\ commit[c].next <= Len(commit[c].records)
  /\ CreateTopic(commit[c].records[commit[c].next])
  /\ commit' = [commit EXCEPT ![c].pc = "append"]
  /\ UNCHANGED <<logs, draining, txState, begun, lost>>

\* The loop: Produce of the next record.
CommitAppend(c) ==
  LET k == commit[c]
  IN  /\ k.pc = "append"
      /\ Accepts(k.records[k.next])
      /\ Appends(k.records[k.next], Staged(k.tx, k.next))
      /\ commit' = [commit EXCEPT ![c].pc = "create", ![c].next = @ + 1]
      /\ UNCHANGED <<topics, draining, txState, begun, lost>>

\* CreateTopic of the next record fails, on opening the topic's segment.
CreateFails(k) ==
  /\ k.next <= Len(k.records)
  /\ k.records[k.next] \notin topics
  /\ DiskFails

\* Mutant: the loop goes on after an error.
CommitFails_GoesOn(c) ==
  LET k == commit[c]
  IN  /\ \/ k.pc = "create" /\ CreateFails(k) /\ UNCHANGED logs
         \/ k.pc = "append" /\ ProduceError(k.records[k.next], Staged(k.tx, k.next))
      /\ commit' = [commit EXCEPT ![c].pc = "create", ![c].next = @ + 1]
      /\ UNCHANGED <<topics, draining, txState, begun, lost>>

\* Mutant: the commit waits for the end of the drain.
CommitFails_WaitsForDrain(c) ==
  LET k == commit[c]
  IN  /\ ~draining
      /\ \/ k.pc = "create" /\ CreateFails(k) /\ UNCHANGED logs
         \/ k.pc = "append" /\ ProduceError(k.records[k.next], Staged(k.tx, k.next))
      /\ commit' = [commit EXCEPT ![c] = NoCommit]
      /\ UNCHANGED <<topics, draining, txState, begun, lost>>

\* CreateTopic or Produce fails: the error is returned at once, and the
\* transaction keeps the status "committing".
CommitFails(c) ==
  LET k == commit[c]
  IN  /\ \/ k.pc = "create" /\ CreateFails(k) /\ UNCHANGED logs
         \/ k.pc = "append" /\ ProduceError(k.records[k.next], Staged(k.tx, k.next))
      /\ commit' = [commit EXCEPT ![c] = NoCommit]
      /\ UNCHANGED <<topics, draining, txState, begun, lost>>

\* Last section, after the loop.
CommitEnd(c) ==
  /\ commit[c].pc = "create"
  /\ commit[c].next > Len(commit[c].records)
  /\ txState' = [txState EXCEPT ![commit[c].tx].status = "committed"]
  /\ commit' = [commit EXCEPT ![c] = NoCommit]
  /\ UNCHANGED <<brokerVars, begun, lost>>

\* The drain window opens, by a call of Drain, or closes, as time passes.
DrainWindow ==
  /\ Drain \/ DrainEnds
  /\ UNCHANGED txVars

\* The process dies and starts again: every transaction is forgotten.
Restart ==
  /\ BrokerRestart
  /\ txState' = [id \in {} |-> 0]
  /\ commit' = [c \in Client |-> NoCommit]
  /\ lost' = lost \cup (Dropped \ {Plain})
  /\ UNCHANGED begun

CommitStep(c) == CommitCreate(c) \/ CommitAppend(c) \/ CommitFails(c) \/ CommitEnd(c)

Next ==
  \/ \E t \in Topic : OpenTopic(t) \/ PlainProduce(t)
  \/ \E id \in TxId : BeginTransaction(id) \/ AbortTransaction(id)
  \/ \E id \in TxId, t \in Topic : TxProduce(id, t)
  \/ \E c \in Client, id \in TxId : CommitStart(c, id)
  \/ \E c \in Client : CommitStep(c)
  \/ DrainWindow
  \/ Restart

Spec == Init /\ [][Next]_vars

\* A call that has taken its first step keeps running: the runtime schedules
\* its goroutine, and Broker.mu is never held across a wait.
FairSpec == Spec /\ \A c \in Client : WF_vars(CommitStep(c))

-----------------------------------------------------------------------------
\* The offsets at which topic t holds record i of a transaction.
Copies(id, i, t) == {o \in DOMAIN log[t] : log[t][o] = Staged(id, i)}

Appended(id) == {i \in 1 .. MaxStaged : \E t \in Topic : Copies(id, i, t) # {}}

TxEntry == [kind : {"tx"}, tx : TxId, i : 1 .. MaxStaged]

\* The types of the transactions, of the commits in progress and of the log.
TypeOK ==
  /\ topics \subseteq Topic
  /\ log \in [Topic -> Seq(TxEntry \cup {Plain})]
  /\ safe \in [Topic -> Nat]
  /\ cut \subseteq Topic
  /\ lost \subseteq TxEntry
  /\ draining \in BOOLEAN
  /\ begun \subseteq TxId
  /\ DOMAIN txState \subseteq begun
  /\ \A id \in DOMAIN txState :
       txState[id] \in [status : {"open", "committing", "committed", "aborted"}, records : Seq(Topic)]
  /\ commit \in [Client -> {NoCommit} \cup
       [pc : {"create", "append"}, tx : TxId, records : Seq(Topic), next : Nat]]

\* "append only on commit": a transaction that is open or was aborted has
\* left nothing in any log, and neither has one that never began.
NothingBeforeCommit ==
  \A id \in TxId :
    Appended(id) # {} =>
      /\ id \in begun
      /\ id \in DOMAIN txState => txState[id].status \in {"committing", "committed"}

\* However a commit is interrupted, and whoever else commits meanwhile, the
\* records of a transaction reach the logs once each and in the order they
\* were staged.  What is there is a prefix, but for records that a topic
\* lost again because a crash found its index exposed, while other topics of
\* the transaction kept theirs; and within a topic the offsets follow the
\* staging order.
AppendedOnceInOrder ==
  \A id \in TxId :
    /\ \A i \in Appended(id) : \A j \in 1 .. i : j \in Appended(id) \/ Staged(id, j) \in lost
    /\ \A i \in Appended(id) : \E t \in Topic : \E o \in DOMAIN log[t] :
         /\ Copies(id, i, t) = {o}
         /\ \A u \in Topic \ {t} : Copies(id, i, u) = {}
    /\ \A t \in Topic : \A i, j \in Appended(id) :
         i < j => \A o \in Copies(id, i, t), q \in Copies(id, j, t) : o < q

\* A transaction that reports "committed" is in the logs as a whole, each
\* record in the topic it was staged for.
CommittedComplete ==
  \A id \in DOMAIN txState :
    txState[id].status = "committed" =>
      \A i \in DOMAIN txState[id].records : Copies(id, i, txState[id].records[i]) # {}

\* A commit returns, with or without an error, whatever runs beside it.
CommitReturns ==
  \A c \in Client : commit[c] # NoCommit ~> commit[c] = NoCommit
=============================================================================
