------------------------- MODULE TransactionsProofs -------------------------
(***************************************************************************)
(* Proofs about transactions, for any number of clients, transactions,     *)
(* topics and records: nothing is appended before the commit, what is      *)
(* appended is there once and in the order of staging, and what is         *)
(* reported as committed is in the logs as a whole.                        *)
(***************************************************************************)
EXTENDS Transactions, TLAPS

Element == [kind : {"tx"}, tx : TxId, i : Nat] \cup {Plain}

LogTyped == log \in [Topic -> Seq(Element)] /\ safe \in [Topic -> Nat]

TxType == [status : {"open", "committing", "committed", "aborted"}, records : Seq(Topic)]

TxTyped ==
  /\ begun \subseteq TxId
  /\ DOMAIN txState \subseteq begun
  /\ txState = [id \in DOMAIN txState |-> txState[id]]
  /\ \A id \in DOMAIN txState : txState[id] \in TxType

CommitType == [pc : {"create", "append"}, tx : TxId, records : Seq(Topic), next : Nat \ {0}]

CommitTyped == commit \in [Client -> {NoCommit} \cup CommitType]

\* Topic t holds record i of the transaction.
In(id, i, t) == \E o \in DOMAIN log[t] : log[t][o] = Staged(id, i)

\* A transaction that may have records in the logs.
Left(id) == id \in begun /\ (id \in DOMAIN txState => txState[id].status \in {"committing", "committed"})

LogsLeft ==
  \A t \in Topic : \A o \in DOMAIN log[t] : \A id \in TxId, i \in Nat :
    log[t][o] = Staged(id, i) => Left(id)

\* The transaction of a commit in progress is marked, its records are the
\* ones that were copied, and the ones before the next are in the logs.
CommitOK(k) ==
  /\ k.tx \in DOMAIN txState
  /\ txState[k.tx].status = "committing"
  /\ txState[k.tx].records = k.records
  /\ \A i \in 1 .. Len(k.records) : i < k.next => In(k.tx, i, k.records[i])
  /\ k.pc = "append" => k.next <= Len(k.records)

CommitsOK == \A c \in Client : commit[c] # NoCommit => CommitOK(commit[c])

\* No transaction is committed by two calls.
Alone == \A c, d \in Client : c # d /\ commit[c] # NoCommit /\ commit[d] # NoCommit => commit[c].tx # commit[d].tx

Complete(id) ==
  txState[id].status = "committed" => \A i \in 1 .. Len(txState[id].records) : In(id, i, txState[id].records[i])

IInv ==
  /\ LogTyped /\ TxTyped /\ CommitTyped
  /\ LogsLeft
  /\ CommitsOK
  /\ Alone
  /\ \A id \in DOMAIN txState : Complete(id)

\* A staged record is known by its transaction and its place.
LEMMA StagedApart ==
  /\ \A id, jd, i, j : Staged(id, i) = Staged(jd, j) => id = jd /\ i = j
  /\ \A id, i : Staged(id, i) # Plain
  /\ \A id \in TxId, i \in Nat : Staged(id, i) \in Element
BY Zenon DEF Staged, Plain, Element

\* The invariant holds of an empty broker.
LEMMA InitIInv == Init => IInv
<1> SUFFICES ASSUME Init PROVE IInv
  BY Zenon
<1> USE DEF Init, BrokerInit
<1>1. LogTyped
  BY DEF LogTyped
<1>2. TxTyped
  BY Zenon DEF TxTyped
<1>3. CommitTyped
  BY Zenon DEF CommitTyped
<1>4. LogsLeft
  BY DEF LogsLeft
<1>5. CommitsOK /\ Alone
  BY Zenon DEF CommitsOK, Alone
<1>6. \A id \in DOMAIN txState : Complete(id)
  BY Zenon
<1> QED
  BY <1>1, <1>2, <1>3, <1>4, <1>5, <1>6, Zenon DEF IInv

\* What an append, or a failed one, does to the logs.
LEMMA Grows ==
  ASSUME LogTyped, NEW t \in Topic, NEW e \in Element, AppendEntry(t, e) \/ UNCHANGED log
  PROVE  /\ log' \in [Topic -> Seq(Element)]
         /\ \A id, i : \A u \in Topic : In(id, i, u) => In(id, i, u)'
         /\ \A u \in Topic : \A o \in DOMAIN log'[u] : log'[u][o] = e \/ (o \in DOMAIN log[u] /\ log'[u][o] = log[u][o])
         /\ AppendEntry(t, e) => \E o \in DOMAIN log'[t] : log'[t][o] = e
<1>1. log \in [Topic -> Seq(Element)]
  BY Zenon DEF LogTyped
<1>2. CASE UNCHANGED log /\ ~AppendEntry(t, e)
  BY <1>1, <1>2, Zenon DEF In
<1>3. CASE AppendEntry(t, e)
  <2>1. log' \in [Topic -> Seq(Element)] /\ log'[t] = Append(log[t], e)
    BY <1>1, <1>3 DEF AppendEntry
  <2>2. \A u \in Topic : u # t => log'[u] = log[u]
    BY <1>1, <1>3, Zenon DEF AppendEntry
  <2>3. log[t] \in Seq(Element) /\ log'[t] \in Seq(Element)
    BY <1>1, <2>1, Zenon
  <2>4. /\ DOMAIN log[t] = 1 .. Len(log[t]) /\ Len(log[t]) \in Nat
        /\ DOMAIN log'[t] = 1 .. Len(log[t]) + 1
        /\ \A o \in 1 .. Len(log[t]) : log'[t][o] = log[t][o]
        /\ log'[t][Len(log[t]) + 1] = e
    BY <2>1, <2>3
  <2>5. \A o \in DOMAIN log[t] : o \in DOMAIN log'[t] /\ log'[t][o] = log[t][o]
    BY <2>4
  <2>6. \A o \in DOMAIN log'[t] : log'[t][o] = e \/ (o \in DOMAIN log[t] /\ log'[t][o] = log[t][o])
    BY <2>4
  <2>7. \E o \in DOMAIN log'[t] : log'[t][o] = e
    BY <2>4
  <2>8. \A u \in Topic : \A o \in DOMAIN log[u] : o \in DOMAIN log'[u] /\ log'[u][o] = log[u][o]
    BY <2>2, <2>5, Zenon
  <2>9. \A id, i : \A u \in Topic : In(id, i, u) => In(id, i, u)'
    BY <2>8, Zenon DEF In
  <2>10. \A u \in Topic : \A o \in DOMAIN log'[u] : log'[u][o] = e \/ (o \in DOMAIN log[u] /\ log'[u][o] = log[u][o])
    BY <2>2, <2>6, Zenon
  <2> QED
    BY <2>1, <2>7, <2>9, <2>10, Zenon
<1> QED
  BY <1>2, <1>3, Zenon

\* What is known of the records of a transaction.
LEMMA Records ==
  ASSUME TxTyped, NEW id \in DOMAIN txState
  PROVE  /\ id \in TxId /\ id \in begun
         /\ txState[id].records \in Seq(Topic)
         /\ Len(txState[id].records) \in Nat
         /\ \A i \in 1 .. Len(txState[id].records) : txState[id].records[i] \in Topic
<1>1. txState[id] \in TxType /\ id \in TxId /\ id \in begun
  BY Zenon DEF TxTyped
<1>2. txState[id].records \in Seq(Topic)
  BY <1>1, Zenon DEF TxType
<1> QED
  BY <1>1, <1>2

\* A step of the broker that leaves the transactions as they are.
LEMMA LogsStep ==
  ASSUME IInv, UNCHANGED <<txState, begun>>,
         NEW t \in Topic, NEW e \in Element, AppendEntry(t, e) \/ UNCHANGED log,
         safe' \in [Topic -> Nat],
         \A id \in TxId, i \in Nat : e = Staged(id, i) => Left(id)
  PROVE  /\ LogTyped' /\ TxTyped' /\ LogsLeft'
         /\ \A id \in DOMAIN txState' : Complete(id)'
         /\ \A k \in CommitType : CommitOK(k) => CommitOK(k)'
<1>1. LogTyped /\ TxTyped /\ LogsLeft
  BY Zenon DEF IInv
<1>2. /\ log' \in [Topic -> Seq(Element)]
      /\ \A id, i : \A u \in Topic : In(id, i, u) => In(id, i, u)'
      /\ \A u \in Topic : \A o \in DOMAIN log'[u] : log'[u][o] = e \/ (o \in DOMAIN log[u] /\ log'[u][o] = log[u][o])
  BY <1>1, Grows, Zenon
<1>3. LogTyped'
  BY <1>2, Zenon DEF LogTyped
<1>4. TxTyped'
  BY <1>1, Zenon DEF TxTyped
<1>5. LogsLeft'
  <2>1. \A id : Left(id) => Left(id)'
    BY Zenon DEF Left
  <2> SUFFICES ASSUME NEW u \in Topic, NEW o \in DOMAIN log'[u], NEW id \in TxId, NEW i \in Nat,
                      log'[u][o] = Staged(id, i)
               PROVE  Left(id)
    BY <2>1, Zenon DEF LogsLeft, Staged
  <2>2. CASE log'[u][o] = e
    BY <2>2, Zenon
  <2>3. CASE o \in DOMAIN log[u] /\ log'[u][o] = log[u][o]
    BY <1>1, <2>3, Zenon DEF LogsLeft
  <2> QED
    BY <1>2, <2>2, <2>3, Zenon
<1>6. ASSUME NEW id \in DOMAIN txState' PROVE Complete(id)'
  <2>1. id \in DOMAIN txState /\ txState'[id] = txState[id]
    BY Zenon
  <2>2. Complete(id)
    BY <2>1, Zenon DEF IInv
  <2>3. \A i \in 1 .. Len(txState[id].records) : txState[id].records[i] \in Topic
    BY <1>1, <2>1, Records, Zenon
  <2> QED
    BY <1>2, <2>1, <2>2, <2>3, Zenon DEF Complete
<1>7. ASSUME NEW k \in CommitType, CommitOK(k) PROVE CommitOK(k)'
  <2>1. k.tx \in DOMAIN txState /\ txState[k.tx].records = k.records
    BY <1>7, Zenon DEF CommitOK
  <2>2. \A i \in 1 .. Len(k.records) : k.records[i] \in Topic
    BY <1>1, <2>1, Records, Zenon
  <2> QED
    BY <1>2, <1>7, <2>2, Zenon DEF CommitOK
<1> QED
  BY <1>3, <1>4, <1>5, <1>6, <1>7, Zenon

\* A commit in progress is one of CommitType.
LEMMA CommitIs ==
  ASSUME IInv, NEW c \in Client, commit[c] # NoCommit
  PROVE  /\ commit[c] \in CommitType /\ CommitOK(commit[c])
         /\ commit[c].records \in Seq(Topic) /\ Len(commit[c].records) \in Nat
         /\ commit[c].next \in Nat \ {0} /\ commit[c].tx \in TxId
<1>1. commit[c] \in CommitType
  BY Zenon DEF IInv, CommitTyped
<1>2. CommitOK(commit[c])
  BY Zenon DEF IInv, CommitsOK
<1>3. commit[c].records \in Seq(Topic) /\ commit[c].next \in Nat \ {0} /\ commit[c].tx \in TxId
  BY <1>1, Zenon DEF CommitType
<1> QED
  BY <1>1, <1>2, <1>3

\* Commits that a step leaves alone, while the logs grow.
LEMMA OtherCommits ==
  ASSUME IInv, \A k \in CommitType : CommitOK(k) => CommitOK(k)',
         NEW c \in Client, commit'[c] = commit[c], commit[c] # NoCommit
  PROVE  CommitOK(commit[c])'
<1>1. PICK k \in CommitType : k = commit[c] /\ CommitOK(k)
  BY CommitIs, Zenon
<1>2. CommitOK(k)' /\ k = commit'[c]
  BY <1>1, Zenon
<1> QED
  BY <1>2, Zenon DEF CommitOK

\* OpenTopic, PlainProduce, the drain window and stuttering.
LEMMA BrokerIInv ==
  ASSUME IInv, UNCHANGED txVars,
         NEW t \in Topic, AppendEntry(t, Plain) \/ UNCHANGED log,
         safe' \in [Topic -> Nat]
  PROVE  IInv'
<1>1. Plain \in Element /\ \A id \in TxId, i \in Nat : Plain # Staged(id, i)
  BY StagedApart, Zenon DEF Element
<1>2. UNCHANGED <<txState, begun, commit>>
  BY Zenon DEF txVars
<1>3. /\ LogTyped' /\ TxTyped' /\ LogsLeft'
      /\ \A id \in DOMAIN txState' : Complete(id)'
      /\ \A k \in CommitType : CommitOK(k) => CommitOK(k)'
  BY <1>1, <1>2, LogsStep, Zenon
<1>4. CommitTyped' /\ Alone'
  BY <1>2, Zenon DEF IInv, CommitTyped, Alone
<1>5. CommitsOK'
  BY <1>2, <1>3, OtherCommits, Zenon DEF CommitsOK
<1> QED
  BY <1>3, <1>4, <1>5, Zenon DEF IInv

\* A transaction with a commit in progress may have records in the logs.
LEMMA CommitLeft ==
  ASSUME IInv, NEW c \in Client, commit[c] # NoCommit
  PROVE  Left(commit[c].tx)
<1>1. commit[c].tx \in DOMAIN txState /\ txState[commit[c].tx].status = "committing"
  BY CommitIs, Zenon DEF CommitOK
<1>2. DOMAIN txState \subseteq begun
  BY Zenon DEF IInv, TxTyped
<1> QED
  BY <1>1, <1>2, Zenon DEF Left

\* BeginTransaction, TxProduce and AbortTransaction change one transaction
\* that has nothing in the logs and no commit.
LEMMA OneIInv ==
  ASSUME IInv, UNCHANGED <<log, safe, commit>>,
         NEW id \in TxId, ~Left(id), NEW r \in TxType, r.status \in {"open", "aborted"},
         begun' = begun \cup {id},
         txState' = [j \in DOMAIN txState \cup {id} |-> IF j = id THEN r ELSE txState[j]]
  PROVE  IInv'
<1>1. /\ DOMAIN txState' = DOMAIN txState \cup {id}
      /\ txState'[id] = r
      /\ \A j \in DOMAIN txState : j # id => txState'[j] = txState[j]
  BY Zenon
<1>2. LogTyped' /\ CommitTyped' /\ Alone'
  BY Zenon DEF IInv, LogTyped, CommitTyped, Alone
<1>3. TxTyped'
  <2>1. TxTyped
    BY Zenon DEF IInv
  <2>2. txState' = [j \in DOMAIN txState' |-> txState'[j]]
    BY Zenon
  <2> QED
    BY <1>1, <2>1, <2>2, Zenon DEF TxTyped
<1>4. \A j : j # id => (Left(j) => Left(j)')
  BY <1>1, Zenon DEF Left
<1>5. LogsLeft'
  BY <1>4, Zenon DEF IInv, LogsLeft
<1>6. CommitsOK'
  <2> SUFFICES ASSUME NEW c \in Client, commit'[c] # NoCommit PROVE CommitOK(commit[c])'
    BY Zenon DEF CommitsOK
  <2>1. commit[c] # NoCommit /\ commit'[c] = commit[c]
    BY Zenon
  <2>2. commit[c].tx # id /\ CommitOK(commit[c])
    BY <2>1, CommitIs, CommitLeft, Zenon
  <2> QED
    BY <1>1, <2>1, <2>2, Zenon DEF CommitOK, In
<1>7. \A j \in DOMAIN txState' : Complete(j)'
  <2> SUFFICES ASSUME NEW j \in DOMAIN txState' PROVE Complete(j)'
    BY Zenon
  <2>1. CASE j = id
    BY <1>1, <2>1, Zenon DEF Complete
  <2>2. CASE j # id
    <3>1. Complete(j) /\ txState'[j] = txState[j]
      BY <1>1, <2>2, Zenon DEF IInv
    <3> QED
      BY <3>1, Zenon DEF Complete, In
  <2> QED
    BY <2>1, <2>2, Zenon
<1> QED
  BY <1>2, <1>3, <1>5, <1>6, <1>7, Zenon DEF IInv

\* BeginTransaction, TxProduce and AbortTransaction touch no log.
LEMMA StageIInv ==
  ASSUME IInv, NEW id \in TxId,
         BeginTransaction(id) \/ AbortTransaction(id) \/ \E t \in Topic : TxProduce(id, t)
  PROVE  IInv'
<1>1. UNCHANGED <<log, safe, commit>>
  BY Zenon DEF BeginTransaction, AbortTransaction, TxProduce, brokerVars, logs
<1>2. CASE BeginTransaction(id)
  <2> DEFINE r == [status |-> "open", records |-> <<>>]
  <2>1. r \in TxType /\ r.status = "open"
    BY DEF TxType
  <2> HIDE DEF r
  <2>2. txState' = [j \in DOMAIN txState \cup {id} |-> IF j = id THEN r ELSE txState[j]]
    BY <1>2, Zenon DEF BeginTransaction, Put, r
  <2>3. begun' = begun \cup {id} /\ ~Left(id)
    BY <1>2, Zenon DEF BeginTransaction, Left
  <2> QED
    BY <1>1, <2>1, <2>2, <2>3, OneIInv, Zenon
<1>3. ASSUME Open(id), UNCHANGED begun, NEW r \in TxType, r.status \in {"open", "aborted"},
             txState' = [txState EXCEPT ![id] = r]
      PROVE  IInv'
  <2>1. id \in DOMAIN txState /\ ~Left(id)
    BY <1>3, Zenon DEF Open, Left
  <2>2. begun' = begun \cup {id}
    BY <1>3, <2>1, Zenon DEF IInv, TxTyped
  <2>3. txState' = [j \in DOMAIN txState \cup {id} |-> IF j = id THEN r ELSE txState[j]]
    BY <1>3, <2>1, Zenon
  <2> QED
    BY <1>1, <1>3, <2>1, <2>2, <2>3, OneIInv, Zenon
<1>4. CASE AbortTransaction(id)
  <2>1. [status |-> "aborted", records |-> <<>>] \in TxType
    BY DEF TxType
  <2> QED
    BY <1>3, <1>4, <2>1, Zenon DEF AbortTransaction
<1>5. ASSUME NEW t \in Topic, TxProduce(id, t) PROVE IInv'
  <2>1. id \in DOMAIN txState /\ txState[id].status = "open" /\ txState[id] \in TxType
    BY <1>5, Zenon DEF TxProduce, Open, IInv, TxTyped
  <2> DEFINE r == [txState[id] EXCEPT !.records = Append(txState[id].records, t)]
  <2>2. txState[id].records \in Seq(Topic)
    BY <2>1, Zenon DEF TxType
  <2>3. Append(txState[id].records, t) \in Seq(Topic)
    BY <2>2
  <2>4. r \in TxType /\ r.status = "open"
    BY <2>1, <2>3, Zenon DEF TxType
  <2>5. txState' = [txState EXCEPT ![id] = r]
    BY <1>5, Zenon DEF TxProduce
  <2> HIDE DEF r
  <2> QED
    BY <1>3, <1>5, <2>4, <2>5, Zenon DEF TxProduce
<1> QED
  BY <1>2, <1>4, <1>5, Zenon

\* Marking a transaction as "committing" or "committed".
LEMMA Marks ==
  ASSUME IInv, UNCHANGED <<log, safe, begun>>,
         NEW id \in DOMAIN txState, NEW st \in {"committing", "committed"},
         txState' = [txState EXCEPT ![id].status = st]
  PROVE  /\ LogTyped' /\ TxTyped' /\ LogsLeft'
         /\ DOMAIN txState' = DOMAIN txState
         /\ txState'[id].status = st /\ txState'[id].records = txState[id].records
         /\ \A j \in DOMAIN txState : j # id => Complete(j)'
         /\ \A k \in CommitType : k.tx # id /\ CommitOK(k) => CommitOK(k)'
<1>1. TxTyped /\ LogTyped
  BY Zenon DEF IInv
<1>2. txState[id] \in TxType
  BY <1>1, Zenon DEF TxTyped
<1> DEFINE r == [txState[id] EXCEPT !.status = st]
<1>3. r \in TxType /\ r.status = st /\ r.records = txState[id].records
  BY <1>2, Zenon DEF TxType
<1>4. txState' = [txState EXCEPT ![id] = r]
  BY Zenon
<1> HIDE DEF r
<1>5. /\ DOMAIN txState' = DOMAIN txState
      /\ txState'[id] = r
      /\ \A j \in DOMAIN txState : j # id => txState'[j] = txState[j]
  BY <1>4, Zenon
<1>6. LogTyped'
  BY <1>1, Zenon DEF LogTyped
<1>7. TxTyped'
  <2>1. txState' = [j \in DOMAIN txState' |-> txState'[j]]
    BY <1>4, Zenon
  <2> QED
    BY <1>1, <1>3, <1>5, <2>1, Zenon DEF TxTyped
<1>8. \A j : Left(j) => Left(j)'
  BY <1>3, <1>5, Zenon DEF Left
<1>9. LogsLeft'
  BY <1>8, Zenon DEF IInv, LogsLeft
<1>10. \A j \in DOMAIN txState : j # id => Complete(j)'
  <2> SUFFICES ASSUME NEW j \in DOMAIN txState, j # id PROVE Complete(j)'
    BY Zenon
  <2>1. Complete(j) /\ txState'[j] = txState[j]
    BY <1>5, Zenon DEF IInv
  <2> QED
    BY <2>1, Zenon DEF Complete, In
<1>11. \A k \in CommitType : k.tx # id /\ CommitOK(k) => CommitOK(k)'
  BY <1>5, Zenon DEF CommitOK, In
<1> QED
  BY <1>3, <1>5, <1>6, <1>7, <1>9, <1>10, <1>11, Zenon

\* An open transaction is marked and copied.
LEMMA CommitStartIInv ==
  ASSUME IInv, NEW c \in Client, NEW id \in TxId, CommitStart(c, id)
  PROVE  IInv'
<1>1. /\ id \in DOMAIN txState /\ txState[id].status = "open"
      /\ txState' = [txState EXCEPT ![id].status = "committing"]
      /\ UNCHANGED <<log, safe, begun>>
  BY Zenon DEF CommitStart, Open, brokerVars, logs
<1>2. ~Left(id)
  BY <1>1, Zenon DEF Left
<1>3. /\ LogTyped' /\ TxTyped' /\ LogsLeft'
      /\ DOMAIN txState' = DOMAIN txState
      /\ txState'[id].status = "committing" /\ txState'[id].records = txState[id].records
      /\ \A j \in DOMAIN txState : j # id => Complete(j)'
      /\ \A k \in CommitType : k.tx # id /\ CommitOK(k) => CommitOK(k)'
  BY <1>1, Marks, Zenon
<1>4. txState[id].records \in Seq(Topic)
  BY <1>1, Records, Zenon DEF IInv
<1>5. [pc |-> "create", tx |-> id, records |-> txState[id].records, next |-> 1] \in CommitType
  BY <1>4 DEF CommitType
<1>6. PICK n \in CommitType : n = [pc |-> "create", tx |-> id, records |-> txState[id].records, next |-> 1]
  BY <1>5, Zenon
<1>n. n.tx = id /\ n.records = txState[id].records /\ n.next = 1 /\ n.pc = "create"
  BY <1>6, Zenon
<1>7. commit' = [commit EXCEPT ![c] = n]
  BY <1>6, Zenon DEF CommitStart
<1>8. CommitTyped' /\ \A d \in Client : commit'[d] = IF d = c THEN n ELSE commit[d]
  BY <1>7, Zenon DEF IInv, CommitTyped
<1>9. CommitOK(n)'
  <2>1. Len(n.records) \in Nat
    BY <1>4, <1>n
  <2>2. \A i \in 1 .. Len(n.records) : ~(i < n.next)
    BY <1>n, <2>1
  <2> QED
    BY <1>1, <1>3, <1>n, <2>2, Zenon DEF CommitOK
<1>10. \A d \in Client : commit[d] # NoCommit => commit[d].tx # id
  BY <1>2, CommitLeft, Zenon
<1>11. CommitsOK'
  <2> SUFFICES ASSUME NEW d \in Client, commit'[d] # NoCommit PROVE CommitOK(commit[d])'
    BY Zenon DEF CommitsOK
  <2>1. CASE d = c
    BY <1>8, <1>9, <2>1, Zenon DEF CommitOK
  <2>2. CASE d # c
    <3>1. PICK k \in CommitType : k = commit[d] /\ CommitOK(k) /\ k.tx # id
      BY <1>8, <1>10, <2>2, CommitIs, Zenon
    <3>2. CommitOK(k)' /\ k = commit'[d]
      BY <1>3, <1>8, <2>2, <3>1, Zenon
    <3> QED
      BY <3>2, Zenon DEF CommitOK
  <2> QED
    BY <2>1, <2>2, Zenon
<1>12. Alone'
  BY <1>n, <1>8, <1>10 DEF IInv, Alone
<1>13. \A j \in DOMAIN txState' : Complete(j)'
  BY <1>3, Zenon DEF Complete
<1> QED
  BY <1>3, <1>8, <1>11, <1>12, <1>13, Zenon DEF IInv

\* The loop is over, so all records are in the logs.
LEMMA CommitEndIInv ==
  ASSUME IInv, NEW c \in Client, CommitEnd(c)
  PROVE  IInv'
<1>1. commit[c] # NoCommit /\ commit[c].pc = "create" /\ commit[c].next > Len(commit[c].records)
  BY DEF CommitEnd, NoCommit
<1>2. PICK k \in CommitType : k = commit[c] /\ CommitOK(k)
  BY <1>1, CommitIs, Zenon
<1>3. k.records \in Seq(Topic) /\ Len(k.records) \in Nat /\ k.next \in Nat /\ k.next > Len(k.records)
  BY <1>1, <1>2, CommitIs, Zenon
<1>4. /\ k.tx \in DOMAIN txState /\ txState[k.tx].records = k.records
      /\ \A i \in 1 .. Len(k.records) : In(k.tx, i, k.records[i])
  BY <1>2, <1>3 DEF CommitOK
<1>5. /\ txState' = [txState EXCEPT ![k.tx].status = "committed"]
      /\ commit' = [commit EXCEPT ![c] = NoCommit]
      /\ UNCHANGED <<log, safe, begun>>
  BY <1>2, Zenon DEF CommitEnd, brokerVars, logs
<1>6. /\ LogTyped' /\ TxTyped' /\ LogsLeft'
      /\ DOMAIN txState' = DOMAIN txState
      /\ txState'[k.tx].records = txState[k.tx].records
      /\ \A j \in DOMAIN txState : j # k.tx => Complete(j)'
      /\ \A m \in CommitType : m.tx # k.tx /\ CommitOK(m) => CommitOK(m)'
  BY <1>4, <1>5, Marks, Zenon
<1>7. Complete(k.tx)'
  BY <1>4, <1>5, <1>6 DEF Complete, In
<1>8. CommitTyped' /\ \A d \in Client : commit'[d] = IF d = c THEN NoCommit ELSE commit[d]
  BY <1>5, Zenon DEF IInv, CommitTyped
<1>9. Alone'
  BY <1>8, Zenon DEF IInv, Alone
<1>10. CommitsOK'
  <2> SUFFICES ASSUME NEW d \in Client, commit'[d] # NoCommit PROVE CommitOK(commit[d])'
    BY Zenon DEF CommitsOK
  <2>1. d # c /\ commit'[d] = commit[d] /\ commit[d] # NoCommit
    BY <1>8, Zenon
  <2>2. PICK m \in CommitType : m = commit[d] /\ CommitOK(m)
    BY <2>1, CommitIs, Zenon
  <2>3. m.tx # k.tx
    BY <1>1, <1>2, <2>1, <2>2, Zenon DEF IInv, Alone
  <2>4. CommitOK(m)' /\ m = commit'[d]
    BY <1>6, <2>1, <2>2, <2>3, Zenon
  <2> QED
    BY <2>4, Zenon DEF CommitOK
<1>11. \A j \in DOMAIN txState' : Complete(j)'
  BY <1>6, <1>7, Zenon
<1> QED
  BY <1>6, <1>8, <1>9, <1>10, <1>11, Zenon DEF IInv

\* A step of one commit, which goes on with m or returns.
LEMMA ReplaceCommit ==
  ASSUME IInv, NEW c \in Client, commit[c] # NoCommit,
         NEW m \in {NoCommit} \cup CommitType, commit' = [commit EXCEPT ![c] = m],
         m # NoCommit => m.tx = commit[c].tx /\ CommitOK(m)',
         LogTyped' /\ TxTyped' /\ LogsLeft',
         \A id \in DOMAIN txState' : Complete(id)',
         \A k \in CommitType : CommitOK(k) => CommitOK(k)'
  PROVE  IInv'
<1>1. CommitTyped' /\ \A d \in Client : commit'[d] = IF d = c THEN m ELSE commit[d]
  BY Zenon DEF IInv, CommitTyped
<1>2. Alone'
  BY <1>1 DEF IInv, Alone
<1>3. CommitsOK'
  <2> SUFFICES ASSUME NEW d \in Client, commit'[d] # NoCommit PROVE CommitOK(commit[d])'
    BY Zenon DEF CommitsOK
  <2>1. CASE d = c
    BY <1>1, <2>1, Zenon DEF CommitOK
  <2>2. CASE d # c
    BY <1>1, <2>2, OtherCommits, Zenon
  <2> QED
    BY <2>1, <2>2, Zenon
<1> QED
  BY <1>1, <1>2, <1>3, Zenon DEF IInv

\* The topic of the next record is opened.
LEMMA CommitCreateIInv ==
  ASSUME IInv, NEW c \in Client, CommitCreate(c)
  PROVE  IInv'
<1>1. commit[c] # NoCommit /\ commit[c].next <= Len(commit[c].records)
  BY DEF CommitCreate, NoCommit
<1>2. PICK k \in CommitType : k = commit[c] /\ CommitOK(k)
  BY <1>1, CommitIs, Zenon
<1>3. k.records[k.next] \in Topic
  <2>1. k.records \in Seq(Topic) /\ k.next \in 1 .. Len(k.records)
    BY <1>1, <1>2, CommitIs
  <2> QED
    BY <2>1
<1>4. UNCHANGED <<txState, begun, log, safe>>
  BY Zenon DEF CommitCreate, logs
<1>5. Plain \in Element /\ \A id \in TxId, i \in Nat : Plain # Staged(id, i)
  BY StagedApart, Zenon DEF Element
<1>6. safe' \in [Topic -> Nat]
  BY <1>4, Zenon DEF IInv, LogTyped
<1>7. /\ LogTyped' /\ TxTyped' /\ LogsLeft'
      /\ \A id \in DOMAIN txState' : Complete(id)'
      /\ \A j \in CommitType : CommitOK(j) => CommitOK(j)'
  BY <1>3, <1>4, <1>5, <1>6, LogsStep, Zenon
<1> DEFINE m == [k EXCEPT !.pc = "append"]
<1>8. m \in CommitType /\ m.tx = k.tx /\ m.records = k.records /\ m.next = k.next
  BY Zenon DEF CommitType
<1>9. commit' = [commit EXCEPT ![c] = m]
  BY <1>2, Zenon DEF CommitCreate
<1> HIDE DEF m
<1>10. CommitOK(m)'
  BY <1>1, <1>2, <1>7, <1>8, Zenon DEF CommitOK
<1> QED
  BY <1>1, <1>2, <1>7, <1>8, <1>9, <1>10, ReplaceCommit, Zenon

\* A commit that appends its next record, or fails to.
LEMMA AppendStep ==
  ASSUME IInv, NEW k \in CommitType, CommitOK(k), k.pc = "append",
         UNCHANGED <<txState, begun>>, safe' \in [Topic -> Nat],
         AppendEntry(k.records[k.next], Staged(k.tx, k.next)) \/ UNCHANGED log
  PROVE  /\ k.next \in 1 .. Len(k.records) /\ k.records[k.next] \in Topic
         /\ LogTyped' /\ TxTyped' /\ LogsLeft'
         /\ \A id \in DOMAIN txState' : Complete(id)'
         /\ \A j \in CommitType : CommitOK(j) => CommitOK(j)'
         /\ AppendEntry(k.records[k.next], Staged(k.tx, k.next)) => In(k.tx, k.next, k.records[k.next])'
<1>1. k.records \in Seq(Topic) /\ k.next \in Nat \ {0} /\ k.tx \in TxId /\ k.next <= Len(k.records)
  BY Zenon DEF CommitType, CommitOK
<1>2. k.next \in 1 .. Len(k.records)
  BY <1>1
<1>3. k.records[k.next] \in Topic
  BY <1>1, <1>2
<1>4. PICK t \in Topic, e \in Element : t = k.records[k.next] /\ e = Staged(k.tx, k.next)
  BY <1>1, <1>3, StagedApart, Zenon
<1>5. Left(k.tx)
  BY Zenon DEF CommitOK, IInv, TxTyped, Left
<1>6. \A id \in TxId, i \in Nat : e = Staged(id, i) => Left(id)
  BY <1>4, <1>5, StagedApart, Zenon
<1>7. AppendEntry(t, e) \/ UNCHANGED log
  BY <1>4, Zenon
<1>8. /\ LogTyped' /\ TxTyped' /\ LogsLeft'
      /\ \A id \in DOMAIN txState' : Complete(id)'
      /\ \A j \in CommitType : CommitOK(j) => CommitOK(j)'
  BY <1>6, <1>7, LogsStep, Zenon
<1>9. AppendEntry(t, e) => \E o \in DOMAIN log'[t] : log'[t][o] = e
  BY <1>7, Grows, Zenon DEF IInv
<1>10. AppendEntry(k.records[k.next], Staged(k.tx, k.next)) => In(k.tx, k.next, k.records[k.next])'
  BY <1>4, <1>9, Zenon DEF In, Staged
<1> QED
  BY <1>2, <1>3, <1>8, <1>10, Zenon

\* The append of a record by the loop of CommitTransaction.
LEMMA CommitAppendIInv ==
  ASSUME IInv, NEW c \in Client, CommitAppend(c)
  PROVE  IInv'
<1>1. commit[c] # NoCommit /\ commit[c].pc = "append"
  BY DEF CommitAppend, NoCommit
<1>2. PICK k \in CommitType : k = commit[c] /\ CommitOK(k)
  BY <1>1, CommitIs, Zenon
<1>3. /\ AppendEntry(k.records[k.next], Staged(k.tx, k.next))
      /\ safe' = [safe EXCEPT ![k.records[k.next]] = Len(log[k.records[k.next]]) + 1]
      /\ UNCHANGED <<txState, begun>>
  BY <1>2, Zenon DEF CommitAppend, Appends
<1>4. safe' \in [Topic -> Nat]
  <2>1. \A u \in Topic : log[u] \in Seq(Element)
    BY Zenon DEF IInv, LogTyped
  <2>2. \A u \in Topic : Len(log[u]) + 1 \in Nat
    BY <2>1
  <2>3. safe \in [Topic -> Nat]
    BY Zenon DEF IInv, LogTyped
  <2>4. k.records \in Seq(Topic) /\ k.next \in 1 .. Len(k.records)
    BY <1>1, <1>2, CommitIs DEF CommitOK
  <2>5. k.records[k.next] \in Topic
    BY <2>4
  <2> QED
    BY <1>3, <2>2, <2>3, <2>5, Zenon
<1>5. /\ k.next \in 1 .. Len(k.records)
      /\ LogTyped' /\ TxTyped' /\ LogsLeft'
      /\ \A id \in DOMAIN txState' : Complete(id)'
      /\ \A j \in CommitType : CommitOK(j) => CommitOK(j)'
      /\ In(k.tx, k.next, k.records[k.next])'
  BY <1>1, <1>2, <1>3, <1>4, AppendStep, Zenon
<1> DEFINE m == [k EXCEPT !.pc = "create", !.next = k.next + 1]
<1>6. m \in CommitType /\ m.tx = k.tx /\ m.records = k.records /\ m.next = k.next + 1 /\ m.pc = "create"
  <2>1. PICK n \in Nat \ {0} : n = k.next + 1
    BY DEF CommitType
  <2>2. m = [k EXCEPT !.pc = "create", !.next = n]
    BY <2>1, Zenon
  <2>3. \A h : h = [k EXCEPT !.pc = "create", !.next = n]
          => h \in CommitType /\ h.tx = k.tx /\ h.records = k.records /\ h.next = n /\ h.pc = "create"
    BY Zenon DEF CommitType
  <2> QED
    BY <2>1, <2>2, <2>3, Zenon
<1>7. commit' = [commit EXCEPT ![c] = m]
  BY <1>2, Zenon DEF CommitAppend
<1> HIDE DEF m
<1>8. CommitOK(m)'
  <2>1. CommitOK(k)' /\ k.next \in Nat
    BY <1>2, <1>5, Zenon DEF CommitType
  <2>2. \A i \in 1 .. Len(k.records) : i < k.next + 1 => i < k.next \/ i = k.next
    BY <2>1
  <2>3. \A i \in 1 .. Len(m.records) : i < m.next => In(m.tx, i, m.records[i])'
    BY <1>5, <1>6, <2>1, <2>2, Zenon DEF CommitOK
  <2> QED
    BY <1>6, <2>1, <2>3, Zenon DEF CommitOK
<1> QED
  BY <1>1, <1>2, <1>5, <1>6, <1>7, <1>8, ReplaceCommit, Zenon

\* The loop gives up; what it appended stays.
LEMMA CommitFailsIInv ==
  ASSUME IInv, NEW c \in Client, CommitFails(c)
  PROVE  IInv'
<1>1. commit[c] # NoCommit
  BY DEF CommitFails, NoCommit
<1>2. PICK k \in CommitType : k = commit[c] /\ CommitOK(k)
  BY <1>1, CommitIs, Zenon
<1>3. UNCHANGED <<txState, begun, safe>> /\ commit' = [commit EXCEPT ![c] = NoCommit]
  BY Zenon DEF CommitFails, ProduceError, AppendFails, logs
<1>4. safe' \in [Topic -> Nat]
  BY <1>3, Zenon DEF IInv, LogTyped
<1>5. /\ LogTyped' /\ TxTyped' /\ LogsLeft'
      /\ \A id \in DOMAIN txState' : Complete(id)'
      /\ \A j \in CommitType : CommitOK(j) => CommitOK(j)'
  <2>1. CASE k.pc = "append"
    <3>1. AppendEntry(k.records[k.next], Staged(k.tx, k.next)) \/ UNCHANGED log
      BY <1>2, <2>1, Zenon DEF CommitFails, ProduceError, AppendFails, logs
    <3> QED
      BY <1>2, <1>3, <1>4, <2>1, <3>1, AppendStep, Zenon
  <2>2. CASE k.pc # "append"
    <3>1. UNCHANGED log /\ k.next <= Len(k.records)
      BY <1>2, <2>2, Zenon DEF CommitFails, CreateFails, logs
    <3>2. k.records \in Seq(Topic) /\ k.next \in 1 .. Len(k.records)
      BY <1>1, <1>2, <3>1, CommitIs
    <3>3. k.records[k.next] \in Topic
      BY <3>2
    <3>4. Plain \in Element /\ \A id \in TxId, i \in Nat : Plain # Staged(id, i)
      BY StagedApart, Zenon DEF Element
    <3> QED
      BY <1>3, <1>4, <3>1, <3>3, <3>4, LogsStep, Zenon
  <2> QED
    BY <2>1, <2>2, Zenon
<1> QED
  BY <1>1, <1>3, <1>5, ReplaceCommit, Zenon

\* What a restart leaves of a log: a beginning, all of it safe.
LEMMA RestartLeaves ==
  ASSUME IInv, Restart, NEW t \in Topic
  PROVE  /\ safe'[t] \in Nat /\ DOMAIN log'[t] = 1 .. safe'[t]
         /\ log'[t] \in Seq(Element)
         /\ \A o \in DOMAIN log'[t] : o \in DOMAIN log[t] /\ log'[t][o] = log[t][o]
<1>1. PICK exposed : safe' \in Found(exposed)
  BY Zenon DEF Restart, BrokerRestart
<1>2. log' = [u \in Topic |-> SubSeq(log[u], 1, safe'[u])]
  BY Zenon DEF Restart, BrokerRestart
<1>3. log[t] \in Seq(Element)
  BY Zenon DEF IInv, LogTyped
<1>4. safe'[t] \in UNION {0 .. Len(log[u]) : u \in Topic} /\ safe'[t] <= Len(log[t])
  BY <1>1, Zenon DEF Found
<1>5. PICK u \in Topic : safe'[t] \in 0 .. Len(log[u])
  BY <1>4, Zenon
<1>6. safe'[t] \in Nat
  BY <1>5
<1>7. log'[t] = SubSeq(log[t], 1, safe'[t])
  BY <1>2, Zenon
<1> QED
  BY <1>3, <1>4, <1>6, <1>7

\* A restart forgets the transactions, and leaves a beginning of each log.
LEMMA RestartIInv ==
  ASSUME IInv, Restart
  PROVE  IInv'
<1>1. /\ begun' = begun /\ DOMAIN txState' = {}
      /\ txState' = [id \in {} |-> 0] /\ commit' = [c \in Client |-> NoCommit]
  BY Zenon DEF Restart
<1>2. LogTyped'
  <2>1. log' = [t \in Topic |-> log'[t]] /\ safe' = [t \in Topic |-> safe'[t]]
    <3>1. PICK exposed : safe' \in Found(exposed)
      BY Zenon DEF Restart, BrokerRestart
    <3> QED
      BY <3>1, Zenon DEF Restart, BrokerRestart, Found
  <2> QED
    BY <2>1, RestartLeaves, Zenon DEF LogTyped
<1>3. TxTyped'
  BY <1>1, Zenon DEF IInv, TxTyped
<1>4. CommitTyped' /\ CommitsOK' /\ Alone'
  BY <1>1, Zenon DEF CommitTyped, CommitsOK, Alone
<1>5. LogsLeft'
  <2>1. \A id : Left(id) => Left(id)'
    BY <1>1, Zenon DEF Left
  <2> QED
    BY <2>1, RestartLeaves DEF IInv, LogsLeft
<1> QED
  BY <1>1, <1>2, <1>3, <1>4, <1>5, Zenon DEF IInv

\* The drain window opens or closes.
LEMMA SameIInv ==
  ASSUME IInv, UNCHANGED <<log, safe, txVars>>
  PROVE  IInv'
<1>1. UNCHANGED <<log, safe, txState, begun, commit>>
  BY Zenon DEF txVars
<1> QED
  BY <1>1 DEF IInv, LogTyped, TxTyped, CommitTyped, LogsLeft, Left, CommitsOK, CommitOK, In, Alone, Complete

\* Every step keeps the invariant.
LEMMA Invariance == IInv /\ [Next]_vars => IInv'
<1> SUFFICES ASSUME IInv, [Next]_vars PROVE IInv'
  BY Zenon
<1>1. ASSUME NEW t \in Topic, OpenTopic(t) PROVE IInv'
  <2>1. UNCHANGED <<log, safe, txVars>>
    BY <1>1, Zenon DEF OpenTopic, logs
  <2> QED
    BY <2>1, SameIInv, Zenon
<1>2. ASSUME NEW t \in Topic, PlainProduce(t) PROVE IInv'
  <2>1. UNCHANGED txVars /\ (AppendEntry(t, Plain) \/ UNCHANGED log)
    BY <1>2, Zenon DEF PlainProduce, Produce, Appends, AppendFails
  <2>2. safe' = safe \/ safe' = [safe EXCEPT ![t] = Len(log[t]) + 1]
    BY <1>2, Zenon DEF PlainProduce, Produce, Appends, AppendFails
  <2>3. safe \in [Topic -> Nat] /\ log[t] \in Seq(Element)
    BY Zenon DEF IInv, LogTyped
  <2>4. Len(log[t]) + 1 \in Nat
    BY <2>3
  <2>5. safe' \in [Topic -> Nat]
    BY <2>2, <2>3, <2>4, Zenon
  <2> QED
    BY <2>1, <2>5, BrokerIInv, Zenon
<1>3. ASSUME NEW id \in TxId, BeginTransaction(id) \/ AbortTransaction(id) PROVE IInv'
  BY <1>3, StageIInv, Zenon
<1>4. ASSUME NEW id \in TxId, NEW t \in Topic, TxProduce(id, t) PROVE IInv'
  BY <1>4, StageIInv, Zenon
<1>5. ASSUME NEW c \in Client, NEW id \in TxId, CommitStart(c, id) PROVE IInv'
  BY <1>5, CommitStartIInv, Zenon
<1>6. ASSUME NEW c \in Client, CommitStep(c) PROVE IInv'
  BY <1>6, CommitCreateIInv, CommitAppendIInv, CommitFailsIInv, CommitEndIInv, Zenon DEF CommitStep
<1>7. CASE DrainWindow
  <2>1. UNCHANGED <<log, safe, txVars>>
    BY <1>7, Zenon DEF DrainWindow, Drain, DrainEnds, logs
  <2> QED
    BY <2>1, SameIInv, Zenon
<1>8. CASE Restart
  BY <1>8, RestartIInv, Zenon
<1>9. CASE UNCHANGED vars
  <2>1. UNCHANGED <<log, safe, txVars>>
    BY <1>9, Zenon DEF vars, brokerVars, logs
  <2> QED
    BY <2>1, SameIInv, Zenon
<1> QED
  BY <1>1, <1>2, <1>3, <1>4, <1>5, <1>6, <1>7, <1>8, <1>9, Zenon DEF Next

\* "append only on commit", for any number of clients, topics and records:
\* CommitTransaction marks the transaction before its first append, and no
\* later call takes the mark back.
THEOREM BeforeCommit == Spec => []NothingBeforeCommit
<1>1. IInv => NothingBeforeCommit
  <2> SUFFICES ASSUME IInv, NEW id \in TxId, Appended(id) # {}
               PROVE  Left(id)
    BY Zenon DEF NothingBeforeCommit, Left
  <2>1. PICK i \in 1 .. MaxStaged, t \in Topic : Copies(id, i, t) # {}
    BY Zenon DEF Appended
  <2>2. PICK o \in DOMAIN log[t] : log[t][o] = Staged(id, i)
    BY <2>1, Zenon DEF Copies
  <2>3. i \in Nat
    BY <2>1, StagedAssumption
  <2> QED
    BY <2>2, <2>3, Zenon DEF IInv, LogsLeft
<1> QED
  BY <1>1, InitIInv, Invariance, PTL DEF Spec

\* A transaction that reports "committed" is in the logs as a whole, whatever
\* calls, drains and failures fell between the steps of its commit: the last
\* section of CommitTransaction runs only after the loop over the records.
THEOREM CommittedWhole == Spec => []CommittedComplete
<1>1. IInv => CommittedComplete
  <2> SUFFICES ASSUME IInv, NEW id \in DOMAIN txState, txState[id].status = "committed",
                      NEW i \in DOMAIN txState[id].records
               PROVE  Copies(id, i, txState[id].records[i]) # {}
    BY Zenon DEF CommittedComplete
  <2>1. txState[id].records \in Seq(Topic)
    BY Zenon DEF IInv, TxTyped, TxType
  <2>2. i \in 1 .. Len(txState[id].records)
    BY <2>1
  <2>3. In(id, i, txState[id].records[i])
    BY <2>2, Zenon DEF IInv, Complete
  <2> QED
    BY <2>3, Zenon DEF In, Copies
<1> QED
  BY <1>1, InitIInv, Invariance, PTL DEF Spec

-----------------------------------------------------------------------------
\* Offset o of topic t holds record i of the transaction.
At(t, o, id, i) == o \in DOMAIN log[t] /\ log[t][o] = Staged(id, i)

\* Record i of the transaction is in the safe part of a log, or a restart
\* dropped it from there.
Kept(id, i) ==
  \/ Staged(id, i) \in lost
  \/ \E t \in Topic, o \in Nat : o <= safe[t] /\ At(t, o, id, i)

\* Exactly the records before n have been appended, and acknowledged.
Reached(id, n) ==
  /\ \A t \in Topic, o \in Nat, i \in Nat : At(t, o, id, i) => i < n
  /\ \A i \in 1 .. n - 1 : Kept(id, i)

\* A record is in one place; the places of a topic follow the staging order;
\* what comes before a record that is there is, or was, safely there.
Once ==
  \A id \in TxId, i \in Nat, t \in Topic, u \in Topic, o \in Nat, q \in Nat :
    At(t, o, id, i) /\ At(u, q, id, i) => t = u /\ o = q

InOrder ==
  \A id \in TxId, i \in Nat, j \in Nat, t \in Topic, o \in Nat, q \in Nat :
    At(t, o, id, i) /\ At(t, q, id, j) /\ i < j => o < q

Before ==
  \A id \in TxId, i \in Nat, t \in Topic, o \in Nat :
    At(t, o, id, i) => \A j \in 1 .. i - 1 : Kept(id, j)

Ordered == Once /\ InOrder /\ Before

CommitsReach == \A c \in Client : commit[c] # NoCommit => Reached(commit[c].tx, commit[c].next)

\* The logs after an append: what was there, and e at the end of t.
LEMMA AppendedTo ==
  ASSUME IInv, NEW t \in Topic, NEW e \in Element, AppendEntry(t, e),
         safe' = safe \/ safe' = [safe EXCEPT ![t] = Len(log[t]) + 1],
         lost' = lost, NEW l, l = Len(log[t]) + 1
  PROVE  /\ \A u \in Topic, o \in Nat : \A id, i : At(u, o, id, i) => At(u, o, id, i)'
         /\ \A u \in Topic, o \in Nat : \A id, i :
              At(u, o, id, i)' => At(u, o, id, i) \/ (u = t /\ o = l /\ e = Staged(id, i))
         /\ \A id, i : e = Staged(id, i) => At(t, l, id, i)'
         /\ \A o \in Nat : \A id, i : At(t, o, id, i) => o < l
         /\ \A id, i : Kept(id, i) => Kept(id, i)'
         /\ l \in Nat
<1>1. log \in [Topic -> Seq(Element)] /\ safe \in [Topic -> Nat]
  BY Zenon DEF IInv, LogTyped
<1>2. \A u \in Topic : u # t => log'[u] = log[u]
  BY <1>1, Zenon DEF AppendEntry
<1>3. log'[t] = Append(log[t], e)
  BY <1>1, Zenon DEF AppendEntry
<1>4. log[t] \in Seq(Element) /\ Len(log[t]) \in Nat /\ l \in Nat
  BY <1>1
<1>5. /\ DOMAIN log[t] = 1 .. Len(log[t]) /\ DOMAIN log'[t] = 1 .. l
      /\ \A o \in 1 .. Len(log[t]) : log'[t][o] = log[t][o]
      /\ log'[t][l] = e
  BY <1>3, <1>4
<1>6. /\ \A o \in DOMAIN log[t] : o \in DOMAIN log'[t] /\ log'[t][o] = log[t][o] /\ o < l
      /\ \A o \in DOMAIN log'[t] : (o \in DOMAIN log[t] /\ log'[t][o] = log[t][o]) \/ (o = l /\ log'[t][o] = e)
      /\ l \in DOMAIN log'[t] /\ log'[t][l] = e
  BY <1>4, <1>5
<1>7. \A u \in Topic, o \in Nat : \A id, i : At(u, o, id, i) => At(u, o, id, i)'
  BY <1>2, <1>6, Zenon DEF At
<1>8. ASSUME NEW u \in Topic, NEW o \in Nat, NEW id, NEW i, At(u, o, id, i)'
      PROVE  At(u, o, id, i) \/ (u = t /\ o = l /\ e = Staged(id, i))
  <2>1. CASE u # t
    BY <1>2, <1>8, <2>1, Zenon DEF At
  <2>2. CASE u = t
    BY <1>6, <1>8, <2>2, Zenon DEF At
  <2> QED
    BY <2>1, <2>2, Zenon
<1>9. \A id, i : e = Staged(id, i) => At(t, l, id, i)'
  BY <1>6, Zenon DEF At
<1>10. \A o \in Nat : \A id, i : At(t, o, id, i) => o < l
  BY <1>6, Zenon DEF At
<1>11. \A u \in Topic : safe'[u] = safe[u] \/ (u = t /\ safe'[u] = l)
  BY <1>1, Zenon
<1>12. ASSUME NEW id, NEW i, Kept(id, i) PROVE Kept(id, i)'
  <2> SUFFICES ASSUME Staged(id, i) \notin lost PROVE Kept(id, i)'
    BY Zenon DEF Kept
  <2>1. PICK u \in Topic, o \in Nat : o <= safe[u] /\ At(u, o, id, i)
    BY <1>12, Zenon DEF Kept
  <2>2. At(u, o, id, i)'
    BY <1>7, <2>1, Zenon
  <2>3. o <= safe'[u]
    BY <1>4, <1>10, <1>11, <2>1
  <2> QED
    BY <2>2, <2>3, Zenon DEF Kept
<1> QED
  BY <1>4, <1>7, <1>8, <1>9, <1>10, <1>12, Zenon

\* An entry that is no record, or nothing, is appended.
LEMMA PlainOrdered ==
  ASSUME IInv, Ordered, NEW t \in Topic, AppendEntry(t, Plain) \/ UNCHANGED log,
         safe' = safe \/ (AppendEntry(t, Plain) /\ safe' = [safe EXCEPT ![t] = Len(log[t]) + 1]),
         lost' = lost
  PROVE  Ordered' /\ \A id, n : Reached(id, n) => Reached(id, n)'
<1>1. Plain \in Element /\ \A id, i : Plain # Staged(id, i)
  BY StagedApart, Zenon DEF Element
<1>2. /\ \A u \in Topic, o \in Nat : \A id, i : At(u, o, id, i)' => At(u, o, id, i)
      /\ \A id, i : Kept(id, i) => Kept(id, i)'
  <2>1. CASE AppendEntry(t, Plain)
    BY <1>1, <2>1, AppendedTo
  <2>2. CASE UNCHANGED <<log, safe, lost>>
    BY <2>2, Zenon DEF At, Kept
  <2> QED
    BY <2>1, <2>2, Zenon
<1>3. Once' /\ InOrder' /\ Before'
  <2>1. Once /\ InOrder /\ Before
    BY Zenon DEF Ordered
  <2>2. Once'
    BY <1>2, <2>1 DEF Once
  <2>3. InOrder'
    BY <1>2, <2>1, Zenon DEF InOrder
  <2>4. Before'
    BY <1>2, <2>1, Zenon DEF Before
  <2> QED
    BY <2>2, <2>3, <2>4, Zenon
<1>4. ASSUME NEW id, NEW n, Reached(id, n) PROVE Reached(id, n)'
  BY <1>2, <1>4, Zenon DEF Reached
<1> QED
  BY <1>3, <1>4, Zenon DEF Ordered

\* A commit appends its next record.
LEMMA RecordOrdered ==
  ASSUME IInv, Ordered, NEW id \in TxId, NEW n \in Nat \ {0}, Reached(id, n),
         NEW t \in Topic, AppendEntry(t, Staged(id, n)),
         safe' = safe \/ safe' = [safe EXCEPT ![t] = Len(log[t]) + 1],
         lost' = lost
  PROVE  /\ Ordered'
         /\ safe' = [safe EXCEPT ![t] = Len(log[t]) + 1] => Reached(id, n + 1)'
         /\ \A jd, m : jd # id /\ Reached(jd, m) => Reached(jd, m)'
<1>1. PICK e \in Element : e = Staged(id, n)
  BY StagedApart, Zenon
<1>2. PICK l : l = Len(log[t]) + 1
  BY Zenon
<1>3. AppendEntry(t, e)
  BY <1>1, Zenon
<1>4. /\ \A u \in Topic, o \in Nat : \A jd, i :
           At(u, o, jd, i)' => At(u, o, jd, i) \/ (u = t /\ o = l /\ e = Staged(jd, i))
      /\ At(t, l, id, n)'
      /\ \A o \in Nat : \A jd, i : At(t, o, jd, i) => o < l
      /\ \A jd, i : Kept(jd, i) => Kept(jd, i)'
      /\ l \in Nat
  BY <1>1, <1>2, <1>3, AppendedTo
<1>5. ASSUME NEW u \in Topic, NEW o \in Nat, NEW jd, NEW i, At(u, o, jd, i)'
      PROVE  At(u, o, jd, i) \/ (u = t /\ o = l /\ jd = id /\ i = n)
  BY <1>1, <1>4, <1>5, StagedApart
<1>6. \A u \in Topic, o \in Nat, i \in Nat : At(u, o, id, i) => i < n
  BY Zenon DEF Reached
<1>7. Once /\ InOrder /\ Before
  BY Zenon DEF Ordered
<1>8. Once'
  <2> SUFFICES ASSUME NEW jd \in TxId, NEW i \in Nat, NEW u \in Topic, NEW v \in Topic, NEW o \in Nat, NEW q \in Nat,
                      At(u, o, jd, i)', At(v, q, jd, i)'
               PROVE  u = v /\ o = q
    BY Zenon DEF Once
  <2>1. At(u, o, jd, i) \/ (u = t /\ o = l /\ jd = id /\ i = n)
    BY <1>5, Zenon
  <2>2. At(v, q, jd, i) \/ (v = t /\ q = l /\ jd = id /\ i = n)
    BY <1>5, Zenon
  <2>3. jd = id /\ i = n => ~At(u, o, jd, i) /\ ~At(v, q, jd, i)
    BY <1>6
  <2> QED
    BY <1>7, <2>1, <2>2, <2>3, Zenon DEF Once
<1>9. InOrder'
  <2> SUFFICES ASSUME NEW jd \in TxId, NEW i \in Nat, NEW j \in Nat, NEW u \in Topic, NEW o \in Nat, NEW q \in Nat,
                      At(u, o, jd, i)', At(u, q, jd, j)', i < j
               PROVE  o < q
    BY Zenon DEF InOrder
  <2>1. At(u, o, jd, i) \/ (u = t /\ o = l /\ jd = id /\ i = n)
    BY <1>5, Zenon
  <2>2. At(u, q, jd, j) \/ (u = t /\ q = l /\ jd = id /\ j = n)
    BY <1>5, Zenon
  <2>3. jd = id /\ i = n => ~At(u, q, jd, j) /\ j # n
    BY <1>6
  <2> QED
    BY <1>4, <1>7, <2>1, <2>2, <2>3 DEF InOrder
<1>10. \A i \in 1 .. n - 1 : Kept(id, i)'
  BY <1>4, Zenon DEF Reached
<1>11. Before'
  <2> SUFFICES ASSUME NEW jd \in TxId, NEW i \in Nat, NEW u \in Topic, NEW o \in Nat, At(u, o, jd, i)', NEW j \in 1 .. i - 1
               PROVE  Kept(jd, j)'
    BY Zenon DEF Before
  <2>1. CASE At(u, o, jd, i)
    BY <1>4, <1>7, <2>1, Zenon DEF Before
  <2>2. CASE jd = id /\ i = n
    BY <1>10, <2>2, Zenon
  <2> QED
    BY <1>5, <2>1, <2>2
<1>12. ASSUME safe' = [safe EXCEPT ![t] = Len(log[t]) + 1] PROVE Reached(id, n + 1)'
  <2>1. safe'[t] = l
    BY <1>2, <1>12, Zenon DEF IInv, LogTyped
  <2>2. l <= safe'[t]
    BY <1>4, <2>1
  <2>3. Kept(id, n)'
    BY <1>4, <2>2, Zenon DEF Kept
  <2>4. \A i \in 1 .. (n + 1) - 1 : i \in 1 .. n - 1 \/ i = n
    OBVIOUS
  <2>5. \A u \in Topic, o \in Nat, i \in Nat : At(u, o, id, i)' => i < n + 1
    <3> SUFFICES ASSUME NEW u \in Topic, NEW o \in Nat, NEW i \in Nat, At(u, o, id, i)'
                 PROVE  i < n + 1
      BY Zenon
    <3>1. i < n \/ i = n
      BY <1>5, <1>6, Zenon
    <3> QED
      BY <3>1
  <2> QED
    BY <1>10, <2>3, <2>4, <2>5, Zenon DEF Reached
<1>13. ASSUME NEW jd, NEW m, jd # id, Reached(jd, m) PROVE Reached(jd, m)'
  <2>1. \A u \in Topic, o \in Nat, i \in Nat : At(u, o, jd, i)' => At(u, o, jd, i)
    BY <1>5, <1>13
  <2> QED
    BY <1>4, <1>13, <2>1, Zenon DEF Reached
<1> QED
  BY <1>8, <1>9, <1>11, <1>12, <1>13, Zenon DEF Ordered

\* The topic of the record a commit is about to append.
LEMMA NextTopic ==
  ASSUME NEW k \in CommitType, CommitOK(k), k.pc = "append"
  PROVE  k.next \in 1 .. Len(k.records) /\ k.records[k.next] \in Topic
<1>1. k.records \in Seq(Topic) /\ k.next \in Nat \ {0} /\ k.next <= Len(k.records)
  BY Zenon DEF CommitType, CommitOK
<1>2. k.next \in 1 .. Len(k.records)
  BY <1>1
<1> QED
  BY <1>1, <1>2

\* The commits of other clients, of other transactions all, reach what they
\* did, and the commit of c reaches record n or is over.
LEMMA OthersReach ==
  ASSUME CommitsReach, NEW c \in Client, NEW id \in TxId, NEW n \in Nat,
         commit'[c] # NoCommit => commit'[c].tx = id /\ commit'[c].next = n /\ Reached(id, n)',
         \A d \in Client : d # c => commit'[d] = commit[d],
         \A d \in Client : d # c /\ commit[d] # NoCommit => commit[d].tx # id,
         \A jd, i : jd # id /\ Reached(jd, i) => Reached(jd, i)'
  PROVE  CommitsReach'
<1> SUFFICES ASSUME NEW d \in Client, commit'[d] # NoCommit
             PROVE  Reached(commit[d].tx, commit[d].next)'
  BY Zenon DEF CommitsReach
<1>1. PICK jd, i : jd = commit'[d].tx /\ i = commit'[d].next
  BY Zenon
<1>2. Reached(jd, i)'
  <2>1. CASE d = c
    BY <1>1, <2>1, Zenon
  <2>2. CASE d # c
    BY <1>1, <2>2, Zenon DEF CommitsReach
  <2> QED
    BY <2>1, <2>2, Zenon
<1> QED
  BY <1>1, <1>2, Zenon

\* Nothing changes in the logs.
LEMMA SameOrdered ==
  ASSUME Ordered, UNCHANGED <<log, safe, lost>>
  PROVE  Ordered' /\ \A id, n : Reached(id, n) => Reached(id, n)'
<1>1. /\ \A t, o, id, i : At(t, o, id, i)' <=> At(t, o, id, i)
      /\ \A id, i : Kept(id, i)' <=> Kept(id, i)
  BY Zenon DEF At, Kept
<1>2. Once' /\ InOrder' /\ Before'
  BY <1>1 DEF Ordered, Once, InOrder, Before
<1>3. \A id, n : Reached(id, n) => Reached(id, n)'
  BY <1>1, Zenon DEF Reached
<1> QED
  BY <1>2, <1>3, Zenon DEF Ordered

\* The steps of a commit, from the mark to the return.
LEMMA CommitStartOrdered ==
  ASSUME IInv, Ordered, CommitsReach, NEW c \in Client, NEW id \in TxId, CommitStart(c, id)
  PROVE  Ordered' /\ CommitsReach'
<1>1. UNCHANGED <<log, safe, lost>> /\ Open(id)
  BY Zenon DEF CommitStart, brokerVars, logs
<1>2. /\ commit'[c].tx = id /\ commit'[c].next = 1
      /\ \A d \in Client : d # c => commit'[d] = commit[d]
  BY Zenon DEF CommitStart, IInv, CommitTyped
<1>3. Ordered' /\ \A jd, n : Reached(jd, n) => Reached(jd, n)'
  BY <1>1, SameOrdered, Zenon
<1>4. Reached(id, 1)
  <2>1. ~Left(id)
    BY <1>1, Zenon DEF Open, Left
  <2>2. \A t \in Topic, o \in Nat, i \in Nat : ~At(t, o, id, i)
    BY <2>1, Zenon DEF IInv, LogsLeft, At
  <2> QED
    BY <2>2 DEF Reached
<1>5. \A d \in Client : d # c /\ commit[d] # NoCommit => commit[d].tx # id
  BY <1>1, CommitLeft, Zenon DEF Open, Left
<1>6. CommitsReach'
  BY <1>2, <1>3, <1>4, <1>5, OthersReach, Zenon
<1> QED
  BY <1>3, <1>6, Zenon

\* A step of CommitTransaction keeps the order.
LEMMA CommitStepOrdered ==
  ASSUME IInv, Ordered, CommitsReach, NEW c \in Client, CommitStep(c)
  PROVE  Ordered' /\ CommitsReach'
<1>1. commit[c] # NoCommit
  BY DEF CommitStep, CommitCreate, CommitAppend, CommitFails, CommitEnd, NoCommit
<1>2. PICK k \in CommitType : k = commit[c] /\ CommitOK(k)
  BY <1>1, CommitIs, Zenon
<1>3. PICK id \in TxId, n \in Nat \ {0} : id = k.tx /\ n = k.next /\ Reached(id, n)
  BY <1>1, <1>2, CommitIs, Zenon DEF CommitsReach
<1>4. \A d \in Client : d # c /\ commit[d] # NoCommit => commit[d].tx # id
  BY <1>1, <1>2, <1>3, Zenon DEF IInv, Alone
<1>5. commit \in [Client -> {NoCommit} \cup CommitType]
  BY Zenon DEF IInv, CommitTyped
<1>6. CASE CommitCreate(c)
  <2>1. UNCHANGED <<log, safe, lost>> /\ commit' = [commit EXCEPT ![c] = [k EXCEPT !.pc = "append"]]
    BY <1>2, <1>6, Zenon DEF CommitCreate, logs
  <2>2. /\ commit'[c].tx = id /\ commit'[c].next = n
        /\ \A d \in Client : d # c => commit'[d] = commit[d]
    BY <1>3, <1>5, <2>1, Zenon DEF CommitType
  <2>3. Ordered' /\ \A jd, i : Reached(jd, i) => Reached(jd, i)'
    BY <2>1, SameOrdered, Zenon
  <2> QED
    BY <1>3, <1>4, <2>2, <2>3, OthersReach
<1>7. CASE CommitEnd(c)
  <2>1. UNCHANGED <<log, safe, lost>> /\ commit' = [commit EXCEPT ![c] = NoCommit]
    BY <1>7, Zenon DEF CommitEnd, brokerVars, logs
  <2>2. commit'[c] = NoCommit /\ \A d \in Client : d # c => commit'[d] = commit[d]
    BY <1>5, <2>1, Zenon
  <2>3. Ordered' /\ \A jd, i : Reached(jd, i) => Reached(jd, i)'
    BY <2>1, SameOrdered, Zenon
  <2> QED
    BY <1>4, <2>2, <2>3, OthersReach
<1>8. CASE CommitAppend(c)
  <2>1. PICK t : t = k.records[k.next]
    BY Zenon
  <2>2. /\ AppendEntry(t, Staged(id, n)) /\ lost' = lost
        /\ safe' = [safe EXCEPT ![t] = Len(log[t]) + 1]
        /\ commit' = [commit EXCEPT ![c] = [k EXCEPT !.pc = "create", !.next = k.next + 1]]
    BY <1>2, <1>3, <1>8, <2>1, Zenon DEF CommitAppend, Appends
  <2>3. t \in Topic
    <3>1. k.pc = "append"
      BY <1>2, <1>8, Zenon DEF CommitAppend
    <3> QED
      BY <1>2, <2>1, <3>1, NextTopic, Zenon
  <2>4. Ordered' /\ Reached(id, n + 1)' /\ \A jd, i : jd # id /\ Reached(jd, i) => Reached(jd, i)'
    BY <1>3, <2>2, <2>3, RecordOrdered, Zenon
  <2>5. /\ commit'[c].tx = id /\ commit'[c].next = n + 1
        /\ \A d \in Client : d # c => commit'[d] = commit[d]
    BY <1>3, <1>5, <2>2, Zenon DEF CommitType
  <2>6. n + 1 \in Nat
    OBVIOUS
  <2> QED
    BY <1>4, <2>4, <2>5, <2>6, OthersReach, Zenon
<1>9. CASE CommitFails(c)
  <2>1. commit' = [commit EXCEPT ![c] = NoCommit] /\ safe' = safe /\ lost' = lost
    BY <1>9, Zenon DEF CommitFails, ProduceError, AppendFails, logs
  <2>2. Ordered' /\ \A jd, i : jd # id /\ Reached(jd, i) => Reached(jd, i)'
    <3>1. CASE UNCHANGED log
      BY <2>1, <3>1, SameOrdered, Zenon
    <3>2. CASE ~UNCHANGED log
      <4>1. PICK t : t = k.records[k.next]
        BY Zenon
      <4>2. k.pc = "append" /\ AppendEntry(t, Staged(id, n))
        BY <1>2, <1>3, <1>9, <3>2, <4>1, Zenon DEF CommitFails, ProduceError, AppendFails, logs
      <4>3. t \in Topic
        BY <1>2, <4>1, <4>2, NextTopic, Zenon
      <4> QED
        BY <1>3, <2>1, <4>2, <4>3, RecordOrdered, Zenon
    <3> QED
      BY <3>1, <3>2, Zenon
  <2>3. commit'[c] = NoCommit /\ \A d \in Client : d # c => commit'[d] = commit[d]
    BY <1>5, <2>1, Zenon
  <2> QED
    BY <1>4, <2>2, <2>3, OthersReach
<1> QED
  BY <1>6, <1>7, <1>8, <1>9, Zenon DEF CommitStep

\* What a restart drops from the safe part of a log is lost, what it leaves
\* was there before, and there are no commits.
LEMMA RestartOrdered ==
  ASSUME IInv, Ordered, Restart
  PROVE  Ordered' /\ CommitsReach'
<1>1. commit' = [c \in Client |-> NoCommit] /\ lost' = lost \cup (Dropped \ {Plain})
  BY Zenon DEF Restart
<1>2. \A t \in Topic, o \in Nat : \A id, i : At(t, o, id, i)' => At(t, o, id, i)
  BY RestartLeaves, Zenon DEF At
<1>3. ASSUME NEW id, NEW i, Kept(id, i) PROVE Kept(id, i)'
  <2> SUFFICES ASSUME Staged(id, i) \notin lost PROVE Kept(id, i)'
    BY <1>1, Zenon DEF Kept
  <2>1. PICK t \in Topic, o \in Nat : o <= safe[t] /\ At(t, o, id, i)
    BY <1>3, Zenon DEF Kept
  <2>2. /\ safe'[t] \in Nat /\ DOMAIN log'[t] = 1 .. safe'[t]
        /\ \A q \in DOMAIN log'[t] : log'[t][q] = log[t][q]
    BY RestartLeaves, Zenon
  <2>3. log[t] \in Seq(Element) /\ safe[t] \in Nat
    BY Zenon DEF IInv, LogTyped
  <2>4. o \in 1 .. Len(log[t]) /\ log[t][o] = Staged(id, i)
    BY <2>1, <2>3 DEF At
  <2>5. CASE o <= safe'[t]
    <3>1. o \in DOMAIN log'[t]
      BY <2>2, <2>4, <2>5
    <3>2. At(t, o, id, i)'
      BY <2>2, <2>4, <3>1, Zenon DEF At
    <3> QED
      BY <2>5, <3>2, Zenon DEF Kept
  <2>6. CASE ~(o <= safe'[t])
    <3>1. o \in safe'[t] + 1 .. safe[t]
      BY <2>1, <2>2, <2>3, <2>6
    <3>2. Staged(id, i) \in {log[t][q] : q \in safe'[t] + 1 .. safe[t]}
      BY <2>4, <3>1, Zenon
    <3>3. Staged(id, i) \in Dropped
      BY <3>2, Zenon DEF Dropped
    <3>4. Staged(id, i) # Plain
      BY StagedApart, Zenon
    <3> QED
      BY <1>1, <3>3, <3>4, Zenon DEF Kept
  <2> QED
    BY <2>5, <2>6, Zenon
<1>4. Once /\ InOrder /\ Before
  BY Zenon DEF Ordered
<1>5. Once' /\ InOrder'
  BY <1>2, <1>4 DEF Once, InOrder
<1>6. Before'
  BY <1>2, <1>3, <1>4, Zenon DEF Before
<1>7. CommitsReach'
  BY <1>1, Zenon DEF CommitsReach
<1> QED
  BY <1>5, <1>6, <1>7, Zenon DEF Ordered

\* Every step keeps the order.
LEMMA OrderedStep == IInv /\ Ordered /\ CommitsReach /\ [Next]_vars => Ordered' /\ CommitsReach'
<1> SUFFICES ASSUME IInv, Ordered, CommitsReach, [Next]_vars PROVE Ordered' /\ CommitsReach'
  BY Zenon
<1>1. ASSUME UNCHANGED commit, Ordered', \A id, n : Reached(id, n) => Reached(id, n)'
      PROVE  Ordered' /\ CommitsReach'
  <2> SUFFICES ASSUME NEW c \in Client, commit'[c] # NoCommit
               PROVE  Reached(commit[c].tx, commit[c].next)'
    BY <1>1, Zenon DEF CommitsReach
  <2>1. PICK id, n : id = commit[c].tx /\ n = commit[c].next
    BY Zenon
  <2>2. Reached(id, n)'
    BY <1>1, <2>1, Zenon DEF CommitsReach
  <2> QED
    BY <1>1, <2>1, <2>2, Zenon
<1>2. ASSUME UNCHANGED <<log, safe, commit, lost>> PROVE Ordered' /\ CommitsReach'
  BY <1>1, <1>2, SameOrdered, Zenon
<1>3. CASE \/ \E t \in Topic : OpenTopic(t)
           \/ \E id \in TxId : BeginTransaction(id) \/ AbortTransaction(id)
           \/ \E id \in TxId, t \in Topic : TxProduce(id, t)
           \/ DrainWindow \/ UNCHANGED vars
  BY <1>2, <1>3, Zenon DEF OpenTopic, BeginTransaction, AbortTransaction, TxProduce, DrainWindow, Drain, DrainEnds,
                           vars, brokerVars, logs, txVars
<1>4. ASSUME NEW t \in Topic, PlainProduce(t) PROVE Ordered' /\ CommitsReach'
  <2>1. /\ UNCHANGED <<commit, lost>>
        /\ AppendEntry(t, Plain) \/ UNCHANGED log
        /\ safe' = safe \/ (AppendEntry(t, Plain) /\ safe' = [safe EXCEPT ![t] = Len(log[t]) + 1])
    BY <1>4, Zenon DEF PlainProduce, Produce, Appends, AppendFails, txVars
  <2> QED
    BY <1>1, <2>1, PlainOrdered, Zenon
<1>5. CASE \E c \in Client, id \in TxId : CommitStart(c, id)
  BY <1>5, CommitStartOrdered, Zenon
<1>6. CASE \E c \in Client : CommitStep(c)
  BY <1>6, CommitStepOrdered, Zenon
<1>7. CASE Restart
  BY <1>7, RestartOrdered, Zenon
<1> QED
  BY <1>3, <1>4, <1>5, <1>6, <1>7, Zenon DEF Next

\* However a commit is interrupted, by an error, a drain or a restart, and
\* whoever else commits meanwhile, the records of a transaction reach the
\* logs once each and in the order they were staged, and what is there is a
\* prefix but for what a crash inside the rewrite of an index took back: the
\* loop of CommitTransaction appends record by record, stops at the first
\* error, and the mark keeps a second loop from starting.
THEOREM OnceInOrder == Spec => []AppendedOnceInOrder
<1>1. Init => Ordered /\ CommitsReach
  <2> SUFFICES ASSUME Init PROVE Ordered /\ CommitsReach
    BY Zenon
  <2>1. \A t \in Topic : \A o, id, i : ~At(t, o, id, i)
    BY DEF Init, BrokerInit, At
  <2>2. Once /\ InOrder /\ Before
    BY <2>1, Zenon DEF Once, InOrder, Before
  <2> QED
    BY <2>2, Zenon DEF Init, Ordered, CommitsReach
<1>2. IInv /\ Ordered => AppendedOnceInOrder
  <2> SUFFICES ASSUME IInv, Ordered, NEW id \in TxId
               PROVE  /\ \A i \in Appended(id) : \A j \in 1 .. i : j \in Appended(id) \/ Staged(id, j) \in lost
                      /\ \A i \in Appended(id) : \E t \in Topic : \E o \in DOMAIN log[t] :
                           /\ Copies(id, i, t) = {o}
                           /\ \A u \in Topic \ {t} : Copies(id, i, u) = {}
                      /\ \A t \in Topic : \A i, j \in Appended(id) :
                           i < j => \A o \in Copies(id, i, t), q \in Copies(id, j, t) : o < q
    BY Zenon DEF AppendedOnceInOrder
  <2>1. \A i, t : \A o : o \in Copies(id, i, t) <=> At(t, o, id, i)
    BY Zenon DEF Copies, At
  <2>2. \A t \in Topic : \A o, i : At(t, o, id, i) => o \in Nat /\ o \in DOMAIN log[t]
    <3>1. \A t \in Topic : log[t] \in Seq(Element)
      BY Zenon DEF IInv, LogTyped
    <3>2. \A t \in Topic : \A o \in DOMAIN log[t] : o \in Nat
      BY <3>1
    <3> QED
      BY <3>2, Zenon DEF At
  <2>3. ASSUME NEW i \in Appended(id)
        PROVE  i \in Nat /\ i <= MaxStaged /\ \E t \in Topic, o \in Nat : At(t, o, id, i)
    <3>1. i \in 1 .. MaxStaged /\ \E t \in Topic : Copies(id, i, t) # {}
      BY <2>3, Zenon DEF Appended
    <3>2. i \in Nat /\ i <= MaxStaged
      BY <3>1, StagedAssumption
    <3> QED
      BY <2>1, <2>2, <3>1, <3>2, Zenon
  <2>4. ASSUME NEW i \in Appended(id) PROVE \A j \in 1 .. i : j \in Appended(id) \/ Staged(id, j) \in lost
    <3> SUFFICES ASSUME NEW j \in 1 .. i, j # i, Staged(id, j) \notin lost PROVE j \in Appended(id)
      BY <2>4, Zenon
    <3>1. j \in 1 .. i - 1 /\ j \in 1 .. MaxStaged
      BY <2>3, <2>4, StagedAssumption
    <3>2. Kept(id, j)
      BY <2>3, <2>4, <3>1, Zenon DEF Ordered, Before
    <3>3. \E t \in Topic, o \in Nat : At(t, o, id, j)
      BY <3>2, Zenon DEF Kept
    <3> QED
      BY <2>1, <3>1, <3>3, Zenon DEF Appended
  <2>5. ASSUME NEW i \in Appended(id)
        PROVE  \E t \in Topic : \E o \in DOMAIN log[t] :
                 Copies(id, i, t) = {o} /\ \A u \in Topic \ {t} : Copies(id, i, u) = {}
    <3>1. PICK t \in Topic, o \in Nat : At(t, o, id, i)
      BY <2>3, <2>5, Zenon
    <3>2. \A u \in Topic : \A q : q \in Copies(id, i, u) => u = t /\ q = o
      BY <2>1, <2>2, <2>3, <2>5, <3>1, Zenon DEF Ordered, Once
    <3>3. o \in Copies(id, i, t) /\ o \in DOMAIN log[t]
      BY <2>1, <2>2, <3>1, Zenon
    <3>4. Copies(id, i, t) = {o} /\ \A u \in Topic \ {t} : Copies(id, i, u) = {}
      BY <3>2, <3>3, Zenon
    <3> QED
      BY <3>3, <3>4, Zenon
  <2>6. ASSUME NEW t \in Topic, NEW i \in Appended(id), NEW j \in Appended(id), i < j,
               NEW o \in Copies(id, i, t), NEW q \in Copies(id, j, t)
        PROVE  o < q
    <3>1. i \in Nat /\ j \in Nat /\ o \in Nat /\ q \in Nat /\ At(t, o, id, i) /\ At(t, q, id, j)
      BY <2>1, <2>2, <2>3, <2>6, Zenon
    <3> QED
      BY <2>6, <3>1, Zenon DEF Ordered, InOrder
  <2> QED
    BY <2>4, <2>5, <2>6, Zenon
<1> QED
  BY <1>1, <1>2, InitIInv, Invariance, OrderedStep, PTL DEF Spec

-----------------------------------------------------------------------------
\* TypeOK bounds the place of a record by MaxStaged, which takes the length
\* of the transaction it was staged in.
Allowed == TxEntry \cup {Plain}

Held == \A t \in Topic : \A o \in DOMAIN log[t] : log[t][o] \in Allowed

Short == \A id \in DOMAIN txState : Len(txState[id].records) <= MaxStaged

Bounded == topics \subseteq Topic /\ draining \in BOOLEAN /\ Held /\ Short

\* The topics left cut, the records that were lost, and the safe part of
\* every log is a part of it.
Marked ==
  /\ cut \subseteq Topic /\ lost \subseteq TxEntry
  /\ \A t \in Topic : safe[t] <= Len(log[t])

\* A step that appends at most an allowed entry.
LEMMA HeldAppend ==
  ASSUME IInv, Held, NEW t \in Topic, NEW e \in Element, e \in Allowed, AppendEntry(t, e) \/ UNCHANGED log
  PROVE  Held'
BY Grows DEF IInv, Held

\* The record a commit is at has an allowed place.
LEMMA NextAllowed ==
  ASSUME IInv, Short, NEW k \in CommitType, CommitOK(k), k.pc = "append"
  PROVE  Staged(k.tx, k.next) \in Allowed /\ Staged(k.tx, k.next) \in Element
<1>1. k.next \in 1 .. Len(k.records) /\ k.tx \in TxId /\ k.next \in Nat
  BY NextTopic, Zenon DEF CommitType
<1>2. Len(k.records) \in Nat /\ Len(k.records) <= MaxStaged
  BY Records, Zenon DEF IInv, CommitOK, Short
<1>3. k.next \in 1 .. MaxStaged
  BY <1>1, <1>2, StagedAssumption
<1> QED
  BY <1>1, <1>3, StagedApart, Zenon DEF Allowed, TxEntry, Staged

\* Every step keeps the bounds.
LEMMA BoundedStep == IInv /\ Bounded /\ [Next]_vars => Bounded'
<1> SUFFICES ASSUME IInv, Bounded, [Next]_vars PROVE Bounded'
  BY Zenon
<1>1. Held /\ Short /\ topics \subseteq Topic /\ draining \in BOOLEAN
  BY Zenon DEF Bounded
<1>2. CASE UNCHANGED vars
  BY <1>1, <1>2, Zenon DEF Bounded, Held, Short, vars, brokerVars, logs, txVars
<1>3. ASSUME NEW t \in Topic, OpenTopic(t) \/ PlainProduce(t) PROVE Bounded'
  <2>1. topics' \subseteq Topic /\ draining' = draining /\ txState' = txState
    BY <1>1, <1>3, Zenon DEF OpenTopic, PlainProduce, Produce, CreateTopic, txVars
  <2>2. AppendEntry(t, Plain) \/ UNCHANGED log
    BY <1>3, Zenon DEF OpenTopic, PlainProduce, Produce, Appends, AppendFails, logs
  <2>3. Held'
    BY <1>1, <2>2, HeldAppend, Zenon DEF Allowed, Element
  <2> QED
    BY <1>1, <2>1, <2>3, Zenon DEF Bounded, Short
<1>4. ASSUME NEW id \in TxId, BeginTransaction(id) \/ AbortTransaction(id) PROVE Bounded'
  <2>1. UNCHANGED <<topics, log, draining>>
    BY <1>4, Zenon DEF BeginTransaction, AbortTransaction, brokerVars, logs
  <2>2. \A jd \in DOMAIN txState' : txState'[jd].records = <<>> \/ (jd \in DOMAIN txState /\ txState'[jd] = txState[jd])
    BY <1>4 DEF BeginTransaction, AbortTransaction, Put, IInv, TxTyped
  <2>3. Short'
    BY <1>1, <2>2, StagedAssumption DEF Short
  <2> QED
    BY <1>1, <2>1, <2>3, Zenon DEF Bounded, Held
<1>5. ASSUME NEW id \in TxId, NEW t \in Topic, TxProduce(id, t) PROVE Bounded'
  <2>1. UNCHANGED <<topics, log, draining>>
    BY <1>5, Zenon DEF TxProduce, brokerVars, logs
  <2>2. id \in DOMAIN txState /\ Len(txState[id].records) < MaxStaged
    BY <1>5, Zenon DEF TxProduce, Open
  <2>3. txState[id].records \in Seq(Topic) /\ txState[id] \in TxType
    BY <2>2, Zenon DEF IInv, TxTyped, TxType
  <2>4. /\ DOMAIN txState' = DOMAIN txState
        /\ txState'[id].records = Append(txState[id].records, t)
        /\ \A jd \in DOMAIN txState : jd # id => txState'[jd] = txState[jd]
    BY <1>5, <2>2, <2>3, Zenon DEF TxProduce, IInv, TxTyped, TxType
  <2>5. Len(txState'[id].records) <= MaxStaged
    BY <2>2, <2>3, <2>4, StagedAssumption
  <2>6. Short'
    BY <1>1, <2>4, <2>5, Zenon DEF Short
  <2> QED
    BY <1>1, <2>1, <2>6, Zenon DEF Bounded, Held
<1>6. ASSUME NEW c \in Client, NEW id \in TxId, CommitStart(c, id) PROVE Bounded'
  <2>1. UNCHANGED <<topics, log, draining>>
    BY <1>6, Zenon DEF CommitStart, brokerVars, logs
  <2>2. \A jd \in DOMAIN txState' : jd \in DOMAIN txState /\ txState'[jd].records = txState[jd].records
    BY <1>6, Zenon DEF CommitStart, Open, IInv, TxTyped, TxType
  <2> QED
    BY <1>1, <2>1, <2>2, Zenon DEF Bounded, Held, Short
<1>7. ASSUME NEW c \in Client, CommitStep(c) PROVE Bounded'
  <2>1. PICK k \in CommitType : k = commit[c] /\ CommitOK(k)
    <3>1. commit[c] # NoCommit
      BY <1>7 DEF CommitStep, CommitCreate, CommitAppend, CommitFails, CommitEnd, NoCommit
    <3> QED
      BY <3>1, CommitIs, Zenon
  <2>2. CASE CommitCreate(c)
    <3>1. k.next \in 1 .. Len(k.records) /\ k.records \in Seq(Topic)
      BY <2>1, <2>2 DEF CommitCreate, CommitType
    <3>2. k.records[k.next] \in Topic
      BY <3>1
    <3>3. topics' \subseteq Topic /\ UNCHANGED <<log, draining, txState>>
      BY <1>1, <2>1, <2>2, <3>2, Zenon DEF CommitCreate, CreateTopic, logs
    <3> QED
      BY <1>1, <3>3, Zenon DEF Bounded, Held, Short
  <2>3. CASE CommitEnd(c)
    <3>1. UNCHANGED <<topics, log, draining>>
      BY <2>3, Zenon DEF CommitEnd, brokerVars, logs
    <3>2. \A jd \in DOMAIN txState' : jd \in DOMAIN txState /\ txState'[jd].records = txState[jd].records
      BY <2>1, <2>3, Zenon DEF CommitEnd, CommitOK, IInv, TxTyped, TxType
    <3> QED
      BY <1>1, <3>1, <3>2, Zenon DEF Bounded, Held, Short
  <2>4. CASE CommitAppend(c) \/ CommitFails(c)
    <3>1. UNCHANGED <<topics, draining, txState>>
      BY <2>4, Zenon DEF CommitAppend, CommitFails
    <3>2. CASE UNCHANGED log
      BY <1>1, <3>1, <3>2, Zenon DEF Bounded, Held, Short
    <3>3. CASE ~UNCHANGED log
      <4>1. PICK t, e : t = k.records[k.next] /\ e = Staged(k.tx, k.next)
        BY Zenon
      <4>2. k.pc = "append" /\ AppendEntry(t, e)
        BY <2>1, <2>4, <3>3, <4>1, Zenon
           DEF CommitAppend, Appends, CommitFails, ProduceError, AppendFails, logs
      <4>3. t \in Topic /\ e \in Allowed /\ e \in Element
        BY <1>1, <2>1, <4>1, <4>2, NextTopic, NextAllowed, Zenon
      <4>4. Held'
        BY <1>1, <4>2, <4>3, HeldAppend, Zenon
      <4> QED
        BY <1>1, <3>1, <4>4, Zenon DEF Bounded, Short
    <3> QED
      BY <3>2, <3>3, Zenon
  <2> QED
    BY <1>7, <2>2, <2>3, <2>4, Zenon DEF CommitStep
<1>8. CASE DrainWindow
  BY <1>1, <1>8, Zenon DEF DrainWindow, Drain, DrainEnds, Bounded, Held, Short, logs, txVars
<1>9. CASE Restart
  <2>1. topics' = {} /\ draining' = FALSE /\ DOMAIN txState' = {}
    BY <1>9, Zenon DEF Restart, BrokerRestart
  <2>2. ASSUME NEW t \in Topic, NEW o \in DOMAIN log'[t] PROVE log'[t][o] \in Allowed
    BY <1>1, <1>9, <2>2, RestartLeaves, Zenon DEF Held
  <2> QED
    BY <2>1, <2>2, Zenon DEF Bounded, Held, Short
<1> QED
  BY <1>2, <1>3, <1>4, <1>5, <1>6, <1>7, <1>8, <1>9, Zenon DEF Next

\* Every step keeps the marks.
LEMMA MarkedStep == IInv /\ Held /\ Marked /\ [Next]_vars => Marked'
<1> SUFFICES ASSUME IInv, Held, Marked, [Next]_vars PROVE Marked'
  BY Zenon
<1>1. cut \subseteq Topic /\ lost \subseteq TxEntry /\ \A t \in Topic : safe[t] <= Len(log[t])
  BY Zenon DEF Marked
<1>2. CASE UNCHANGED <<log, safe, cut, lost>>
  BY <1>1, <1>2, Zenon DEF Marked
<1>3. CASE \/ \E t \in Topic : OpenTopic(t)
           \/ \E id \in TxId : BeginTransaction(id) \/ AbortTransaction(id)
           \/ \E id \in TxId, t \in Topic : TxProduce(id, t)
           \/ \E c \in Client, id \in TxId : CommitStart(c, id)
           \/ DrainWindow \/ UNCHANGED vars
  <2>1. UNCHANGED <<log, safe, cut, lost>>
    BY <1>3, Zenon DEF OpenTopic, BeginTransaction, AbortTransaction, TxProduce, CommitStart, DrainWindow, Drain,
                       DrainEnds, vars, brokerVars, logs, txVars
  <2> QED
    BY <1>2, <2>1, Zenon
<1>4. ASSUME NEW t \in Topic, NEW e \in Element, Appends(t, e) \/ AppendFails(t, e), lost' = lost PROVE Marked'
  <2>1. cut' \in {cut, cut \cup {t}, cut \ {t}}
    BY <1>4, Zenon DEF Appends, AppendFails
  <2>2. \/ safe' = safe /\ (log' = log \/ AppendEntry(t, e))
        \/ safe' = [safe EXCEPT ![t] = Len(log[t]) + 1] /\ AppendEntry(t, e)
    BY <1>4, Zenon DEF Appends, AppendFails
  <2>3. log \in [Topic -> Seq(Element)] /\ safe \in [Topic -> Nat]
    BY Zenon DEF IInv, LogTyped
  <2>4. Len(Append(log[t], e)) = Len(log[t]) + 1 /\ \A u \in Topic : Len(log[u]) \in Nat /\ safe[u] \in Nat
    BY <1>4, <2>3
  <2>5. \A u \in Topic : log'[u] = log[u] \/ (u = t /\ log'[u] = Append(log[u], e))
    BY <2>2, <2>3, Zenon DEF AppendEntry
  <2>6. AppendEntry(t, e) => log'[t] = Append(log[t], e)
    BY <2>3, Zenon DEF AppendEntry
  <2>7. \A u \in Topic : safe'[u] <= Len(log'[u])
    BY <1>1, <2>2, <2>3, <2>4, <2>5, <2>6
  <2> QED
    BY <1>1, <1>4, <2>1, <2>7, Zenon DEF Marked
<1>5. ASSUME NEW t \in Topic, PlainProduce(t) PROVE Marked'
  BY <1>4, <1>5, Zenon DEF PlainProduce, Produce, txVars, Element
<1>6. ASSUME NEW c \in Client, CommitStep(c) PROVE Marked'
  <2>1. PICK k \in CommitType : k = commit[c] /\ CommitOK(k)
    <3>1. commit[c] # NoCommit
      BY <1>6 DEF CommitStep, CommitCreate, CommitAppend, CommitFails, CommitEnd, NoCommit
    <3> QED
      BY <3>1, CommitIs, Zenon
  <2>2. lost' = lost
    BY <1>6, Zenon DEF CommitStep, CommitCreate, CommitAppend, CommitFails, CommitEnd
  <2>3. CASE UNCHANGED <<log, safe, cut>>
    BY <1>2, <2>2, <2>3, Zenon
  <2>4. CASE ~UNCHANGED <<log, safe, cut>>
    <3>1. PICK t, e : t = k.records[k.next] /\ e = Staged(k.tx, k.next)
      BY Zenon
    <3>2. k.pc = "append" /\ (Appends(t, e) \/ AppendFails(t, e))
      BY <1>6, <2>1, <2>4, <3>1, Zenon
         DEF CommitStep, CommitCreate, CommitEnd, CommitAppend, CommitFails, ProduceError, brokerVars, logs
    <3>3. t \in Topic /\ e \in Element
      BY <2>1, <3>1, <3>2, NextTopic, StagedApart, Zenon DEF CommitType
    <3> QED
      BY <1>4, <2>2, <3>2, <3>3, Zenon
  <2> QED
    BY <2>3, <2>4, Zenon
<1>7. CASE Restart
  <2>1. cut' = {} /\ lost' = lost \cup (Dropped \ {Plain})
    BY <1>7, Zenon DEF Restart, BrokerRestart
  <2>2. ASSUME NEW e \in Dropped, e # Plain PROVE e \in TxEntry
    <3>0. PICK t \in Topic : e \in {log[t][i] : i \in safe'[t] + 1 .. safe[t]}
      BY <2>2, Zenon DEF Dropped
    <3>1. PICK i \in safe'[t] + 1 .. safe[t] : e = log[t][i]
      BY <3>0, Zenon
    <3>2. safe'[t] \in Nat
      BY <1>7, RestartLeaves, Zenon
    <3>3. log[t] \in Seq(Element) /\ safe[t] \in Nat /\ safe[t] <= Len(log[t])
      BY <1>1, Zenon DEF IInv, LogTyped
    <3>4. i \in DOMAIN log[t]
      BY <3>1, <3>2, <3>3
    <3> QED
      BY <2>2, <3>1, <3>4, Zenon DEF Held, Allowed
  <2>3. ASSUME NEW t \in Topic PROVE safe'[t] <= Len(log'[t])
    <3>1. safe'[t] \in Nat /\ DOMAIN log'[t] = 1 .. safe'[t] /\ log'[t] \in Seq(Element)
      BY <1>7, RestartLeaves, Zenon
    <3> QED
      BY <3>1
  <2> QED
    BY <1>1, <2>1, <2>2, <2>3, Zenon DEF Marked
<1> QED
  BY <1>3, <1>5, <1>6, <1>7, Zenon DEF Next

\* Transactions, commits in progress and logs keep their types: Broker.txState
\* holds only the four statuses of transactions.go, and every entry of a
\* transaction in a log names one of the records that could be staged.
THEOREM TypeCorrect == Spec => []TypeOK
<1>1. Init => Bounded /\ Marked
  <2> SUFFICES ASSUME Init PROVE Bounded /\ Marked
    BY Zenon
  <2>1. \A t \in Topic : DOMAIN log[t] = {} /\ safe[t] <= Len(log[t])
    BY DEF Init, BrokerInit
  <2>2. DOMAIN txState = {} /\ topics = {} /\ draining = FALSE /\ cut = {} /\ lost = {}
    BY Zenon DEF Init, BrokerInit
  <2> QED
    BY <2>1, <2>2, Zenon DEF Bounded, Marked, Held, Short
<1>2. IInv /\ Bounded /\ Marked => TypeOK
  <2> SUFFICES ASSUME IInv, Bounded, Marked PROVE TypeOK
    BY Zenon
  <2>1. log \in [Topic -> Seq(Allowed)]
    <3>1. log \in [Topic -> Seq(Element)]
      BY Zenon DEF IInv, LogTyped
    <3>2. ASSUME NEW t \in Topic PROVE log[t] \in Seq(Allowed)
      <4>1. log[t] \in Seq(Element) /\ \A o \in DOMAIN log[t] : log[t][o] \in Allowed
        BY <3>1, Zenon DEF Bounded, Held
      <4> QED
        BY <4>1
    <3> QED
      BY <3>1, <3>2, Zenon
  <2>2. commit \in [Client -> {NoCommit} \cup [pc : {"create", "append"}, tx : TxId, records : Seq(Topic), next : Nat]]
    BY Zenon DEF IInv, CommitTyped, CommitType
  <2>3. /\ begun \subseteq TxId /\ DOMAIN txState \subseteq begun
        /\ \A id \in DOMAIN txState :
             txState[id] \in [status : {"open", "committing", "committed", "aborted"}, records : Seq(Topic)]
    BY Zenon DEF IInv, TxTyped, TxType
  <2>4. topics \subseteq Topic /\ draining \in BOOLEAN /\ safe \in [Topic -> Nat] /\ cut \subseteq Topic /\ lost \subseteq TxEntry
    BY Zenon DEF Bounded, Marked, IInv, LogTyped
  <2> QED
    BY <2>1, <2>2, <2>3, <2>4, Zenon DEF TypeOK, Allowed
<1>3. Bounded => Held
  BY Zenon DEF Bounded
<1> QED
  BY <1>1, <1>2, <1>3, InitIInv, Invariance, BoundedStep, MarkedStep, PTL DEF Spec
=============================================================================
