SPECIFICATION FairSpec
CONSTANTS
  c1 = c1
  c2 = c2
  x1 = x1
  x2 = x2
  a = a
  b = b
  Client <- MCClient
  TxId <- MCTxId
  Topic <- MCTopic
  MaxStaged = 2
  DiskFails = TRUE
  MaxLog = 1
INVARIANTS
  TypeOK
  NothingBeforeCommit
  AppendedOnceInOrder
  CommittedComplete
PROPERTY CommitReturns
