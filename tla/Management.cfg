SPECIFICATION MSpec
CONSTANTS
  h1 = h1
  h2 = h2
  u1 = u1
  u2 = u2
  Client <- MCClient
  Topic <- MCTopic
  Producer <- MCProducer
  Uses <- MCUses
  Sequence <- MCSequence
  DiskFails = TRUE
  MaxLog = 20
  User <- MCUser
  Sequenced <- MCSequenced
  TopicOf <- MCTopicOf
  ProducerOf <- MCProducerOf
  PageSize = 2
  MaxRestarts = 1
  MaxRecords <- MCMaxRecords
  MaxSends = 3
INVARIANTS
  RetriesAppendOnce
  ReturnedIsRead
PROPERTIES
  RequestEnds
CHECK_DEADLOCK FALSE
