SPECIFICATION Spec
CONSTANTS
  c1 = c1
  c2 = c2
  Client <- MCClient
  Topic <- MCTopic
  Producer <- MCProducer
  Uses <- MCUses
  Sequence <- MCSequence
  DiskFails = FALSE
  MaxLog = 3
INVARIANT SequenceOnce
