SPECIFICATION Spec
CONSTANTS
  MaxWorkers = 2
  Stream <- MCStream
  Window = 1
INVARIANTS
  ConnectionConserves
  ResultsFromSource
  ConnectionsClosed
PROPERTIES
  EndsAndCleansUp
CHECK_DEADLOCK FALSE
