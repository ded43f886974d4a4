SPECIFICATION Spec
CONSTANTS
  Input <- MCInput
  Chain <- MCChain
  Duration <- MCDuration
  Pattern <- MCPattern
  MaxDuration = 5
  MaxPanes = 2
INVARIANTS
  OutputExpected
  TimeWindowsPartition
  SlidingTumbles
  SessionsSplitAtPauses
  WatermarkClosesWindows
  MatchesAreOccurrences
  JoinWithinBound
PROPERTIES
  Completes
CHECK_DEADLOCK FALSE
