SPECIFICATION Spec
CONSTANTS
  short = short
  long = long
  Value <- MCValue
  Size <- MCSize
  Time <- MCTime
  MaxCells = 6
  MaxFetch = 2
INVARIANTS
  TypeOK
  IndexedFramesWhole
  OffsetsDense
  FetchContiguous
  AckedDurable
  TimeIndexWithinIndex
PROPERTIES
  ReadsStable
  ImplementsAppendLog
