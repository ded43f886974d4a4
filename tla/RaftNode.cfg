SPECIFICATION FairSpec
CONSTANTS
  Offload = TRUE
  DiskFails = TRUE
  Crashes = TRUE
  Overlap = FALSE
  Threshold = 2
  MaxStarts = 2
  MaxFaults = 1
  MaxEntries = 4
  MaxSnaps = 1
INVARIANTS
  TypeOK
  LogKeepsEntries
  MemoryHolds
  SnapshotNewest
PROPERTIES
  ReadyAdvanced
CHECK_DEADLOCK FALSE
