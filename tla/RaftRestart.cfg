SPECIFICATION Spec
CONSTANTS
  Offload = FALSE
  DiskFails = FALSE
  Crashes = FALSE
  Overlap = TRUE
  Threshold = 2
  MaxStarts = 2
  MaxEntries = 3
  MaxFaults = 0
  MaxSnaps = 0
INVARIANTS
  DataAfterRestart
CHECK_DEADLOCK FALSE
