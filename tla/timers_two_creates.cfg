SPECIFICATION Spec
CONSTANTS
  Delays = {1}
  Intervals = {0, 1}
  MaxTimers = 2
  MaxCreates = 2
  MaxTime = 1
  MaxPauses = 0
  MaxFaults = 0
  Overlapping = TRUE
  BadDisk = FALSE
INVARIANTS IdsUnique
CHECK_DEADLOCK FALSE
