SPECIFICATION FairSpec
CONSTANTS
  Delays = {1}
  Intervals = {0, 1}
  MaxTimers = 2
  MaxCreates = 2
  MaxTime = 2
  MaxPauses = 1
  MaxFaults = 3
  Overlapping = FALSE
  BadDisk = FALSE
INVARIANTS TypeOK AnsweredKept IdsUnique NothingRepeats FlushSaves
PROPERTIES Served
CHECK_DEADLOCK FALSE
