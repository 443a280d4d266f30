SPECIFICATION Spec
CONSTANTS
  MaxRows = 2
  Results = {1}
  Sizes = {1}
  MaxEdits = 1
  MaxReverts = 0
  MaxFaults = 1
  MaxCommits = 2
  FailingWrites = TRUE
  TornAppends = FALSE
INVARIANTS FlushedIsSaved
CHECK_DEADLOCK FALSE
