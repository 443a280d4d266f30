SPECIFICATION Spec
CONSTANTS
  MaxRows = 3
  Results = {2, 3}
  Sizes = {2, 4}
  MaxEdits = 1
  MaxReverts = 1
  MaxFaults = 2
  MaxCommits = 2
  FailingWrites = TRUE
  TornAppends = TRUE
INVARIANTS TypeOK HeadIsReadable FlushedUnlessSpoiled SavedStays
CHECK_DEADLOCK FALSE
