SPECIFICATION FairSpec
CONSTANTS
  Fields = {f, g}
  f = f
  g = g
  MaxChanges = 1
  MaxFaults = 1
  MaxRequests = 2
  Origins = {"own"}
  Restorable = {"loaded"}
INVARIANTS TypeOK LiveMeansCurrent NoResync
PROPERTIES Mirrors Converges
CHECK_DEADLOCK FALSE
