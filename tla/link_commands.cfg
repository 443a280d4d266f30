SPECIFICATION Spec
CONSTANTS
  Procs = {p1}
  Epoch <- HandedBack
  MaxCoords = 2
  MaxHosts = 2
  MaxCommands = 2
  MaxUnits = 0
  MaxChunk = 1
  MaxBreaks = 1
  MaxUpdates = 1
  EarlyReplaces = FALSE
INVARIANTS TypeOK AppliedOnce NoCommandGap QueueInOrder
PROPERTIES NoStaleDriver HeldWhileUpdating
CHECK_DEADLOCK FALSE
