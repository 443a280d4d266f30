SPECIFICATION FewFaultsSpec
CONSTANTS
  Procs = {p1}
  Epoch <- Ascending
  MaxCoords = 2
  MaxHosts = 2
  MaxCommands = 2
  MaxUnits = 0
  MaxChunk = 1
  MaxBreaks = 1
  MaxUpdates = 1
  EarlyReplaces = FALSE
PROPERTIES EventuallyDrained
CHECK_DEADLOCK FALSE
