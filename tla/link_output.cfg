SPECIFICATION Spec
CONSTANTS
  Procs = {p1}
  Epoch <- Ascending
  MaxCoords = 2
  MaxHosts = 1
  MaxCommands = 2
  MaxUnits = 2
  MaxChunk = 1
  MaxBreaks = 1
  MaxUpdates = 0
  EarlyReplaces = FALSE
INVARIANTS KeptUntilReceived ExactlyOnce ListsAgree
PROPERTIES KeepsPromises
CHECK_DEADLOCK FALSE
