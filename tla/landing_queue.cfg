SPECIFICATION Spec
CONSTANTS
  c1 = c1
  c2 = c2
  m1 = m1
  m2 = m2
  Changes = {c1, c2}
  Machines = {m1}
  MachineOf <- OneMachine
  Broken = {}
  Slots = {l1, l2}
  MaxClassic = 1
  MaxFaults = 2
  LatePushes = FALSE
  LostAnswers = FALSE
SYMMETRY Symmetry
INVARIANTS TypeOK OneRunner EntriesFollowRuns UnlandedIsTrue
PROPERTIES KeepsPromise
CHECK_DEADLOCK FALSE
