SPECIFICATION FairSpec
CONSTANTS
  c1 = c1
  c2 = c2
  m1 = m1
  m2 = m2
  Changes = {c1, c2}
  Machines = {m1, m2}
  MachineOf <- TwoMachines
  Broken = {m2}
  Slots = {l1, l2}
  MaxClassic = 0
  MaxFaults = 1
  LatePushes = TRUE
  LostAnswers = TRUE
PROPERTIES Answered
CHECK_DEADLOCK FALSE
