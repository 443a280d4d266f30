SPECIFICATION Spec
CONSTANTS
  Sessions = {s1, s2, s3, s4}
  Ttls = {1, 2}
  MaxCapacity = 2
  MaxRenewals = 1
  MaxCrashes = 1
  FailingWrites = FALSE
  TornWrites = FALSE
SYMMETRY Symmetry
INVARIANTS TypeOK OneReservation NoIdleSlot AnswersKept
PROPERTIES FifoGrants
