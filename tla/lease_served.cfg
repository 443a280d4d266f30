SPECIFICATION FairSpec
CONSTANTS
  Sessions = {s1, s2, s3}
  Ttls = {1}
  MaxCapacity = 1
  MaxRenewals = 1
  MaxCrashes = 1
  FailingWrites = TRUE
  TornWrites = TRUE
PROPERTIES Served
