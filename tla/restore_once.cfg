SPECIFICATION FairSpec
CONSTANTS
  Timestamps = {1, 2, 3}
  Restores = {r1}
  Requests <- SomeRequests
  Retry = FALSE
  Rot = TRUE
  MaxFails = 1
  None = None
INVARIANTS TypeOK RestoreDelivers
PROPERTIES RestoreEnds
