SPECIFICATION Spec
CONSTANTS
  Timestamps = {1, 2}
  Restores = {r1}
  Requests <- FewRequests
  Retry = TRUE
  Rot = FALSE
  MaxFails = 1
  None = None
INVARIANTS RestoreDelivers
