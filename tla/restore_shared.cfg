SPECIFICATION Spec
CONSTANTS
  Timestamps = {1, 2, 3}
  Restores = {r1, r2}
  Requests <- FewRequests
  Retry = TRUE
  Rot = FALSE
  MaxFails = 1
  None = None
SYMMETRY Alike
INVARIANTS ParentFirst NeededOnly
