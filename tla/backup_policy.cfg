SPECIFICATION OrderedSpec
CONSTANTS
  Timestamps = {1, 2, 3, 4, 5}
  DateOf <- Dates
  Day <- CountedDays
  Runs = {r1, r2}
  MaxDepth = 2
  Interval = 61
  MaxChunks = 1
  MaxFails = 0
  LocalDest = FALSE
  SendMayFail = FALSE
  PurgeInRun = FALSE
  None = None
  Torn = Torn
SYMMETRY Alike
INVARIANTS ChainClosed DepthBounded FullRecency RealRecency
