SPECIFICATION Spec
CONSTANTS
  Timestamps = {1, 2}
  Day <- EveryOtherDay
  Runs = {r1, r2}
  MaxDepth = None
  Interval = 5
  MaxChunks = 1
  MaxFails = 0
  LocalDest = FALSE
  SendMayFail = FALSE
  PurgeInRun = FALSE
  None = None
  Torn = Torn
PROPERTIES CommittedImmutable
