SPECIFICATION Spec
CONSTANTS
  Timestamps = {1, 2, 3}
  Day <- EveryOtherDay
  Runs = {r1}
  MaxDepth = 2
  Interval = 10
  MaxChunks = 1
  MaxFails = 0
  LocalDest = TRUE
  SendMayFail = FALSE
  PurgeInRun = FALSE
  None = None
  Torn = Torn
PROPERTIES FullOnlyWhenDue
