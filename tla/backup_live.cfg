SPECIFICATION FairSpec
CONSTANTS
  Timestamps = {1, 2}
  Day <- EveryOtherDay
  Runs = {r1}
  MaxDepth = 2
  Interval = 5
  MaxChunks = 2
  MaxFails = 2
  LocalDest = FALSE
  SendMayFail = TRUE
  PurgeInRun = TRUE
  None = None
  Torn = Torn
PROPERTIES RunsEnd EventuallyArchived
