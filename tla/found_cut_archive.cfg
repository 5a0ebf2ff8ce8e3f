SPECIFICATION Spec
CONSTANTS
  Timestamps = {1, 2}
  Day <- EveryOtherDay
  Runs = {r1}
  MaxDepth = None
  Interval = 5
  MaxChunks = 2
  MaxFails = 0
  LocalDest = TRUE
  SendMayFail = TRUE
  PurgeInRun = FALSE
  None = None
  Torn = Torn
INVARIANTS ArchivesComplete
