SPECIFICATION Spec
CONSTANTS
  Timestamps = {1, 2, 3}
  Day <- EveryOtherDay
  Runs = {r1}
  MaxDepth = None
  Interval = 5
  MaxChunks = 2
  MaxFails = 2
  LocalDest = TRUE
  SendMayFail = FALSE
  PurgeInRun = FALSE
  None = None
  Torn = Torn
INVARIANTS TypeOK MetaReadable ArchivesIntact ArchivesComplete
PROPERTIES CommittedImmutable RunCoversSource StoreRefined
