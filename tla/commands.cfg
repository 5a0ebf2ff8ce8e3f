SPECIFICATION FairSpec
CONSTANTS
  Snaps = {1, 2, 3}
  Settings <- AllSettings
  Size <- Bytes
  MaxFails = 1
  RefreshInterval = 1
  UMax = 999
  None = None
INVARIANTS TypeOK NoPanic LimitsKept RestoredRowsAreSkipped AskedOnlyAfterLapse BtrfsNotAsked
PROPERTIES VisitsSelected DryrunForetells LsForetells OthersArchived
