CONSTANTS
  o1 = o1
  o2 = o2
  Outputs <- Everybody
  InitOutputs <- Both
  SyncLists <- NoSync
  Accountless <- OnlyFirst
  MaxSeq = 2
  ChanCap = 1
  SendDelay = 0
  MaxRecent = 1
  StaleIDs = {0}
  Logging = FALSE
SPECIFICATION Spec
PROPERTY ImplementsSubtitles
