CONSTANTS
  o1 = o1
  Outputs <- Single
  InitOutputs <- OneList
  SyncLists <- NoEdits
  Accountless <- Nobody
  MaxSeq = 2
  ChanCap = 2
  SendDelay = 0
  MaxRecent = 1
  StaleIDs = {}
  Logging = FALSE
  ResultsCap = 1
  Workers = 2
SPECIFICATION FairSession
PROPERTY ShutdownCompletes
