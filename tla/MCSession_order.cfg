CONSTANTS
  o1 = o1
  Outputs <- Single
  InitOutputs <- OneList
  SyncLists <- NoEdits
  Accountless <- Nobody
  MaxSeq = 3
  ChanCap = 1
  SendDelay = 0
  MaxRecent = 1
  StaleIDs = {}
  Logging = FALSE
  ResultsCap = 1
  Workers = 2
SPECIFICATION SessionSpec
INVARIANTS NoSendOnClosed OrderedDelivery
