CONSTANTS
  o1 = o1
  o2 = o2
  Outputs <- OnlyFirst
  InitOutputs <- One
  SyncLists <- RemoveAndReAdd
  Accountless <- Nobody
  MaxSeq = 2
  ChanCap = 2
  SendDelay = 1
  MaxRecent = 1
  StaleIDs = {0}
  Logging = TRUE
SPECIFICATION Spec
INVARIANT RecordedOnce
PROPERTY ImplementsSubtitles
CHECK_DEADLOCK FALSE
