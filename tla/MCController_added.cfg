CONSTANTS
  o1 = o1
  o2 = o2
  Outputs <- Everybody
  InitOutputs <- One
  SyncLists <- AddSecond
  Accountless <- Nobody
  MaxSeq = 1
  ChanCap = 1
  SendDelay = 0
  MaxRecent = 1
  StaleIDs = {}
  Logging = FALSE
SPECIFICATION Spec
INVARIANT NoPanic
