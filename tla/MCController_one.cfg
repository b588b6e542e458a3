CONSTANTS
  o1 = o1
  o2 = o2
  Outputs <- OnlyFirst
  InitOutputs <- One
  SyncLists <- Again
  Accountless <- Nobody
  MaxSeq = 3
  ChanCap = 1
  SendDelay = 1
  MaxRecent = 1
  StaleIDs = {0}
  Logging = FALSE
SPECIFICATION FairSpec
INVARIANTS RevokedNeverShown NoGhostPending ReviewComplete
PROPERTIES EveryLinePassed EveryReviewEnds CancelEndsRun
