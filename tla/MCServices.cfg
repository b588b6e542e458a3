CONSTANTS
  o1 = o1
  o2 = o2
  Outputs <- BothOutputs
  InitOutputs <- OneConfigured
  InitAuto <- FirstAuto
  MaxSessions = 2
  MaxClicks = 2
  MaxEdits = 2
  PanelClicks = 1
  PanelEdits = 1
  b1 = b1
  b2 = b2
  Base = base
  Changes = {c1, c2, c3}
  ByHand = {c3}
  Accounts = {a1}
  Syncs = {s1, s2, s3}
  MaxSaves = 2
  Lists <- SomeLists
  Limits = {1, 2}
  MaxMessages = 2
  MaxChunks = 3
  MaxSettings = 2
  MaxText = 7
  MaxWrap = 2
  MaxMax = 5
  Sessions = {k1, k2, k3}
  MaxLines = 2
  Names = {admin, user}
  AdminName = admin
  Lifetime = 2
  DayLength = 2
  MaxUsers = 3
  MaxPending = 1
  MaxLogins = 1
  MaxTime = 3
SPECIFICATION MCSpec
INVARIANTS PausedCardIsSilent CardTellsTruth MapsAgree AddedStartsPaused
PROPERTIES ClickTakesEffect PausePersists
INVARIANTS ServerFollowsFile CalmChangesKept AccountsReady LinesKept ChunksFit
INVARIANTS PrefixShown FitsAnyBot EvenRotation
INVARIANTS SessionsSurvive LogoutIsFinal NothingInherited
\* Sessions, edits, texts and lines are bounded and come to their end.
CHECK_DEADLOCK FALSE
