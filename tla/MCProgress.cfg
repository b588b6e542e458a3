CONSTANTS
  r1 = r1
  r2 = r2
  Rooms <- TwoRooms
  InitStreamers <- BothListed
  CommandRooms <- OneRoom
  MaxSessions = 3
  MaxFlips = 4
  MaxEdits = 1
  ReloadFlips = 2
  ReloadSessions = 2
  MaxChunks = 2
  MaxStreams = 3
  MaxPauses = 1
  Callers = {t1, t2}
  Window = 2
  Conns = {w1, w2}
  MaxVersion = 2
  MaxChanges = 3
  MaxAsked = 2
  MaxFailures = 1
SPECIFICATION FairMCSpec
INVARIANTS ActiveIsGoing GoingIsActive PanelReachesSession NoDeadController
INVARIANTS NoOrphan LossBounded
PROPERTIES FollowsTheRoom DeadAudioEndsPipeline ChangeReachesBrowser AutoRecovers PageCatchesUp
\* Flips, edits, audio and pushes are bounded and come to their end.
CHECK_DEADLOCK FALSE
