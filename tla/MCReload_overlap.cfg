CONSTANTS
  r1 = r1
  r2 = r2
  Rooms <- OneRoom
  InitStreamers <- OneListed
  CommandRooms <- OneRoom
  MaxSessions = 2
  MaxFlips = 4
  MaxEdits = 0
SPECIFICATION ReloadSpec
INVARIANT StoppedOffline
CHECK_DEADLOCK FALSE
