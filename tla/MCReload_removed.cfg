CONSTANTS
  r1 = r1
  r2 = r2
  Rooms <- TwoRooms
  InitStreamers <- BothListed
  CommandRooms <- OneRoom
  MaxSessions = 1
  MaxFlips = 1
  MaxEdits = 1
SPECIFICATION ReloadSpec
INVARIANT RemovedStops
CHECK_DEADLOCK FALSE
