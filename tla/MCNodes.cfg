SPECIFICATION MCSpec
CONSTANTS
  Moves = {"w", "s"}
  Timeout = 2
  MaxBack = 1
  MaxJumps = 2
  MaxKeys = 2
  SeqSpace = 3
  Laps = 2
  RequireCalibrated = TRUE
  Period = 2
  ImuJumps = 1
  FreeThreshold = 20
  OccupiedThreshold = 65
  Topics <- MCTopics
  Resolution = 4
  Regions <- MCRegions
  Robots = {"r"}
  ClearRadius = 1
  PathDistance = 4
  MaxPoses = 2
  Messages <- MCMessages
  Offsets <- MCOffsets
INVARIANTS
  QuitStops
PROPERTIES
  DeadMan
  NoRevival
  OneSample
  LargestWins
  Trail
  Recovers
CHECK_DEADLOCK FALSE
