SPECIFICATION MCSpec
CONSTANTS
  Modes = {"normal"}
  Full = 5
  Fine = 10
  Speeds = {1, 2}
  FrameBytes = 4
  MaxDiff = 3
  MaxNodes = 12
  MaxFrames = 7
  MaxSessions = 2
  MaxFaults = 1
  Degrees = 8
  AngleFine = 3
  Multiple = 2
  MaxSamples = 3
INVARIANTS
  AlwaysOneTurn
CHECK_DEADLOCK FALSE
