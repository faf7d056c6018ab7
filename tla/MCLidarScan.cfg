SPECIFICATION MCSpec
CONSTANTS
  Modes = {"capsule", "ultra", "dense", "ultradense", "hq", "normal"}
  Full = 5
  Fine = 10
  Speeds = {1, 2}
  FrameBytes = 4
  MaxDiff = 3
  MaxNodes = 12
  MaxFrames = 7
  MaxSessions = 2
  MaxFaults = 1
  Degrees = 8
  AngleFine = 3
  Multiple = 2
  MaxSamples = 3
INVARIANTS
  ScanIsTurn
  ShownInPlace
CHECK_DEADLOCK FALSE
