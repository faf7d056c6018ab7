SPECIFICATION OneProcessSpec
CONSTANTS
  FramePayload = 1
  SequenceSpace = 4
  IndexSpace = 2
  MaxBlockSize = 4
  MaxBlockCount = 2
  MaxRetries = 2
  ImageSize = 3
  Capabilities <- MixedCapabilities
  SessionSpace = 4
  TxCapacity = 3
  RxCapacity = 2
  MaxRuns = 2
  HostMayCrash = FALSE
  DeviceMayReset = TRUE
CHECK_DEADLOCK FALSE
INVARIANTS
  AbortIsLast
PROPERTIES
  RunEnds
  ReportsInOrder
