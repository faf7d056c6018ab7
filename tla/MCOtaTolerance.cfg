SPECIFICATION ToleranceSpec
CONSTANTS
  FramePayload = 1
  SequenceSpace = 4
  IndexSpace = 2
  MaxBlockSize = 4
  MaxBlockCount = 2
  MaxRetries = 2
  ImageSize = 3
  Capabilities <- OneCapability
  SessionSpace = 4
  TxCapacity = 4
  RxCapacity = 3
  MaxRuns = 2
  HostMayCrash = TRUE
  DeviceMayReset = TRUE
  FaultBudget = 2
INVARIANTS
  RunSucceeds
  CompletedIsFlashed
  HostNeverAhead
PROPERTIES
  UpdateSpec
CHECK_DEADLOCK FALSE
