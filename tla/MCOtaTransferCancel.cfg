SPECIFICATION Spec
CONSTANTS
  FramePayload = 1
  SequenceSpace = 4
  IndexSpace = 2
  MaxBlockSize = 4
  MaxBlockCount = 2
  MaxRetries = 1
  ImageSize = 3
  Capabilities <- OneCapability
  SessionSpace = 4
  TxCapacity = 3
  RxCapacity = 2
  MaxRuns = 1
  HostMayCrash = FALSE
  DeviceMayReset = TRUE
CHECK_DEADLOCK FALSE
PROPERTIES CancelSendsAbort
