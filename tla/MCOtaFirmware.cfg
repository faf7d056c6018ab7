SPECIFICATION MCSpec
CONSTANTS
  FramePayload = 2
  SequenceSpace = 4
  IndexSpace = 4
  MaxBlockSize = 8
  MaxBlockCount = 4
  MaxImageSize = 40
  MaxReportedSize = 10
  Names = {"a.bin", "b.bin"}
  MaxRuns = 3
  Hosts = {left, right}
  NodeIds = {1, 2, 3}
  RequestBase = 8
  ResponseBase = 4
  StdMax = 10
  ExtMax = 20
  MaxOrders = 2
  MaxStrays = 1
  SocketBuffer = 2
INVARIANTS
  PlacedWhereRead
  SentIsGood
SYMMETRY Swaps
CHECK_DEADLOCK FALSE
