SPECIFICATION MCSpec
CONSTANTS
  BodyLooks <- MCBodyLooks
  RxbufMax = 18
  LineCap = 18
  MaxSent = 4
  MaxFaults = 1
  MaxCommands = 2
  CommandLineCap = 7
  CommandLooks <- MCCommandLooks
PROPERTIES
  SpeedsInOrder
  ReadYields
  CommandsInOrder
  CommandReaches
CHECK_DEADLOCK FALSE
