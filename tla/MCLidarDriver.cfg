SPECIFICATION MCSpec
CONSTANTS
  Launches <- MCLaunches
  MaxRx = 2
  MaxLate = 1
  MaxFaults = 1
  MaxCalls = 1
  MaxBytes = 3
  MaxBinds = 2
INVARIANTS
  NothingForeign
  NothingLost
  Rests
PROPERTIES
  Responds
CHECK_DEADLOCK FALSE
