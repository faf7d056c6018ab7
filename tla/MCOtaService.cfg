SPECIFICATION FairSpec
CONSTANTS
  Cancellers = {}
  MaxStarts = 3
  Blocks = 2
CHECK_DEADLOCK FALSE
INVARIANTS
  LaunchIsSafe
  IdleIsSettled
  NothingOutlivesNode
  AnswerIsOwn
PROPERTIES
  CancelStands
  Settles
