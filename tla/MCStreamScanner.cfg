SPECIFICATION StreamSpec
CONSTANTS
  DataBuffer = 1
  StopBuffer = 3
  MaxLines = 3
INVARIANTS ScannedIsHandled EndHasReason
PROPERTY EveryoneLeaves
CHECK_DEADLOCK FALSE
