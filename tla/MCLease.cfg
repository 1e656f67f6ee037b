SPECIFICATION FairSpec
CONSTANTS
  r1 = r1
  r2 = r2
  Runners = {r1, r2}
  MaxRows = 2
  TTL = 1
  MaxDelay = 1
  MaxFaults = 1
INVARIANTS ExecutedOnce OneLiveHandler RunningIsCovered
PROPERTIES EveryRowEnds FinalStays
CHECK_DEADLOCK FALSE
