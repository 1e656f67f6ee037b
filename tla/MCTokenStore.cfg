SPECIFICATION TokenFairSpec
CONSTANTS
  r1 = r1
  Missing = Missing
  Requests = {r1}
  Jobs = {1, 2}
  Slots = {1, 2}
  Quota = 1
  TTL = 1
  MaxOps = 2
  Ops <- SomeOps
INVARIANT PartialRefused
PROPERTIES HashesSettle DisabledBlocks
CHECK_DEADLOCK FALSE
