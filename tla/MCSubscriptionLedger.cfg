SPECIFICATION FairSpec
CONSTANTS
  r1 = r1
  r2 = r2
  w1 = w1
  w2 = w2
  None = None
  PlanInfo <- TwoPlans
  Requests = {r1, r2}
  Amounts = {1, 2}
  Workers = {w1, w2}
  Wallet = 1
  MaxSubs = 2
  MaxTime = 3
  MaxOps = 3
INVARIANTS GivenWithinTotal ChargedOnce OrderlyUnlessRaced
PROPERTIES EndedStays MaintainedInTheEnd
CHECK_DEADLOCK FALSE
