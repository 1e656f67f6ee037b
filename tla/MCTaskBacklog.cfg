SPECIFICATION FairSpec
CONSTANTS
  t1 = t1
  t2 = t2
  p1 = p1
  p2 = p2
  c1 = c1
  Tasks = {t1, t2}
  Passes = {p1}
  Clients = {c1}
  Kind <- MixedKind
  Quotas = {2}
  Costs = {0}
  SubmitTimes = {1800000000}
  SunoReasons = {"FAILURE"}
  SweepLimit = 1
  QueryLimit = 1
  MaxFetches = 1
  MaxFaults = 0
INVARIANTS SunoChargeMatchesStatus
PROPERTIES EventuallyFinished
CHECK_DEADLOCK FALSE
