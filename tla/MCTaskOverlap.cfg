SPECIFICATION FairSpec
CONSTANTS
  t1 = t1
  t2 = t2
  p1 = p1
  p2 = p2
  c1 = c1
  Tasks = {t1}
  Passes = {p1, p2}
  Clients = {}
  Kind <- VideoKind
  Quotas = {0, 2}
  Costs = {0, 1, 3}
  SubmitTimes = {1740000000, 1760000000, 1800000000}
  SunoReasons = {"FAILURE"}
  SweepLimit = 100
  QueryLimit = 1000
  MaxFetches = 0
  MaxFaults = 2
INVARIANTS BilledOnce ChargeMatchesStatus
PROPERTIES FinalIsFinal
CHECK_DEADLOCK FALSE
