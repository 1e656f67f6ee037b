SPECIFICATION Spec
CONSTANTS
  t1 = t1
  t2 = t2
  p1 = p1
  p2 = p2
  c1 = c1
  Tasks = {t1}
  Passes = {p1}
  Clients = {c1}
  Kind <- RealtimeKind
  Quotas = {2}
  Costs = {0}
  SubmitTimes = {1800000000}
  SunoReasons = {"FAILURE"}
  SweepLimit = 100
  QueryLimit = 1000
  MaxFetches = 1
  MaxFaults = 0
INVARIANTS FailureIsRefunded
CHECK_DEADLOCK FALSE
