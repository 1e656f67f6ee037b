SPECIFICATION FairSpec
CONSTANTS
  w1 = w1
  w2 = w2
  n1 = n1
  None = None
  Orders = {o1}
  o1 = o1
  Kinds <- AllKinds
  Workers = {w1, w2}
  Nodes = {n1}
  NodeOf <- OneNode
  QuotaPerUnit = 2
  MaxExtra = 2
  MaxFaults = 1
INVARIANTS CreditedOnce AcknowledgedIsCredited
PROPERTIES KeepsPromise PaidIsCredited
CHECK_DEADLOCK FALSE
