SPECIFICATION PoolFairSpec
CONSTANTS
  c1 = c1
  c2 = c2
  j1 = j1
  j2 = j2
  None = None
  Channels = {c1, c2}
  MultiKey = {c1}
  New = {c2}
  NKeys = 2
  g1 = g1
  g2 = g2
  Groups = {g1, g2}
  Home = g1
  Jobs = {j1, j2}
  MaxOps = 2
  MaxFaults = 1
INVARIANT AbilitiesAgree
PROPERTIES Reloadable CacheConverges LastKeyDisables
CHECK_DEADLOCK FALSE
