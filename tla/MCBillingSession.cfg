SPECIFICATION FairSpec
CONSTANTS
  r1 = r1
  r2 = r2
  Requests = {r1, r2}
  Profiles <- MCProfiles
  Actuals = {1, 3}
  Targets = {1, 3}
  Fees = {0, 1}
  Wallet0 = 4
  Token0 = 4
  SubTotal = 4
  TrustQuota = 3
  MaxFaults = 1
INVARIANTS NeverOverRefunded ExactCharge BooksAgree
PROPERTIES CommittedIsFinal EventuallyMadeWhole
CHECK_DEADLOCK FALSE
