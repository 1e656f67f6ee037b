SPECIFICATION RetrySpec
CONSTANTS
  Channels <- MCChannels
  GroupsOf <- MCGroupsOf
  MultiKey <- MCMultiKey
  Priority <- MCPriority
  Weight <- MCWeight
  AutoGroups <- MCAutoGroups
  MaxRetries = 2
  MaxChanges = 1
  None = None
INVARIANTS BilledIsServing EveryGroupTried
PROPERTY RequestEnds
CHECK_DEADLOCK FALSE
