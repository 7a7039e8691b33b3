CONSTANTS
  Users <- MCUsers
  Magic = 3
  Forever = 100
  Configs <- LostWakeConfigs
SPECIFICATION Spec
INVARIANT UnlockedMeansNoWaiter
CHECK_DEADLOCK FALSE
