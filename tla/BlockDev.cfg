SPECIFICATION Spec
CONSTANTS
  Blocks = {b1, b2}
  Values = {v1, v2}
  FF = FF
  Junk = Junk
  Bad = Bad
  None = None
  MaxTime = 2
  Configs <- AllConfigs
INVARIANTS CacheSound
PROPERTIES ImplementsDisk StepsSound
VIEW NoResults
CHECK_DEADLOCK FALSE
