CONSTANTS
  MaxPid = 3
  Configs <- AllConfigs
SPECIFICATION FairSpec
INVARIANTS ProcessesSound CleanUpSound
PROPERTIES ExitingProcessExits
CHECK_DEADLOCK FALSE
