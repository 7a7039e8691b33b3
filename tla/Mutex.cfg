CONSTANTS
  Users <- MCUsers
  Magic = 3
  Forever = 100
  Configs <- AllConfigs
SPECIFICATION FairSpec
INVARIANTS LockSound WaitersSound
PROPERTIES ImplementsRWLock ExclusiveEntersFreeMutex
CHECK_DEADLOCK FALSE
