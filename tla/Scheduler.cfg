CONSTANTS
  NCpus = 2
  Threads <- MCThreads
  Users <- MCUsers
  Boot = "k1"
  IntMax = 2147483647
  MaxEst = 2
  Configs <- AllConfigs
SPECIFICATION FairSpec
INVARIANTS QueuesSound StacksUnused
PROPERTIES ExitedIsFinal QueuedGetsItsTurn
CHECK_DEADLOCK FALSE
