SPECIFICATION Spec
CONSTANTS
  BlockBytes = 16
  SizeMod = 65536
  SlabClasses <- FourSlots
  KernelTables <- Kernel
  Configs <- AllConfigs
INVARIANTS PoolsSound GrantsSound
CHECK_DEADLOCK FALSE
