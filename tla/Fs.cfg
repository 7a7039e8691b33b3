CONSTANTS
  Inodes = {1, 2, 3}
  Zero = Zero
  Junk = Junk
  NoHandle = NoHandle
  t1 = t1
  t2 = t2
  Threads = {t1, t2}
  Objs = {1, 2, 3, 4, 5, 6, 7, 8}
  Configs <- AllConfigs
SPECIFICATION Spec
INVARIANTS TreeSound FilesSound
CHECK_DEADLOCK FALSE
