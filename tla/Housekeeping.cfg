\* Two clients that add and cancel; the housekeeping thread runs tasks.
CONSTANTS
  Clients = {c1, c2}
  Times = {0, 1}
  Intervals = {0, 1}
  Cancels = TRUE
  NoMem = TRUE
  TsMax = 1
  MaxTasks = 3
  MaxTime = 1
SPECIFICATION FairSpec
INVARIANTS QueueSound
PROPERTIES RunsInOrder TasksServed
CHECK_DEADLOCK FALSE
