\* Two CPUs; tasks are added with interrupts disabled.
CONSTANTS
  Cpus = {c1, c2}
  CallersIrq = {FALSE}
  Delays = {0, 2}
  Slices = {2}
  MaxTasks = 2
  MaxTime = 2
SPECIFICATION FairSpec
INVARIANTS TasksSound
PROPERTIES RunsEarliestInTime EveryTaskRuns
