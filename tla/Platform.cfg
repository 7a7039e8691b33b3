CONSTANTS
  Moving = {"threads", "files", "irq", "trap", "i2c", "smp", "dtb", "arith"}
  Scene = "usual"
  Cpus = {c1, c2}
  Objs = {o1, o2}
  MaxTid = 3
SPECIFICATION MCSpec
INVARIANTS TablesSound InterruptsSound TrapsSound TransfersSound CpusSound DevicesFound NumbersRight
PROPERTIES InterruptsServed SignalsServed
CHECK_DEADLOCK FALSE
