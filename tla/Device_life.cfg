\* A removed module, or memory used after it was freed, is the end.
SPECIFICATION Spec
CONSTANTS
  Threads = {t1, t2}
  DevIds = {d1, d2}
  NStructs = 2
  MaxDevices = 1
  MaxOpens = 1
INVARIANTS DevicesSound StructKept HoldersSafe
PROPERTY RemovalEnds
CHECK_DEADLOCK FALSE
