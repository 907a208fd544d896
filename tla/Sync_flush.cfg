SPECIFICATION Spec
CONSTANTS
  Callers = {a, b}
  Files = {f0, f1}
CHECK_DEADLOCK FALSE
INVARIANTS
  TypeOK
  LateCounted
  SyncedWhenHeld
PROPERTY SyncSettles
