\* A BUG_ON, a race or a suspension taken from its holder is the end.
SPECIFICATION Spec
CONSTANTS
  IOs = {i1}
  Ctl = {c1}
  Builds = {"blkmq"}
  MaxSent = 1
  MaxOwed = 1
INVARIANT ReissuedAreFailed
CHECK_DEADLOCK FALSE
