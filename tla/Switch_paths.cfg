\* A BUG_ON, a race or a suspension taken from its holder is the end.
SPECIFICATION Spec
CONSTANTS
  IOs = {i1, i2}
  Ctl = {c1}
  Builds = {"blkmq", "makereq"}
  MaxSent = 1
  MaxOwed = 1
INVARIANTS SuspensionsSound GateHolds FailedIOServed
PROPERTY SwitchBehindGate
SYMMETRY Symmetry
CHECK_DEADLOCK FALSE
