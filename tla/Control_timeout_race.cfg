SPECIFICATION ControlSpec
CONSTANTS
  Openers = {d1}
  Admins = {a1}
INVARIANT AbortNeverConnected
