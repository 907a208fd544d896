SPECIFICATION ControlSpec
CONSTANTS
  Openers = {d1}
  Admins = {a1, a2}
INVARIANT TimerNotLost
PROPERTY DisconnectEnds
CHECK_DEADLOCK FALSE
