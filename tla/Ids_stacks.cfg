SPECIFICATION Spec
CONSTANTS
  MaxDevices = 1
  MaxQDepth = 2
  HwQueues = 4
  CPUs = {c1, c2}
  Reqs = {r1, r2, r3}
  NoReq = NoReq
  NumIds <- PoolSize
  PerCpu = 2
  Gens = 2
  MaxEnders = 1
SYMMETRY Symmetry
INVARIANTS
  TypeOK
  IdsDisjoint
  NoIdLost
  FindsInFlight
  NeverZero
  ExhaustedInUse
