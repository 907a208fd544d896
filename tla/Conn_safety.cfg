SPECIFICATION Spec
CONSTANTS
  Openers = {d1}
  Admins = {}
  Slots = {s1, s2, s3}
  NoReq = NoReq
  Idx = {i1, i2, i3, i4}
  NoId = NoId
  Readers = {t1, t2}
  Repliers = {t1, t2}
  Worker = Worker
  Sender = Sender
  ReadFaults = TRUE
  ReplyFaults = TRUE
  MaxWakes = 2
SYMMETRY Symmetry
INVARIANTS
  RequestsSound
  OrderKept
  AbortLeavesNothing
  NoLostWake
  AbortNeverConnected
  AbortQuietWhileOpen
  OpenIsUp
PROPERTY ImplementsBlockIO
