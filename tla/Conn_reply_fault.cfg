SPECIFICATION Spec
CONSTANTS
  Openers = {d1}
  Admins = {}
  Slots = {s1, s2}
  NoReq = NoReq
  Idx = {i1, i2, i3}
  NoId = NoId
  Readers = {t1}
  Repliers = {t1}
  Worker = Worker
  Sender = Sender
  ReadFaults = TRUE
  ReplyFaults = TRUE
  MaxWakes = 2
INVARIANT NotStranded
