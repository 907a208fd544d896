SPECIFICATION LiveSpec
CONSTANTS
  Openers = {d1}
  Admins = {}
  Slots = {s1, s2}
  NoReq = NoReq
  Idx = {i1, i2}
  NoId = NoId
  Readers = {t1}
  Repliers = {t2}
  Worker = Worker
  Sender = Sender
  ReadFaults = FALSE
  ReplyFaults = FALSE
  MaxWakes = 1
PROPERTY IOCompletes
