SPECIFICATION Spec
CONSTANTS
  e1 = e1
  e2 = e2
  t1 = t1
  t2 = t2
  a1 = a1
  a2 = a2
  NoEvent = NoEvent
  Events = {e1, e2}
  Guarded = {e1}
  MaxRows = 2
  MaxLetters = 5
  Ticks = {t1}
  Admins = {a1}
  Limits = {1, 2}
  DefaultLimit = 2
  BatchLimit = 2
  Threshold = 1
  MaxOutages = 1
  MaxEdits = 1
  MaxRequests = 0
INVARIANTS AttemptsMatchErrors NoSilentLoss
