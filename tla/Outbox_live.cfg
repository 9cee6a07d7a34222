SPECIFICATION FairSpec
CONSTANTS
  e1 = e1
  e2 = e2
  t1 = t1
  t2 = t2
  a1 = a1
  a2 = a2
  NoEvent = NoEvent
  Events = {e1}
  Guarded = {e1}
  MaxRows = 2
  MaxLetters = 3
  Ticks = {t1, t2}
  Admins = {a1}
  Limits = {1, 2}
  DefaultLimit = 2
  BatchLimit = 1
  Threshold = 2
  MaxOutages = 1
  MaxEdits = 0
  MaxRequests = 1
PROPERTY EventuallySettled
