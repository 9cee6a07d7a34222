SPECIFICATION Spec
CONSTANTS
  e1 = e1
  e2 = e2
  t1 = t1
  t2 = t2
  a1 = a1
  a2 = a2
  NoEvent = NoEvent
  Events = {e1}
  Guarded = {e1}
  MaxRows = 2
  MaxLetters = 3
  Ticks = {t1, t2}
  Admins = {a1}
  Limits = {2}
  DefaultLimit = 2
  BatchLimit = 2
  Threshold = 3
  MaxOutages = 0
  MaxEdits = 0
  MaxRequests = 2
SYMMETRY TickSymmetry
INVARIANTS OneHolder GuardedOnce ConcurrentOnlyByHand
PROPERTIES DeliveredIsFinal ImplementsLease
