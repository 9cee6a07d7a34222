SPECIFICATION Spec
CONSTANTS
  d1 = d1
  d2 = d2
  u1 = u1
  u2 = u2
  l1 = l1
  l2 = l2
  Docs = {d1, d2}
  NoDoc = NoDoc
  PoLines = {l1, l2}
  Advance = Advance
  Users = {u1, u2}
  NoUser = NoUser
  MaxAmount = 3
  MaxLate = 1
CHECK_DEADLOCK FALSE
SYMMETRY Symmetry
INVARIANTS NeverOverdrawn StatusTellsBalance PostedAsApproved PostedOnce LinesSettledOnce
PROPERTY ImplementsAccount
