SPECIFICATION Spec
CONSTANTS
  r1 = r1
  r2 = r2
  u1 = u1
  u2 = u2
  Reqs = {r1}
  NoReq = NoReq
  Users = {u1, u2}
  Sizes = {2}
  MaxOnHand = 2
  MaxOuts = 2
  MaxManual = 0
  MaxItems = 2
  MaxUnusual = 1
SYMMETRY BothSymmetry
CHECK_DEADLOCK FALSE
INVARIANTS NeverOverbought CoveredOnce
PROPERTY CompletesAfterIssue
