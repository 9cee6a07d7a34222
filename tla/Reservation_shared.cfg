SPECIFICATION Spec
CONSTANTS
  r1 = r1
  r2 = r2
  u1 = u1
  u2 = u2
  Reqs = {r1, r2}
  NoReq = NoReq
  Users = {u1}
  Sizes = {2}
  MaxOnHand = 2
  MaxOuts = 1
  MaxManual = 1
  MaxItems = 1
  MaxUnusual = 1
SYMMETRY ReqSymmetry
VIEW WhatIsRead
CHECK_DEADLOCK FALSE
INVARIANTS ReservedWithinOnHand PromisesKept
PROPERTY ImplementsStock
