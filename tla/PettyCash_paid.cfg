SPECIFICATION Spec
CONSTANTS
  Users = {u1, u2}
  Claims = {c1}
  Tops = {t1}
  MaxAmount = 2
  MaxMoves = 3
SYMMETRY Symmetry
CHECK_DEADLOCK FALSE
INVARIANTS BalanceTellsMovements ToppedOnce PaidAsApproved ProvenBeforePaid
