SPECIFICATION Spec
CONSTANTS
  Users = {u1, u2}
  MaxAmount = 3
  MaxReceipts = 3
  MaxEdits = 2
SYMMETRY Symmetry
CHECK_DEADLOCK FALSE
INVARIANTS StatusTellsPaid NeverOverpaid PaidClearsReceivable
