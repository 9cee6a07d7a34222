SPECIFICATION Spec
CONSTANTS
  Users = {u1, u2}
  MaxAmount = 3
  MaxTax = 2
  MaxPayments = 3
  MaxLate = 2
SYMMETRY Symmetry
CHECK_DEADLOCK FALSE
INVARIANTS TypeOK JournalPerApproval PaidOnce StatusTellsPaid PaidClearsPayable
