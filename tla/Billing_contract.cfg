SPECIFICATION Spec
CONSTANTS
  Invoices = {i1, i2}
  Milestones = {m1}
  Costs = {c1}
  Users = {u1, u2}
  Nothing = Nothing
  MaxLate = 1
SYMMETRY Symmetry
CONSTRAINT SomeTrusted
CHECK_DEADLOCK FALSE
INVARIANTS JournalTellsIssued JournalOnce FlagTellsBilled BilledOnce
