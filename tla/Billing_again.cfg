SPECIFICATION Spec
CONSTANTS
  Invoices = {i1, i2, i3}
  Milestones = {m1}
  Costs = {c1}
  Users = {u1}
  Nothing = Nothing
  MaxLate = 1
CHECK_DEADLOCK FALSE
PROPERTY ApprovedNotAddedAgain
