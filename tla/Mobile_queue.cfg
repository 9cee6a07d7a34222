SPECIFICATION FairSpec
CONSTANTS
  r1 = r1
  r2 = r2
  Requests = {r1}
  NoRequest = NoRequest
  BatchMax = 2
  MaxItems = 3
  MaxPosts = 2
  MaxFaults = 1
CHECK_DEADLOCK FALSE
INVARIANTS FiledTruthfully WrittenOnce
PROPERTIES EventuallyFiled ImplementsLease
