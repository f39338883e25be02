SPECIFICATION FairSpec
CONSTANTS
  r1 = r1
  r2 = r2
  r3 = r3
  Requests = {r1, r2, r3}
  Size <- Sizes
  Capacity = 3
CHECK_DEADLOCK FALSE
INVARIANTS UnfinishedExact BatchesWhole ShutdownHonest
PROPERTIES StopReturns
