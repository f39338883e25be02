SPECIFICATION FairSpec
CONSTANTS
  g1 = g1
  g2 = g2
  e1 = e1
  e2 = e2
  e3 = e3
  e4 = e4
  w1 = w1
  w2 = w2
  w3 = w3
  w4 = w4
  Groups = {g1, g2}
  Episodes = {e1, e2, e3, e4}
  Workers = {w1, w2, w3, w4}
  SelfCancelling = {e1, e3}
  GroupOf <- Assigned
  None = None
CHECK_DEADLOCK FALSE
INVARIANTS InOrder ClientOutlivesJobs
PROPERTIES ShutdownReturns EpisodesStart
