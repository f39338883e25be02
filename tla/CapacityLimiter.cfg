SPECIFICATION FairSpec
CONSTANTS
  Calls = {1, 2, 3, 4}
  Capacity <- Capacities
  MaxWaiters <- Queues
  MaxPhases = 2
INVARIANTS SlotsConserved ThreadsBounded
PROPERTIES WaitersServed
