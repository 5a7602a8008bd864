SPECIFICATION FairSpec
CONSTANTS
  k1 = k1
  k2 = k2
  k3 = k3
  k4 = k4
  w1 = w1
  Clients <- MCClients
  Workers <- MCWorkers
  None = none
  Size = 1
  Backlog = 0
  Capacity = 1
  Base = 5
  CharHalf = 8
  FdLimit = 12
INVARIANT FdsSafe
PROPERTIES KeepsPromise Answered
CHECK_DEADLOCK FALSE
