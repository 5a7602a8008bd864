SPECIFICATION Spec
CONSTANTS
  k1 = k1
  k2 = k2
  k3 = k3
  Clients <- MCClients
  Workers <- MCWorkers
  None = none
  Size = 1
  Backlog = 0
  MaxClients = 2
  Base = 4
  FdLimit = 8
INVARIANTS SlotsSafe AloneIsSafe
CHECK_DEADLOCK FALSE
