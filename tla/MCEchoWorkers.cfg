SPECIFICATION FairSpec
CONSTANTS
  k1 = k1
  k2 = k2
  k3 = k3
  w1 = w1
  w2 = w2
  Clients <- MCClients
  Workers <- MCWorkers
  None = none
  Size = 2
  Backlog = 0
  Ports <- MCPorts
  PortOf <- MCPortOf
  Lone = 0
INVARIANTS OneServerEach
PROPERTIES KeepsPromise AnsweredUnlessAllAsleep
CHECK_DEADLOCK FALSE
