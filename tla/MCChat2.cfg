SPECIFICATION MCSpec
CONSTANTS
  k1 = k1
  k2 = k2
  k3 = k3
  Clients <- MCClients
  Letters <- MCLetters
  NameOf <- MCNameOf
  Garbage <- MCGarbage
  GhostLines <- MCGhostLines
  ListSize = 6
  BufSize = 8
  Starts = 2
  Senders <- MCSenders
  None = none
  Lengths <- MCLengths
  MaxSends = 2
  ChatSize = 9
INVARIANTS SemGuards ListRight SoloKept
PROPERTY GetsThrough
CHECK_DEADLOCK FALSE
