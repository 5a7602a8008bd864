SPECIFICATION MCSpec
CONSTANTS
  cpu1 = cpu1
  cpu2 = cpu2
  u1 = u1
  u2 = u2
  Cpus <- MCCpus
  Capacity = 2
  Segments <- MCSegments
  MaxSegments = 2
  CounterMod = 2
  MaxRequests = 3
  MaxLoads = 2
  Users <- MCUsers
  MaxCalls = 5
  AnswerLength = 1
  GetLength = 2
  BufSize = 2
  Lengths <- MCLengths
  MaxOpens = 3
  Counts <- MCCounts
  Hellos <- MCHellos
  MaxSysLoads = 3
INVARIANTS RequestsSafe NothingLeaks AloneCounts AloneAnswered BudgetKept SysFileSound
PROPERTY RemovalEnds
CHECK_DEADLOCK FALSE
