SPECIFICATION MCSpec
CONSTANTS
  k1 = k1
  k2 = k2
  k3 = k3
  k4 = k4
  None = none
  Traces <- MCTraces
  Route <- MCRoute
  BeginsWith <- MCBeginsWith
  Foreign <- MCForeign
  MaxForeign = 1
  MaxTtl = 3
  Owners <- MCOwners
  RawClients <- MCRawClients
  Size = 2
  TextLengths <- MCTextLengths
  RcvQueue = 2
INVARIANTS RouteRight RawAnswers
PROPERTIES TraceEnds DatagramPromise AnsweredUnlessDropped
CHECK_DEADLOCK FALSE
