SPECIFICATION Spec
CONSTANTS
  e1 = e1
  e2 = e2
  v1 = v1
  v2 = v2
  Ends <- MCEnds
  Other <- MCOther
  Paths <- OnePath
  NoRoute = NoRoute
  b = b
  Adverts <- Updates
  NoBody = NoBody
  Faults = {}
  MaxOpens = 3
  MaxSeq = 3
  MaxQueue = 3
  MaxBurst = 1
  MaxBroken = 1
INVARIANTS
  SameSession
  SettledAgreement
  RouteAbortsAfterError
PROPERTIES
  Terminates
CHECK_DEADLOCK FALSE
