SPECIFICATION ScriptSpec
CONSTANTS
  e1 = e1
  e2 = e2
  v1 = v1
  b = b
  Ends <- MCEnds
  Other <- MCOther
  Paths = {v1}
  NoRoute = NoRoute
  Adverts <- UpdatesWithdraws
  NoBody = NoBody
  Faults = {"route"}
  Directions <- AnyDirection
  MaxOpens = 4
  MaxSeq = 4
  MaxQueue = 3
  MaxBurst = 1
  MaxBroken = 1
SYMMETRY Symmetry
INVARIANTS
  RunsThrough
  SessionsFollowTopology
CHECK_DEADLOCK FALSE
