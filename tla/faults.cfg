SPECIFICATION Spec
CONSTANTS
  e1 = e1
  e2 = e2
  v1 = v1
  v2 = v2
  Ends <- MCEnds
  Other <- MCOther
  Paths <- TwoPaths
  NoRoute = NoRoute
  b = b
  Adverts <- Updates
  NoBody = NoBody
  Faults = {"route", "link", "clear"}
  MaxOpens = 2
  MaxSeq = 2
  MaxQueue = 1
  MaxBurst = 1
  MaxBroken = 1
SYMMETRY Symmetry
INVARIANTS
  SessionInv
  OnlyOpenEstablishes
CHECK_DEADLOCK FALSE
