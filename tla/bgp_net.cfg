SPECIFICATION Spec
CONSTANTS
  Call <- Perform
  W = 4
  MaxWeight = 20
  MaxLoad = 20
  MaxTTL = 7
  MaxFifo = 2
  MaxCapacity = 3
  MaxNest = 2
  Fields = {}
  MaxSegment = 6
  MaxComms = 3
  MaxEcomms = 3
  KeySize = 40
  PrefDefault = 100
  MedDefault = 0
  MedMissing = 1000
  MaxMatcher = 100
  MatchSize = 40
  MaxDepth = 3
  MAX_DEPTH = 5
  MedType = "deterministic"
  MaxUint8 = 255
  MaxStack = 4
  HashSize = 7
  Files <- MCFiles
  HardLimit = 100
  PACKAGE_VERSION <- MCVersion
  Scripts <- MCScripts
  Commands <- MCCommands
  MaxCommands <- MCMaxCommands
INVARIANTS
  StateSound
  BestRecorded
  DecisionStands
  EndsAgree
  Exported
  LoopFree
  PathsTrue
  PoliciesHold
PROPERTIES
  Settles
  OthersKeep
