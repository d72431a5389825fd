SPECIFICATION NetSpec
CONSTANTS
  W = 4
  MaxWeight = 20
  MaxLoad = 20
  MaxTTL = 7
  MaxFifo = 2
  MaxCapacity = 3
  MaxNest = 2
  Fields = {"srcAS", "dstAS", "srcIP", "dstIP", "dstMask", "octets"}
  Scripts <- MCScripts
  Commands <- MCCommands
  Probes <- MCProbes
  MaxCommands = 3
INVARIANTS
  DatabaseSound
  RoutesShortest
  ProbesTell
  TrafficAccounted
  ExportRebuilds
PROPERTIES
  ProbesEnd
