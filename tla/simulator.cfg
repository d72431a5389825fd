SPECIFICATION SchedSpec
CONSTANTS
  Delays = {0, 2}
  StopTimes = {0, 2}
  EventTimes <- MCEventTimes
  StepCounts = {0, 1}
  MaxEvents = 4
  MaxRuns = 2
INVARIANTS
  NoEventLost
PROPERTIES
  InOrder
  RunDrains
  RunReturns
CHECK_DEADLOCK FALSE
