SPECIFICATION Spec
CONSTANTS
  WeekLen = 4
  Delay = 1
  Main = 1
  Threshold = 2
  RunLimit = 0
  Horizon <- MCHorizon
INVARIANT
  EachWeekHasItsTab
CHECK_DEADLOCK FALSE
