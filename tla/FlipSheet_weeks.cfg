SPECIFICATION ReportsSpec
CONSTANTS
  WeekLen = 4
  Delay = 1
  Main = 1
  Threshold = 2
  RunLimit = 1
  Thursday = 3
  Allotted = 40
  Training = 2
  Horizon <- MCHorizon
  Worked <- MCWorked
  Typed <- MCTyped
INVARIANTS
  ShowsThreeWeeks
  ReportsTypeOK
  TabsOutlastTheirReport
  NoFalseAlarm
PROPERTY
  OnlyEarlyTabsLoseHours
CHECK_DEADLOCK FALSE
