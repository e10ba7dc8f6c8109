SPECIFICATION Spec
CONSTANTS
  WeekLen = 6
  Delay = 1
  Main = 2
  Threshold = 2
  Misnamed = Misnamed
  Deadline <- MCDeadline
  Lookalikes <- MCLookalikes
  Typos = {}
  OldFiles <- MCOldFiles
  MaxFiles = 3
  RunLimit = 2
  Horizon <- MCHorizon
INVARIANT
  NoWeekInSilence
CHECK_DEADLOCK FALSE
