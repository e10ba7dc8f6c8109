SPECIFICATION Spec
CONSTANTS
  WeekLen = 6
  Delay = 1
  Main = 2
  Threshold = 2
  Misnamed = Misnamed
  Deadline <- MCDeadline
  Lookalikes <- MCLookalikes
  Typos <- MCLookalikes
  OldFiles <- MCOldFiles
  MaxFiles = 3
  RunLimit = 1
  Horizon <- MCHorizon
PROPERTY
  OnlyMissingFilesDelay
CHECK_DEADLOCK FALSE
