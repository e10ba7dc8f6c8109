SPECIFICATION Spec
CONSTANTS
  WeekLen = 6
  Delay = 1
  Main = 2
  Threshold = 2
  Misnamed = Misnamed
  Deadline <- MCDeadline
  Lookalikes <- MCLookalikes
  Typos = {}
  OldFiles <- MCOldFiles
  MaxFiles = 3
  RunLimit = 1
  Horizon <- MCHorizon
INVARIANTS
  TypeOK
  NoWeekInSilence
  RepeatsHaveCause
PROPERTIES
  OnlyMissingFilesDelay
  ReportsAreFresh
CHECK_DEADLOCK FALSE
