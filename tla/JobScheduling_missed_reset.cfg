SPECIFICATION Spec
CONSTANTS
  Timeclock = Timeclock
  BalanceSheet = BalanceSheet
  FlipSheet = FlipSheet
  Reset = Reset
  Jobs = {Timeclock}
  Inline = {Timeclock}
  Orig <- MCOrig
  MayEnd <- MCMayEnd
  WeekLen = 5
  Delay = 1
  Threshold = 2
  Grace = 0
  Horizon <- MCHorizon
PROPERTY
  ResetRunsWeekly
CHECK_DEADLOCK FALSE
