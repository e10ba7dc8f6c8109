SPECIFICATION Spec
CONSTANTS
  Timeclock = Timeclock
  BalanceSheet = BalanceSheet
  FlipSheet = FlipSheet
  Reset = Reset
  Jobs = {Timeclock, BalanceSheet}
  Inline = {Timeclock}
  Orig <- MCOrig
  MayEnd <- MCMayEnd
  WeekLen = 5
  Delay = 1
  Threshold = 2
  Grace = 0
  Horizon <- MCHorizon
INVARIANTS
  TypeOK
  RunsSettleBeforeStop
  FrozenJobsAreReported
  StoreFollowsArgs
  WakesForEveryRun
PROPERTIES
  RetryKeepsPace
  OnlyLongRunsCostASlot
  LivesAsPromised
CHECK_DEADLOCK FALSE
