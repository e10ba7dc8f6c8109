SPECIFICATION LifeSpec
CONSTANTS
  Timeclock = Timeclock
  FlipSheet = FlipSheet
  Reset = Reset
  Jobs = {Timeclock, FlipSheet}
  Inline = {Timeclock}
  Orig <- MCOrig
  MayEnd <- MCMayEnd
  WeekLen = 4
  Delay = 1
  Threshold = 2
  Grace = 0
  Horizon <- MCSunday
INVARIANTS
  LifeTypeOK
  FailuresExitOne
PROPERTIES
  OnlyFailuresAreFatal
  NoBodyIntoTheClose
  InstancesAreReleased
  ShutdownExits
  FreezeExitsOne
CHECK_DEADLOCK FALSE
