SPECIFICATION DiscountsSpec
CONSTANTS
  Starts <- MCStarts
  MaxGap = 6
  Discounts <- MCDiscounts
  Threshold = 3
  KeepDays = 2
  LastDay = 4
INVARIANTS
  DiscountsTypeOK
  ShiftsAddUp
  NoDayIsSkipped
  OnlyAGapBarsTheRetry
PROPERTY
  ShiftsLikeCronSlots
CHECK_DEADLOCK FALSE
