SPECIFICATION Spec
CONSTANTS
  FirstDay <- MCFirstDay
  LastYear = 2028
INVARIANTS
  TypeOK
  WeekNamesMatch
  LookalikesAreFarOff
  SasMissesTheEndsOnly
CHECK_DEADLOCK FALSE
