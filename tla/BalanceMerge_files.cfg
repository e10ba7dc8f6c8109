SPECIFICATION Spec
CONSTANTS
  RyoNames <- MCRyoNames
  SasNames <- MCSasNames
  Unnamed = ""
  FirstDigits <- MCFirstDigits
  Wholesale = "SFT-WHOLESALE"
  Warehouse = "SWEET FIRE TOB WHSE"
  RyoCells <- MCRyoCells
  SasCells <- MCSasCells
  RyoRows = 2
  SasRows = 3
INVARIANTS
  TypeOK
  EveryStoreHasARow
  SasAddsUp
  CleanRowsAreComplete
  NoStoreIsSplit
CHECK_DEADLOCK FALSE
