SPECIFICATION DSpec
CONSTANTS
  Values <- SomeValues
  MaxSql = 5
  MaxArgs = 2
  Names <- SomeNames
  Fields <- SomeFields
  MaxParts = 3
INVARIANTS
  TypeOK
  ScanFindsPlaceholders
  ArgsArriveWhole
  GormStatementsArrive
  ColumnsHoldFields
\* InterpolateArgs returns once.
CHECK_DEADLOCK FALSE
