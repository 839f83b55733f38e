\* A claim the code does not keep.
SPECIFICATION Spec
CONSTANTS
  own = own
  s1 = s1
  s2 = s2
  Reader = {own, s1, s2}
  SharedReader = {s1, s2}
  StmtTypes <- SomeTypes
  FetchSize = 2
  MaxTotal = 3
INVARIANTS
  OwnTuples
\* The application is done once every result set is closed.
CHECK_DEADLOCK FALSE
