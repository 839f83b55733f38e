\* A result set with a handle of its own, and two of one prepared statement.
SPECIFICATION FairSpec
CONSTANTS
  own = own
  s1 = s1
  s2 = s2
  Reader = {own, s1, s2}
  SharedReader = {s1, s2}
  StmtTypes <- SomeTypes
  FetchSize = 2
  MaxTotal = 3
INVARIANTS
  TypeOK
  BufferMatches
  PositionsInOrder
PROPERTIES
  ImplementsRowStream
  Drains
\* The application is done once every result set is closed.
CHECK_DEADLOCK FALSE
