\* A claim the code does not keep.
SPECIFICATION Spec
CONSTANTS
  Ctx = {c1}
  HasDeadline = {c1}
  Watcher = {w1}
  Handle = {h1}
  None = None
  Ops <- Kinds
  MaxReq = 2
INVARIANTS
  NoHandleLeak
\* The application may stop calling, and a server may never answer.
CHECK_DEADLOCK FALSE
