\* Every driver call, one context, two handles.
SPECIFICATION Spec
CONSTANTS
  Ctx = {c1}
  HasDeadline = {}
  Watcher = {w1}
  Handle = {h1, h2}
  None = None
  Ops <- Kinds
  MaxReq = 3
SYMMETRY Symmetry
INVARIANTS
  TypeOK
  NoDanglingHandle
  HandlesAccountedFor
  AutoCommitIsTrue
  OnlyOrphansLinger
  InStep
\* The application may stop calling, and a server may never answer.
CHECK_DEADLOCK FALSE
