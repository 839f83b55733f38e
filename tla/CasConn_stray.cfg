\* A claim the code does not keep: Rows outlive a stmt prepared on a Tx.
SPECIFICATION Spec
CONSTANTS
  Ctx = {c1}
  HasDeadline = {}
  Watcher = {w1}
  Handle = {h1}
  None = None
  Ops = {"prepare", "stmtQuery", "stmtClose", "next"}
  MaxReq = 4
INVARIANTS
  FetchKeepsCursor
\* The application may stop calling, and a server may never answer.
CHECK_DEADLOCK FALSE
