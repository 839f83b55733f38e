\* One context with a deadline, every driver call, under fairness.
SPECIFICATION FairSpec
CONSTANTS
  Ctx = {c1}
  HasDeadline = {c1}
  Watcher = {w1}
  Handle = {h1}
  None = None
  Ops <- Kinds
  MaxReq = 2
INVARIANTS
  StaleDeadlineOnlyByCancel
PROPERTIES
  ImplementsSession
  CancelReturns
  WatchersExit
\* The application may stop calling, and a server may never answer.
CHECK_DEADLOCK FALSE
