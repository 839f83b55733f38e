\* Two db.Exec and a Tx that share one connection, tidying up after statements.
SPECIFICATION PoolSpec
CONSTANTS
  Conn = {c1}
  Job = {e1, e2, t1}
  TxJobs = {t1}
  None = None
  AutoCommit = TRUE
  MaxTidy = 1
INVARIANTS
  AtMostOnce
  AcknowledgedIsDurable
  OnlyCommittedIsDurable
  IdleIsClean
PROPERTIES
  StaleLeaves
  JobsReturn
\* The program ends when its jobs are done.
CHECK_DEADLOCK FALSE
