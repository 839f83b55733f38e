SPECIFICATION FairSpec
CONSTANTS
  DSNs <- SomeDSNs
  DefaultTimeout = 2
  MaxNow = 13
INVARIANTS
  OpenedReady
  FailedLeavesAtMostSocket
  OpenBounded
PROPERTY OpenReturns
\* Open returns once.
CHECK_DEADLOCK FALSE
