CONSTANTS
  t1 = t1
  t2 = t2
  Threads <- MCThreads
  Sizes <- MCSizes
  MaxDeadlockRetriesConfig = 2
  DelegateFaults = TRUE
  CloseFaults = FALSE
  MaxCommits = 3
SPECIFICATION Spec
CHECK_DEADLOCK FALSE
PROPERTY LockEventuallyFree
