CONSTANTS
  t1 = t1
  t2 = t2
  k1 = k1
  Threads <- MCThreads
  Keys <- MCKeys
  Sizes <- MCSizes
  Caps <- MCCaps
  PutFlags <- MCPutFlags
  MaxDeadlockRetriesConfig = 2
  Transacted = TRUE
  EngineFaults = TRUE

SPECIFICATION Spec



PROPERTY HandleLiveWhenEnded
