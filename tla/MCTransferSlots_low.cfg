CONSTANTS
  Width <- MCWidth
  RecordLengths <- MCRecordLengths
  MaxDeadlockRetries = 2
  EngineFaults = TRUE

  Calls <- LowCalls
INVARIANT BufferHoldsWindow
SPECIFICATION Spec
