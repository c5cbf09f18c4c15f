CONSTANTS
  Width <- MCWidth
  RecordLengths <- MCRecordLengths
  MaxDeadlockRetries = 2
  EngineFaults = TRUE

  Calls <- PassCalls
INVARIANT TypeOK BufferHoldsWindow ReleasedOnReturn
SPECIFICATION Spec
