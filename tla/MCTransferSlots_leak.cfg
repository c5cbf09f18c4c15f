CONSTANTS
  Width <- MCWidth
  RecordLengths <- MCRecordLengths
  MaxDeadlockRetries = 2
  EngineFaults = TRUE

  Calls <- PassCalls
INVARIANT SlotReleasedAtCallEnd
SPECIFICATION Spec
