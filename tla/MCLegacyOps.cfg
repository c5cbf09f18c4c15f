CONSTANTS
  t1 = t1
  t2 = t2
  k1 = k1
  Threads <- MCThreads
  Keys <- MCKeys
  Sizes <- MCSizes
  Caps <- MCCaps
  MaxDeadlockRetriesConfig = 2
  Transacted = TRUE
  EngineFaults = TRUE
SPECIFICATION FairSpec
INVARIANT TypeOK TxnEndsWithOp DeadlockBound
PROPERTY CallReturns
CONSTANTS
  KeyChars <- MCKeyChars
  KeyBytes <- MCKeyBytes
  KeyInts <- MCKeyInts
  MaxKeyLen = 2
INVARIANT TypedKeysAgree
