\* A thread drops a cursor undisposed; the finalizer thread runs
\* !CursorImpl while a user thread disposes the database.
CONSTANTS
  c1 = c1
  c2 = c2
  Cursors <- MCCursors
  MaxDeadlockRetriesConfig = 2
  MaxOps = 2
  EngineFaults = TRUE
  MayAbandon = TRUE
SPECIFICATION Spec
SYMMETRY CursorSymmetry
\* Every cursor ends disposed and the database disposed: the program ends.
CHECK_DEADLOCK FALSE
INVARIANT
  ReleasedAtMostOnce
