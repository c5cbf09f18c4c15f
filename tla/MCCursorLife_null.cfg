\* A cursor whose creation was a deadlock victim, with retries left.
\* CreateCursorHandle returns from its first loop pass.
CONSTANTS
  c1 = c1
  c2 = c2
  Cursors <- MCCursors
  MaxDeadlockRetriesConfig = 2
  MaxOps = 2
  EngineFaults = TRUE
  MayAbandon = FALSE
SPECIFICATION Spec
SYMMETRY CursorSymmetry
\* Every cursor ends disposed and the database disposed: the program ends.
CHECK_DEADLOCK FALSE
INVARIANT
  CursorHasHandle
