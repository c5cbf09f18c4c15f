\* Two cursors used, retried, and either disposed by their threads or dropped
\* and closed by the finalizer, while another thread may dispose the database
\* (when no cursor call is in progress).
CONSTANTS
  c1 = c1
  c2 = c2
  Cursors <- MCCursors
  MaxDeadlockRetriesConfig = 2
  MaxOps = 2
  EngineFaults = TRUE
  MayAbandon = TRUE
SPECIFICATION Spec
SYMMETRY CursorSymmetry
\* Every cursor ends disposed or finalized, and the database disposed: the program ends.
CHECK_DEADLOCK FALSE
INVARIANTS
  TypeOK
  NoLeakedDbc
  DeadlockBound
