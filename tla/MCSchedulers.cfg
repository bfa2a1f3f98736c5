SPECIFICATION MCSpec
CONSTANTS
  Procs = {p1, p2}
  Ttl = 2
  None = None
  Requests = {q1, q2, q3}
  Cancels = {"pause"}
  Nothing = Nothing
INVARIANTS
  OneBatch
  LockHasHolder
  PausedIsIdle
  QueuedRunHasCommand
CONSTRAINT Bound
SYMMETRY Symmetry
CHECK_DEADLOCK FALSE
