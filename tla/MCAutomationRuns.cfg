SPECIFICATION Spec
CONSTANTS
  Runs = {r1, r2}
  Trades = {t1, t2, t3}
  Repairs = {p1}
  Edits = {e1}
  MaxPerRun = 2
  MaxPerDay = 2
  MaxOpen = 1
  None = None
  MaxTime = 2
  MaxHazards = 1
SYMMETRY Symmetry
CONSTRAINT MCBound
INVARIANTS
  OneRun
  
  NextSlotIsFree
PROPERTY PauseHolds
CHECK_DEADLOCK FALSE
