SPECIFICATION Spec
CONSTANTS
  a1 = a1  a2 = a2  a3 = a3  d1 = d1   paper = paper  r1 = r1
  None = None
  Attempts <- MCAttempts
  Drafts <- MCDrafts
  PaperDrafts <- MCPaperDrafts
  Reconcilers <- MCReconcilers
  StaleAfter = 1
  MissingAfter = 1
  MaxClock = 2
CHECK_DEADLOCK FALSE
INVARIANTS
  OneFreshAttempt
