SPECIFICATION Spec
CONSTANTS
  autoOrder = autoOrder
  liveOrder = liveOrder
  paperOrder = paperOrder
  Orders <- MCOrders
  PaperOrders <- MCPaper
  AutoOrders <- MCAuto
  Users = {u1}
  Refreshers = {r1}
  None = None
INVARIANTS
  TypeOK
  RecordKeepsOrder
  DismissalHolds
  EndIsTrue
  FillIsTrue
CONSTRAINT Bound
CHECK_DEADLOCK FALSE
