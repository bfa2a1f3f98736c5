SPECIFICATION FairSpec
CHECK_DEADLOCK FALSE
CONSTANTS
  poll = poll  request = request  server = server
  touched = touched  other = other  still = still
  Orders <- MCOrders
  Still <- MCStill
  Touched <- MCTouched
  Procs <- MCProcs
  Callers <- MCCallers
  Polls <- MCPolls
  ProcOf <- MCProcOf
  Users = {u1}
  Limit = 2
  MaxFailures = 1
  None = None
INVARIANTS
  TypeOK
  StoriesAgree
  OneClose
PROPERTIES
  WordHolds
  OrdersAreSeen
