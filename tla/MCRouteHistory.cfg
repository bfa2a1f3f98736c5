SPECIFICATION Spec
CONSTANTS
  MaxRoutes = 3
  Keyed <- MCKeyed
  None = None
CHECK_DEADLOCK FALSE
PROPERTIES
  FailedRoutesStayVisible
