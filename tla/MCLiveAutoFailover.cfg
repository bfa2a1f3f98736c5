SPECIFICATION FairSpec
CONSTANTS
  MaxRoutes = 3
  Keyed <- MCKeyed
  None = None
CHECK_DEADLOCK FALSE
INVARIANTS
  OneOrderUnlessMisjudged
  TrackedBeforeExposure
  ExposureIsFlagged
  ClaimIsReal
PROPERTIES
  NoCallPastDoubt
  Terminates
