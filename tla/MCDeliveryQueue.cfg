SPECIFICATION Spec
CHECK_DEADLOCK FALSE
CONSTANTS
  w1 = w1  w2 = w2
  Deliveries = 2
  Workers <- MCWorkers
  MaxAttempts = 2
  BatchSize = 2
  MaxStops = 1
  MaxRetries = 0
SYMMETRY MCSymmetry
INVARIANTS
  OneMailUnlessHazard
  ClaimsAreDisjoint
  SentIsTrue
  AttemptsPayForTries
PROPERTIES
  SentIsFinal
