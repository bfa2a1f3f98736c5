SPECIFICATION FairSpec
CHECK_DEADLOCK FALSE
CONSTANTS
  w1 = w1  w2 = w2
  Deliveries = 1
  Workers <- MCWorkers
  MaxAttempts = 2
  BatchSize = 1
  MaxStops = 1
  MaxRetries = 1
PROPERTIES
  QueuedIsSettled
