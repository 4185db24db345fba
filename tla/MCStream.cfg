SPECIFICATION Spec
CONSTANTS
  None = None
  Clients = {c1}
  Retain = 4
  HighWater = 3
  MaxReplay = 3
  ReplayBudget = 1
  Lease = 1
  MaxSequence = 5
  MaxBatch = 2
  MaxCalls = 2
  MaxReconnects = 1
  MaxDrops = 2
  MaxSeams = 2
  MaxBeats = 2
CHECK_DEADLOCK FALSE
INVARIANTS
  VenueIsNotAccused
PROPERTIES
  NothingIsSkippedUntold
