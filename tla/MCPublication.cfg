SPECIFICATION Spec
CONSTANTS
  NoRoot = NoRoot
  WindowTicks = 2
  SequenceLease = 1
  Faults = {"disk", "rollback", "off"}
  MaxSequence = 7
  MaxBatch = 3
  MaxDepartures = 3
CHECK_DEADLOCK FALSE
INVARIANTS
  ChainVerifies
  NothingIsAbandoned
  CommittedIsProved
