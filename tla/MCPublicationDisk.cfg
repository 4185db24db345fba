SPECIFICATION Spec
CONSTANTS
  NoRoot = NoRoot
  WindowTicks = 2
  SequenceLease = 1
  Faults = {"disk"}
  MaxSequence = 7
  MaxBatch = 3
  MaxDepartures = 3
INVARIANT ChainStaysOne
CHECK_DEADLOCK FALSE
