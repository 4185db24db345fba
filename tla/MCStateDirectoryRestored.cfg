SPECIFICATION Spec
CONSTANTS
  p1 = p1
  p2 = p2
  Procs = {p1, p2}
  NoTick = NoTick
  NoCheckpoint = NoCheckpoint
  NoManifest = NoManifest
  Worlds <- MCRestored
  SequenceLease = 1
  MaxSequence = 4
  MaxDepartures = 2
INVARIANT NothingPublishedTwice
SYMMETRY Symmetry
CHECK_DEADLOCK FALSE
