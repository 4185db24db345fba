SPECIFICATION Spec
CONSTANTS
  p1 = p1
  p2 = p2
  Procs = {p1, p2}
  NoTick = NoTick
  NoCheckpoint = NoCheckpoint
  NoManifest = NoManifest
  Worlds <- MCWorlds
  SequenceLease = 1
  MaxSequence = 3
  MaxDepartures = 2
SYMMETRY Symmetry
CHECK_DEADLOCK FALSE
INVARIANTS
  ServedOnce
  VerifyAcquits
  RecordReachesCheckpoint
  RestoreIsAnnounced
