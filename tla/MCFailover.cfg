SPECIFICATION Spec
CONSTANTS
  a = a
  b = b
  Nodes = {a, b}
  NoGrant = NoGrant
  NoSession = NoSession
  NoTick = NoTick
  NoCheckpoint = NoCheckpoint
  GenesisInstant = 0
  Gap = 1
  GenesisGap = 0
  SeamGap = 0
  MaxCatchUp = 2
  SequenceLease = 10
  EpochSpan = 4
  TermMs = 2
  CheckpointInterval = 2
  MaxFailures = 3
  StallMidAdvance = TRUE
  RecordConsulted = TRUE
  Premature = {"unadvanced"}
  MaxTime = 5
  MaxToken = 3
  MaxBusy = 0
  MaxEntries = 10
SYMMETRY NodeSymmetry
CHECK_DEADLOCK FALSE
INVARIANTS
  OneTickPerSequence
  RecordLeadsCheckpoint
  DiscontinuityIsRecorded
