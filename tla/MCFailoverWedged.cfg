SPECIFICATION FairSpec
CONSTANTS
  a = a
  b = b
  Nodes = {a, b}
  NoGrant = NoGrant
  NoSession = NoSession
  NoTick = NoTick
  NoCheckpoint = NoCheckpoint
  GenesisInstant = 0
  Gap = 1
  GenesisGap = 0
  SeamGap = 1
  MaxCatchUp = 3
  SequenceLease = 10
  EpochSpan = 4
  TermMs = 3
  CheckpointInterval = 2
  MaxFailures = 3
  StallMidAdvance = TRUE
  RecordConsulted = TRUE
  Premature = {}
  MaxTime = 5
  MaxToken = 1
  MaxBusy = 1
  MaxEntries = 10
CHECK_DEADLOCK FALSE
PROPERTY RefusedTicksAreResolved
