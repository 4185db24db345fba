SPECIFICATION Spec
CONSTANTS
  Gap = 1
  GenesisGap = 0
  SeamGap = 1
  MaxCatchUp = 2
  SequenceLease = 20
  EpochSpan = 4
  NoTick = NoTick
  NoCheckpoint = NoCheckpoint
  NoSeam = NoSeam
  CheckpointEvery = 2
  MinReopen = 4
  RetainTicks = 3
  Calms = {{"passes", "stops", "seams", "genesis"}, {}}
  Promised = {"passes", "stops", "seams", "genesis"}
  MaxTime = 8
  MaxStarvedTime = 7
  MaxBoots = 3
CHECK_DEADLOCK FALSE
INVARIANTS
  MarketStaysHosted
  ResumptionReplaysTheRecord
  ClientsAreNotAccused
  BreaksAreSeams
PROPERTIES
  QuotesStand
