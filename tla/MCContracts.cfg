SPECIFICATION SpecContracts
CONSTANTS
  Lattices = {coarse, fine}
  Prices = {1}
  Bound = 1
  Keep = 2
  MaxTime = 5
  MaxDrawn = 2
  MaxTicks = 4
  MaxRewinds = 1
  None = None
  Streams <- MCStreams
  Paces = {0, 2}
  BiasTerm = 2
  BiasRun = 2
  MaxPush = 2
  ScenarioWindow = 2
  LabTime = 4
  MaxActs = 3
  MaxWaiting = 2
  MaxPositions = 1
INVARIANTS
  RouteAgreesWithSettle
  ActsLandAsAnnounced
  EntriesStand
  OnlyExpiriesAreRecorded
PROPERTIES
  AnswersStand
