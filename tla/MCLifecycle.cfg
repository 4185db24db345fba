SPECIFICATION Spec
CONSTANTS
  Assets = {shipped, added}
  Catalogue = {shipped}
  Retirable = {added}
  Steered = {shipped}
  None = None
  Window = 2
  MaxTicks <- MCMaxTicks
INVARIANTS
  OneLoop
  SealedAtTheLastTick
  PrintedIsKnown
PROPERTIES
  StopReturns
