SPECIFICATION SpecReaders
CONSTANTS
  NoRoot = NoRoot
  Elsewhere = Elsewhere
  NoHead = NoHead
  NoAnchor = NoAnchor
  Keys = {k1, k2}
  Genesis = k1
  MaxSequence = 3
  MaxLinks = 3
  MaxRotations = 1
  None = None
  Unknown = Unknown
  HourMinutes = 2
  Timeframes = {1, 2, 3, 4}
  SequenceLease = 1
  KilledIn = {"backfill", "catchup", "up"}
  MaxMinute = 4
  MaxTicks = 5
  MaxFaults = 2
CONSTRAINT Apart
CHECK_DEADLOCK FALSE
INVARIANTS
  SameVerdictsWhileBound
  AnchorsHoldForGrowth
  MinutesAreKept
  BarsAreExact
