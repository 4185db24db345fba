SPECIFICATION FairSpec
CONSTANTS
  Followers = {f}
  f = f
  g = g
  NoInstant = NoInstant
  RetainTicks = 2
  ReadLimit = 2
  SeamJumps = {2, 3}
  SeamWidths = {2}
  SeamUponSeam = TRUE
  SeamFirst = FALSE
  MaxInFlight = 1
  MaxEntries = 5
PROPERTY CatchesUp
CHECK_DEADLOCK FALSE
