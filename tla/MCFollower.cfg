SPECIFICATION FairSpec
CONSTANTS
  Followers = {f, g}
  f = f
  g = g
  NoInstant = NoInstant
  RetainTicks = 2
  ReadLimit = 2
  SeamJumps = {2, 3}
  SeamWidths = {0, 2}
  SeamUponSeam = FALSE
  SeamFirst = FALSE
  MaxInFlight = 1
  MaxEntries = 6
CHECK_DEADLOCK FALSE
INVARIANTS
  AnswersAreTheRecord
PROPERTIES
  ReadsTheRecord
