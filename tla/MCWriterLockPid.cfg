SPECIFICATION FairSpec
CONSTANTS
  p1 = p1
  p2 = p2
  p3 = p3
  Procs = {p1}
  Remote = {p1}
  ReusesPid = {p1}
  Grants = {1, 2}
  NoLock = NoLock
  Unclaimed = Unclaimed
  Stalls = {FALSE}
  MaxDepartures = 1
PROPERTIES DirectoryReopens
CHECK_DEADLOCK FALSE
