SPECIFICATION FairSpec
CONSTANTS
  p1 = p1
  p2 = p2
  p3 = p3
  Procs = {p1, p2, p3}
  Remote = {p3}
  ReusesPid = {}
  Grants = {1, 2, 3, 4}
  NoLock = NoLock
  Unclaimed = Unclaimed
  Stalls = {FALSE}
  MaxDepartures = 2
CHECK_DEADLOCK FALSE
INVARIANTS
  OneHolderUntilAdoption
PROPERTIES
  TwoHoldersEnd
  DirectoryReopens
