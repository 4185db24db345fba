SPECIFICATION Spec
CONSTANTS
  n1 = n1
  n2 = n2
  v1 = v1
  v2 = v2
  note = note
  c1 = c1
  c2 = c2
  Holders = {n1, n2}
  Values = {v1, v2}
  SeamNotes = {note}
  Checkpoints = {c1, c2}
  NoGrant = NoGrant
  NoCheckpoint = NoCheckpoint
  TermMs = 2
  MaxTime = 3
  MaxToken = 3
  MaxSequence = 4
  MaxEntries = 3
  MaxBatch = 2
SYMMETRY HolderSymmetry
INVARIANTS
  TokensNeverReturn
  RecordIsContiguous
  ReadsAreComplete
PROPERTY OnlyTheNewestGrantWrites
