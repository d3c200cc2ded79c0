SPECIFICATION ReaderSpec
CONSTANTS
  Pcs = {0, 4}
  x0 = x0
  x1 = x1
  v0 = v0
  X = {x0, x1}
  V = {v0}
  Vals = {0, 1}
  MaxChanged = 1
  SyncEvery = 24
  MaxInst = 3
  MaxPcs = 6
  Junk = Junk
SYMMETRY Interchangeable
CHECK_DEADLOCK FALSE
INVARIANTS
  TypeOK
  PcsReadBack
  SyncPointsAreEntries
  RegistersReadBack
  BlocksCoverTrace
