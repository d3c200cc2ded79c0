SPECIFICATION Spec
CONSTANTS
  Bytes = {0, 1}
  MaxHaystack = 8
  MaxNeedle = 5
  MaxBins = 2
  SizeRange = 256
CHECK_DEADLOCK FALSE
INVARIANTS
  InBounds
  NothingSkipped
PROPERTY
  BinsAreFirst
