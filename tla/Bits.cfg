SPECIFICATION Spec
CONSTANTS
  NBits = 3
  TBits = 4
  PadBits = 4
  Sizes = {4, 5}
  Writers = {"w1", "w2"}
  Samples <- SampleBits
CHECK_DEADLOCK FALSE
INVARIANTS
  TypeOK
  ReadsBack
  StaysInBuffer
