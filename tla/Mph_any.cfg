SPECIFICATION Spec
CONSTANTS
  k1 = k1
  k2 = k2
  k3 = k3
  Key = {k1, k2, k3}
  MaxKeys = 3
  MaxSalt = 2
  Hashers <- AnyHash
SYMMETRY Symmetric
CHECK_DEADLOCK FALSE
INVARIANTS
  TypeOK
  BuiltIsPerfect
  SlotIsFree
  StrangersInRange
  InseparablePair
