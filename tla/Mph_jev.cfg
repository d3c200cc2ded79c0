SPECIFICATION Spec
CONSTANTS
  k1 = k1
  k2 = k2
  k3 = k3
  Key <- Ports
  MaxKeys = 2
  MaxSalt = 1000
  Hashers <- JevHashes
CHECK_DEADLOCK FALSE
INVARIANT NeverTimesOut
