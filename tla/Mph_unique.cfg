SPECIFICATION Spec
CONSTANTS
  t1 = t1
  t2 = t2
  t3 = t3
  t4 = t4
  Threads = {t1, t2, t3, t4}
  MaxMsgs = 2
  MaxTotal = 5
SYMMETRY ThreadSymmetry
CHECK_DEADLOCK FALSE
INVARIANTS
  KeysAreUnique
