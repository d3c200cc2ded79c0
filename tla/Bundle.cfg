SPECIFICATION Spec
CONSTANTS
  t1 = t1
  t2 = t2
  Regions <- Mapped
  Prefix <- ShortPrefix
  Threads = {t1, t2}
  MaxSessions = 3
SYMMETRY ThreadSymmetry
CHECK_DEADLOCK FALSE
INVARIANTS
  TypeOK
  AcceptedIsOneSession
  ClosedIsComplete
