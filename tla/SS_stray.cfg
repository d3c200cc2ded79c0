SPECIFICATION Spec
CONSTANTS
  t1 = t1
  t2 = t2
  Threads = {t1}
  InitialThreads = {t1}
  Controllers = {t1}
  Modes = {TRUE}
  Streams = {TRUE}
  Interrupt = FALSE
  MayExit = FALSE
  MaxSteps = 3
  MaxRequests = 2
CHECK_DEADLOCK FALSE
INVARIANTS
  NoStrayStep
