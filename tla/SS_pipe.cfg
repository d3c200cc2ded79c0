SPECIFICATION Spec
CONSTANTS
  t1 = t1
  t2 = t2
  Threads = {t1, t2}
  InitialThreads = {t1}
  Controllers = {t1}
  Modes = {TRUE, FALSE}
  Streams = {TRUE, FALSE}
  Interrupt = TRUE
  MayExit = TRUE
  MaxSteps = 4
  MaxRequests = 3
CHECK_DEADLOCK FALSE
INVARIANTS
  TypeOK
  SuspendBalance
  StepCoverage
  ResumeFailsOnlyAfterWrite
  StatsMatchStepping
  AckMeansApplied
PROPERTIES
  RequestAnswered
  ExceptionAnswered
  ExitClosesTrace
