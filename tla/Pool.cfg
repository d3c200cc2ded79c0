SPECIFICATION Spec
CONSTANTS
  c1 = c1
  c2 = c2
  w1 = w1
  w2 = w2
  Callers = {c1, c2}
  Pool = {w1, w2}
  NTasks <- TwoAndOne
  MaxRounds = 2
INVARIANTS
  TypeOK
  WaitMeansDone
  CapturesInScope
PROPERTIES
  ImplementsCalls
CHECK_DEADLOCK FALSE
