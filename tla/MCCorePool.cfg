SPECIFICATION Spec
CONSTANTS
  Callers = {a, b}
  Workers = {w1, w2}
  CallsEach = 1
  StepsEach = 1
  Spawners = {a}
  TasksEach = 1
  CanThrow = TRUE
  CanDestroy = TRUE
INVARIANTS ReturnsWhenDone SomeoneComes
PROPERTIES BlockOnReturns
CHECK_DEADLOCK FALSE
