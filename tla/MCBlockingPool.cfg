SPECIFICATION Spec
CONSTANTS
  Callers = {c1, c2}
  Workers = {w1, w2}
  TasksEach = 1
  Width = 3
  CanDestroy = TRUE
INVARIANTS CounterExact
PROPERTIES QueuedRunsUnlessAlone ShutdownEnds
CHECK_DEADLOCK FALSE
