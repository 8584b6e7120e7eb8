SPECIFICATION ExecutorSpec
CONSTANTS
  Callers = {a}
  Workers = {w1}
  CallsEach = 1
  StepsEach = 1
  Spawners = {a}
  TasksEach = 1
  CanThrow = FALSE
  CanDestroy = TRUE
  BlockingWorkers = {b1, b2}
  BlockingEach = 1
  Width = 3
INVARIANTS OnlyBlockedAbandoned SuspendedRootReclaimed
PROPERTIES RootResumed ExecutorDestroyed
CHECK_DEADLOCK FALSE
