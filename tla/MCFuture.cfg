SPECIFICATION Spec
CONSTANTS
  Depth = 4
  MaxRunners = 2
  Waits = 2
INVARIANTS FramesOutliveUsers OutcomePassesUp
PROPERTIES AwaiterResumes
CHECK_DEADLOCK FALSE
