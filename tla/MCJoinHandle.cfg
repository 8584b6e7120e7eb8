SPECIFICATION Spec
CONSTANTS
  Tasks = {t1, t2}
  MaxRunners = 2
  Suspensions = 1
  CanThrow = TRUE
INVARIANTS FrameOutlivesUsersOnOneThread FrameReclaimed ScheduledOnce OutcomeBeforeResume
PROPERTIES AwaiterResumes
CHECK_DEADLOCK FALSE
