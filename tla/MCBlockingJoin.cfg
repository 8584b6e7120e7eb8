SPECIFICATION Spec
CONSTANTS
  Tasks = {t1, t2}
  CanThrow = TRUE
  Cancellable = {t2}
INVARIANTS NoUseAfterFree OutcomeBeforeResume ScheduledOnce
PROPERTIES AwaiterResumes ImplementsLastOneOut
CHECK_DEADLOCK FALSE
