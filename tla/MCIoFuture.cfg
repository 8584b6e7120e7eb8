SPECIFICATION Spec
CONSTANTS
  Ops = {op1, op2}
  Outcomes = {ok, err}
  NoOutcome = none
INVARIANTS ResumedOnce ResultBeforeResume DestroyedSafelyOnlyAtEnd
PROPERTIES ImplementsOneShot
CHECK_DEADLOCK FALSE
