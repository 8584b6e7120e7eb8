SPECIFICATION Spec
CONSTANTS
  Pushers = {p1}
  Poppers = {c1}
  PushesEach = 5
  InitialCapacity = 1
INVARIANTS NoSharedEntry DestructorFreesEachOnce
PROPERTIES PushedIsPopped ImplementsLagQueue
