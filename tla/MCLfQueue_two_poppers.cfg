SPECIFICATION Spec
CONSTANTS
  Pushers = {p1}
  Poppers = {c1, c2}
  PushesEach = 4
  InitialCapacity = 0
PROPERTIES PushedIsPopped
