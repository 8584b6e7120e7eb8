SPECIFICATION Spec
CONSTANTS
  c1 = c1
  c2 = c2
  u = u
  m1 = m1
  m2 = m2
  m3 = m3
  Coroutines = {c1, c2, u}
  Mutexes = {m1, m2, m3}
  Uniques = {u}
  Calls <- MCCalls
  MaxRunners = 2
  UniqueCalls = 2
INVARIANTS Exclusion WaitsEmptyHanded
PROPERTIES LockReturns
CHECK_DEADLOCK FALSE
