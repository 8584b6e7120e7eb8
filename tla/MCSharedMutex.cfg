SPECIFICATION MutexSpec
CONSTANTS
  Threads = {t1, t2, t3, t4}
  EX_BIT = 8
INVARIANTS WordExact
PROPERTIES ImplementsRWLock
