----------------------------- MODULE MCLockAll -----------------------------
\* A call of lock() with three mutexes, another with two or three of them in any
\* order, and a unique_lock on any, on one or two core threads.
EXTENDS LockAll
CONSTANTS c1, c2, u, m1, m2, m3
MCCalls ==
  {a \in [{c1, c2, u} -> ArgLists] :
     a[c1] = <<m1, m2, m3>> /\ Len(a[c2]) > 1 /\ Len(a[u]) = 1}
=============================================================================
