------------------------------- MODULE RWLock -------------------------------
(***************************************************************************)
(* What a shared_mutex promises to those that only try: at any moment one  *)
(* writer or any number of readers.  Who may enter is decided in one step; *)
(* a try may fail for no reason, which is a step that changes nothing.     *)
(* SharedMutex is shown to implement this specification.                   *)
(***************************************************************************)
CONSTANT Threads

VARIABLES writers, readers   \* the threads that hold the lock either way

vars == <<writers, readers>>

Init == writers = {} /\ readers = {}

LockExclusive(t) == /\ writers = {} /\ readers = {}
                    /\ writers' = {t} /\ UNCHANGED readers

LockShared(t) == /\ writers = {} /\ t \notin readers
                 /\ readers' = readers \cup {t} /\ UNCHANGED writers

Unlock(t) == /\ t \in writers
             /\ writers' = writers \ {t} /\ UNCHANGED readers

UnlockShared(t) == /\ t \in readers
                   /\ readers' = readers \ {t} /\ UNCHANGED writers

Next == \E t \in Threads : \/ LockExclusive(t) \/ LockShared(t)
                           \/ Unlock(t) \/ UnlockShared(t)

Spec == Init /\ [][Next]_vars
=============================================================================
