----------------------------- MODULE SharedMutex -----------------------------
(***************************************************************************)
(* shared_mutex (src/shared_mutex.cpp): the word state_, whose highest bit *)
(* is set by an exclusive owner and whose other bits count readers, under  *)
(* try_lock, unlock, try_lock_shared and unlock_shared of several threads. *)
(* Every atomic access is a step.                                          *)
(*                                                                         *)
(* try_lock_shared counts itself in before it knows whether it may: a      *)
(* writer's word then holds the counts of readers that are about to take   *)
(* them back.  lock() and lock_shared() have no definition in the library, *)
(* so nobody ever waits in suspended_, and the loops that empty it find    *)
(* nothing.                                                                *)
(***************************************************************************)
EXTENDS Naturals, FiniteSets

CONSTANTS Threads,
          EX_BIT     \* the highest bit of state_

\* The word can count every thread there is.
ASSUME MutexAssumption == /\ EX_BIT \in Nat
                          /\ IsFiniteSet(Threads)
                          /\ Cardinality(Threads) < EX_BIT

VARIABLES state_,   \* shared_mutex::state_
          tpc       \* tpc[t]: where thread t is: "idle", "writer", "reader",
                    \* "undo" or "drain"

mutexVars == <<state_, tpc>>

Word == 2 * EX_BIT                  \* state_ is taken modulo this
Exclusive(s) == s \div EX_BIT = 1   \* s & EX_BIT
Shared(s) == s % EX_BIT             \* s & ~EX_BIT

FetchAdd(n) == state_' = (state_ + n) % Word
FetchSub(n) == state_' = (state_ + Word - n) % Word

ThreadAt(t, l) == tpc' = [tpc EXCEPT ![t] = l]

MutexInit == state_ = 0 /\ tpc = [t \in Threads |-> "idle"]

\* Mutation: the word need only be free of a writer.
CasSucceeds_OverReaders == ~Exclusive(state_)

CasSucceeds == state_ = 0

\* compare_exchange_strong of 0 by EX_BIT; a failure changes nothing.
TryLock(t) == /\ tpc[t] = "idle" /\ CasSucceeds
              /\ state_' = EX_BIT
              /\ ThreadAt(t, "writer")

\* Mutation: the word is stored, not subtracted from.
Unlock_Stores(t) == /\ tpc[t] = "writer"
                    /\ state_' = 0
                    /\ ThreadAt(t, "drain")

Unlock(t) == /\ tpc[t] = "writer"
             /\ FetchSub(EX_BIT)
             /\ ThreadAt(t, "drain")

TryLockShared(t) == /\ tpc[t] = "idle"
                    /\ FetchAdd(1)
                    /\ ThreadAt(t, IF Exclusive(state_) THEN "undo" ELSE "reader")

\* The failed try_lock_shared takes its count back.
Undo(t) == /\ tpc[t] = "undo"
           /\ FetchSub(1)
           /\ ThreadAt(t, "idle")

UnlockShared(t) == /\ tpc[t] = "reader"
                   /\ FetchSub(1)
                   /\ ThreadAt(t, IF Shared(state_) = 1 THEN "drain" ELSE "idle")

\* suspended_.pop() finds nobody.
Drain(t) == /\ tpc[t] = "drain"
            /\ ThreadAt(t, "idle")
            /\ UNCHANGED state_

ThreadStep(t) == \/ TryLock(t) \/ Unlock(t) \/ TryLockShared(t) \/ Undo(t)
                 \/ UnlockShared(t) \/ Drain(t)

MutexNext == \E t \in Threads : ThreadStep(t)

MutexSpec == MutexInit /\ [][MutexNext]_mutexVars

-----------------------------------------------------------------------------
(* Properties.                                                             *)

TypeOK == /\ state_ \in 0 .. Word - 1
          /\ tpc \in [Threads -> {"idle", "writer", "reader", "undo", "drain"}]

In(l) == {t \in Threads : tpc[t] = l}

\* The word is exact at every moment: its highest bit is up if and only if
\* there is a writer, and the others count the readers and the failed tries that
\* have not taken their count back; a writer and a count never run into each
\* other.  A free lock with no call in progress is therefore zero, and can be
\* taken, whatever tries have failed before.
WordExact ==
  state_ = EX_BIT * Cardinality(In("writer")) + Cardinality(In("reader"))
             + Cardinality(In("undo"))

RW == INSTANCE RWLock WITH writers <- In("writer"), readers <- In("reader")

\* The atomic operations on the word, with readers counted in before they are
\* admitted, let in whom RWLock lets in: a writer alone, or readers together.
ImplementsRWLock == RW!Spec
=============================================================================
