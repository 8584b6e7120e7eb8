------------------------------ MODULE LockAll ------------------------------
(***************************************************************************)
(* lock(m1, ..., mn) of include/crasy/lock_guard.hpp, and lock_unique of   *)
(* unique_lock.hpp: coroutines that lock several mutexes, each in its own  *)
(* order, by waiting for one, trying the others, and on a failure giving   *)
(* everything back and waiting for the one that was taken.  The coroutines *)
(* in Uniques lock one mutex and hold it by a unique_lock.                 *)
(*                                                                         *)
(* A mutex is its flag locked_, which does not know its owner; `held` is   *)
(* what each coroutine may take to be its own.  Mutex is a template        *)
(* parameter: try_lock and unlock are those of crasy::mutex, and lock(),   *)
(* which crasy::mutex declares without a definition, is what its name says:*)
(* it waits until it can take the flag.                                    *)
(* (lock_guard befriends only the lock of one mutex, so that the lock of   *)
(* several, which constructs guards too, needs a friend declaration more.) *)
(***************************************************************************)
EXTENDS Naturals, Sequences, FiniteSets

CONSTANTS Coroutines, Mutexes,
          Uniques,       \* the coroutines that use lock_unique
          Calls,         \* the arguments each may have: functions of coroutines
          MaxRunners,    \* bound: threads that run coroutines
          UniqueCalls    \* bound: calls made on each unique_lock

ASSUME LockAssumption == /\ Uniques \subseteq Coroutines
                         /\ IsFiniteSet(Coroutines) /\ IsFiniteSet(Mutexes)
                         /\ MaxRunners \in Nat \ {0} /\ UniqueCalls \in Nat

\* The arguments of a call: different mutexes, in any order.
ArgLists ==
  {s \in UNION {[1..n -> Mutexes] : n \in 1..Cardinality(Mutexes)} :
     \A i, j \in DOMAIN s : s[i] = s[j] => i = j}

ASSUME CallsAssumption ==
  /\ Calls \subseteq [Coroutines -> ArgLists]
  /\ \A a \in Calls, c \in Coroutines : c \in Uniques <=> Len(a[c]) = 1

VARIABLES
  runners,   \* threads that run coroutines; never changes
  args,      \* args[c]: the arguments of c's call; never changes
  locked_,   \* mutex::locked_
  pc,        \* pc[c]: where c is
  start,     \* start[c]: the rotation, lock()'s variable i
  gone,      \* gone[c]: the closure of lock_impl that c runs was destroyed
  cnt,       \* cnt[c]: the mutexes this attempt has taken
  held,      \* held[c]: mutexes that c locked and did not unlock
  flag,      \* unique_lock::locked_ of c
  used       \* used[c]: calls made on the unique_lock of c

fixed == <<runners, args>>
vars == <<fixed, locked_, pc, start, gone, cnt, held, flag, used>>

Init == /\ runners \in 1..MaxRunners
        /\ args \in Calls
        /\ locked_ = [m \in Mutexes |-> FALSE]
        /\ pc = [c \in Coroutines |-> "lock"]
        /\ start = [c \in Coroutines |-> 0]
        /\ gone = [c \in Coroutines |-> FALSE]
        /\ cnt = [c \in Coroutines |-> 0]
        /\ held = [c \in Coroutines |-> {}]
        /\ flag = [c \in Coroutines |-> FALSE]
        /\ used = [c \in Coroutines |-> 0]

At(c, l) == pc' = [pc EXCEPT ![c] = l]

N(c) == Len(args[c])

\* lock_rotate_and_call: the i-th mutex of this attempt, counted from 0.
Rotated(c, i) == args[c][((start[c] + i) % N(c)) + 1]

Take(c, m) == /\ locked_' = [locked_ EXCEPT ![m] = TRUE]
              /\ held' = [held EXCEPT ![c] = @ \cup {m}]

Release(c, m) == /\ locked_' = [locked_ EXCEPT ![m] = FALSE]
                 /\ held' = [held EXCEPT ![c] = @ \ {m}]

\* A coroutine keeps its thread from one suspension to the next.
FreeRunner == Cardinality({c \in Coroutines : pc[c] \in {"try", "back", "drop", "open"}})
                < runners

-----------------------------------------------------------------------------
(* lock(m1, ..., mn).                                                      *)

\* co_await m1.lock() of the rotated list suspends.  lock_impl returns its
\* future, and with it goes the closure whose captures the attempt reads.
LockWaits(c) == /\ pc[c] = "lock" /\ FreeRunner
                /\ locked_[Rotated(c, 0)]
                /\ gone' = [gone EXCEPT ![c] = TRUE]
                /\ At(c, "wait")
                /\ UNCHANGED <<fixed, locked_, start, cnt, held, flag, used>>

\* It is answered, at once or after a wait; also in lock_unique, and in
\* unique_lock::lock(), which comes back here.
LockFirst(c) == /\ pc[c] \in {"lock", "wait"} /\ FreeRunner
                /\ ~locked_[Rotated(c, 0)]
                /\ Take(c, Rotated(c, 0))
                /\ cnt' = [cnt EXCEPT ![c] = 1]
                /\ At(c, "try")
                /\ UNCHANGED <<fixed, start, gone, flag, used>>

\* try_lock_impl: the next one, if it is free.
TryNext(c) == /\ pc[c] = "try" /\ cnt[c] < N(c)
              /\ LET m == Rotated(c, cnt[c])
                 IN  IF locked_[m]
                     THEN At(c, "back") /\ UNCHANGED <<locked_, held, cnt, start>>
                     ELSE /\ Take(c, m)
                          /\ cnt' = [cnt EXCEPT ![c] = @ + 1]
                          /\ UNCHANGED <<pc, start>>
              /\ UNCHANGED <<fixed, gone, flag, used>>

\* Mutation: m1 is kept while the call waits for the next one.
NextAttempt_KeepsFirst(i) == i <= 1

\* The last of the mutexes taken, Rotated(c, i - 1), was given back: was it m1?
NextAttempt(i) == i = 0

\* Mutation: the attempts always start at the same mutex.
ContendedIndex_Same(c, k) == start[c]

\* What lock_impl returns: the index of the mutex that could not be taken.
ContendedIndex(c, k) == (start[c] + k) % N(c)

\* The captured start of a closure that is gone may read as any number, and the
\* result is then any index of the list.
Returned(c) == IF gone[c] THEN 0 .. N(c) - 1 ELSE {ContendedIndex(c, cnt[c])}

\* The recursion of try_lock_impl unwinds, and m1.unlock() comes last; the
\* number of mutexes taken is still known then.
GiveBack(c) ==
  /\ pc[c] = "back"
  /\ LET i == Cardinality(held[c]) - 1
     IN  /\ Release(c, Rotated(c, i))
         /\ IF NextAttempt(i)
            THEN /\ \E j \in Returned(c) : start' = [start EXCEPT ![c] = j]
                 /\ gone' = [gone EXCEPT ![c] = FALSE]
                 /\ cnt' = [cnt EXCEPT ![c] = 0]
                 /\ At(c, "lock")
            ELSE UNCHANGED <<start, gone, cnt, pc>>
  /\ UNCHANGED <<fixed, flag, used>>

\* Every mutex is taken; the caller gets its guards and may suspend with them.
Locked(c) == /\ pc[c] = "try" /\ cnt[c] = N(c)
             /\ gone' = [gone EXCEPT ![c] = FALSE]
             /\ At(c, "in")
             /\ UNCHANGED <<fixed, locked_, start, cnt, held, flag, used>>

Continue(c) == /\ pc[c] = "in" /\ FreeRunner
               /\ At(c, IF c \in Uniques THEN "open" ELSE "drop")
               /\ UNCHANGED <<fixed, locked_, start, gone, cnt, held, flag, used>>

\* The guards of the tuple are destroyed, in the order the library chooses.
DropGuard(c) == /\ pc[c] = "drop"
                /\ IF held[c] = {}
                   THEN At(c, "end") /\ UNCHANGED <<locked_, held>>
                   ELSE (\E m \in held[c] : Release(c, m)) /\ UNCHANGED pc
                /\ UNCHANGED <<fixed, start, gone, cnt, flag, used>>

-----------------------------------------------------------------------------
(* unique_lock, in the hands of a coroutine that runs.                     *)

UniqueCall(c) == /\ pc[c] = "open" /\ used[c] < UniqueCalls
                 /\ used' = [used EXCEPT ![c] = @ + 1]

\* unique_lock::unlock, called on a lock that holds its mutex.
UniqueUnlock(c) == /\ UniqueCall(c) /\ held[c] # {}
                   /\ Release(c, args[c][1])
                   /\ flag' = [flag EXCEPT ![c] = FALSE]
                   /\ UNCHANGED <<fixed, pc, start, gone, cnt>>

\* unique_lock::try_lock, called on one that does not.
UniqueTryLock(c) == /\ UniqueCall(c) /\ held[c] = {}
                    /\ flag' = [flag EXCEPT ![c] = ~locked_[args[c][1]]]
                    /\ IF locked_[args[c][1]] THEN UNCHANGED <<locked_, held>>
                                              ELSE Take(c, args[c][1])
                    /\ UNCHANGED <<fixed, pc, start, gone, cnt>>

\* unique_lock::lock sets the flag before it waits.
UniqueLock(c) == /\ UniqueCall(c) /\ held[c] = {}
                 /\ flag' = [flag EXCEPT ![c] = TRUE]
                 /\ At(c, "lock")
                 /\ UNCHANGED <<fixed, locked_, start, gone, cnt, held>>

\* Mutation: the destructor does not look at the flag.
DropUnique_Always(c) == /\ pc[c] = "open"
                        /\ Release(c, args[c][1])
                        /\ At(c, "end")
                        /\ UNCHANGED <<fixed, start, gone, cnt, flag, used>>

\* ~unique_lock: lock_unique returns one whose flag is down, which leaves the
\* mutex locked for good unless unlock() was called.
DropUnique(c) == /\ pc[c] = "open"
                 /\ IF flag[c] THEN Release(c, args[c][1])
                               ELSE UNCHANGED <<locked_, held>>
                 /\ At(c, "end")
                 /\ UNCHANGED <<fixed, start, gone, cnt, flag, used>>

-----------------------------------------------------------------------------
Step(c) == \/ LockWaits(c) \/ LockFirst(c) \/ TryNext(c) \/ GiveBack(c) \/ Locked(c)
           \/ Continue(c) \/ DropGuard(c) \/ DropUnique(c)

Next == \E c \in Coroutines :
          Step(c) \/ UniqueUnlock(c) \/ UniqueTryLock(c) \/ UniqueLock(c)

\* Threads run, and a coroutine in its critical section comes to leave it.
\* Nobody has to call anything on a unique_lock.
Spec == Init /\ [][Next]_vars /\ \A c \in Coroutines : WF_vars(Step(c))

-----------------------------------------------------------------------------
(* Properties.                                                             *)

\* A flag is up exactly while some coroutine may take the mutex to be its own,
\* and never two: no attempt that unwinds, no guard and no unique_lock unlocks a
\* mutex that it does not hold.  Who comes out of lock() holds all it asked for.
Exclusion ==
  /\ \A m \in Mutexes :
       Cardinality({c \in Coroutines : m \in held[c]}) = IF locked_[m] THEN 1 ELSE 0
  /\ \A c \in Coroutines :
       pc[c] = "in" => held[c] = {args[c][i] : i \in DOMAIN args[c]}

\* Nobody waits with a mutex in hand: that is why no order of arguments leads
\* into a deadlock.
WaitsEmptyHanded == \A c \in Coroutines : pc[c] \in {"lock", "wait"} => held[c] = {}

Leaked(m) == \E c \in Uniques : pc[c] = "end" /\ m \in held[c]

\* On one thread every call of lock() returns, and with all mutexes, whatever
\* orders the others ask for them in, unless a unique_lock leaked one of them:
\* whatever the attempts that had to wait read from the closure that is gone,
\* since the next one either waits as well or is not misled.  (On several threads
\* two calls can go on taking, failing and giving back against each other.)
LockReturns ==
  \A c \in Coroutines \ Uniques :
    runners = 1 ~> pc[c] = "end" \/ \E i \in DOMAIN args[c] : Leaked(args[c][i])
=============================================================================
