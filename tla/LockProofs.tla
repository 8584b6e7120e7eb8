------------------------------ MODULE LockProofs ------------------------------
(***************************************************************************)
(* The locks: shared_mutex for any number of threads that its word can     *)
(* count, and lock(m1, ..., mn) and unique_lock for any coroutines,        *)
(* mutexes and orders of arguments.                                        *)
(*                                                                         *)
(* shared_mutex: the word is exact, and the lock admits whom RWLock admits.*)
(* WordExact alone is not inductive: two writers make a word of 2 * EX_BIT,*)
(* which wraps.  WordInv adds that a writer is alone and excludes readers, *)
(* which is also what the refinement needs.                                *)
(*                                                                         *)
(* lock and unique_lock: a flag locked_ does not know its owner.  That no  *)
(* unlock() hits the flag of another coroutine rests on where each         *)
(* coroutine is: IInv says that an attempt holds exactly the mutexes at    *)
(* the first places of the rotated list, which are all different, and when *)
(* a unique_lock's own flag is to be believed.                             *)
(***************************************************************************)
EXTENDS SharedMutex, LockAll, FiniteSetTheorems, TLAPS

-----------------------------------------------------------------------------
(* The word of shared_mutex.                                               *)

ThreadLabels == {"idle", "writer", "reader", "undo", "drain"}

Writers == Cardinality(In("writer"))
Counted == Cardinality(In("reader")) + Cardinality(In("undo"))

\* A writer is the only one, and nobody reads meanwhile.
WriterAlone == \A t, u \in Threads :
                 tpc[t] = "writer" /\ tpc[u] \in {"writer", "reader"} => t = u

\* The word that w writers and n counts make.
WordOf(w, n) == EX_BIT * w + n

WordInv == TypeOK /\ WordExact /\ WriterAlone

-----------------------------------------------------------------------------
(* Counting.                                                               *)

\* The threads at a label are finitely many.
LEMMA InFinite ==
  ASSUME NEW l
  PROVE  /\ IsFiniteSet(In(l))
         /\ Cardinality(In(l)) \in Nat /\ Cardinality(In(l))' \in Nat
         /\ In(l) = {} <=> Cardinality(In(l)) = 0
  <1>1. IsFiniteSet(In(l)) /\ IsFiniteSet(In(l))'
    BY FS_Subset, MutexAssumption DEF In
  <1> QED BY <1>1, FS_CardinalityType, FS_EmptySet

\* A thread that goes from one label to another is counted at the new one and
\* no longer at the old one.
LEMMA MoveCount ==
  ASSUME TypeOK, NEW t \in Threads, NEW to, to # tpc[t], ThreadAt(t, to), NEW l
  PROVE  Cardinality(In(l))' = IF l = to THEN Cardinality(In(l)) + 1
                               ELSE IF l = tpc[t] THEN Cardinality(In(l)) - 1
                               ELSE Cardinality(In(l))
  <1>1. CASE l = to
    <2>1. In(l)' = In(l) \cup {t} /\ t \notin In(l)
      BY <1>1 DEF In, ThreadAt, TypeOK
    <2> QED BY <1>1, <2>1, InFinite, FS_AddElement
  <1>2. CASE l # to /\ l = tpc[t]
    <2>1. In(l)' = In(l) \ {t} /\ t \in In(l)
      BY <1>2 DEF In, ThreadAt, TypeOK
    <2> QED BY <1>2, <2>1, InFinite, FS_RemoveElement
  <1>3. CASE l # to /\ l # tpc[t]
    <2>1. In(l)' = In(l)
      BY <1>3 DEF In, ThreadAt, TypeOK
    <2> QED BY <1>3, <2>1
  <1> QED BY <1>1, <1>2, <1>3

\* Readers and failed tries are threads; somebody else makes them fewer.
LEMMA CountBound ==
  /\ Counted <= Cardinality(Threads)
  /\ \A t \in Threads : tpc[t] \notin {"reader", "undo"} =>
                          Counted + 1 <= Cardinality(Threads)
  <1> DEFINE R == In("reader")
             U == In("undo")
             C == R \cup U
  <1>1. IsFiniteSet(C) /\ Cardinality(C) = Counted /\ Counted \in Nat
    <2>1. R \cap U = {}
      BY DEF In
    <2>2. IsFiniteSet(R) /\ IsFiniteSet(U) /\ Cardinality(R) \in Nat /\ Cardinality(U) \in Nat
      BY InFinite
    <2> HIDE DEF R, U
    <2>3. /\ IsFiniteSet(R \cup U)
          /\ Cardinality(R \cup U) = Cardinality(R) + Cardinality(U) - Cardinality(R \cap U)
      BY <2>2, FS_Union
    <2>4. Cardinality(R \cap U) = 0
      BY <2>1, FS_EmptySet
    <2> QED BY <2>2, <2>3, <2>4 DEF Counted, R, U
  <1>2. C \in SUBSET Threads
    BY DEF In
  <1>3. ASSUME NEW t \in Threads, tpc[t] \notin {"reader", "undo"}
        PROVE  Counted + 1 <= Cardinality(Threads)
    <2>1. t \notin C
      BY <1>3 DEF In
    <2> HIDE DEF C
    <2>2. Cardinality(C \cup {t}) = Counted + 1
      BY <1>1, <2>1, FS_AddElement
    <2>3. C \cup {t} \in SUBSET Threads
      BY <1>2
    <2> QED BY <2>2, <2>3, FS_Subset, MutexAssumption
  <1>4. Counted <= Cardinality(Threads)
    <2> HIDE DEF C
    <2> QED BY <1>1, <1>2, FS_Subset, MutexAssumption
  <1> QED BY <1>3, <1>4

LEMMA WritersAtMostOne ==
  ASSUME WriterAlone
  PROVE  /\ Writers \in {0, 1}
         /\ Writers = 1 <=> \E t \in Threads : tpc[t] = "writer"
  <1>1. CASE In("writer") = {}
    BY <1>1, FS_EmptySet DEF Writers, In
  <1>2. CASE In("writer") # {}
    <2>1. PICK t \in Threads : tpc[t] = "writer"
      BY <1>2 DEF In
    <2>2. In("writer") = {t}
      BY <2>1 DEF In, WriterAlone
    <2> QED BY <2>1, <2>2, FS_Singleton DEF Writers
  <1> QED BY <1>1, <1>2

-----------------------------------------------------------------------------
(* The word.                                                               *)

\* What the atomic operations see of a word and make of it: no count runs into
\* the bit of the writer, and none is borrowed from it.
LEMMA WordArithmetic ==
  ASSUME NEW w \in {0, 1}, NEW n \in Nat, n < EX_BIT
  PROVE  /\ WordOf(w, n) \in 0 .. Word - 1
         /\ Exclusive(WordOf(w, n)) <=> w = 1
         /\ n + 1 < EX_BIT => (WordOf(w, n) + 1) % Word = WordOf(w, n + 1)
         /\ n > 0 => (WordOf(w, n) + Word - 1) % Word = WordOf(w, n - 1)
         /\ w = 1 => (WordOf(w, n) + Word - EX_BIT) % Word = WordOf(0, n)
  <1> USE MutexAssumption DEF WordOf, Word, Exclusive
  <1>1. CASE w = 0
    BY <1>1
  <1>2. CASE w = 1
    BY <1>2
  <1> QED BY <1>1, <1>2

\* The word as the invariant has it.
LEMMA WordIs ==
  ASSUME WordInv
  PROVE  /\ Writers \in {0, 1} /\ Counted \in Nat /\ Counted < EX_BIT
         /\ state_ = WordOf(Writers, Counted)
  <1>1. Writers \in {0, 1} /\ Counted \in Nat
    BY WritersAtMostOne, InFinite DEF WordInv, Counted
  <1>2. Counted < EX_BIT
    BY <1>1, CountBound, FS_CardinalityType, MutexAssumption
  <1>3. state_ = WordOf(Writers, Counted)
    BY InFinite, MutexAssumption DEF WordInv, WordExact, WordOf, Writers, Counted
  <1> QED BY <1>1, <1>2, <1>3

\* A word that is exact fits, so that these facts make up the invariant.
LEMMA Assemble ==
  ASSUME (tpc \in [Threads -> ThreadLabels])', WriterAlone',
         Writers' \in {0, 1}, Counted' \in Nat, Counted' < EX_BIT,
         state_' = WordOf(Writers', Counted')
  PROVE  WordInv'
  <1>1. state_' \in 0 .. Word - 1
    BY WordArithmetic
  <1>2. WordExact'
    BY InFinite, MutexAssumption DEF WordExact, WordOf, Writers, Counted
  <1> QED BY <1>1, <1>2 DEF WordInv, TypeOK, ThreadLabels

-----------------------------------------------------------------------------
LEMMA WordInit == MutexInit => WordInv
  <1> SUFFICES ASSUME MutexInit PROVE WordInv
    OBVIOUS
  <1>1. \A l : l # "idle" => Cardinality(In(l)) = 0
    BY FS_EmptySet DEF MutexInit, In
  <1>2. WordExact
    BY <1>1, MutexAssumption DEF MutexInit, WordExact
  <1>3. EX_BIT > 0
    BY MutexAssumption, FS_CardinalityType
  <1> QED BY <1>2, <1>3, MutexAssumption DEF MutexInit, WordInv, TypeOK, WriterAlone, Word

\* WordInductive step, action by action: the counts move, and the word with them.
LEMMA WordStep == WordInv /\ [MutexNext]_mutexVars => WordInv'
  <1> SUFFICES ASSUME WordInv, [MutexNext]_mutexVars PROVE WordInv'
    OBVIOUS
  <1> DEFINE W == Cardinality(In("writer"))
             R == Cardinality(In("reader"))
             U == Cardinality(In("undo"))
  <1>a. /\ TypeOK /\ WriterAlone
        /\ Writers \in {0, 1} /\ Counted \in Nat /\ Counted < EX_BIT
        /\ state_ = WordOf(Writers, Counted)
    BY WordIs DEF WordInv
  <1>b. /\ W \in Nat /\ R \in Nat /\ U \in Nat
        /\ Writers = W /\ Counted = R + U /\ Writers' = W' /\ Counted' = R' + U'
    BY InFinite DEF Writers, Counted
  <1>c. ASSUME NEW t \in Threads, NEW to \in ThreadLabels, to # tpc[t], ThreadAt(t, to)
        PROVE  /\ (tpc \in [Threads -> ThreadLabels])'
               /\ W' = IF to = "writer" THEN W + 1 ELSE IF tpc[t] = "writer" THEN W - 1 ELSE W
               /\ R' = IF to = "reader" THEN R + 1 ELSE IF tpc[t] = "reader" THEN R - 1 ELSE R
               /\ U' = IF to = "undo" THEN U + 1 ELSE IF tpc[t] = "undo" THEN U - 1 ELSE U
    <2>1. (tpc \in [Threads -> ThreadLabels])'
      BY <1>a, <1>c DEF TypeOK, ThreadAt, ThreadLabels
    <2> QED BY <1>a, <1>c, <2>1, MoveCount
  <1>d. EX_BIT \in Nat /\ Cardinality(Threads) \in Nat /\ Cardinality(Threads) < EX_BIT
    BY MutexAssumption, FS_CardinalityType
  <1>e. /\ W = 0 => In("writer") = {}
        /\ R = 0 => In("reader") = {}
        /\ U = 0 => In("undo") = {}
    BY InFinite
  <1> HIDE DEF W, R, U
  <1>1. ASSUME NEW t \in Threads, TryLock(t) PROVE WordInv'
    <2>1. W = 0 /\ R = 0 /\ U = 0
      BY <1>1, <1>a, <1>b, <1>d DEF TryLock, CasSucceeds, WordOf
    <2>2. W' = 1 /\ R' = 0 /\ U' = 0 /\ (tpc \in [Threads -> ThreadLabels])'
      BY <1>1, <1>c, <2>1 DEF TryLock, ThreadLabels
    <2>3. WriterAlone'
      BY <1>1, <1>a, <1>e, <2>1 DEF TryLock, ThreadAt, In, WriterAlone, TypeOK
    <2>4. state_' = WordOf(1, 0)
      BY <1>1, <1>d DEF TryLock, WordOf
    <2> QED BY <1>b, <1>d, <2>2, <2>3, <2>4, Assemble
  <1>2. ASSUME NEW t \in Threads, Unlock(t) PROVE WordInv'
    <2>1. W = 1
      BY <1>2, <1>a, <1>b, WritersAtMostOne DEF Unlock
    <2>2. W' = 0 /\ R' = R /\ U' = U /\ (tpc \in [Threads -> ThreadLabels])'
      BY <1>2, <1>b, <1>c, <2>1 DEF Unlock, ThreadLabels
    <2>3. WriterAlone'
      BY <1>2, <1>a DEF Unlock, ThreadAt, WriterAlone, TypeOK
    <2>4. state_' = WordOf(0, Counted)
      BY <1>2, <1>a, <1>b, <2>1, WordArithmetic DEF Unlock, FetchSub
    <2> QED BY <1>a, <1>b, <2>2, <2>3, <2>4, Assemble
  <1>3. ASSUME NEW t \in Threads, TryLockShared(t) PROVE WordInv'
    <2>1. PICK to \in {"undo", "reader"} : ThreadAt(t, to) /\ (to = "undo" <=> Writers = 1)
      BY <1>3, <1>a, WordArithmetic DEF TryLockShared
    <2>2. Counted + 1 < EX_BIT
      BY <1>3, <1>a, <1>d, CountBound DEF TryLockShared
    <2>3. W' = W /\ R' + U' = R + U + 1 /\ (tpc \in [Threads -> ThreadLabels])'
      BY <1>3, <1>b, <1>c, <2>1 DEF TryLockShared, ThreadLabels
    <2>4. WriterAlone'
      BY <1>3, <1>a, <2>1, WritersAtMostOne DEF TryLockShared, ThreadAt, WriterAlone, TypeOK
    <2>5. state_' = WordOf(Writers, Counted + 1)
      BY <1>3, <1>a, <2>2, WordArithmetic DEF TryLockShared, FetchAdd
    <2> QED BY <1>a, <1>b, <2>2, <2>3, <2>4, <2>5, Assemble
  <1>4. ASSUME NEW t \in Threads, tpc[t] \in {"undo", "reader"}, FetchSub(1),
               NEW to \in {"idle", "drain"}, ThreadAt(t, to)
        PROVE  WordInv'
    <2>1. Counted > 0
      BY <1>4, <1>b, <1>e DEF In
    <2>2. W' = W /\ R' + U' = R + U - 1 /\ (tpc \in [Threads -> ThreadLabels])'
      BY <1>4, <1>b, <1>c DEF ThreadLabels
    <2>3. WriterAlone'
      BY <1>4, <1>a DEF ThreadAt, WriterAlone, TypeOK
    <2>4. state_' = WordOf(Writers, Counted - 1)
      BY <1>4, <1>a, <2>1, WordArithmetic DEF FetchSub
    <2> QED BY <1>a, <1>b, <1>d, <2>1, <2>2, <2>3, <2>4, Assemble
  <1>5. ASSUME NEW t \in Threads, Drain(t) PROVE WordInv'
    <2>1. W' = W /\ R' = R /\ U' = U /\ (tpc \in [Threads -> ThreadLabels])'
      BY <1>5, <1>b, <1>c DEF Drain, ThreadLabels
    <2>2. WriterAlone'
      BY <1>5, <1>a DEF Drain, ThreadAt, WriterAlone, TypeOK
    <2> QED BY <1>5, <1>a, <1>b, <2>1, <2>2, Assemble DEF Drain
  <1>6. CASE UNCHANGED mutexVars
    BY <1>6 DEF mutexVars, WordInv, TypeOK, WordExact, WriterAlone, In
  <1>7. ASSUME NEW t \in Threads, ThreadStep(t) PROVE WordInv'
    <2>1. CASE Undo(t)         BY <2>1, <1>4 DEF Undo
    <2>2. CASE UnlockShared(t) BY <2>2, <1>4 DEF UnlockShared
    <2> QED BY <1>1, <1>2, <1>3, <1>5, <1>7, <2>1, <2>2 DEF ThreadStep
  <1> QED BY <1>6, <1>7 DEF MutexNext

LEMMA WordInductive == MutexSpec => []WordInv
  BY WordInit, WordStep, PTL DEF MutexSpec

\* Every fetch_add and fetch_sub of shared_mutex.cpp leaves a word that counts
\* exactly the threads inside, for any number of threads below EX_BIT: the
\* counts of failed try_lock_shared calls and the writer's bit never mix.
THEOREM WordIsExact == MutexSpec => []WordExact
  <1>1. WordInv => WordExact
    BY DEF WordInv
  <1> QED BY <1>1, WordInductive, PTL

-----------------------------------------------------------------------------
(* MutexRefinement.                                                             *)

\* A zero word means that nobody is in, a word without the bit that no writer is.
LEMMA WordTells ==
  ASSUME WordInv
  PROVE  /\ state_ = 0 => In("writer") = {} /\ In("reader") = {}
         /\ ~Exclusive(state_) => In("writer") = {}
  <1>1. /\ Writers \in {0, 1} /\ Counted \in Nat /\ Counted < EX_BIT
        /\ state_ = WordOf(Writers, Counted) /\ EX_BIT \in Nat
    BY WordIs, MutexAssumption
  <1>2. Exclusive(state_) <=> Writers = 1
    BY <1>1, WordArithmetic
  <1>3. state_ = 0 => Writers = 0 /\ Counted = 0
    BY <1>1 DEF WordOf
  <1>4. /\ Writers = 0 => In("writer") = {}
        /\ Counted = 0 => In("reader") = {}
    BY InFinite DEF Writers, Counted
  <1> QED BY <1>1, <1>2, <1>3, <1>4

\* Every step of the word is a step of RWLock or leaves its holders as they are.
LEMMA StepRefines == WordInv /\ [MutexNext]_mutexVars => [RW!Next]_(RW!vars)
  <1> SUFFICES ASSUME WordInv, [MutexNext]_mutexVars PROVE [RW!Next]_(RW!vars)
    OBVIOUS
  <1> USE DEF RW!vars, RW!Next
  <1>t. TypeOK
    BY DEF WordInv
  <1>1. ASSUME NEW t \in Threads, TryLock(t) PROVE RW!LockExclusive(t)
    BY <1>t, <1>1, WordTells DEF TryLock, CasSucceeds, ThreadAt, In, TypeOK, RW!LockExclusive
  <1>2. ASSUME NEW t \in Threads, Unlock(t) PROVE RW!Unlock(t)
    BY <1>t, <1>2 DEF Unlock, ThreadAt, In, TypeOK, RW!Unlock
  <1>3. ASSUME NEW t \in Threads, TryLockShared(t)
        PROVE  RW!LockShared(t) \/ UNCHANGED RW!vars
    <2>1. CASE Exclusive(state_)
      BY <1>t, <1>3, <2>1 DEF TryLockShared, ThreadAt, In, TypeOK
    <2>2. CASE ~Exclusive(state_)
      BY <1>t, <1>3, <2>2, WordTells DEF TryLockShared, ThreadAt, In, TypeOK, RW!LockShared
    <2> QED BY <2>1, <2>2
  <1>4. ASSUME NEW t \in Threads, UnlockShared(t) PROVE RW!UnlockShared(t)
    BY <1>t, <1>4 DEF UnlockShared, ThreadAt, In, TypeOK, RW!UnlockShared
  <1>5. ASSUME NEW t \in Threads, Undo(t) \/ Drain(t) PROVE UNCHANGED RW!vars
    BY <1>t, <1>5 DEF Undo, Drain, ThreadAt, In, TypeOK
  <1>6. CASE UNCHANGED mutexVars
    BY <1>6 DEF mutexVars, In
  <1> QED BY <1>1, <1>2, <1>3, <1>4, <1>5, <1>6 DEF MutexNext, ThreadStep

\* try_lock and try_lock_shared of any number of threads admit one writer or
\* several readers, although readers count themselves in before they know.
THEOREM MutexRefinement == MutexSpec => ImplementsRWLock
  <1>1. MutexInit => RW!Init
    BY DEF MutexInit, In, RW!Init
  <1> QED BY <1>1, StepRefines, WordInductive, PTL DEF MutexSpec, ImplementsRWLock, RW!Spec

-----------------------------------------------------------------------------
(* lock(m1, ..., mn) and unique_lock.                                      *)

Labels == {"lock", "wait", "try", "back", "in", "drop", "open", "end"}

TypeInv ==
  /\ args \in Calls
  /\ locked_ \in [Mutexes -> BOOLEAN]
  /\ pc \in [Coroutines -> Labels]
  /\ start \in [Coroutines -> Nat]
  /\ cnt \in [Coroutines -> Nat]
  /\ held \in [Coroutines -> SUBSET Mutexes]
  /\ flag \in [Coroutines -> BOOLEAN]
  /\ \A c \in Coroutines : start[c] < N(c)

\* The first k mutexes of the rotated list.
Taken(c, k) == {Rotated(c, i) : i \in 0 .. k - 1}

\* What c holds, wherever it is in lock() or with its unique_lock.
PlacePart(c) ==
  /\ pc[c] \in {"lock", "wait"} => held[c] = {}
  /\ pc[c] = "try" => cnt[c] \in 1 .. N(c) /\ held[c] = Taken(c, cnt[c])
  /\ pc[c] = "back" => \E k \in 1 .. N(c) : held[c] = Taken(c, k)
  /\ pc[c] = "in" => held[c] = Taken(c, N(c))
  /\ pc[c] = "open" => /\ c \in Uniques
                       /\ held[c] \subseteq {args[c][1]}
                       /\ flag[c] => held[c] = {args[c][1]}

\* A flag is up exactly if somebody holds the mutex, and nobody else does then.
OwnerPart ==
  /\ \A m \in Mutexes : locked_[m] <=> \E c \in Coroutines : m \in held[c]
  /\ \A c, d \in Coroutines : \A m \in Mutexes : m \in held[c] /\ m \in held[d] => c = d

IInv == TypeInv /\ (\A c \in Coroutines : PlacePart(c)) /\ OwnerPart

-----------------------------------------------------------------------------
(* The rotated list.                                                       *)

\* Arguments are a list, not empty, of different mutexes.
LEMMA ArgsAreLists ==
  ASSUME NEW s \in ArgLists
  PROVE  /\ Len(s) \in Nat \ {0}
         /\ s \in [1 .. Len(s) -> Mutexes] /\ DOMAIN s = 1 .. Len(s)
         /\ \A i, j \in 1 .. Len(s) : s[i] = s[j] => i = j
  <1>1. Cardinality(Mutexes) \in Nat
    BY LockAssumption, FS_CardinalityType
  <1>2. PICK n \in 1 .. Cardinality(Mutexes) : s \in [1 .. n -> Mutexes]
    BY DEF ArgLists
  <1>3. n \in Nat \ {0} /\ Len(s) = n /\ DOMAIN s = 1 .. n
    BY <1>1, <1>2
  <1> QED BY <1>2, <1>3 DEF ArgLists

\* The place in a list of n that is i places from the start a of an attempt.
Spot(n, a, i) == ((a + i) % n) + 1

\* The places of an attempt are all the places of the list, each once.
LEMMA Spots ==
  ASSUME NEW n \in Nat \ {0}, NEW a \in 0 .. n - 1
  PROVE  /\ \A i \in 0 .. n - 1 : Spot(n, a, i) \in 1 .. n
         /\ \A i, j \in 0 .. n - 1 : Spot(n, a, i) = Spot(n, a, j) => i = j
         /\ \A j \in 1 .. n : \E i \in 0 .. n - 1 : Spot(n, a, i) = j
  <1>1. ASSUME NEW i \in 0 .. n - 1
        PROVE  Spot(n, a, i) = IF a + i < n THEN a + i + 1 ELSE a + i - n + 1
    <2>1. CASE a + i < n
      BY <2>1 DEF Spot
    <2>2. CASE a + i >= n
      BY <2>2 DEF Spot
    <2> QED BY <2>1, <2>2
  <1>2. \A i \in 0 .. n - 1 : Spot(n, a, i) \in 1 .. n
    BY <1>1
  <1>3. \A i, j \in 0 .. n - 1 : Spot(n, a, i) = Spot(n, a, j) => i = j
    BY <1>1
  <1>4. ASSUME NEW j \in 1 .. n PROVE \E i \in 0 .. n - 1 : Spot(n, a, i) = j
    <2>1. CASE j - 1 >= a
      <3>1. j - 1 - a \in 0 .. n - 1 /\ Spot(n, a, j - 1 - a) = j
        BY <1>1, <2>1
      <3> QED BY <3>1
    <2>2. CASE j - 1 < a
      <3>1. j - 1 - a + n \in 0 .. n - 1 /\ Spot(n, a, j - 1 - a + n) = j
        BY <1>1, <2>2
      <3> QED BY <3>1
    <2> QED BY <2>1, <2>2
  <1> QED BY <1>2, <1>3, <1>4

\* The rotated list has the same mutexes, all at different places.
LEMMA Rotation ==
  ASSUME TypeInv, NEW c \in Coroutines
  PROVE  /\ N(c) \in Nat \ {0} /\ args[c][1] \in Mutexes
         /\ \A i \in 0 .. N(c) - 1 : Rotated(c, i) \in Mutexes
         /\ \A i, j \in 0 .. N(c) - 1 : Rotated(c, i) = Rotated(c, j) => i = j
         /\ Taken(c, N(c)) = {args[c][i] : i \in DOMAIN args[c]}
         /\ c \in Uniques <=> N(c) = 1
         /\ N(c) = 1 => Rotated(c, 0) = args[c][1]
  <1>1. args[c] \in ArgLists /\ (c \in Uniques <=> N(c) = 1)
    BY CallsAssumption DEF TypeInv, N
  <1>2. /\ N(c) \in Nat \ {0} /\ DOMAIN args[c] = 1 .. N(c)
        /\ \A i \in 1 .. N(c) : args[c][i] \in Mutexes
        /\ \A i, j \in 1 .. N(c) : args[c][i] = args[c][j] => i = j
    BY <1>1, ArgsAreLists DEF N
  <1>3. start[c] \in Nat /\ start[c] < N(c)
    BY DEF TypeInv
  <1>4. start[c] \in 0 .. N(c) - 1
    BY <1>2, <1>3
  <1> DEFINE sp(i) == Spot(N(c), start[c], i)
  <1>5. /\ \A i \in 0 .. N(c) - 1 : sp(i) \in 1 .. N(c)
        /\ \A i, j \in 0 .. N(c) - 1 : sp(i) = sp(j) => i = j
        /\ \A j \in 1 .. N(c) : \E i \in 0 .. N(c) - 1 : sp(i) = j
    BY <1>2, <1>4, Spots
  <1>6. \A i : Rotated(c, i) = args[c][sp(i)]
    BY DEF Rotated, Spot
  <1> HIDE DEF sp
  <1>7. \A i, j \in 0 .. N(c) - 1 : Rotated(c, i) = Rotated(c, j) => i = j
    BY <1>2, <1>5, <1>6
  <1>8. Taken(c, N(c)) = {args[c][i] : i \in DOMAIN args[c]}
    BY <1>2, <1>5, <1>6 DEF Taken
  <1>9. \A i \in 0 .. N(c) - 1 : Rotated(c, i) \in Mutexes
    BY <1>2, <1>5, <1>6
  <1>10. N(c) = 1 => Rotated(c, 0) = args[c][1]
    <2> SUFFICES ASSUME N(c) = 1 PROVE sp(0) = 1
      BY <1>6
    <2>1. 0 \in 0 .. N(c) - 1
      OBVIOUS
    <2>2. sp(0) \in 1 .. 1
      BY <1>5, <2>1
    <2> QED BY <2>2
  <1>11. args[c][1] \in Mutexes
    BY <1>2
  <1> QED BY <1>1, <1>2, <1>7, <1>8, <1>9, <1>10, <1>11

\* Taking one more, giving the last one back, and how many there are.
LEMMA TakenSteps ==
  ASSUME TypeInv, NEW c \in Coroutines, NEW k \in 1 .. N(c)
  PROVE  /\ Taken(c, 0) = {} /\ Taken(c, 1) = {Rotated(c, 0)}
         /\ k < N(c) => Taken(c, k + 1) = Taken(c, k) \cup {Rotated(c, k)}
         /\ Rotated(c, k - 1) \in Taken(c, k)
         /\ Taken(c, k - 1) = Taken(c, k) \ {Rotated(c, k - 1)}
         /\ Cardinality(Taken(c, k)) = k
  <1>1. /\ N(c) \in Nat \ {0}
        /\ \A i, j \in 0 .. N(c) - 1 : Rotated(c, i) = Rotated(c, j) => i = j
    BY Rotation
  <1>2. Taken(c, 0) = {} /\ Taken(c, 1) = {Rotated(c, 0)}
    BY DEF Taken
  <1>3. ASSUME k < N(c) PROVE Taken(c, k + 1) = Taken(c, k) \cup {Rotated(c, k)}
    <2>1. 0 .. (k + 1) - 1 = (0 .. k - 1) \cup {k}
      BY <1>1
    <2> QED BY <2>1 DEF Taken
  <1>4. Rotated(c, k - 1) \in Taken(c, k)
    BY <1>1 DEF Taken
  <1>5. Taken(c, k - 1) = Taken(c, k) \ {Rotated(c, k - 1)}
    <2>1. 0 .. (k - 1) - 1 = (0 .. k - 1) \ {k - 1}
      BY <1>1
    <2>2. \A i \in 0 .. k - 1 : Rotated(c, i) = Rotated(c, k - 1) => i = k - 1
      BY <1>1
    <2> QED BY <2>1, <2>2 DEF Taken
  <1>6. Cardinality(Taken(c, k)) = k
    <2> DEFINE f == [i \in 1 .. k |-> Rotated(c, i - 1)]
    <2>1. \A i, j \in 1 .. k : f[i] = f[j] => i = j
      BY <1>1
    <2>2. \A m \in Taken(c, k) : \E i \in 1 .. k : f[i] = m
      <3> TAKE m \in Taken(c, k)
      <3>1. PICK i \in 0 .. k - 1 : m = Rotated(c, i)
        BY DEF Taken
      <3>2. i + 1 \in 1 .. k /\ f[i + 1] = m
        BY <1>1, <3>1
      <3> QED BY <3>2
    <2>3. f \in [1 .. k -> Taken(c, k)]
      BY <1>1 DEF Taken
    <2>4. ExistsBijection(1 .. k, Taken(c, k))
      BY <2>1, <2>2, <2>3 DEF ExistsBijection, Bijection, Injection, Surjection, IsInjective
    <2> QED BY <1>1, <2>4, FS_CountingElements
  <1> QED BY <1>2, <1>3, <1>4, <1>5, <1>6

-----------------------------------------------------------------------------
(* Flags and holders.                                                      *)

LEMMA TakeKeeps ==
  ASSUME TypeInv, OwnerPart, NEW c \in Coroutines, NEW m \in Mutexes,
         ~locked_[m], Take(c, m)
  PROVE  /\ OwnerPart'
         /\ locked_' \in [Mutexes -> BOOLEAN] /\ held' \in [Coroutines -> SUBSET Mutexes]
         /\ held'[c] = held[c] \cup {m}
         /\ \A d \in Coroutines : d # c => held'[d] = held[d]
  BY DEF TypeInv, OwnerPart, Take

\* What is released is held: no other coroutine loses its flag.
LEMMA ReleaseKeeps ==
  ASSUME TypeInv, OwnerPart, NEW c \in Coroutines, NEW m \in held[c], Release(c, m)
  PROVE  /\ OwnerPart'
         /\ locked_' \in [Mutexes -> BOOLEAN] /\ held' \in [Coroutines -> SUBSET Mutexes]
         /\ held'[c] = held[c] \ {m}
         /\ \A d \in Coroutines : d # c => held'[d] = held[d]
  BY DEF TypeInv, OwnerPart, Release

\* A coroutine is not disturbed by the step of another one.
LEMMA Undisturbed ==
  ASSUME NEW d \in Coroutines, PlacePart(d), args' = args, pc'[d] = pc[d],
         start'[d] = start[d], cnt'[d] = cnt[d], held'[d] = held[d], flag'[d] = flag[d]
  PROVE  PlacePart(d)'
  BY DEF PlacePart, Taken, Rotated, N

\* With the start of its attempt, the list of a coroutine stays as it is.
LEMMA SameList ==
  ASSUME NEW c \in Coroutines, args' = args, start'[c] = start[c]
  PROVE  N(c)' = N(c) /\ \A k : Taken(c, k)' = Taken(c, k)
  BY DEF Taken, Rotated, N

-----------------------------------------------------------------------------
\* Inductive step, action by action: what the acting coroutine c holds
\* afterwards, and that the others keep what they have.
LEMMA InvStep == IInv /\ [Next]_vars => IInv'
  <1> SUFFICES ASSUME IInv, [Next]_vars PROVE IInv'
    OBVIOUS
  <1>t. TypeInv /\ OwnerPart /\ \A d \in Coroutines : PlacePart(d)
    BY DEF IInv
  <1>a. ASSUME NEW c \in Coroutines, TypeInv', OwnerPart', PlacePart(c)', args' = args,
               \A d \in Coroutines \ {c} :
                 /\ pc'[d] = pc[d] /\ start'[d] = start[d] /\ cnt'[d] = cnt[d]
                 /\ held'[d] = held[d] /\ flag'[d] = flag[d]
        PROVE  IInv'
    <2>1. \A d \in Coroutines \ {c} : PlacePart(d)'
      BY <1>t, <1>a, Undisturbed
    <2> QED BY <1>a, <2>1 DEF IInv
  <1>1. ASSUME NEW c \in Coroutines, LockFirst(c) PROVE IInv'
    <2>1. /\ N(c) \in Nat \ {0} /\ Rotated(c, 0) \in Mutexes /\ held[c] = {}
          /\ Taken(c, 1) = {Rotated(c, 0)}
      BY <1>t, <1>1, Rotation, TakenSteps DEF LockFirst, PlacePart
    <2>2. /\ OwnerPart' /\ held'[c] = Taken(c, 1)
          /\ locked_' \in [Mutexes -> BOOLEAN] /\ held' \in [Coroutines -> SUBSET Mutexes]
          /\ \A d \in Coroutines : d # c => held'[d] = held[d]
      BY <1>t, <1>1, <2>1, TakeKeeps DEF LockFirst
    <2>3. args' = args /\ start' = start /\ cnt'[c] = 1 /\ pc'[c] = "try"
      BY <1>t, <1>1 DEF LockFirst, fixed, At, TypeInv
    <2>4. TypeInv'
      BY <1>t, <1>1, <2>2 DEF LockFirst, fixed, At, TypeInv, N, Labels
    <2>5. PlacePart(c)'
      BY <2>1, <2>2, <2>3, SameList DEF PlacePart
    <2> QED BY <1>t, <1>1, <1>a, <2>2, <2>3, <2>4, <2>5 DEF LockFirst, At, TypeInv
  <1>w. ASSUME NEW c \in Coroutines, LockWaits(c) PROVE IInv'
    <2>1. /\ pc' = [pc EXCEPT ![c] = "wait"] /\ pc[c] = "lock"
          /\ UNCHANGED <<args, locked_, start, cnt, held, flag>>
      BY <1>w DEF LockWaits, At, fixed
    <2>2. TypeInv' /\ OwnerPart'
      BY <1>t, <2>1 DEF TypeInv, OwnerPart, N, Labels
    <2>3. PlacePart(c)'
      BY <1>t, <2>1 DEF PlacePart, TypeInv
    <2> QED BY <1>t, <1>a, <2>1, <2>2, <2>3 DEF TypeInv
  <1>2. ASSUME NEW c \in Coroutines, TryNext(c) PROVE IInv'
    <2> DEFINE m == Rotated(c, cnt[c])
    <2>1. /\ N(c) \in Nat \ {0} /\ cnt[c] \in 1 .. N(c) /\ cnt[c] < N(c)
          /\ held[c] = Taken(c, cnt[c])
          /\ args' = args /\ start' = start /\ flag' = flag /\ pc[c] = "try"
      BY <1>t, <1>2, Rotation DEF TryNext, PlacePart, fixed
    <2>2. m \in Mutexes
      BY <1>t, <2>1, Rotation
    <2>3. CASE locked_[m]
      <3>1. /\ locked_' = locked_ /\ held' = held /\ cnt' = cnt
            /\ pc' = [pc EXCEPT ![c] = "back"]
        BY <1>2, <2>3 DEF TryNext, At
      <3>2. TypeInv' /\ OwnerPart'
        BY <1>t, <2>1, <3>1 DEF TypeInv, OwnerPart, N, Labels
      <3>3. PlacePart(c)'
        BY <1>t, <2>1, <3>1, SameList DEF PlacePart, TypeInv
      <3> QED BY <1>t, <1>a, <2>1, <3>1, <3>2, <3>3 DEF TypeInv
    <2>4. CASE ~locked_[m]
      <3>1. Take(c, m) /\ cnt' = [cnt EXCEPT ![c] = @ + 1] /\ pc' = pc
        BY <1>2, <2>4 DEF TryNext
      <3>2. /\ OwnerPart' /\ held'[c] = held[c] \cup {m}
            /\ locked_' \in [Mutexes -> BOOLEAN] /\ held' \in [Coroutines -> SUBSET Mutexes]
            /\ \A d \in Coroutines : d # c => held'[d] = held[d]
        BY <1>t, <2>2, <2>4, <3>1, TakeKeeps
      <3>3. held'[c] = Taken(c, cnt[c] + 1)
        BY <1>t, <2>1, <3>2, TakenSteps
      <3>4. TypeInv'
        <4>1. cnt' \in [Coroutines -> Nat] /\ pc' \in [Coroutines -> Labels]
          BY <1>t, <3>1 DEF TypeInv
        <4>2. \A d \in Coroutines : start'[d] < N(d)'
          BY <1>t, <2>1 DEF TypeInv, N
        <4> QED BY <1>t, <2>1, <3>2, <4>1, <4>2 DEF TypeInv
      <3>5. cnt'[c] = cnt[c] + 1 /\ cnt'[c] \in 1 .. N(c) /\ pc'[c] = "try"
        BY <1>t, <2>1, <3>1 DEF TypeInv
      <3>6. PlacePart(c)'
        BY <2>1, <3>3, <3>5, SameList DEF PlacePart
      <3> QED BY <1>t, <1>a, <2>1, <3>1, <3>2, <3>4, <3>6 DEF TypeInv
    <2> QED BY <2>3, <2>4
  <1>3. ASSUME NEW c \in Coroutines, GiveBack(c) PROVE IInv'
    <2>1. PICK k \in 1 .. N(c) : held[c] = Taken(c, k)
      BY <1>t, <1>3 DEF GiveBack, PlacePart
    <2>2. /\ N(c) \in Nat \ {0} /\ Cardinality(held[c]) = k /\ k - 1 \in 0 .. N(c) - 1
          /\ Rotated(c, k - 1) \in held[c]
          /\ Taken(c, k - 1) = held[c] \ {Rotated(c, k - 1)}
          /\ Taken(c, 0) = {}
      BY <1>t, <2>1, Rotation, TakenSteps
    <2>3. /\ Release(c, Rotated(c, k - 1))
          /\ args' = args /\ flag' = flag /\ pc[c] = "back"
      BY <1>3, <2>2 DEF GiveBack, fixed
    <2>4. /\ OwnerPart' /\ held'[c] = Taken(c, k - 1)
          /\ locked_' \in [Mutexes -> BOOLEAN] /\ held' \in [Coroutines -> SUBSET Mutexes]
          /\ \A d \in Coroutines : d # c => held'[d] = held[d]
      BY <1>t, <2>2, <2>3, ReleaseKeeps
    <2>5. CASE k = 1
      <3>1. PICK j \in Returned(c) : /\ start' = [start EXCEPT ![c] = j]
                                     /\ cnt' = [cnt EXCEPT ![c] = 0]
                                     /\ pc' = [pc EXCEPT ![c] = "lock"]
        BY <1>3, <2>2, <2>5 DEF GiveBack, NextAttempt, At
      <3>2. j \in 0 .. N(c) - 1
        <4>1. (start[c] + cnt[c]) % N(c) \in 0 .. N(c) - 1
          BY <1>t, <2>2 DEF TypeInv
        <4> QED BY <4>1 DEF Returned, ContendedIndex
      <3>3. TypeInv'
        BY <1>t, <2>2, <2>3, <2>4, <3>1, <3>2 DEF TypeInv, N, Labels
      <3>4. PlacePart(c)'
        BY <1>t, <2>2, <2>4, <2>5, <3>1 DEF PlacePart, TypeInv
      <3> QED BY <1>t, <1>a, <2>3, <2>4, <3>1, <3>3, <3>4 DEF TypeInv
    <2>6. CASE k # 1
      <3>1. start' = start /\ cnt' = cnt /\ pc' = pc
        BY <1>3, <2>2, <2>6 DEF GiveBack, NextAttempt
      <3>2. TypeInv'
        BY <1>t, <2>3, <2>4, <3>1 DEF TypeInv, N
      <3>3. k - 1 \in 1 .. N(c)
        BY <2>2, <2>6
      <3>4. PlacePart(c)'
        BY <2>3, <2>4, <3>1, <3>3, SameList DEF PlacePart
      <3> QED BY <1>a, <2>3, <2>4, <3>1, <3>2, <3>4
    <2> QED BY <2>5, <2>6
  <1>4. ASSUME NEW c \in Coroutines, Locked(c) PROVE IInv'
    <2>1. /\ pc' = [pc EXCEPT ![c] = "in"] /\ pc[c] = "try" /\ cnt[c] = N(c)
          /\ UNCHANGED <<args, locked_, start, cnt, held, flag>>
      BY <1>4 DEF Locked, At, fixed
    <2>2. TypeInv' /\ OwnerPart'
      BY <1>t, <2>1 DEF TypeInv, OwnerPart, N, Labels
    <2>3. PlacePart(c)'
      BY <1>t, <2>1, SameList DEF PlacePart, TypeInv
    <2> QED BY <1>t, <1>a, <2>1, <2>2, <2>3 DEF TypeInv
  <1>5. ASSUME NEW c \in Coroutines, Continue(c) PROVE IInv'
    <2>1. /\ pc' = [pc EXCEPT ![c] = IF c \in Uniques THEN "open" ELSE "drop"]
          /\ pc[c] = "in"
          /\ UNCHANGED <<args, locked_, start, cnt, held, flag>>
      BY <1>5 DEF Continue, At, fixed
    <2>2. TypeInv' /\ OwnerPart'
      BY <1>t, <2>1 DEF TypeInv, OwnerPart, N, Labels
    <2>3. c \in Uniques => held[c] = {args[c][1]}
      BY <1>t, <2>1, Rotation, TakenSteps DEF PlacePart
    <2>4. PlacePart(c)'
      BY <1>t, <2>1, <2>3 DEF PlacePart, TypeInv
    <2> QED BY <1>t, <1>a, <2>1, <2>2, <2>4 DEF TypeInv
  <1>6. ASSUME NEW c \in Coroutines, DropGuard(c) PROVE IInv'
    <2>1. pc[c] = "drop" /\ UNCHANGED <<args, start, cnt, flag>>
      BY <1>6 DEF DropGuard, fixed
    <2>2. CASE held[c] = {}
      <3>1. pc' = [pc EXCEPT ![c] = "end"] /\ UNCHANGED <<locked_, held>>
        BY <1>6, <2>2 DEF DropGuard, At
      <3>2. TypeInv' /\ OwnerPart'
        BY <1>t, <2>1, <3>1 DEF TypeInv, OwnerPart, N, Labels
      <3>3. PlacePart(c)'
        BY <1>t, <3>1 DEF PlacePart, TypeInv
      <3> QED BY <1>t, <1>a, <2>1, <3>1, <3>2, <3>3 DEF TypeInv
    <2>3. CASE held[c] # {}
      <3>1. PICK m \in held[c] : Release(c, m) /\ pc' = pc
        BY <1>6, <2>3 DEF DropGuard
      <3>2. /\ OwnerPart'
            /\ locked_' \in [Mutexes -> BOOLEAN] /\ held' \in [Coroutines -> SUBSET Mutexes]
            /\ \A d \in Coroutines : d # c => held'[d] = held[d]
        BY <1>t, <3>1, ReleaseKeeps
      <3>3. TypeInv'
        BY <1>t, <2>1, <3>1, <3>2 DEF TypeInv, N
      <3>4. PlacePart(c)'
        BY <2>1, <3>1 DEF PlacePart
      <3> QED BY <1>a, <2>1, <3>1, <3>2, <3>3, <3>4
    <2> QED BY <2>2, <2>3
  <1>7. ASSUME NEW c \in Coroutines, DropUnique(c) PROVE IInv'
    <2>1. /\ pc[c] = "open" /\ pc' = [pc EXCEPT ![c] = "end"]
          /\ UNCHANGED <<args, start, cnt, flag>>
      BY <1>7 DEF DropUnique, At, fixed
    <2>2. PlacePart(c)'
      BY <1>t, <2>1 DEF PlacePart, TypeInv
    <2>3. CASE flag[c]
      <3>1. args[c][1] \in held[c] /\ Release(c, args[c][1])
        BY <1>t, <1>7, <2>1, <2>3 DEF DropUnique, PlacePart
      <3>2. /\ OwnerPart'
            /\ locked_' \in [Mutexes -> BOOLEAN] /\ held' \in [Coroutines -> SUBSET Mutexes]
            /\ \A d \in Coroutines : d # c => held'[d] = held[d]
        BY <1>t, <3>1, ReleaseKeeps
      <3>3. TypeInv'
        BY <1>t, <2>1, <3>2 DEF TypeInv, N, Labels
      <3> QED BY <1>t, <1>a, <2>1, <2>2, <3>2, <3>3 DEF TypeInv
    <2>4. CASE ~flag[c]
      <3>1. UNCHANGED <<locked_, held>>
        BY <1>7, <2>4 DEF DropUnique
      <3>2. TypeInv' /\ OwnerPart'
        BY <1>t, <2>1, <3>1 DEF TypeInv, OwnerPart, N, Labels
      <3> QED BY <1>t, <1>a, <2>1, <2>2, <3>1, <3>2 DEF TypeInv
    <2> QED BY <2>3, <2>4
  <1>8. ASSUME NEW c \in Coroutines, UniqueUnlock(c) PROVE IInv'
    <2>1. /\ pc[c] = "open" /\ flag' = [flag EXCEPT ![c] = FALSE]
          /\ UNCHANGED <<args, pc, start, cnt>> /\ Release(c, args[c][1])
      BY <1>8 DEF UniqueUnlock, UniqueCall, fixed
    <2>2. args[c][1] \in held[c] /\ held[c] = {args[c][1]} /\ c \in Uniques
      BY <1>t, <1>8, <2>1 DEF UniqueUnlock, PlacePart
    <2>3. /\ OwnerPart' /\ held'[c] = {}
          /\ locked_' \in [Mutexes -> BOOLEAN] /\ held' \in [Coroutines -> SUBSET Mutexes]
          /\ \A d \in Coroutines : d # c => held'[d] = held[d]
      BY <1>t, <2>1, <2>2, ReleaseKeeps
    <2>4. TypeInv'
      BY <1>t, <2>1, <2>3 DEF TypeInv, N
    <2>5. PlacePart(c)'
      BY <1>t, <2>1, <2>2, <2>3 DEF PlacePart, TypeInv
    <2> QED BY <1>t, <1>a, <2>1, <2>3, <2>4, <2>5 DEF TypeInv
  <1>9. ASSUME NEW c \in Coroutines, UniqueTryLock(c) PROVE IInv'
    <2>1. /\ pc[c] = "open" /\ flag' = [flag EXCEPT ![c] = ~locked_[args[c][1]]]
          /\ UNCHANGED <<args, pc, start, cnt>> /\ held[c] = {} /\ c \in Uniques
      BY <1>t, <1>9 DEF UniqueTryLock, UniqueCall, fixed, PlacePart
    <2>2. args[c][1] \in Mutexes
      BY <1>t, Rotation
    <2>3. CASE locked_[args[c][1]]
      <3>1. UNCHANGED <<locked_, held>>
        BY <1>9, <2>3 DEF UniqueTryLock
      <3>2. TypeInv' /\ OwnerPart'
        BY <1>t, <2>1, <3>1 DEF TypeInv, OwnerPart, N
      <3>3. PlacePart(c)'
        BY <1>t, <2>1, <2>3, <3>1 DEF PlacePart, TypeInv
      <3> QED BY <1>t, <1>a, <2>1, <3>1, <3>2, <3>3 DEF TypeInv
    <2>4. CASE ~locked_[args[c][1]]
      <3>1. Take(c, args[c][1])
        BY <1>9, <2>4 DEF UniqueTryLock
      <3>2. /\ OwnerPart' /\ held'[c] = {args[c][1]}
            /\ locked_' \in [Mutexes -> BOOLEAN] /\ held' \in [Coroutines -> SUBSET Mutexes]
            /\ \A d \in Coroutines : d # c => held'[d] = held[d]
        BY <1>t, <2>1, <2>2, <2>4, <3>1, TakeKeeps
      <3>3. TypeInv'
        BY <1>t, <2>1, <3>2 DEF TypeInv, N
      <3>4. PlacePart(c)'
        BY <1>t, <2>1, <3>2 DEF PlacePart, TypeInv
      <3> QED BY <1>t, <1>a, <2>1, <3>2, <3>3, <3>4 DEF TypeInv
    <2> QED BY <2>3, <2>4
  <1>10. ASSUME NEW c \in Coroutines, UniqueLock(c) PROVE IInv'
    <2>1. /\ pc' = [pc EXCEPT ![c] = "lock"] /\ flag' = [flag EXCEPT ![c] = TRUE]
          /\ UNCHANGED <<args, locked_, start, cnt, held>> /\ held[c] = {}
      BY <1>10 DEF UniqueLock, UniqueCall, At, fixed
    <2>2. TypeInv' /\ OwnerPart'
      BY <1>t, <2>1 DEF TypeInv, OwnerPart, N, Labels
    <2>3. PlacePart(c)'
      BY <1>t, <2>1 DEF PlacePart, TypeInv
    <2> QED BY <1>t, <1>a, <2>1, <2>2, <2>3 DEF TypeInv
  <1>11. CASE UNCHANGED vars
    <2>1. UNCHANGED <<args, locked_, pc, start, cnt, held, flag>>
      BY <1>11 DEF vars, fixed
    <2>2. TypeInv' /\ OwnerPart'
      BY <1>t, <2>1 DEF TypeInv, OwnerPart, N
    <2>3. \A d \in Coroutines : PlacePart(d)'
      BY <1>t, <2>1, Undisturbed
    <2> QED BY <2>2, <2>3 DEF IInv
  <1> QED BY <1>1, <1>w, <1>2, <1>3, <1>4, <1>5, <1>6, <1>7, <1>8, <1>9, <1>10, <1>11
          DEF Next, Step

LEMMA Inductive == Spec => []IInv
  <1>1. Init => IInv
    <2> SUFFICES ASSUME Init PROVE IInv
      OBVIOUS
    <2>1. \A c \in Coroutines : args[c] \in ArgLists
      BY CallsAssumption DEF Init
    <2>2. \A c \in Coroutines : start[c] < N(c)
      BY <2>1, ArgsAreLists DEF Init, N
    <2> QED BY <2>2 DEF Init, IInv, TypeInv, OwnerPart, PlacePart, Labels
  <1> QED BY <1>1, InvStep, PTL DEF Spec

-----------------------------------------------------------------------------
\* No unlock() of lock_guard.hpp or unique_lock.hpp takes a flag down that is
\* another coroutine's, and lock() returns with every mutex it was given.
THEOREM LocksExclude == Spec => []Exclusion
  <1>1. IInv => Exclusion
    <2> SUFFICES ASSUME IInv PROVE Exclusion
      OBVIOUS
    <2>1. ASSUME NEW m \in Mutexes
          PROVE  Cardinality({c \in Coroutines : m \in held[c]})
                   = IF locked_[m] THEN 1 ELSE 0
      <3> DEFINE H == {c \in Coroutines : m \in held[c]}
      <3>1. CASE locked_[m]
        <4>1. PICK c \in Coroutines : m \in held[c]
          BY <3>1 DEF IInv, OwnerPart
        <4>2. H = {c}
          BY <4>1 DEF IInv, OwnerPart
        <4> QED BY <3>1, <4>2, FS_Singleton
      <3>2. CASE ~locked_[m]
        <4>1. H = {}
          BY <3>2 DEF IInv, OwnerPart
        <4> QED BY <3>2, <4>1, FS_EmptySet
      <3> QED BY <3>1, <3>2
    <2>2. ASSUME NEW c \in Coroutines, pc[c] = "in"
          PROVE  held[c] = {args[c][i] : i \in DOMAIN args[c]}
      BY <2>2, Rotation DEF IInv, PlacePart
    <2> QED BY <2>1, <2>2 DEF Exclusion
  <1> QED BY <1>1, Inductive, PTL

\* A failed attempt of lock() gives back everything before it waits again.
THEOREM NobodyHoldsAndWaits == Spec => []WaitsEmptyHanded
  <1>1. IInv => WaitsEmptyHanded
    BY DEF IInv, PlacePart, WaitsEmptyHanded
  <1> QED BY <1>1, Inductive, PTL
=============================================================================
