------------------------- MODULE BlockingPoolProofs -------------------------
(***************************************************************************)
(* The blocking half of the executor, for any callers, workers, tasks and  *)
(* width of the counter.  The inductive invariant says where each task is, *)
(* who holds blocking_mut_, what the counter blocking_waiting_ is modulo   *)
(* its width, that the shutdown finds nobody between the predicate and the *)
(* sleep, and that no task is slept over but for the one exception of the  *)
(* property QueuedRunsUnlessAlone.                                         *)
(***************************************************************************)
EXTENDS BlockingPool, FiniteSetTheorems, SequenceTheorems, TLAPS

\* A worker has taken the task and not run it yet.
Taken(t) == \E w \in Workers : task[w] = t

Submitted(t) == t[2] <= submitted[t[1]]

\* No item is twice in the sequence.
Distinct(s) == \A i, j \in 1..Len(s) : s[i] = s[j] => i = j

\* A task that was submitted is in one place, where it was lost included, and any
\* other is nowhere.
PlacePart ==
  /\ Distinct(tasks)
  /\ \A v, w \in Workers : task[v] = task[w] => v = w \/ task[v] = NoTask
  /\ \A t \in Tasks : /\ Submitted(t) <=> Queued(t) \/ Taken(t) \/ t \in ran \cup lost
                      /\ ~(Queued(t) /\ Taken(t))
                      /\ t \in lost => ~Queued(t) /\ ~Taken(t) /\ t \notin ran
                      /\ ~(Queued(t) /\ t \in ran)
                      /\ ~(Taken(t) /\ t \in ran)

\* Who is inside a critical section of blocking_mut_ holds it.
MutexPart ==
  /\ \A c \in Callers : cpc[c] = "unlock" => mut = c
  /\ \A w \in Workers : wpc[w] \in {"test", "block"} => mut = w
  /\ dpc = "locked" => mut = "destructor"

\* Nobody is about to sleep when blocking_done_ is set, and nobody sleeps any
\* more when notify_all has been called: no thread misses the shutdown, and
\* the join waits only for threads that will see blocking_done_.
NobodySleepsOn ==
  /\ done => \A w \in Workers : wpc[w] # "block"
  /\ dpc \in {"join", "joined"} => \A w \in Workers : wpc[w] # "asleep"

ShutdownPart == NobodySleepsOn /\ (done <=> dpc \notin {"idle", "locked"})

\* A worker that will look at the queue or test the predicate.
Awake == \E w \in Workers : wpc[w] \in {"pop", "uncount", "run", "lock", "test"}

\* No task is slept over: while one is queued, a worker is awake, or a caller will
\* count it or find a sleeper to notify, unless there is one worker and the latest
\* try_lock failed.
WorkerComes ==
  tasks # <<>> /\ ~done =>
    \/ Awake
    \/ \E c \in Callers : cpc[c] \in {"count", "try_lock"}
    \/ /\ \E c \in Callers : cpc[c] \in {"unlock", "notify"}
       /\ \E w \in Workers : wpc[w] = "asleep"
    \/ contended /\ Cardinality(Started) = 1

\* The workers stay as many as the constructor started, until the shutdown.
StartedPart == Started # {} /\ \A w \in Workers : wpc[w] = "exited" => done

IInv == /\ TypeOK /\ CounterExact /\ PlacePart /\ MutexPart /\ ShutdownPart
        /\ StartedPart /\ WorkerComes

-----------------------------------------------------------------------------
(* The queue.                                                              *)

\* A task is a pair, and no task is no pair.
LEMMA TaskShape ==
  ASSUME NEW t \in Tasks
  PROVE  t # NoTask /\ t[1] \in Callers /\ t[2] \in 1..TasksEach /\ t = <<t[1], t[2]>>
  <1>1. t[1] \in Callers /\ t[2] \in 1..TasksEach /\ t = <<t[1], t[2]>>
    BY DEF Tasks
  <1>2. \A c, k : <<c, k>> # <<>>
    OBVIOUS
  <1> QED BY <1>1, <1>2 DEF NoTask

\* Push of something new.
LEMMA Pushed ==
  ASSUME NEW S, NEW s \in Seq(S), NEW e \in S, Distinct(s), e \notin ToSet(s)
  PROVE  /\ Append(s, e) \in Seq(S) /\ Len(Append(s, e)) = Len(s) + 1
         /\ ToSet(Append(s, e)) = ToSet(s) \cup {e}
         /\ Distinct(Append(s, e))
  <1> DEFINE a == Append(s, e)
  <1>1. /\ a \in Seq(S) /\ Len(s) \in Nat /\ Len(a) = Len(s) + 1
        /\ \A i \in 1..Len(s) : a[i] = s[i]
        /\ a[Len(s) + 1] = e
    OBVIOUS
  <1>2. DOMAIN s = 1..Len(s) /\ DOMAIN a = 1..(Len(s) + 1)
    BY <1>1
  <1> HIDE DEF a
  <1>3. ToSet(a) = ToSet(s) \cup {e}
    BY <1>1, <1>2 DEF ToSet
  <1>4. Distinct(a)
    BY <1>1, <1>2 DEF Distinct, ToSet
  <1> QED BY <1>1, <1>3, <1>4 DEF a

\* Pop of the first item.
LEMMA Popped ==
  ASSUME NEW S, NEW s \in Seq(S), s # <<>>, Distinct(s)
  PROVE  /\ Head(s) \in S /\ Tail(s) \in Seq(S)
         /\ Len(s) \in Nat \ {0} /\ Len(Tail(s)) = Len(s) - 1
         /\ Head(s) \in ToSet(s) /\ ToSet(Tail(s)) = ToSet(s) \ {Head(s)}
         /\ Distinct(Tail(s))
  <1> DEFINE u == Tail(s)
  <1>1. /\ u \in Seq(S) /\ Len(s) \in Nat \ {0} /\ Len(u) = Len(s) - 1
        /\ \A i \in 1..Len(u) : u[i] = s[i + 1]
        /\ Head(s) = s[1] /\ s[1] \in S
    BY HeadTailProperties, EmptySeq, LenProperties
  <1>2. DOMAIN s = 1..Len(s) /\ DOMAIN u = 1..Len(u)
    BY <1>1, LenProperties
  <1> HIDE DEF u
  <1>3. ASSUME NEW x \in ToSet(s), x # s[1] PROVE x \in ToSet(u)
    <2>1. PICK i \in 1..Len(s) : x = s[i]
      BY <1>2 DEF ToSet
    <2>2. i - 1 \in 1..Len(u) /\ u[i - 1] = s[i]
      BY <1>1, <1>3, <2>1
    <2> QED BY <1>2, <2>1, <2>2 DEF ToSet
  <1>4. ASSUME NEW x \in ToSet(u) PROVE x \in ToSet(s) /\ x # s[1]
    <2>1. PICK i \in 1..Len(u) : x = u[i]
      BY <1>2 DEF ToSet
    <2>2. i + 1 \in 1..Len(s) /\ x = s[i + 1] /\ i + 1 # 1 /\ 1 \in 1..Len(s)
      BY <1>1, <2>1
    <2> QED BY <1>2, <2>2 DEF ToSet, Distinct
  <1>5. Head(s) \in ToSet(s)
    BY <1>1, <1>2 DEF ToSet
  <1>6. Distinct(u)
    BY <1>1 DEF Distinct
  <1>7. ToSet(u) = ToSet(s) \ {Head(s)}
    BY <1>1, <1>3, <1>4
  <1> QED BY <1>1, <1>5, <1>6, <1>7 DEF u

-----------------------------------------------------------------------------
(* The counter.                                                            *)

\* The counter has at least one value.
LEMMA Modulus == 2^Width \in Nat \ {0}
  <1>1. Cardinality(Callers) \in Nat /\ Cardinality(Workers) \in Nat
    BY PoolAssumption, FS_CardinalityType
  <1>2. TasksEach * Cardinality(Callers) + Cardinality(Workers) \in Nat
    BY <1>1, PoolAssumption
  <1>3. 2^Width \in Int
    BY PoolAssumption
  <1> QED BY <1>2, <1>3, WidthAssumption

\* Quotient and remainder make up the number.
LEMMA ModParts ==
  ASSUME NEW M \in Nat \ {0}, NEW a \in Nat
  PROVE  /\ a % M \in 0..(M - 1) /\ a \div M \in Nat
         /\ a = M * (a \div M) + (a % M)
  OBVIOUS

\* A number made of a quotient and a remainder has that remainder.
LEMMA ModOf ==
  ASSUME NEW M \in Nat \ {0}, NEW q \in Nat, NEW r \in 0..(M - 1)
  PROVE  (M * q + r) % M = r
  OBVIOUS

\* The remainder, as an operator of its own.
Rem(a, M) == a % M

\* A remainder is its own remainder.
LEMMA RemSelf ==
  ASSUME NEW M \in Nat \ {0}, NEW a \in Nat
  PROVE  /\ Rem(a, M) \in 0..(M - 1) /\ Rem(a, M) \in Nat
         /\ Rem(Rem(a, M), M) = Rem(a, M)
  <1> DEFINE r == a % M
  <1>1. r \in 0..(M - 1)
    BY ModParts
  <1> HIDE DEF r
  <1>2. r \in Nat /\ M * 0 + r = r
    BY <1>1
  <1>3. (M * 0 + r) % M = r
    BY <1>1, ModOf
  <1> QED BY <1>1, <1>2, <1>3 DEF r, Rem

\* Going up by the same amount, or by the modulus, keeps remainders equal.
LEMMA RemShift ==
  ASSUME NEW M \in Nat \ {0}, NEW a \in Nat, NEW b \in Nat, NEW d \in Nat, NEW e \in Nat,
         Rem(a, M) = Rem(b, M), d >= a, e - b = d - a \/ e - b = d - a + M
  PROVE  Rem(d, M) = Rem(e, M)
  <1> DEFINE r  == a % M
             c  == r + (d - a)
             qa == a \div M
             qb == b \div M
             q  == c \div M
             s  == c % M
  <1>1. r \in 0..(M - 1) /\ qa \in Nat /\ qb \in Nat /\ a = M * qa + r /\ b = M * qb + r
    BY ModParts DEF Rem
  <1>2. c \in Nat
    BY <1>1
  <1> HIDE DEF c
  <1>3. q \in Nat /\ s \in 0..(M - 1) /\ c = M * q + s
    BY <1>2, ModParts
  <1>4. c = r + (d - a)
    BY DEF c
  <1> HIDE DEF r, qa, qb, q, s
  <1>5. d = M * (qa + q) + s /\ qa + q \in Nat /\ qb + q \in Nat /\ qb + q + 1 \in Nat
    BY <1>1, <1>3, <1>4
  <1>6. e = M * (qb + q) + s \/ e = M * (qb + q + 1) + s
    BY <1>1, <1>3, <1>4
  <1>7. \A p \in Nat : (M * p + s) % M = s
    BY <1>3, ModOf
  <1> QED BY <1>5, <1>6, <1>7 DEF Rem

\* The balance of the counter a, which leaves out u tasks not counted yet, with n
\* tasks queued and k taken.
Balanced(a, u, n, k, M) == Rem(a + u, M) = Rem(n + k, M)

\* What pushing, counting and uncounting a task do to the balance.
LEMMA Balance ==
  ASSUME NEW M \in Nat \ {0}, NEW a \in Nat, NEW u \in Nat, NEW n \in Nat, NEW k \in Nat,
         Balanced(a, u, n, k, M)
  PROVE  /\ Balanced(a, u + 1, n + 1, k, M)
         /\ u > 0 => Balanced(Rem(a + 1, M), u - 1, n, k, M)
         /\ k > 0 => Balanced(Rem(a + (M - 1), M), u, n, k - 1, M)
  <1> DEFINE x == a + u
             y == n + k
  <1>1. x \in Nat /\ y \in Nat /\ Rem(x, M) = Rem(y, M)
    BY DEF Balanced
  <1>2. Rem(a + (u + 1), M) = Rem((n + 1) + k, M)
    <2> DEFINE d == a + (u + 1)
               e == (n + 1) + k
    <2>1. d \in Nat /\ e \in Nat /\ d >= x /\ e - y = d - x
      OBVIOUS
    <2> HIDE DEF d, e, x, y
    <2>2. Rem(d, M) = Rem(e, M)
      BY <1>1, <2>1, RemShift
    <2> QED BY <2>2 DEF d, e
  <1>3. ASSUME u > 0 PROVE Rem(Rem(a + 1, M) + (u - 1), M) = Rem(n + k, M)
    <2> DEFINE b == a + 1
               r == Rem(b, M)
               d == r + (u - 1)
    <2>1. b \in Nat
      OBVIOUS
    <2> HIDE DEF b
    <2>2. r \in Nat /\ Rem(r, M) = Rem(b, M)
      BY <2>1, RemSelf
    <2> HIDE DEF r
    <2>3. d \in Nat /\ d >= r /\ x - b = d - r
      BY <1>3, <2>1, <2>2 DEF b
    <2> HIDE DEF d, x
    <2>4. Rem(d, M) = Rem(x, M)
      BY <1>1, <2>1, <2>2, <2>3, RemShift
    <2> QED BY <1>1, <2>4 DEF b, r, d
  <1>4. ASSUME k > 0 PROVE Rem(Rem(a + (M - 1), M) + u, M) = Rem(n + (k - 1), M)
    <2> DEFINE b == a + (M - 1)
               r == Rem(b, M)
               d == r + u
               f == b + u
               z == n + (k - 1)
               g == y + (M - 1)
    <2>1. /\ b \in Nat /\ f \in Nat /\ z \in Nat /\ g \in Nat
          /\ f - x = g - y /\ f >= x /\ z >= z /\ g - z = z - z + M
      BY <1>4
    <2> HIDE DEF b
    <2>2. r \in Nat /\ Rem(r, M) = Rem(b, M)
      BY <2>1, RemSelf
    <2> HIDE DEF r
    <2>3. d \in Nat /\ d >= r /\ f - b = d - r
      BY <2>1, <2>2
    <2> HIDE DEF d, f, g, x, y, z
    <2>4. Rem(d, M) = Rem(f, M)
      BY <2>1, <2>2, <2>3, RemShift
    <2>5. Rem(f, M) = Rem(g, M)
      BY <1>1, <2>1, RemShift
    <2>6. Rem(z, M) = Rem(g, M)
      BY <2>1, RemShift
    <2> QED BY <2>4, <2>5, <2>6 DEF b, r, d, z
  <1> QED BY <1>2, <1>3, <1>4 DEF Balanced

\* The counter is a word, and stays one.
LEMMA WordAdd ==
  ASSUME NEW n \in Word, NEW k \in Nat
  PROVE  n \in Nat /\ Add(n, k) \in Word
  <1> DEFINE M == 2^Width
  <1>1. M \in Nat \ {0} /\ n \in 0..(M - 1)
    BY Modulus DEF Word
  <1>2. Add(n, k) = (n + k) % M
    BY DEF Add
  <1> SUFFICES n \in Nat /\ Add(n, k) \in 0..(M - 1)
    BY DEF Word
  <1> HIDE DEF M
  <1>3. n \in Nat /\ n + k \in Nat
    BY <1>1
  <1> QED BY <1>1, <1>2, <1>3, ModParts

\* The tasks that the counter still stands for once they are counted.
Pending == Len(tasks) + Cardinality(lost)

\* There are finitely many tasks, and so finitely many lost ones.
LEMMA TasksFinite ==
  ASSUME TypeOK
  PROVE  /\ IsFiniteSet(Tasks) /\ Cardinality(Tasks) = TasksEach * Cardinality(Callers)
         /\ TasksEach * Cardinality(Callers) \in Nat
         /\ IsFiniteSet(lost) /\ Cardinality(lost) \in Nat
         /\ Len(tasks) \in Nat /\ Pending \in Nat
  <1>1. IsFiniteSet(1..TasksEach) /\ Cardinality(1..TasksEach) = TasksEach
    BY PoolAssumption, FS_Interval
  <1>2. Cardinality(Callers) \in Nat
    BY PoolAssumption, FS_CardinalityType
  <1>3. IsFiniteSet(Tasks) /\ Cardinality(Tasks) = Cardinality(Callers) * TasksEach
    BY <1>1, PoolAssumption, FS_Product DEF Tasks
  <1>4. Cardinality(Callers) * TasksEach = TasksEach * Cardinality(Callers)
    BY <1>2, PoolAssumption
  <1>5. IsFiniteSet(lost) /\ Cardinality(lost) \in Nat
    BY <1>3, FS_Subset, FS_CardinalityType DEF TypeOK
  <1>6. Len(tasks) \in Nat
    BY DEF TypeOK
  <1> QED BY <1>2, <1>3, <1>4, <1>5, <1>6, PoolAssumption DEF Pending

\* The callers that have not counted their task, and the workers that have not
\* uncounted theirs.
Uncounted == {c \in Callers : cpc[c] = "count"}
Untaken == {w \in Workers : wpc[w] = "uncount"}

LEMMA Counts ==
  /\ IsFiniteSet(Uncounted) /\ Cardinality(Uncounted) \in Nat
  /\ IsFiniteSet(Untaken) /\ Cardinality(Untaken) \in Nat
  /\ Uncounted # {} => Cardinality(Uncounted) > 0
  /\ Untaken # {} => Cardinality(Untaken) > 0
  <1>1. IsFiniteSet(Uncounted) /\ IsFiniteSet(Untaken)
    BY PoolAssumption, FS_Subset DEF Uncounted, Untaken
  <1>2. Cardinality(Uncounted) \in Nat /\ Cardinality(Untaken) \in Nat
    BY <1>1, FS_CardinalityType
  <1>3. /\ Cardinality(Uncounted) = 0 => Uncounted = {}
        /\ Cardinality(Untaken) = 0 => Untaken = {}
    BY <1>1, FS_EmptySet
  <1> QED BY <1>1, <1>2, <1>3

\* The counter when c or w starts or stops being in between.
LEMMA MoveCounts ==
  /\ \A c \in Callers : /\ c \notin Uncounted /\ Uncounted' = Uncounted \cup {c} =>
                             Cardinality(Uncounted)' = Cardinality(Uncounted) + 1
                        /\ c \in Uncounted /\ Uncounted' = Uncounted \ {c} =>
                             Cardinality(Uncounted)' = Cardinality(Uncounted) - 1
  /\ \A w \in Workers : /\ w \notin Untaken /\ Untaken' = Untaken \cup {w} =>
                             Cardinality(Untaken)' = Cardinality(Untaken) + 1
                        /\ w \in Untaken /\ Untaken' = Untaken \ {w} =>
                             Cardinality(Untaken)' = Cardinality(Untaken) - 1
  BY Counts, FS_AddElement, FS_RemoveElement

\* CounterExact, in terms of these sets.
LEMMA CounterMeans ==
  LET Exact == Balanced(waiting, Cardinality(Uncounted), Pending,
                        Cardinality(Untaken), 2^Width)
  IN  (CounterExact <=> Exact) /\ (CounterExact' <=> Exact')
  BY DEF CounterExact, Add, Rem, Balanced, Uncounted, Untaken, Pending

-----------------------------------------------------------------------------
(* Type correctness.                                                       *)

\* The callers.
LEMMA TypeCaller ==
  ASSUME TypeOK, NEW c \in Callers, CallerStep(c)
  PROVE  TypeOK'
  <1> USE DEF TypeOK, CallerAt, WorkerAt, queueVars, callerVars, workerVars
  <1>1. CASE PushTask(c)
    <2>1. submitted[c] + 1 \in 1..TasksEach /\ submitted[c] + 1 \in 0..TasksEach
      BY <1>1, PoolAssumption DEF PushTask
    <2>2. <<c, submitted[c] + 1>> \in Tasks
      BY <2>1 DEF Tasks
    <2>3. tasks' \in Seq(Tasks) /\ lag' \in BOOLEAN
      BY <1>1, <2>2 DEF PushTask, Queue!Push
    <2> QED BY <1>1, <2>1, <2>3 DEF PushTask
  <1>2. CASE Count(c)
    <2>1. waiting' \in Word
      BY <1>2, WordAdd DEF Count
    <2> QED BY <1>2, <2>1 DEF Count
  <1>3. CASE TryLock(c) BY <1>3 DEF TryLock
  <1>4. CASE Unlock(c) BY <1>4 DEF Unlock
  <1>5. CASE NotifyOne(c) BY <1>5 DEF NotifyOne
  <1>6. CASE BeginPush(c) BY <1>6 DEF BeginPush
  <1> QED BY <1>1, <1>2, <1>3, <1>4, <1>5, <1>6 DEF CallerStep

\* The workers.
LEMMA TypeWorker ==
  ASSUME TypeOK, NEW w \in Workers, WorkerStep(w) \/ SpuriousWake(w) \/ LoseTask(w)
  PROVE  TypeOK'
  <1> USE DEF TypeOK, WorkerAt, queueVars, callerVars, workerVars
  <1>1. CASE PopTask(w)
    <2>1. PICK t \in Tasks : Queue!PopItem(t) /\ task' = [task EXCEPT ![w] = t]
      BY <1>1 DEF PopTask
    <2>2. tasks' \in Seq(Tasks) /\ lag' \in BOOLEAN
      BY <2>1, HeadTailProperties DEF Queue!PopItem
    <2>3. t # NoTask
      BY TaskShape
    <2> QED BY <1>1, <2>1, <2>2, <2>3 DEF PopTask
  <1>2. CASE PopDummy(w) BY <1>2 DEF PopDummy, Queue!PopMiss
  <1>3. CASE PopNothing(w) BY <1>3 DEF PopNothing
  <1>4. CASE Uncount(w)
    <2>1. waiting' \in Word
      <3>1. 2^Width - 1 \in Nat
        BY Modulus
      <3> QED BY <1>4, <3>1, WordAdd DEF Uncount
    <2> QED BY <1>4, <2>1 DEF Uncount
  <1>5. CASE RunTask(w)
    <2>1. task[w] \in Tasks
      BY <1>5 DEF RunTask
    <2> QED BY <1>5, <2>1 DEF RunTask
  <1>6. CASE Lock(w) BY <1>6 DEF Lock
  <1>7. CASE TestPredicate(w) BY <1>7 DEF TestPredicate
  <1>8. CASE Block(w) BY <1>8 DEF Block
  <1>9. CASE SpuriousWake(w) BY <1>9 DEF SpuriousWake
  <1>10. CASE LoseTask(w)
    <2>1. Head(tasks) \in Tasks /\ Tail(tasks) \in Seq(Tasks)
      BY <1>10, HeadTailProperties DEF LoseTask
    <2> QED BY <1>10, <2>1 DEF LoseTask
  <1> QED BY <1>1, <1>2, <1>3, <1>4, <1>5, <1>6, <1>7, <1>8, <1>9, <1>10 DEF WorkerStep

\* The destructor, or nobody.
LEMMA TypeOther ==
  ASSUME TypeOK, DestructorStep \/ UNCHANGED vars
  PROVE  TypeOK'
  <1> USE DEF TypeOK, queueVars, callerVars, workerVars
  <1>1. CASE Destroy BY <1>1 DEF Destroy
  <1>2. CASE SetDone BY <1>2 DEF SetDone
  <1>3. CASE NotifyAll BY <1>3 DEF NotifyAll
  <1>4. CASE Join BY <1>4 DEF Join
  <1>5. CASE UNCHANGED vars BY <1>5 DEF vars
  <1> QED BY <1>1, <1>2, <1>3, <1>4, <1>5 DEF DestructorStep

-----------------------------------------------------------------------------
(* The mutex and the shutdown.                                             *)

\* The callers take the mutex only if it is free.
LEMMA LockCaller ==
  ASSUME TypeOK, MutexPart, ShutdownPart, NEW c \in Callers, CallerStep(c)
  PROVE  MutexPart' /\ ShutdownPart'
  <1> USE PoolAssumption, NamesAssumption DEF TypeOK, MutexPart, ShutdownPart,
          NobodySleepsOn, Unlocked, CallerAt, WorkerAt, queueVars, callerVars, workerVars
  <1>1. CASE PushTask(c) BY <1>1 DEF PushTask
  <1>2. CASE Count(c) BY <1>2 DEF Count
  <1>3. CASE TryLock(c) BY <1>3 DEF TryLock
  <1>4. CASE Unlock(c) BY <1>4 DEF Unlock
  <1>5. CASE NotifyOne(c) BY <1>5 DEF NotifyOne
  <1>6. CASE BeginPush(c) BY <1>6 DEF BeginPush
  <1> QED BY <1>1, <1>2, <1>3, <1>4, <1>5, <1>6 DEF CallerStep

\* A worker holds the mutex from the test of the predicate until it sleeps.
LEMMA LockWorker ==
  ASSUME TypeOK, MutexPart, ShutdownPart, NEW w \in Workers,
         WorkerStep(w) \/ SpuriousWake(w) \/ LoseTask(w)
  PROVE  MutexPart' /\ ShutdownPart'
  <1> USE PoolAssumption, NamesAssumption DEF TypeOK, MutexPart, ShutdownPart,
          NobodySleepsOn, Unlocked, WorkerAt, queueVars, callerVars, workerVars
  <1>1. CASE PopTask(w) BY <1>1 DEF PopTask
  <1>2. CASE PopDummy(w) BY <1>2 DEF PopDummy
  <1>3. CASE PopNothing(w) BY <1>3 DEF PopNothing
  <1>4. CASE Uncount(w) BY <1>4 DEF Uncount
  <1>5. CASE RunTask(w) BY <1>5 DEF RunTask
  <1>6. CASE Lock(w) BY <1>6 DEF Lock
  <1>7. CASE TestPredicate(w) BY <1>7 DEF TestPredicate
  <1>8. CASE Block(w) BY <1>8 DEF Block
  <1>9. CASE SpuriousWake(w) BY <1>9 DEF SpuriousWake
  <1>10. CASE LoseTask(w) BY <1>10 DEF LoseTask
  <1> QED BY <1>1, <1>2, <1>3, <1>4, <1>5, <1>6, <1>7, <1>8, <1>9, <1>10 DEF WorkerStep

\* The destructor sets blocking_done_ while nobody else has the mutex.
LEMMA LockOther ==
  ASSUME TypeOK, MutexPart, ShutdownPart, DestructorStep \/ UNCHANGED vars
  PROVE  MutexPart' /\ ShutdownPart'
  <1> USE PoolAssumption, NamesAssumption DEF TypeOK, MutexPart, ShutdownPart,
          NobodySleepsOn, Unlocked, queueVars, callerVars, workerVars
  <1>1. CASE Destroy BY <1>1 DEF Destroy
  <1>2. CASE SetDone BY <1>2 DEF SetDone
  <1>3. CASE NotifyAll BY <1>3 DEF NotifyAll
  <1>4. CASE Join BY <1>4 DEF Join
  <1>5. CASE UNCHANGED vars BY <1>5 DEF vars
  <1> QED BY <1>1, <1>2, <1>3, <1>4, <1>5 DEF DestructorStep

-----------------------------------------------------------------------------
(* The counter, action by action.                                          *)

\* A step of a caller: pushing adds to both sides, counting to neither.
LEMMA CounterCaller ==
  ASSUME TypeOK, CounterExact, NEW c \in Callers, CallerStep(c)
  PROVE  CounterExact'
  <1> DEFINE M == 2^Width
             u == Cardinality(Uncounted)
             k == Cardinality(Untaken)
             n == Pending
  <1>1. M \in Nat \ {0} /\ u \in Nat /\ k \in Nat /\ n \in Nat /\ waiting \in Nat
    BY Modulus, Counts, WordAdd, TasksFinite DEF TypeOK
  <1>2. Balanced(waiting, u, n, k, M)
    BY CounterMeans
  <1>3. /\ CounterExact' <=> Balanced(waiting', u', n', k', M)
        /\ Add(waiting, 1) = Rem(waiting + 1, M)
    BY CounterMeans DEF Add, Rem
  <1>b. /\ Balanced(waiting, u + 1, n + 1, k, M)
        /\ u > 0 => Balanced(Rem(waiting + 1, M), u - 1, n, k, M)
    <2> HIDE DEF M, u, k, n
    <2> QED BY <1>1, <1>2, Balance
  <1>4. CASE PushTask(c)
    <2>1. n' = n + 1 /\ waiting' = waiting
      BY <1>4, TasksFinite, TaskShape DEF PushTask, Queue!Push, TypeOK, Pending
    <2>2. c \notin Uncounted /\ Uncounted' = Uncounted \cup {c} /\ Untaken' = Untaken
      BY <1>4 DEF PushTask, CallerAt, Uncounted, Untaken, TypeOK, workerVars
    <2>3. u' = u + 1 /\ k' = k
      BY <2>2, MoveCounts
    <2> QED BY <1>3, <1>b, <2>1, <2>3
  <1>5. CASE Count(c)
    <2>1. n' = n /\ waiting' = Rem(waiting + 1, M)
      BY <1>3, <1>5 DEF Count, queueVars, Pending
    <2>2. c \in Uncounted /\ Uncounted' = Uncounted \ {c} /\ Untaken' = Untaken
      BY <1>5 DEF Count, CallerAt, Uncounted, Untaken, TypeOK, workerVars
    <2>3. u > 0 /\ u' = u - 1 /\ k' = k
      BY <2>2, MoveCounts, Counts
    <2> QED BY <1>3, <1>b, <2>1, <2>3
  <1>6. CASE BeginPush(c) \/ TryLock(c) \/ Unlock(c) \/ NotifyOne(c)
    <2>1. /\ waiting' = waiting /\ n' = n
          /\ Uncounted' = Uncounted /\ Untaken' = Untaken
      BY <1>6 DEF Pending, BeginPush, TryLock, Unlock, NotifyOne, CallerAt, WorkerAt, Uncounted, Untaken,
         TypeOK, queueVars, workerVars
    <2> QED BY <1>2, <1>3, <2>1
  <1> QED BY <1>4, <1>5, <1>6 DEF CallerStep

\* A step of a worker: taking a task or losing it adds to neither, uncounting it
\* lowers both, even if the counter wraps.
LEMMA CounterWorker ==
  ASSUME TypeOK, CounterExact, PlacePart, NEW w \in Workers,
         WorkerStep(w) \/ SpuriousWake(w) \/ LoseTask(w)
  PROVE  CounterExact'
  <1> DEFINE M == 2^Width
             u == Cardinality(Uncounted)
             k == Cardinality(Untaken)
             n == Pending
  <1>1. M \in Nat \ {0} /\ u \in Nat /\ k \in Nat /\ n \in Nat /\ waiting \in Nat
    BY Modulus, Counts, WordAdd, TasksFinite DEF TypeOK
  <1>2. Balanced(waiting, u, n, k, M)
    BY CounterMeans
  <1>3. /\ CounterExact' <=> Balanced(waiting', u', n', k', M)
        /\ Add(waiting, M - 1) = Rem(waiting + (M - 1), M)
    BY CounterMeans DEF Add, Rem
  <1>b. k > 0 => Balanced(Rem(waiting + (M - 1), M), u, n, k - 1, M)
    <2> HIDE DEF M, u, k, n
    <2> QED BY <1>1, <1>2, Balance
  <1>4. CASE PopTask(w)
    <2>1. n' = n - 1 /\ waiting' = waiting
      BY <1>4, TasksFinite, HeadTailProperties, EmptySeq DEF PopTask, Queue!PopItem,
         TypeOK, Pending
    <2>2. w \notin Untaken /\ Untaken' = Untaken \cup {w} /\ Uncounted' = Uncounted
      BY <1>4 DEF PopTask, WorkerAt, Uncounted, Untaken, TypeOK, callerVars
    <2>3. k' = k + 1 /\ u' = u
      BY <2>2, MoveCounts
    <2>4. n' + k' = n + k
      BY <1>1, <2>1, <2>3
    <2> QED BY <1>2, <1>3, <2>1, <2>3, <2>4 DEF Balanced
  <1>5. CASE Uncount(w)
    <2>1. n' = n /\ waiting' = Rem(waiting + (M - 1), M)
      BY <1>3, <1>5 DEF Uncount, queueVars, Pending
    <2>2. w \in Untaken /\ Untaken' = Untaken \ {w} /\ Uncounted' = Uncounted
      BY <1>5 DEF Uncount, WorkerAt, Uncounted, Untaken, TypeOK, callerVars
    <2>3. k > 0 /\ k' = k - 1 /\ u' = u
      BY <2>2, MoveCounts, Counts
    <2> QED BY <1>3, <1>b, <2>1, <2>3
  <1>6. CASE \/ PopDummy(w) \/ PopNothing(w) \/ RunTask(w) \/ Lock(w)
             \/ TestPredicate(w) \/ Block(w) \/ SpuriousWake(w)
    <2>1. /\ waiting' = waiting /\ n' = n
          /\ Uncounted' = Uncounted /\ Untaken' = Untaken
      BY <1>6 DEF Pending, PopDummy, Queue!PopMiss, PopNothing, RunTask, Lock, TestPredicate,
         Block, SpuriousWake, WorkerAt, Uncounted, Untaken, TypeOK, queueVars, callerVars
    <2> QED BY <1>2, <1>3, <2>1
  <1>7. CASE LoseTask(w)
    <2>1. /\ Head(tasks) \in ToSet(tasks) /\ Head(tasks) \in Tasks
          /\ Len(Tail(tasks)) = Len(tasks) - 1
      BY <1>7, Popped DEF LoseTask, TypeOK, PlacePart
    <2>2. Head(tasks) \notin lost
      BY <2>1 DEF PlacePart, Queued
    <2>3. Cardinality(lost') = Cardinality(lost) + 1
      BY <1>7, <2>2, TasksFinite, FS_AddElement DEF LoseTask
    <2>4. n' = n
      BY <1>7, <2>1, <2>3, TasksFinite DEF LoseTask, Pending
    <2>5. waiting' = waiting /\ Uncounted' = Uncounted /\ Untaken' = Untaken
      BY <1>7 DEF LoseTask, Uncounted, Untaken, callerVars, workerVars
    <2> QED BY <1>2, <1>3, <2>4, <2>5
  <1> QED BY <1>4, <1>5, <1>6, <1>7 DEF WorkerStep

\* The destructor counts nothing.
LEMMA CounterOther ==
  ASSUME TypeOK, CounterExact, DestructorStep \/ UNCHANGED vars
  PROVE  CounterExact'
  <1>1. /\ waiting' = waiting /\ Pending' = Pending
        /\ Uncounted' = Uncounted /\ Untaken' = Untaken
    BY DEF Pending, DestructorStep, Destroy, SetDone, NotifyAll, Join, Uncounted, Untaken, TypeOK,
       vars, queueVars, callerVars, workerVars
  <1> QED BY <1>1, CounterMeans

-----------------------------------------------------------------------------
(* Where the tasks are.                                                    *)

\* A caller's next task is new.
LEMMA PlaceCaller ==
  ASSUME TypeOK, PlacePart, NEW c \in Callers, CallerStep(c)
  PROVE  PlacePart'
  <1>1. CASE PushTask(c)
    <2> DEFINE t == <<c, submitted[c] + 1>>
    <2>1. submitted[c] \in Nat /\ submitted[c] + 1 \in 1..TasksEach
      BY <1>1, PoolAssumption DEF PushTask, TypeOK
    <2>2. t \in Tasks /\ ~Submitted(t)
      BY <2>1 DEF Tasks, Submitted
    <2>3. t \notin ToSet(tasks) /\ ~Taken(t) /\ t \notin ran \cup lost
      BY <2>2 DEF PlacePart, Queued
    <2>4. ASSUME NEW x \in Tasks PROVE Submitted(x)' <=> Submitted(x) \/ x = t
      <3>1. x[1] \in Callers /\ x[2] \in 1..TasksEach /\ x = <<x[1], x[2]>>
        BY TaskShape
      <3>2. submitted' = [submitted EXCEPT ![c] = @ + 1]
        BY <1>1 DEF PushTask
      <3>3. CASE x[1] = c
        BY <2>1, <3>1, <3>2, <3>3, PoolAssumption DEF Submitted, TypeOK
      <3>4. CASE x[1] # c
        BY <3>1, <3>2, <3>4 DEF Submitted, TypeOK
      <3> QED BY <3>3, <3>4
    <2>5. tasks' = Append(tasks, t) /\ task' = task /\ ran' = ran /\ lost' = lost
      BY <1>1 DEF PushTask, Queue!Push, workerVars
    <2> HIDE DEF t
    <2>6. ToSet(tasks') = ToSet(tasks) \cup {t} /\ Distinct(tasks')
      BY <2>2, <2>3, <2>5, Pushed DEF PlacePart, TypeOK
    <2>7. \A x \in Tasks : /\ Queued(x)' <=> Queued(x) \/ x = t
                           /\ Taken(x)' <=> Taken(x)
      BY <2>5, <2>6 DEF Queued, Taken
    <2> QED BY <2>2, <2>3, <2>4, <2>5, <2>6, <2>7 DEF PlacePart, Queued
  <1>2. CASE BeginPush(c) \/ Count(c) \/ TryLock(c) \/ Unlock(c) \/ NotifyOne(c)
    <2>1. UNCHANGED <<tasks, lost, task, ran, submitted>>
      BY <1>2 DEF BeginPush, Count, TryLock, Unlock, NotifyOne, queueVars, workerVars
    <2> QED BY <2>1 DEF PlacePart, Queued, Taken, Submitted
  <1> QED BY <1>1, <1>2 DEF CallerStep

\* A worker moves a task from the queue to its hands, and from there to ran.
LEMMA PlaceWorker ==
  ASSUME TypeOK, PlacePart, NEW w \in Workers, WorkerStep(w) \/ SpuriousWake(w) \/ LoseTask(w)
  PROVE  PlacePart'
  <1>1. CASE PopTask(w)
    <2>1. PICK t \in Tasks : Queue!PopItem(t) /\ task' = [task EXCEPT ![w] = t]
      BY <1>1 DEF PopTask
    <2>2. /\ t \in ToSet(tasks) /\ ToSet(tasks') = ToSet(tasks) \ {t}
          /\ Distinct(tasks')
      BY <2>1, Popped DEF Queue!PopItem, PlacePart, TypeOK
    <2>3. /\ task[w] = NoTask /\ t # NoTask /\ task'[w] = t
          /\ \A v \in Workers : v # w => task'[v] = task[v]
          /\ UNCHANGED <<ran, lost, submitted>>
      BY <1>1, <2>1, TaskShape DEF PopTask, TypeOK, callerVars
    <2>4. \A x \in Tasks : Taken(x)' <=> Taken(x) \/ x = t
      BY <2>3, TaskShape DEF Taken
    <2>5. \A x \in Tasks : Queued(x)' <=> Queued(x) /\ x # t
      BY <2>2 DEF Queued
    <2>6. Queued(t) /\ ~Taken(t) /\ t \notin ran \cup lost
      BY <2>2 DEF PlacePart, Queued
    <2>7. \A u, v \in Workers : task'[u] = task'[v] => u = v \/ task'[u] = NoTask
      BY <2>3, <2>6 DEF PlacePart, Taken
    <2>8. \A x \in Tasks : Submitted(x)' <=> Submitted(x)
      BY <2>3 DEF Submitted
    <2> QED BY <2>2, <2>3, <2>4, <2>5, <2>6, <2>7, <2>8 DEF PlacePart
  <1>2. CASE RunTask(w)
    <2>1. /\ task[w] \in Tasks /\ task'[w] = NoTask /\ ran' = ran \cup {task[w]}
          /\ \A v \in Workers : v # w => task'[v] = task[v]
          /\ UNCHANGED <<tasks, lost, submitted>>
      BY <1>2 DEF RunTask, TypeOK, queueVars, callerVars
    <2>2. \A v \in Workers : v # w => task[v] # task[w]
      BY <2>1, TaskShape DEF PlacePart
    <2>3. \A x \in Tasks : Taken(x)' <=> Taken(x) /\ x # task[w]
      BY <2>1, <2>2, TaskShape DEF Taken
    <2>4. Taken(task[w])
      BY DEF Taken
    <2>5. \A u, v \in Workers : task'[u] = task'[v] => u = v \/ task'[u] = NoTask
      BY <2>1 DEF PlacePart
    <2>6. \A x \in Tasks : (Submitted(x)' <=> Submitted(x)) /\ (Queued(x)' <=> Queued(x))
      BY <2>1 DEF Submitted, Queued
    <2> QED BY <2>1, <2>3, <2>4, <2>5, <2>6 DEF PlacePart
  <1>3. CASE \/ PopDummy(w) \/ PopNothing(w) \/ Uncount(w) \/ Lock(w)
             \/ TestPredicate(w) \/ Block(w) \/ SpuriousWake(w)
    <2>1. UNCHANGED <<tasks, lost, task, ran, submitted>>
      BY <1>3 DEF PopDummy, Queue!PopMiss, PopNothing, Uncount, Lock, TestPredicate,
         Block, SpuriousWake, queueVars, callerVars
    <2> QED BY <2>1 DEF PlacePart, Queued, Taken, Submitted
  <1>4. CASE LoseTask(w)
    <2> DEFINE t == Head(tasks)
    <2>1. /\ t \in Tasks /\ t \in ToSet(tasks) /\ Distinct(tasks')
          /\ ToSet(tasks') = ToSet(tasks) \ {t}
      BY <1>4, Popped DEF LoseTask, PlacePart, TypeOK
    <2>2. lost' = lost \cup {t} /\ UNCHANGED <<task, ran, submitted>>
      BY <1>4 DEF LoseTask, callerVars, workerVars
    <2> HIDE DEF t
    <2>3. \A x \in Tasks : /\ Queued(x)' <=> Queued(x) /\ x # t
                           /\ Taken(x)' <=> Taken(x)
                           /\ Submitted(x)' <=> Submitted(x)
      BY <2>1, <2>2 DEF Queued, Taken, Submitted
    <2>4. Queued(t)
      BY <2>1 DEF Queued
    <2> QED BY <2>1, <2>2, <2>3, <2>4 DEF PlacePart
  <1> QED BY <1>1, <1>2, <1>3, <1>4 DEF WorkerStep

\* The destructor touches no task.
LEMMA PlaceOther ==
  ASSUME PlacePart, DestructorStep \/ UNCHANGED vars
  PROVE  PlacePart'
  <1>1. UNCHANGED <<tasks, lost, task, ran, submitted>>
    BY DEF DestructorStep, Destroy, SetDone, NotifyAll, Join, vars, queueVars,
       callerVars, workerVars
  <1> QED BY <1>1 DEF PlacePart, Queued, Taken, Submitted

-----------------------------------------------------------------------------
(* No task is slept over.                                                  *)

\* The queue never holds, with what it lost, more than there are tasks.
LEMMA QueueBound ==
  ASSUME TypeOK, PlacePart
  PROVE  Pending <= TasksEach * Cardinality(Callers)
  <1> DEFINE Places == 1..Len(tasks)
             Found  == Tasks \ lost
  <1>1. Len(tasks) \in Nat /\ tasks \in [Places -> Tasks] /\ DOMAIN tasks = Places
    BY DEF TypeOK
  <1>2. IsFiniteSet(Places) /\ Cardinality(Places) = Len(tasks)
    BY <1>1, FS_Interval
  <1>3. /\ IsFiniteSet(Found) /\ Cardinality(Found) \in Nat
        /\ Cardinality(Found) = Cardinality(Tasks) - Cardinality(lost)
    <2>1. IsFiniteSet(Tasks \ lost)
          /\ Cardinality(Tasks \ lost) = Cardinality(Tasks) - Cardinality(Tasks \cap lost)
      BY TasksFinite, FS_Difference
    <2>2. Tasks \cap lost = lost
      BY DEF TypeOK
    <2> QED BY <2>1, <2>2, FS_CardinalityType
  <1>4. tasks \in [Places -> Found]
    <2>1. \A i \in Places : tasks[i] \in ToSet(tasks) /\ tasks[i] \in Tasks
      BY <1>1 DEF ToSet
    <2>2. \A i \in Places : tasks[i] \notin lost
      BY <2>1 DEF PlacePart, Queued
    <2> QED BY <1>1, <2>1, <2>2
  <1>5. ~(Cardinality(Found) < Cardinality(Places))
    <2> SUFFICES ASSUME Cardinality(Found) < Cardinality(Places) PROVE FALSE
      OBVIOUS
    <2> HIDE DEF Found
    <2>1. \E i, j \in Places : i # j /\ tasks[i] = tasks[j]
      BY <1>2, <1>3, <1>4, FS_PigeonHole
    <2> QED BY <2>1 DEF PlacePart, Distinct
  <1> HIDE DEF Places, Found
  <1> QED BY <1>1, <1>2, <1>3, <1>5, TasksFinite DEF Pending

\* A worker that finds the counter zero though a task is queued has overtaken the
\* caller that will count it: the counter has room for all there are.
LEMMA ZeroMeansUncounted ==
  ASSUME TypeOK, PlacePart, CounterExact, waiting = 0, tasks # <<>>
  PROVE  \E c \in Callers : cpc[c] = "count"
  <1> DEFINE n == Pending
             k == Cardinality(Untaken)
             u == Cardinality(Uncounted)
             M == 2^Width
  <1>1. n \in Nat /\ n > 0 /\ k \in Nat /\ u \in Nat
    <2>1. Len(tasks) > 0
      BY EmptySeq, TasksFinite DEF TypeOK
    <2> QED BY <2>1, TasksFinite, Counts DEF Pending
  <1>2. M \in Nat \ {0} /\ n + k < M
    <2>1. k <= Cardinality(Workers) /\ Cardinality(Workers) \in Nat
      BY PoolAssumption, FS_Subset, FS_CardinalityType DEF Untaken
    <2>2. TasksEach * Cardinality(Callers) \in Nat
      BY TasksFinite
    <2> HIDE DEF n, k
    <2> QED BY <1>1, <2>1, <2>2, QueueBound, Modulus, WidthAssumption DEF n
  <1>3. Balanced(0, u, n, k, M)
    BY CounterMeans
  <1> SUFFICES ASSUME Uncounted = {} PROVE FALSE
    BY DEF Uncounted
  <1>4. u = 0
    BY FS_EmptySet
  <1> HIDE DEF n, k, u, M
  <1>5. 0 % M = 0 /\ (n + k) % M = n + k
    <2>1. /\ M * 0 + 0 = 0 /\ M * 0 + (n + k) = n + k
          /\ n + k \in 0..(M - 1) /\ 0 \in 0..(M - 1)
      BY <1>1, <1>2
    <2> QED BY <1>2, <2>1, ModOf
  <1>6. 0 % M = (n + k) % M
    BY <1>3, <1>4 DEF Balanced, Rem
  <1> QED BY <1>1, <1>5, <1>6

\* A caller: try_lock succeeds when nobody is about to sleep, and when it fails
\* one worker is, at most.
LEMMA ComesCaller ==
  ASSUME TypeOK, MutexPart, StartedPart, WorkerComes, NEW c \in Callers, CallerStep(c)
  PROVE  StartedPart' /\ WorkerComes'
  <1>0. Started' = Started /\ UNCHANGED done /\ (Awake => Awake')
    BY DEF CallerStep, BeginPush, PushTask, Count, TryLock, Unlock, NotifyOne, WorkerAt, workerVars,
           TypeOK, Started, Awake
  <1>1. StartedPart'
    BY <1>0 DEF CallerStep, BeginPush, PushTask, Count, TryLock, Unlock, NotifyOne, WorkerAt,
           workerVars, TypeOK, StartedPart
  <1> USE DEF TypeOK, CallerAt, WorkerAt, queueVars, callerVars, workerVars
  <1>2. CASE PushTask(c) BY <1>1, <1>2 DEF PushTask, WorkerComes
  <1>3. CASE Count(c) BY <1>0, <1>1, <1>3 DEF Count, WorkerComes
  <1>4. CASE TryLock(c)
    <2>1. /\ UNCHANGED <<tasks, done, wpc>> /\ contended' = (mut # Unlocked)
          /\ cpc'[c] \in {"unlock", "notify"}
      BY <1>4 DEF TryLock
    <2>2. CASE Awake \/ done
      BY <1>0, <1>1, <2>1, <2>2 DEF WorkerComes
    <2>3. CASE ~Awake /\ ~done
      <3>1. \A w \in Started : wpc[w] \in {"block", "asleep"}
        BY <2>3 DEF Started, Awake, StartedPart
      <3>2. CASE \E w \in Workers : wpc[w] = "asleep"
        BY <1>1, <2>1, <3>2 DEF WorkerComes
      <3>3. CASE \A w \in Workers : wpc[w] # "asleep"
        <4>1. \A w \in Started : w \in Workers /\ wpc[w] = "block" /\ mut = w
          BY <3>1, <3>3 DEF Started, MutexPart
        <4>2. PICK w \in Started : TRUE
          BY DEF StartedPart
        <4>3. Started = {w} /\ mut # Unlocked
          BY <4>1, <4>2, NamesAssumption DEF Unlocked
        <4>4. Cardinality(Started) = 1
          BY <4>3, FS_Singleton
        <4> QED BY <1>0, <1>1, <2>1, <4>3, <4>4 DEF WorkerComes
      <3> QED BY <3>2, <3>3
    <2> QED BY <2>2, <2>3
  <1>5. CASE Unlock(c) BY <1>0, <1>1, <1>5 DEF Unlock, WorkerComes
  <1>6. CASE NotifyOne(c)
    <2>1. CASE \E w \in Workers : wpc[w] = "asleep"
      <3>1. Awake'
        BY <1>6, <2>1 DEF NotifyOne, Awake
      <3> QED BY <3>1, <1>1 DEF WorkerComes
    <2>2. CASE \A w \in Workers : wpc[w] # "asleep"
      BY <1>0, <1>1, <1>6, <2>2 DEF NotifyOne, WorkerComes
    <2> QED BY <2>1, <2>2
  <1>7. CASE BeginPush(c) BY <1>0, <1>1, <1>7 DEF BeginPush, WorkerComes
  <1> QED BY <1>1, <1>2, <1>3, <1>4, <1>5, <1>6, <1>7 DEF CallerStep

\* A worker goes to sleep only when it saw the counter zero.
LEMMA ComesWorker ==
  ASSUME TypeOK, PlacePart, CounterExact, StartedPart, WorkerComes, NEW w \in Workers,
         WorkerStep(w) \/ SpuriousWake(w) \/ LoseTask(w)
  PROVE  StartedPart' /\ WorkerComes'
  <1> USE DEF TypeOK, WorkerAt, queueVars, callerVars, workerVars
  <1>0. Started' = Started
    BY DEF WorkerStep, PopTask, PopDummy, PopNothing, Uncount, RunTask, Lock,
           TestPredicate, Block, SpuriousWake, LoseTask, Started
  <1>1. StartedPart'
    BY <1>0 DEF WorkerStep, PopTask, PopDummy, PopNothing, Uncount, RunTask, Lock,
           TestPredicate, Block, SpuriousWake, LoseTask, StartedPart
  <1>2. UNCHANGED <<done, cpc, contended>>
    BY DEF WorkerStep, PopTask, PopDummy, PopNothing, Uncount, RunTask, Lock,
           TestPredicate, Block, SpuriousWake, LoseTask
  <1>3. CASE wpc'[w] \in {"pop", "uncount", "run", "lock", "test"}
    BY <1>1, <1>3 DEF WorkerComes, Awake
  <1>4. CASE TestPredicate(w)
    <2>1. CASE done \/ waiting > 0
      BY <1>1, <1>3, <1>4, <2>1 DEF TestPredicate, WorkerComes
    <2>2. CASE ~done /\ ~(waiting > 0)
      <3>1. waiting = 0
        BY <2>2, Modulus DEF Word
      <3>2. tasks # <<>> => \E c \in Callers : cpc[c] = "count"
        BY <3>1, ZeroMeansUncounted
      <3> QED BY <1>1, <1>2, <1>4, <3>2 DEF TestPredicate, WorkerComes
    <2> QED BY <2>1, <2>2
  <1>5. CASE Block(w)
    <2>1. /\ UNCHANGED <<tasks, done, cpc, contended>> /\ (Awake => Awake')
          /\ \A v \in Workers : wpc[v] = "asleep" => wpc'[v] = "asleep"
      BY <1>5 DEF Block, Awake
    <2> QED BY <1>0, <1>1, <2>1 DEF WorkerComes
  <1> QED BY <1>3, <1>4, <1>5 DEF WorkerStep, PopTask, PopDummy, PopNothing, Uncount,
             RunTask, Lock, SpuriousWake, LoseTask

\* The destructor only wakes workers up.
LEMMA ComesOther ==
  ASSUME TypeOK, ShutdownPart, StartedPart, WorkerComes, DestructorStep \/ UNCHANGED vars
  PROVE  StartedPart' /\ WorkerComes'
  <1> USE DEF TypeOK, StartedPart, WorkerComes, ShutdownPart, Awake, Started, queueVars,
          callerVars, workerVars
  <1>1. CASE Destroy BY <1>1 DEF Destroy
  <1>2. CASE SetDone BY <1>2 DEF SetDone
  <1>3. CASE NotifyAll BY <1>3 DEF NotifyAll
  <1>4. CASE Join BY <1>4 DEF Join
  <1>5. CASE UNCHANGED vars BY <1>5 DEF vars
  <1> QED BY <1>1, <1>2, <1>3, <1>4, <1>5 DEF DestructorStep

-----------------------------------------------------------------------------
(* The inductive invariant and what follows from it.                       *)

\* Nothing was submitted, and the workers have just been started.
LEMMA InvInit == Init => IInv
  <1> SUFFICES ASSUME Init PROVE IInv
    OBVIOUS
  <1>1. /\ tasks = <<>> /\ lag = FALSE /\ waiting = 0 /\ ToSet(tasks) = {}
        /\ lost = {} /\ Pending = 0
    BY FS_EmptySet DEF Init, Queue!Init, ToSet, Pending
  <1>2. TypeOK
    <2>1. 0 \in Word /\ 0 \in 0..TasksEach
      BY Modulus, PoolAssumption DEF Word
    <2>2. submitted \in [Callers -> 0..TasksEach]
      BY <2>1 DEF Init
    <2>3. tasks \in Seq(Tasks)
      BY <1>1, EmptySeq
    <2>4. /\ wpc \in [Workers -> {"pop", "absent"}]
          /\ task \in [Workers -> Tasks \cup {NoTask}]
          /\ \A w \in Workers : task[w] = NoTask
      BY DEF Init
    <2> QED BY <1>1, <2>1, <2>2, <2>3, <2>4 DEF Init, TypeOK
  <1>3. CounterExact
    <2>1. Uncounted = {} /\ Untaken = {}
      BY DEF Init, Uncounted, Untaken
    <2>2. Balanced(waiting, Cardinality(Uncounted), Pending,
                   Cardinality(Untaken), 2^Width)
      BY <1>1, <2>1 DEF Balanced
    <2> QED BY <2>2, CounterMeans
  <1>4. PlacePart
    <2>1. Distinct(tasks) /\ \A w \in Workers : task[w] = NoTask
      BY <1>1 DEF Init, Distinct
    <2>2. ASSUME NEW t \in Tasks
          PROVE  ~Submitted(t) /\ ~Queued(t) /\ ~Taken(t) /\ t \notin ran \cup lost
      <3>1. t # NoTask /\ t[1] \in Callers /\ t[2] \in 1..TasksEach
        BY TaskShape
      <3> QED BY <1>1, <2>1, <3>1, PoolAssumption DEF Init, Submitted, Queued, Taken
    <2> QED BY <2>1, <2>2 DEF PlacePart
  <1>5. MutexPart /\ ShutdownPart
    BY DEF Init, MutexPart, ShutdownPart, NobodySleepsOn
  <1>6. StartedPart /\ WorkerComes
    BY <1>1 DEF Init, StartedPart, WorkerComes
  <1> QED BY <1>2, <1>3, <1>4, <1>5, <1>6 DEF IInv

\* Every step of a caller, a worker or the destructor keeps it.
LEMMA InvStep == IInv /\ [Next]_vars => IInv'
  <1> SUFFICES ASSUME IInv, [Next]_vars PROVE IInv'
    OBVIOUS
  <1> USE DEF IInv
  <1>1. CASE \E c \in Callers : CallerStep(c)
    BY <1>1, TypeCaller, CounterCaller, PlaceCaller, LockCaller, ComesCaller
  <1>2. CASE \E w \in Workers : WorkerStep(w) \/ SpuriousWake(w) \/ LoseTask(w)
    BY <1>2, TypeWorker, CounterWorker, PlaceWorker, LockWorker, ComesWorker
  <1>3. CASE DestructorStep \/ UNCHANGED vars
    BY <1>3, TypeOther, CounterOther, PlaceOther, LockOther, ComesOther
  <1> QED BY <1>1, <1>2, <1>3 DEF Next

\* The invariant holds always.
LEMMA Inductive == Spec => []IInv
  BY InvInit, InvStep, PTL DEF Spec

\* The pool's state is well formed: the counter is a word of its width, and a
\* worker has a task in hand exactly between pop and the end of the task.
THEOREM TypeCorrect == Spec => []TypeOK
  <1>1. IInv => TypeOK
    BY DEF IInv
  <1> QED BY <1>1, Inductive, PTL

\* blocking_waiting_ is exact modulo its width, for any number of callers and
\* workers in between, although a worker that overtakes a caller makes it wrap.
THEOREM CounterIsExact == Spec => []CounterExact
  <1>1. IInv => CounterExact
    BY DEF IInv
  <1> QED BY <1>1, Inductive, PTL

\* No worker sleeps through ~executor: blocking_done_ is set under the mutex
\* that a worker holds from its test until it sleeps, so that notify_all reaches
\* all who sleep and nobody goes to sleep afterwards.
THEOREM ShutdownIsSeen == Spec => []NobodySleepsOn
  <1>1. IInv => NobodySleepsOn
    BY DEF IInv, ShutdownPart
  <1> QED BY <1>1, Inductive, PTL

\* No lost notification, for any number of callers and workers: run_blocking
\* counts the task before it notifies, and a worker about to sleep has the mutex,
\* so that a task in the queue is slept over only where QueuedRunsUnlessAlone
\* excepts it, with a single worker after a failed try_lock.
THEOREM NoTaskIsSleptOver == Spec => []WorkerComes
  <1>1. IInv => WorkerComes
    BY DEF IInv
  <1> QED BY <1>1, Inductive, PTL

=============================================================================
