---------------------------- MODULE BlockingPool ----------------------------
(***************************************************************************)
(* The blocking half of crasy::executor (src/executor.cpp): run_blocking   *)
(* puts a task on blocking_tasks_, counts it in blocking_waiting_ and      *)
(* notifies; the threads in blocking_work take tasks, run them, and sleep  *)
(* on blocking_cv_ when pop returns nothing and the counter is zero; the   *)
(* first half of ~executor stops and joins them.                           *)
(*                                                                         *)
(* With one caller and one worker the queue is the LagQueue that LfQueue   *)
(* implements.  With more, a pop that overlaps another worker's pop, or a  *)
(* push that stands before its link, may return nothing (PopNothing), and  *)
(* the reuse of entries can lose tasks (LoseTask), of which LfQueue has    *)
(* the details.  That a corrupted queue may also hand out a task twice is  *)
(* undefined behaviour and not followed: `lost` tells that it came to it.  *)
(***************************************************************************)
EXTENDS Naturals, FiniteSets, Sequences, SequencesExt

CONSTANTS Callers,     \* threads that call run_blocking
          Workers,     \* bound: threads the constructor may be asked for
          TasksEach,   \* bound: tasks submitted by each caller
          Width,       \* bits of the counter
          CanDestroy   \* whether the executor is destroyed

ASSUME PoolAssumption == /\ Workers # {} /\ IsFiniteSet(Workers)
                         /\ IsFiniteSet(Callers) /\ Callers \cap Workers = {}
                         /\ TasksEach \in Nat /\ Width \in Nat \ {0}
                         /\ CanDestroy \in BOOLEAN

\* Threads have names of their own.
ASSUME NamesAssumption == {"unlocked", "destructor"} \cap (Callers \cup Workers) = {}

\* A size_t counter never meets as many tasks as it has values.
ASSUME WidthAssumption ==
  TasksEach * Cardinality(Callers) + Cardinality(Workers) < 2^Width

Tasks == Callers \X (1..TasksEach)
NoTask == <<>>
Word == 0..(2^Width - 1)
Add(n, k) == (n + k) % 2^Width
Unlocked == "unlocked"

VARIABLES
  tasks, lag,    \* blocking_tasks_
  lost,          \* history: tasks that no pop will find
  waiting,       \* blocking_waiting_
  mut,           \* blocking_mut_: the thread that holds it, or Unlocked
  done,          \* blocking_done_
  cpc,           \* cpc[c]: where caller c is in run_blocking
  submitted,     \* submitted[c]: tasks pushed by c
  wpc,           \* wpc[w]: where worker w is in blocking_work
  task,          \* task[w]: its local `task`
  dpc,           \* where ~executor is
  ran,           \* history: the tasks whose function was called
  contended      \* history: the latest try_lock of run_blocking failed

queueVars == <<tasks, lag, lost>>
callerVars == <<cpc, submitted>>
workerVars == <<wpc, task, ran>>
vars == <<queueVars, waiting, mut, done, callerVars, workerVars, dpc, contended>>

Queue == INSTANCE LagQueue WITH Items <- Tasks, q <- tasks

Started == {w \in Workers : wpc[w] # "absent"}

\* The constructor starts as many workers as it is told, one at least.
Init == /\ Queue!Init /\ lost = {}
        /\ waiting = 0
        /\ mut = Unlocked
        /\ done = FALSE
        /\ cpc = [c \in Callers |-> "idle"]
        /\ submitted = [c \in Callers |-> 0]
        /\ wpc \in [Workers -> {"pop", "absent"}] /\ Started # {}
        /\ task = [w \in Workers |-> NoTask]
        /\ dpc = "idle"
        /\ ran = {}
        /\ contended = FALSE

CallerAt(c, l) == cpc' = [cpc EXCEPT ![c] = l]
WorkerAt(w, l) == wpc' = [wpc EXCEPT ![w] = l]

-----------------------------------------------------------------------------
(* run_blocking.                                                           *)

\* blocking_tasks_.push, up to the exchange of head_.
BeginPush(c) == /\ cpc[c] = "idle" /\ submitted[c] < TasksEach
                /\ CallerAt(c, "push")
                /\ UNCHANGED <<queueVars, waiting, mut, done, submitted,
                               workerVars, dpc, contended>>

\* The entry is linked.
PushTask(c) == /\ cpc[c] = "push"
               /\ Queue!Push(<<c, submitted[c] + 1>>)
               /\ submitted' = [submitted EXCEPT ![c] = @ + 1]
               /\ CallerAt(c, "count")
               /\ UNCHANGED <<lost, waiting, mut, done, workerVars, dpc, contended>>

Count(c) == /\ cpc[c] = "count"
            /\ waiting' = Add(waiting, 1)
            /\ CallerAt(c, "try_lock")
            /\ UNCHANGED <<queueVars, mut, done, submitted, workerVars, dpc,
                           contended>>

\* Mutation: the handshake on the mutex before notify_one is left out.
TryLock_LeftOut(c) == /\ cpc[c] = "try_lock"
                      /\ CallerAt(c, "notify")
                      /\ UNCHANGED <<queueVars, waiting, mut, done, submitted,
                                     workerVars, dpc, contended>>

\* try_lock does not wait: when it fails the caller goes on to notify_one.
TryLock(c) ==
  /\ cpc[c] = "try_lock"
  /\ contended' = (mut # Unlocked)
  /\ IF mut = Unlocked
     THEN mut' = c /\ CallerAt(c, "unlock")
     ELSE UNCHANGED mut /\ CallerAt(c, "notify")
  /\ UNCHANGED <<queueVars, waiting, done, submitted, workerVars, dpc>>

Unlock(c) == /\ cpc[c] = "unlock"
             /\ mut' = Unlocked
             /\ CallerAt(c, "notify")
             /\ UNCHANGED <<queueVars, waiting, done, submitted, workerVars,
                            dpc, contended>>

\* Mutation: only a caller that got the mutex notifies.
NotifyOne_UnlessContended(c) ==
  /\ cpc[c] = "notify"
  /\ \/ ~contended /\ \E w \in Workers : wpc[w] = "asleep" /\ WorkerAt(w, "lock")
     \/ /\ contended \/ \A w \in Workers : wpc[w] # "asleep"
        /\ UNCHANGED wpc
  /\ CallerAt(c, "idle")
  /\ UNCHANGED <<queueVars, waiting, mut, done, submitted, task, ran, dpc,
                 contended>>

\* notify_one wakes one sleeping worker, if there is one.
NotifyOne(c) ==
  /\ cpc[c] = "notify"
  /\ \/ \E w \in Workers : wpc[w] = "asleep" /\ WorkerAt(w, "lock")
     \/ (\A w \in Workers : wpc[w] # "asleep") /\ UNCHANGED wpc
  /\ CallerAt(c, "idle")
  /\ UNCHANGED <<queueVars, waiting, mut, done, submitted, task, ran, dpc,
                 contended>>

-----------------------------------------------------------------------------
(* blocking_work.                                                          *)

PopTask(w) == /\ wpc[w] = "pop"
              /\ \E t \in Tasks : Queue!PopItem(t) /\ task' = [task EXCEPT ![w] = t]
              /\ WorkerAt(w, "uncount")
              /\ UNCHANGED <<lost, waiting, mut, done, callerVars, ran, dpc,
                             contended>>

\* pop removes the dummy of a lagging queue and returns nothing.
PopDummy(w) == /\ wpc[w] = "pop"
               /\ Queue!PopMiss
               /\ WorkerAt(w, "lock")
               /\ UNCHANGED <<lost, waiting, mut, done, callerVars, task, ran,
                              dpc, contended>>

\* Another worker has tail_, which is null then; or another caller has exchanged
\* head_ and not linked its entry yet, behind which the first task stands.
Hidden(w) == \/ \E v \in Workers \ {w} : wpc[v] = "pop"
             \/ tasks # <<>> /\ \E c \in Callers \ {Head(tasks)[1]} : cpc[c] = "push"

\* pop returns nothing and leaves the queue as it is: it is empty, what it holds
\* is hidden for the moment, or the list is broken.
PopNothing(w) == /\ wpc[w] = "pop"
                 /\ tasks = <<>> \/ Hidden(w) \/ lost # {}
                 /\ WorkerAt(w, "lock")
                 /\ UNCHANGED <<queueVars, waiting, mut, done, callerVars, task,
                                ran, dpc, contended>>

\* An entry is recycled while a worker or a caller that was overtaken still has
\* its `next`, and the compare_exchange on tail_ (in pop) or free_ (in new_entry)
\* succeeds all the same: the first task is on no list any more.  It takes a
\* second worker or a second caller; which entry is reused when is LfQueue's.
LoseTask(w) == /\ wpc[w] = "pop" /\ tasks # <<>>
               /\ Cardinality(Started) > 1 \/ Cardinality(Callers) > 1
               /\ tasks' = Tail(tasks) /\ lost' = lost \cup {Head(tasks)}
               /\ lag' \in BOOLEAN
               /\ UNCHANGED <<waiting, mut, done, callerVars, workerVars, dpc,
                              contended>>

\* Mutation: taking a task does not lower the counter.
Uncount_Forgotten(w) == /\ wpc[w] = "uncount"
                        /\ WorkerAt(w, "run")
                        /\ UNCHANGED <<queueVars, waiting, mut, done, callerVars,
                                       task, ran, dpc, contended>>

\* The caller may not have counted the task yet: the counter then wraps.
Uncount(w) == /\ wpc[w] = "uncount"
              /\ waiting' = Add(waiting, 2^Width - 1)
              /\ WorkerAt(w, "run")
              /\ UNCHANGED <<queueVars, mut, done, callerVars, task, ran, dpc,
                             contended>>

RunTask(w) == /\ wpc[w] = "run"
              /\ ran' = ran \cup {task[w]}
              /\ task' = [task EXCEPT ![w] = NoTask]
              /\ WorkerAt(w, "pop")
              /\ UNCHANGED <<queueVars, waiting, mut, done, callerVars, dpc,
                             contended>>

\* unique_lock, and re-acquiring it when wait wakes up.
Lock(w) == /\ wpc[w] = "lock" /\ mut = Unlocked
           /\ mut' = w
           /\ WorkerAt(w, "test")
           /\ UNCHANGED <<queueVars, waiting, done, callerVars, task, ran, dpc,
                          contended>>

\* The predicate of wait and, when it holds, what follows wait.
TestPredicate(w) ==
  /\ wpc[w] = "test"
  /\ IF done \/ waiting > 0
     THEN mut' = Unlocked /\ WorkerAt(w, IF done THEN "exited" ELSE "pop")
     ELSE UNCHANGED mut /\ WorkerAt(w, "block")
  /\ UNCHANGED <<queueVars, waiting, done, callerVars, task, ran, dpc, contended>>

\* wait releases the mutex and sleeps in one step; until then the worker holds
\* the mutex and has already found the predicate false.
Block(w) == /\ wpc[w] = "block"
            /\ mut' = Unlocked
            /\ WorkerAt(w, "asleep")
            /\ UNCHANGED <<queueVars, waiting, done, callerVars, task, ran, dpc,
                           contended>>

SpuriousWake(w) == /\ wpc[w] = "asleep"
                   /\ WorkerAt(w, "lock")
                   /\ UNCHANGED <<queueVars, waiting, mut, done, callerVars,
                                  task, ran, dpc, contended>>

-----------------------------------------------------------------------------
(* ~executor, up to the join of the blocking workers.  Core threads still  *)
(* run then and may still call run_blocking.                               *)

Destroy == /\ CanDestroy /\ dpc = "idle" /\ mut = Unlocked
           /\ mut' = "destructor"
           /\ dpc' = "locked"
           /\ UNCHANGED <<queueVars, waiting, done, callerVars, workerVars,
                          contended>>

\* Mutation: blocking_done_ is set after the mutex was released.
SetDone_Unlocked == /\ dpc \in {"locked", "late"}
                    /\ IF dpc = "locked"
                       THEN dpc' = "late" /\ UNCHANGED done
                       ELSE dpc' = "notify_all" /\ done' = TRUE
                    /\ mut' = IF dpc = "locked" THEN Unlocked ELSE mut
                    /\ UNCHANGED <<queueVars, waiting, callerVars, workerVars,
                                   contended>>

SetDone == /\ dpc = "locked"
           /\ done' = TRUE
           /\ mut' = Unlocked
           /\ dpc' = "notify_all"
           /\ UNCHANGED <<queueVars, waiting, callerVars, workerVars, contended>>

NotifyAll == /\ dpc = "notify_all"
             /\ wpc' = [w \in Workers |-> IF wpc[w] = "asleep" THEN "lock"
                                                               ELSE wpc[w]]
             /\ dpc' = "join"
             /\ UNCHANGED <<queueVars, waiting, mut, done, callerVars, task, ran,
                            contended>>

Join == /\ dpc = "join"
        /\ \A w \in Started : wpc[w] = "exited"
        /\ dpc' = "joined"
        /\ UNCHANGED <<queueVars, waiting, mut, done, callerVars, workerVars,
                       contended>>

-----------------------------------------------------------------------------
CallerStep(c) == \/ BeginPush(c) \/ PushTask(c) \/ Count(c) \/ TryLock(c)
                 \/ Unlock(c) \/ NotifyOne(c)

WorkerStep(w) == \/ PopTask(w) \/ PopDummy(w) \/ PopNothing(w) \/ Uncount(w)
                 \/ RunTask(w) \/ Lock(w) \/ TestPredicate(w) \/ Block(w)

DestructorStep == Destroy \/ SetDone \/ NotifyAll \/ Join

Next == \/ \E c \in Callers : CallerStep(c)
        \/ \E w \in Workers : WorkerStep(w) \/ SpuriousWake(w) \/ LoseTask(w)
        \/ DestructorStep

\* run_blocking returns once called; workers run, a task's function returns,
\* and a mutex that is released again and again is acquired in the end; the
\* destructor gets on once it was called.  Nobody has to call run_blocking or
\* the destructor, and nothing wakes up by itself.  A worker that keeps popping
\* a queue with a task in it gets one in the end: a pop leaves tail_ null only
\* if it read a null next, before the task was linked, and a push gets to its
\* link, so the overlap that hides the task does not recur.
Fairness == /\ \A c \in Callers : WF_vars(CallerStep(c) /\ cpc[c] # "idle")
            /\ \A w \in Workers : /\ WF_vars(WorkerStep(w))
                                 /\ SF_vars(Lock(w))
                                 /\ SF_vars(PopTask(w) \/ PopDummy(w))
            /\ WF_vars(DestructorStep /\ dpc # "idle")

Spec == Init /\ [][Next]_vars /\ Fairness

-----------------------------------------------------------------------------
(* Properties.                                                             *)

TypeOK ==
  /\ tasks \in Seq(Tasks) /\ lag \in BOOLEAN /\ lost \subseteq Tasks
  /\ waiting \in Word
  /\ mut \in Callers \cup Workers \cup {Unlocked, "destructor"}
  /\ done \in BOOLEAN
  /\ cpc \in [Callers -> {"idle", "push", "count", "try_lock", "unlock", "notify"}]
  /\ submitted \in [Callers -> 0..TasksEach]
  /\ \A c \in Callers : cpc[c] = "push" => submitted[c] < TasksEach
  /\ wpc \in [Workers -> {"pop", "uncount", "run", "lock", "test", "block",
                          "asleep", "exited", "absent"}]
  /\ task \in [Workers -> Tasks \cup {NoTask}]
  /\ \A w \in Workers : task[w] # NoTask <=> wpc[w] \in {"uncount", "run"}
  /\ dpc \in {"idle", "locked", "notify_all", "join", "joined"}
  /\ ran \subseteq Tasks
  /\ contended \in BOOLEAN

\* The counter is, modulo its width, the tasks in the queue or lost there, less
\* those not counted yet, plus those taken and not uncounted yet: though it wraps
\* while a worker overtakes a caller, it is exact again when nobody is in between.
\* (A lost task is never uncounted: the workers do not sleep any more.)
CounterExact ==
  LET uncounted == Cardinality({c \in Callers : cpc[c] = "count"})
      taken     == Cardinality({w \in Workers : wpc[w] = "uncount"})
  IN  Add(waiting, uncounted) = Add(Len(tasks) + Cardinality(lost), taken)

Queued(t) == t \in ToSet(tasks)

\* What the pool is for, and as far as the code goes: a task handed to
\* run_blocking is run, unless the executor is destroyed first, the queue loses
\* tasks, or there is a single worker and the latest run_blocking failed to get
\* the mutex.  With two workers whose tasks end, the other one cannot be asleep as
\* well while one misses its notification; a single one is woken for every task
\* there is, whatever the queue's lag and the counter's wrapping, when try_lock
\* succeeds.
QueuedRunsUnlessAlone ==
  \A t \in Tasks :
    Queued(t) ~> \/ t \in ran \/ done \/ lost # {}
                 \/ contended /\ Cardinality(Started) = 1

\* ~executor ends: no worker sleeps through the shutdown, also one that was
\* just about to sleep, and also while run_blocking is still being called.
ShutdownEnds == dpc = "locked" ~> dpc = "joined"
=============================================================================
