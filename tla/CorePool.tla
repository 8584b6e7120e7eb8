------------------------------ MODULE CorePool ------------------------------
(***************************************************************************)
(* The core half of crasy::executor (src/executor.cpp): block_on_impl      *)
(* posts the root coroutine to the asio io_context and waits for it; the   *)
(* threads in core_work sleep until block_on_impl raises core_work_pending_*)
(* and then run the io_context; the second half of ~executor stops and     *)
(* joins them.                                                             *)
(*                                                                         *)
(* The io_context is external and modelled as this code uses it: handlers  *)
(* ready to run, operations in flight, and the count of outstanding work   *)
(* whose fall to zero stops the context.  A root coroutine may spawn       *)
(* tasks, suspend until an operation completes, return, or throw.          *)
(*                                                                         *)
(* core_work_pending_ and core_done_ are only touched under core_mut_, and *)
(* a worker holds core_mut_ from testing them until it sleeps, so each     *)
(* critical section is one step; notifications are steps of their own.     *)
(***************************************************************************)
EXTENDS Naturals, FiniteSets

CONSTANTS Callers,       \* threads that call block_on
          Workers,       \* core_workers_
          CallsEach,     \* bound: calls made by each caller, one after another
          StepsEach,     \* bound: suspensions of a root coroutine
          Spawners,      \* bound: the callers whose roots spawn tasks,
          TasksEach,     \*   and how many each of those roots
          CanThrow,      \* whether a root may end with an exception
          CanDestroy     \* whether the executor is destroyed

ASSUME PoolAssumption == /\ Workers # {} /\ IsFiniteSet(Workers)
                         /\ IsFiniteSet(Callers) /\ Spawners \subseteq Callers
                         /\ CallsEach \in Nat /\ StepsEach \in Nat
                         /\ TasksEach \in Nat
                         /\ CanThrow \in BOOLEAN /\ CanDestroy \in BOOLEAN

Calls == Callers \X (1..CallsEach)

\* What the io_context runs: the posted lambda that starts a root, the
\* resumptions of a root, and the tasks it spawned.
Start(c) == <<"start", c, 0>>
Handlers == {Start(c) : c \in Calls} \cup ({"step"} \X Calls \X (1..StepsEach))
                                     \cup ({"task"} \X Calls \X (1..TasksEach))
NoHandler == <<>>

VARIABLES
  ready, inflight,  \* handlers queued, and those waiting for their operation
  stopped,          \* the io_context has run out of work and was stopped
  pending,          \* core_work_pending_
  coreDone,         \* core_done_
  callpc,           \* callpc[c]: where call c is in block_on_impl
  done,             \* done[c]: its local `done`
  handle,           \* handle[c]: its local `handle` was assigned
  frame,            \* frame[c]: the coroutine frame of its root
  steps, spawned,   \* how often the root of c suspended, spawned
  wpc,              \* wpc[w]: where worker w is in core_work
  cur,              \* cur[w]: the handler w executes
  dpc               \* where ~executor is

context == <<ready, inflight, stopped>>
callVars == <<callpc, done, handle, frame>>
rootVars == <<steps, spawned>>
workerVars == <<wpc, cur>>
vars == <<context, pending, coreDone, callVars, rootVars, workerVars, dpc>>

Init == /\ ready = {} /\ inflight = {} /\ stopped = FALSE
        /\ pending = FALSE /\ coreDone = FALSE
        /\ callpc = [c \in Calls |-> "out"]
        /\ done = [c \in Calls |-> FALSE]
        /\ handle = [c \in Calls |-> FALSE]
        /\ frame = [c \in Calls |-> "none"]
        /\ steps = [c \in Calls |-> 0]
        /\ spawned = [c \in Calls |-> 0]
        /\ wpc = [w \in Workers |-> "wait"]
        /\ cur = [w \in Workers |-> NoHandler]
        /\ dpc = "idle"

\* Mutation: block_on_impl makes no work guard.
OutstandingWork_NoGuard ==
  ready # {} \/ inflight # {} \/ \E w \in Workers : cur[w] # NoHandler

\* io_context's outstanding work: the work guards of calls in progress, and
\* every handler that is queued, in flight or being executed.
OutstandingWork ==
  \/ \E c \in Calls : callpc[c] \notin {"out", "returned"}
  \/ ready # {} \/ inflight # {}
  \/ \E w \in Workers : cur[w] # NoHandler

StopWhenIdle == stopped' = (stopped \/ ~OutstandingWork')

CallAt(c, l) == callpc' = [callpc EXCEPT ![c] = l]
WorkerAt(w, l) == wpc' = [wpc EXCEPT ![w] = l]

-----------------------------------------------------------------------------
(* block_on_impl.                                                          *)

\* make_work_guard, then post of the lambda that starts the root.
PostStart(c) == /\ callpc[c] = "out" /\ dpc = "idle"
                /\ c[2] > 1 => callpc[<<c[1], c[2] - 1>>] = "returned"
                /\ ready' = ready \cup {Start(c)}
                /\ CallAt(c, "flag")
                /\ UNCHANGED <<inflight, stopped, pending, coreDone, done, handle,
                               frame, rootVars, workerVars, dpc>>

SetPending(c) == /\ callpc[c] = "flag"
                 /\ pending' = TRUE
                 /\ CallAt(c, "notify")
                 /\ UNCHANGED <<context, coreDone, done, handle, frame, rootVars,
                                workerVars, dpc>>

\* Mutation: the notification of core_cv_ is left out.
NotifyOne_LeftOut(c) == /\ callpc[c] = "notify"
                        /\ CallAt(c, "wait")
                        /\ UNCHANGED <<context, pending, coreDone, done, handle,
                                       frame, rootVars, workerVars, dpc>>

NotifyOne(c) ==
  /\ callpc[c] = "notify"
  /\ \/ \E w \in Workers : wpc[w] = "asleep" /\ WorkerAt(w, "wait")
     \/ (\A w \in Workers : wpc[w] # "asleep") /\ UNCHANGED wpc
  /\ CallAt(c, "wait")
  /\ UNCHANGED <<context, pending, coreDone, done, handle, frame, rootVars, cur,
                 dpc>>

\* cv.wait: `done` is tested under the caller's own mutex.
WaitDone(c) == /\ callpc[c] = "wait"
               /\ CallAt(c, IF done[c] THEN "guard" ELSE "asleep")
               /\ UNCHANGED <<context, pending, coreDone, done, handle, frame,
                              rootVars, workerVars, dpc>>

\* Mutation: cv.wait without a predicate: whatever wakes the caller lets it go.
CallerSpuriousWake_NoPredicate(c) ==
  /\ callpc[c] = "asleep"
  /\ CallAt(c, "guard")
  /\ UNCHANGED <<context, pending, coreDone, done, handle, frame, rootVars,
                 workerVars, dpc>>

CallerSpuriousWake(c) == /\ callpc[c] = "asleep"
                         /\ CallAt(c, "wait")
                         /\ UNCHANGED <<context, pending, coreDone, done, handle,
                                        frame, rootVars, workerVars, dpc>>

\* Mutation: no future<void> is made of the handle.
DestroyFrame_LeftOut(c) ==
  /\ callpc[c] = "guard"
  /\ CallAt(c, "release")
  /\ UNCHANGED <<context, pending, coreDone, done, handle, frame, rootVars,
                 workerVars, dpc>>

\* future<void> guard{handle} and its destructor: the frame is destroyed if
\* `handle` has been assigned by now.
DestroyFrame(c) ==
  /\ callpc[c] = "guard"
  /\ frame' = [frame EXCEPT ![c] = IF handle[c] THEN "destroyed" ELSE @]
  /\ CallAt(c, "release")
  /\ UNCHANGED <<context, pending, coreDone, done, handle, rootVars, workerVars,
                 dpc>>

\* The work guard goes, and with it the caller's stack frame.
ReleaseGuard(c) == /\ callpc[c] = "release"
                   /\ CallAt(c, "returned")
                   /\ UNCHANGED <<ready, inflight, pending, coreDone, done, handle,
                                  frame, rootVars, workerVars, dpc>>
                   /\ StopWhenIdle

-----------------------------------------------------------------------------
(* core_work.                                                              *)

\* Mutation: core_done_ is looked at only when there is work.
AwaitWork_WorkFirst(w) ==
  /\ wpc[w] = "wait"
  /\ IF pending
     THEN pending' = FALSE /\ WorkerAt(w, IF coreDone THEN "exited" ELSE "enter")
     ELSE UNCHANGED pending /\ WorkerAt(w, "asleep")
  /\ UNCHANGED <<context, coreDone, callVars, rootVars, cur, dpc>>

\* Wait for core_work_pending_ or core_done_; a pending flag is consumed.
AwaitWork(w) ==
  /\ wpc[w] = "wait"
  /\ IF coreDone
     THEN UNCHANGED pending /\ WorkerAt(w, "exited")
     ELSE /\ pending' = FALSE
          /\ WorkerAt(w, IF pending THEN "enter" ELSE "asleep")
  /\ UNCHANGED <<context, coreDone, callVars, rootVars, cur, dpc>>

WorkerSpuriousWake(w) == /\ wpc[w] = "asleep"
                         /\ WorkerAt(w, "wait")
                         /\ UNCHANGED <<context, pending, coreDone, callVars,
                                        rootVars, cur, dpc>>

\* context_.run() with no outstanding work stops the context at once.
EnterRun(w) == /\ wpc[w] = "enter"
               /\ WorkerAt(w, "run")
               /\ UNCHANGED <<ready, inflight, pending, coreDone, callVars,
                              rootVars, cur, dpc>>
               /\ StopWhenIdle

\* Mutation: the destructor stops the context as well.
LeaveRun_OnShutdown(w) == /\ wpc[w] = "run" /\ (stopped \/ coreDone)
                          /\ WorkerAt(w, "wait")
                          /\ UNCHANGED <<context, pending, coreDone, callVars,
                                         rootVars, cur, dpc>>

\* A stopped context lets run() return, whatever is queued.
LeaveRun(w) == /\ wpc[w] = "run" /\ stopped
               /\ WorkerAt(w, "wait")
               /\ UNCHANGED <<context, pending, coreDone, callVars, rootVars, cur,
                              dpc>>

TakeHandler(w) ==
  /\ wpc[w] = "run" /\ ~stopped
  /\ \E h \in ready :
       /\ ready' = ready \ {h}
       /\ cur' = [cur EXCEPT ![w] = h]
       /\ frame' = IF h[1] = "start" THEN [frame EXCEPT ![h[2]] = "alive"]
                                     ELSE frame
  /\ WorkerAt(w, "body")
  /\ UNCHANGED <<inflight, stopped, pending, coreDone, callpc, done, handle,
                 rootVars, dpc>>

IsRoot(w) == cur[w][1] \in {"start", "step"}
CallOf(w) == cur[w][2]

\* Where the worker goes when the coroutine it started or resumed has given
\* control back: the lambda of post still has to assign `handle`.
AfterCoroutine(w) == IF cur[w][1] = "start" THEN "assign" ELSE "finish"

\* The root spawns a task, which waits for an operation of its own.
Spawn(w) == /\ wpc[w] = "body" /\ IsRoot(w)
            /\ LET c == CallOf(w)
               IN  /\ c[1] \in Spawners /\ spawned[c] < TasksEach
                   /\ spawned' = [spawned EXCEPT ![c] = @ + 1]
                   /\ inflight' = inflight \cup {<<"task", c, spawned[c] + 1>>}
            /\ UNCHANGED <<ready, stopped, pending, coreDone, callVars, steps,
                           workerVars, dpc>>

\* The root awaits an operation that is not complete.
Suspend(w) == /\ wpc[w] = "body" /\ IsRoot(w)
              /\ LET c == CallOf(w)
                 IN  /\ steps[c] < StepsEach
                     /\ steps' = [steps EXCEPT ![c] = @ + 1]
                     /\ inflight' = inflight \cup {<<"step", c, steps[c] + 1>>}
              /\ WorkerAt(w, AfterCoroutine(w))
              /\ UNCHANGED <<ready, stopped, pending, coreDone, callVars, spawned,
                             cur, dpc>>

Return(w) == /\ wpc[w] = "body" /\ IsRoot(w)
             /\ WorkerAt(w, "set_done")
             /\ UNCHANGED <<context, pending, coreDone, callVars, rootVars, cur,
                            dpc>>

\* co_await fn(ptr) rethrows in the wrapper, whose promise keeps the exception:
\* `done` is never set.
Throw(w) == /\ CanThrow
            /\ wpc[w] = "body" /\ IsRoot(w)
            /\ WorkerAt(w, "final")
            /\ UNCHANGED <<context, pending, coreDone, callVars, rootVars, cur,
                           dpc>>

\* A spawned task runs to its end.
RunTask(w) == /\ wpc[w] = "body" /\ ~IsRoot(w)
              /\ WorkerAt(w, "finish")
              /\ UNCHANGED <<context, pending, coreDone, callVars, rootVars, cur,
                             dpc>>

\* dn = true, under the caller's mutex.
MarkDone(w) == /\ wpc[w] = "set_done"
               /\ done' = [done EXCEPT ![CallOf(w)] = TRUE]
               /\ WorkerAt(w, "notify")
               /\ UNCHANGED <<context, pending, coreDone, callpc, handle, frame,
                              rootVars, cur, dpc>>

\* Mutation: the root sets `done` but notifies nobody.
NotifyCaller_LeftOut(w) ==
  /\ wpc[w] = "notify"
  /\ WorkerAt(w, "final")
  /\ UNCHANGED <<context, pending, coreDone, callVars, rootVars, cur, dpc>>

\* cond_var.notify_one().
NotifyCaller(w) ==
  /\ wpc[w] = "notify"
  /\ callpc' = [callpc EXCEPT ![CallOf(w)] = IF @ = "asleep" THEN "wait" ELSE @]
  /\ WorkerAt(w, "final")
  /\ UNCHANGED <<context, pending, coreDone, done, handle, frame, rootVars, cur,
                 dpc>>

\* The wrapper coroutine reaches its final suspend point.
FinalSuspend(w) == /\ wpc[w] = "final"
                   /\ WorkerAt(w, AfterCoroutine(w))
                   /\ UNCHANGED <<context, pending, coreDone, callVars, rootVars,
                                  cur, dpc>>

\* handle = ...into_handle(), into the caller's stack frame.
AssignHandle(w) == /\ wpc[w] = "assign"
                   /\ handle' = [handle EXCEPT ![CallOf(w)] = TRUE]
                   /\ WorkerAt(w, "finish")
                   /\ UNCHANGED <<context, pending, coreDone, callpc, done, frame,
                                  rootVars, cur, dpc>>

\* The handler returned: its share of the outstanding work is gone.
FinishHandler(w) == /\ wpc[w] = "finish"
                    /\ cur' = [cur EXCEPT ![w] = NoHandler]
                    /\ WorkerAt(w, "run")
                    /\ UNCHANGED <<ready, inflight, pending, coreDone, callVars,
                                   rootVars, dpc>>
                    /\ StopWhenIdle

\* The environment: an operation completes and its handler becomes ready.
CompleteOperation(h) == /\ h \in inflight
                        /\ inflight' = inflight \ {h}
                        /\ ready' = ready \cup {h}
                        /\ UNCHANGED <<stopped, pending, coreDone, callVars,
                                       rootVars, workerVars, dpc>>

-----------------------------------------------------------------------------
(* ~executor, from core_mut_ on.  No block_on is in progress then.         *)

SetCoreDone == /\ CanDestroy /\ dpc = "idle"
               /\ \A c \in Calls : callpc[c] \in {"out", "returned"}
               /\ coreDone' = TRUE
               /\ dpc' = "notify_all"
               /\ UNCHANGED <<context, pending, callVars, rootVars, workerVars>>

NotifyAll == /\ dpc = "notify_all"
             /\ wpc' = [w \in Workers |-> IF wpc[w] = "asleep" THEN "wait"
                                                               ELSE wpc[w]]
             /\ dpc' = "join"
             /\ UNCHANGED <<context, pending, coreDone, callVars, rootVars, cur>>

Join == /\ dpc = "join"
        /\ \A w \in Workers : wpc[w] = "exited"
        /\ dpc' = "joined"
        /\ UNCHANGED <<context, pending, coreDone, callVars, rootVars, workerVars>>

-----------------------------------------------------------------------------
CallerStep(c) == \/ PostStart(c) \/ SetPending(c) \/ NotifyOne(c) \/ WaitDone(c)
                 \/ DestroyFrame(c) \/ ReleaseGuard(c)

BodyStep(w) == Spawn(w) \/ Suspend(w) \/ Return(w) \/ Throw(w) \/ RunTask(w)

WorkerStep(w) == \/ AwaitWork(w) \/ EnterRun(w) \/ LeaveRun(w) \/ TakeHandler(w)
                 \/ MarkDone(w) \/ NotifyCaller(w) \/ FinalSuspend(w)
                 \/ AssignHandle(w) \/ FinishHandler(w)

DestructorStep == SetCoreDone \/ NotifyAll \/ Join

Next == \/ \E c \in Calls : CallerStep(c) \/ CallerSpuriousWake(c)
        \/ \E w \in Workers : WorkerStep(w) \/ BodyStep(w) \/ WorkerSpuriousWake(w)
        \/ \E h \in Handlers : CompleteOperation(h)
        \/ DestructorStep

\* A call of block_on and of the destructor gets on once it was made; core
\* threads run; operations complete; each handler the context holds gets its
\* turn, as run() takes them in order.  Nobody has to make a call, and nothing
\* wakes up by itself.
Fairness == /\ \A c \in Calls : WF_vars(CallerStep(c) /\ callpc[c] # "out")
            /\ \A w \in Workers : WF_vars(WorkerStep(w))
            /\ \A h \in Handlers : WF_vars(CompleteOperation(h))
            /\ WF_vars(DestructorStep /\ dpc # "idle")

\* The code of coroutines and tasks comes to an end or a suspension.
Spec == /\ Init /\ [][Next]_vars /\ Fairness
        /\ \A w \in Workers : WF_vars(BodyStep(w))

-----------------------------------------------------------------------------
(* Properties.                                                             *)

TypeOK ==
  /\ ready \subseteq Handlers /\ inflight \subseteq Handlers
  /\ stopped \in BOOLEAN /\ pending \in BOOLEAN /\ coreDone \in BOOLEAN
  /\ callpc \in [Calls -> {"out", "flag", "notify", "wait", "asleep", "guard",
                           "release", "returned"}]
  /\ done \in [Calls -> BOOLEAN] /\ handle \in [Calls -> BOOLEAN]
  /\ frame \in [Calls -> {"none", "alive", "destroyed"}]
  /\ steps \in [Calls -> 0..StepsEach] /\ spawned \in [Calls -> 0..TasksEach]
  /\ wpc \in [Workers -> {"wait", "asleep", "enter", "run", "body", "set_done",
                          "notify", "final", "assign", "finish", "exited",
                          "blocking"}]   \* in run_blocking: see Executor
  /\ \A w \in Workers :
       cur[w] \in IF wpc[w] \in {"wait", "asleep", "enter", "run", "exited"}
                  THEN {NoHandler} ELSE Handlers
  /\ dpc \in {"idle", "notify_all", "join", "joined"}

\* block_on returns only after the body of its root has ended: neither another
\* call's notification nor a spurious wake-up lets it go early, and no handler
\* that resumes the root is left in the io_context then.
ReturnsWhenDone ==
  \A c \in Calls :
    callpc[c] \in {"guard", "release", "returned"} =>
      /\ done[c] /\ Start(c) \notin ready
      /\ \A k \in 1..StepsEach : <<"step", c, k>> \notin ready \cup inflight

\* A core thread always comes for what is ready: as long as the context is not
\* stopped, a thread is in run() or will be, because it has seen the flag, or
\* the flag is up and a thread is awake, or the caller has not notified yet.
SomeoneComes ==
  ready # {} /\ ~stopped =>
    \/ \E w \in Workers : wpc[w] \notin {"wait", "asleep", "exited"}
    \/ pending /\ \E w \in Workers : wpc[w] = "wait"
    \/ \E c \in Calls : callpc[c] = "flag" \/ (pending /\ callpc[c] = "notify")

Threw(c) == \E w \in Workers : wpc[w] = "final" /\ CallOf(w) = c /\ ~done[c]

\* A block_on whose root does not throw, called on a context that is not
\* stopped, returns.  (A root that throws never sets `done`; and nothing
\* restarts a context that stopped after an earlier call.)
BlockOnReturns ==
  \A c \in Calls :
    Start(c) \in ready /\ ~stopped ~> callpc[c] = "returned" \/ Threw(c)

\* The frame of a root that suspended at least once is destroyed by the time
\* its block_on returns: the lambda that started it assigns `handle` when the
\* root first suspends, before a single running core thread can resume it.  (A
\* root that never suspends can leak: it sets `done` before `handle` is there.)
SuspendedRootReclaimed ==
  \A c \in Calls : callpc[c] = "returned" /\ steps[c] > 0 => frame[c] = "destroyed"

=============================================================================
