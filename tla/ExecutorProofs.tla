--------------------------- MODULE ExecutorProofs ---------------------------
(***************************************************************************)
(* The executor, for any callers, calls, threads of either kind and tasks. *)
(*                                                                         *)
(* First the core half alone.  Its inductive invariant IInv follows the    *)
(* control of each root coroutine: it is in one place, the handler that    *)
(* will resume it or the thread that runs it, and nowhere once `done` is   *)
(* set.  A second part says why a core thread that went into run() is      *)
(* there as long as the context is not stopped, and that one goes in.      *)
(*                                                                         *)
(* Then the composition.  ExecutorInv is IInv, which the steps of          *)
(* coroutines on blocking functions keep too, and where the coroutine is   *)
(* that waits for a blocking function: with the blocking half, and nowhere *)
(* else.  Every step of the composition is one of BlockingPool or leaves   *)
(* it alone, so that its inductive invariant carries over (BP).            *)
(***************************************************************************)
EXTENDS Executor, TLAPS

TypeInv == TypeOK /\ cur \in [Workers -> Handlers \cup {NoHandler}]

Idle == {"wait", "asleep", "enter", "run", "exited"}

\* Handler h starts or resumes the root of call c.
Root(h, c) == h[1] \in {"start", "step"} /\ h[2] = c

\* Worker w runs the root of c, which has not ended or suspended.
Controls(w, c) == wpc[w] \in {"body", "set_done", "blocking"} /\ Root(cur[w], c)

\* The control of a root: one handler, or one thread, or none.
ControlPart(c) ==
  /\ \A g, h \in ready \cup inflight : Root(g, c) /\ Root(h, c) => g = h
  /\ \A h \in ready \cap inflight : ~Root(h, c)
  /\ \A w \in Workers :
       Controls(w, c) => \A h \in ready \cup inflight : ~Root(h, c)
  /\ \A v, w \in Workers : Controls(v, c) /\ Controls(w, c) => v = w

\* `done` is set when the root has ended, and block_on waits for it.
DonePart(c) ==
  /\ done[c] => /\ \A h \in ready \cup inflight : ~Root(h, c)
                /\ \A w \in Workers : ~Controls(w, c)
  /\ callpc[c] \in {"guard", "release", "returned"} => done[c]

\* Nothing is known of a call before it was made, and it is a root that ends.
OutPart ==
  /\ \A h \in ready \cup inflight : callpc[h[2]] # "out"
  /\ \A w \in Workers : wpc[w] \notin Idle => callpc[cur[w][2]] # "out"
  /\ \A c \in Calls : callpc[c] = "out" => ~done[c] /\ steps[c] = 0
  /\ \A w \in Workers : wpc[w] = "set_done" => IsRoot(w)

\* ~executor runs when no call is in progress, and none is made then.
ShutdownPart ==
  /\ coreDone => dpc # "idle" /\ \A c \in Calls : callpc[c] \in {"out", "returned"}
  /\ dpc # "idle" => coreDone
  /\ \A w \in Workers : wpc[w] = "exited" => coreDone

\* A thread that is in run(), or goes there.
Active == \E w \in Workers : wpc[w] \notin {"wait", "asleep", "exited"}

\* Once a call was made, a thread goes into run() and stays; when a root has
\* ended, one is there.
ComingPart ==
  ~stopped =>
    /\ (\E c \in Calls : done[c]) => Active
    /\ (\E c \in Calls : callpc[c] # "out") =>
         \/ Active
         \/ pending /\ \E w \in Workers : wpc[w] = "wait"
         \/ \E c \in Calls : callpc[c] = "flag" \/ (pending /\ callpc[c] = "notify")

\* `handle` and the frame of a root that suspended, on one core thread.
ReclaimPart(c) ==
  (\A v, w \in Workers : v = w) =>
    /\ Start(c) \in ready \cup inflight => steps[c] = 0
    /\ \A h \in ready \cup inflight : Root(h, c) /\ h[1] = "step" => steps[c] > 0
    /\ \A w \in Workers :
         Controls(w, c) => IF cur[w][1] = "start" THEN steps[c] = 0 ELSE handle[c]
    /\ steps[c] > 0 =>
         \/ handle[c]
         \/ ~done[c] /\ \E w \in Workers : wpc[w] = "assign" /\ cur[w] = Start(c)
    /\ callpc[c] \in {"release", "returned"} /\ steps[c] > 0 => frame[c] = "destroyed"

IInv == /\ TypeInv /\ OutPart /\ ShutdownPart /\ ComingPart
        /\ \A c \in Calls : ControlPart(c) /\ DonePart(c) /\ ReclaimPart(c)

-----------------------------------------------------------------------------
(* Handlers.                                                               *)

\* What a handler is for.
LEMMA HandlerShape ==
  /\ \A h \in Handlers : /\ h[1] \in {"start", "step", "task"} /\ h[2] \in Calls
                         /\ h[1] = "start" => h = Start(h[2])
  /\ \A c \in Calls : Start(c) \in Handlers /\ Start(c)[1] = "start" /\ Start(c)[2] = c
  /\ \A c \in Calls : \A k \in 1..StepsEach :
       LET h == <<"step", c, k>> IN h \in Handlers /\ h[1] = "step" /\ h[2] = c
  /\ \A c \in Calls : \A k \in 1..TasksEach :
       LET h == <<"task", c, k>> IN h \in Handlers /\ h[1] = "task" /\ h[2] = c
  BY DEF Handlers, Start

\* No handler is none of the handlers.
LEMMA SomeHandler == NoHandler \notin Handlers
  <1>1. \A a, b, c : <<a, b, c>> # NoHandler
    BY DEF NoHandler
  <1>2. \A h \in Handlers : \E a, b, c : h = <<a, b, c>>
    BY DEF Handlers, Start
  <1> QED BY <1>1, <1>2

\* A worker that is not idle executes a handler.
LEMMA BusyWorker ==
  ASSUME TypeInv, NEW w \in Workers
  PROVE  /\ wpc[w] \notin Idle => cur[w] \in Handlers /\ CallOf(w) \in Calls
         /\ wpc[w] \in Idle => cur[w] = NoHandler
  BY HandlerShape DEF TypeInv, TypeOK, Idle, CallOf

\* Type correctness is preserved: the callers.
LEMMA TypeCaller ==
  ASSUME TypeInv, NEW c \in Calls, CallerStep(c) \/ CallerSpuriousWake(c)
  PROVE  TypeInv'
  <1> USE DEF TypeInv, TypeOK, CallAt, WorkerAt, context, callVars, rootVars,
          workerVars
  <1>1. CASE PostStart(c) BY <1>1, HandlerShape DEF PostStart
  <1>2. CASE SetPending(c) BY <1>2 DEF SetPending
  <1>3. CASE NotifyOne(c) BY <1>3 DEF NotifyOne
  <1>4. CASE WaitDone(c) BY <1>4 DEF WaitDone
  <1>5. CASE DestroyFrame(c) BY <1>5 DEF DestroyFrame
  <1>6. CASE ReleaseGuard(c) BY <1>6 DEF ReleaseGuard, StopWhenIdle
  <1>7. CASE CallerSpuriousWake(c) BY <1>7 DEF CallerSpuriousWake
  <1> QED BY <1>1, <1>2, <1>3, <1>4, <1>5, <1>6, <1>7 DEF CallerStep

\* The workers.
LEMMA TypeWorker ==
  ASSUME TypeInv, NEW w \in Workers,
         WorkerStep(w) \/ BodyStep(w) \/ WorkerSpuriousWake(w)
  PROVE  TypeInv'
  <1>b. wpc[w] \notin Idle => cur[w] \in Handlers /\ CallOf(w) \in Calls
    BY BusyWorker
  <1> USE DEF TypeInv, TypeOK, WorkerAt, context, callVars, rootVars, workerVars, Idle
  <1>1. CASE AwaitWork(w) BY <1>1 DEF AwaitWork
  <1>2. CASE EnterRun(w) BY <1>2 DEF EnterRun, StopWhenIdle
  <1>3. CASE LeaveRun(w) BY <1>3 DEF LeaveRun
  <1>4. CASE TakeHandler(w)
    <2>1. PICK h \in ready :
            /\ ready' = ready \ {h}
            /\ cur' = [cur EXCEPT ![w] = h]
            /\ frame' = IF h[1] = "start" THEN [frame EXCEPT ![h[2]] = "alive"]
                                          ELSE frame
      BY <1>4 DEF TakeHandler
    <2>2. h \in Handlers
      OBVIOUS
    <2> QED BY <1>4, <2>1, <2>2, HandlerShape DEF TakeHandler
  <1>5. CASE MarkDone(w) BY <1>5, <1>b DEF MarkDone
  <1>6. CASE NotifyCaller(w) BY <1>6, <1>b DEF NotifyCaller
  <1>7. CASE FinalSuspend(w) BY <1>7, <1>b DEF FinalSuspend, AfterCoroutine
  <1>8. CASE AssignHandle(w) BY <1>8, <1>b DEF AssignHandle
  <1>9. CASE FinishHandler(w) BY <1>9 DEF FinishHandler, StopWhenIdle
  <1>10. CASE Spawn(w)
    <2>1. CallOf(w) \in Calls /\ spawned[CallOf(w)] + 1 \in 1..TasksEach
      BY <1>10, <1>b, PoolAssumption DEF Spawn
    <2>2. <<"task", CallOf(w), spawned[CallOf(w)] + 1>> \in Handlers
      BY <2>1, HandlerShape
    <2> QED BY <1>10, <2>1, <2>2, PoolAssumption DEF Spawn
  <1>11. CASE Suspend(w)
    <2>1. CallOf(w) \in Calls /\ steps[CallOf(w)] + 1 \in 1..StepsEach
      BY <1>11, <1>b, PoolAssumption DEF Suspend
    <2>2. <<"step", CallOf(w), steps[CallOf(w)] + 1>> \in Handlers
      BY <2>1, HandlerShape
    <2> QED BY <1>11, <1>b, <2>1, <2>2, PoolAssumption DEF Suspend, AfterCoroutine
  <1>12. CASE Return(w) BY <1>12, <1>b DEF Return
  <1>13. CASE Throw(w) BY <1>13, <1>b DEF Throw
  <1>14. CASE RunTask(w) BY <1>14, <1>b DEF RunTask
  <1>15. CASE WorkerSpuriousWake(w) BY <1>15 DEF WorkerSpuriousWake
  <1> QED BY <1>1, <1>2, <1>3, <1>4, <1>5, <1>6, <1>7, <1>8, <1>9, <1>10, <1>11,
             <1>12, <1>13, <1>14, <1>15 DEF WorkerStep, BodyStep

\* The environment and the destructor, or nobody.
LEMMA TypeOther ==
  ASSUME TypeInv,
         (\E h \in Handlers : CompleteOperation(h)) \/ DestructorStep \/ UNCHANGED vars
  PROVE  TypeInv'
  <1> USE DEF TypeInv, TypeOK, context, callVars, rootVars, workerVars
  <1>1. CASE \E h \in Handlers : CompleteOperation(h) BY <1>1 DEF CompleteOperation
  <1>2. CASE SetCoreDone BY <1>2 DEF SetCoreDone
  <1>3. CASE NotifyAll BY <1>3 DEF NotifyAll
  <1>4. CASE Join BY <1>4 DEF Join
  <1>5. CASE UNCHANGED vars BY <1>5 DEF vars
  <1> QED BY <1>1, <1>2, <1>3, <1>4, <1>5 DEF DestructorStep

-----------------------------------------------------------------------------
(* Calls not made, and the shutdown.                                       *)

\* What every further part rests on.
Frame == TypeInv /\ OutPart /\ ShutdownPart

\* A call is known from the moment it posts its root; none is made in a shutdown.
LEMMA FrameCaller ==
  ASSUME Frame, NEW c \in Calls, CallerStep(c) \/ CallerSpuriousWake(c)
  PROVE  OutPart' /\ ShutdownPart'
  <1> USE HandlerShape DEF Frame, OutPart, ShutdownPart, IsRoot, TypeInv, TypeOK,
          Idle, CallAt, WorkerAt, context, callVars, rootVars, workerVars
  <1>1. CASE PostStart(c) BY <1>1 DEF PostStart
  <1>2. CASE SetPending(c) BY <1>2 DEF SetPending
  <1>3. CASE NotifyOne(c) BY <1>3 DEF NotifyOne
  <1>4. CASE WaitDone(c) BY <1>4 DEF WaitDone
  <1>5. CASE DestroyFrame(c) BY <1>5 DEF DestroyFrame
  <1>6. CASE ReleaseGuard(c) BY <1>6 DEF ReleaseGuard, StopWhenIdle
  <1>7. CASE CallerSpuriousWake(c) BY <1>7 DEF CallerSpuriousWake
  <1> QED BY <1>1, <1>2, <1>3, <1>4, <1>5, <1>6, <1>7 DEF CallerStep

\* A worker executes, and puts into the context, handlers of calls that were made.
LEMMA FrameWorker ==
  ASSUME Frame, NEW w \in Workers,
         WorkerStep(w) \/ BodyStep(w) \/ WorkerSpuriousWake(w)
  PROVE  OutPart' /\ ShutdownPart'
  <1>b. wpc[w] \notin Idle => cur[w] \in Handlers /\ CallOf(w) \in Calls
    BY BusyWorker DEF Frame
  <1> USE HandlerShape DEF Frame, OutPart, ShutdownPart, IsRoot, TypeInv, TypeOK,
          Idle, WorkerAt, context, callVars, rootVars, workerVars, CallOf
  <1>1. CASE AwaitWork(w) BY <1>1, <1>b DEF AwaitWork
  <1>2. CASE EnterRun(w) BY <1>2, <1>b DEF EnterRun, StopWhenIdle
  <1>3. CASE LeaveRun(w) BY <1>3, <1>b DEF LeaveRun
  <1>4. CASE TakeHandler(w) BY <1>4, <1>b DEF TakeHandler
  <1>5. CASE MarkDone(w) BY <1>5, <1>b DEF MarkDone
  <1>6. CASE NotifyCaller(w) BY <1>6, <1>b DEF NotifyCaller
  <1>7. CASE FinalSuspend(w) BY <1>7, <1>b DEF FinalSuspend, AfterCoroutine
  <1>8. CASE AssignHandle(w) BY <1>8, <1>b DEF AssignHandle
  <1>9. CASE FinishHandler(w) BY <1>9, <1>b DEF FinishHandler, StopWhenIdle
  <1>10. CASE Spawn(w) BY <1>10, <1>b DEF Spawn
  <1>11. CASE Suspend(w) BY <1>11, <1>b DEF Suspend, AfterCoroutine
  <1>12. CASE Return(w) BY <1>12, <1>b DEF Return
  <1>13. CASE Throw(w) BY <1>13, <1>b DEF Throw
  <1>14. CASE RunTask(w) BY <1>14, <1>b DEF RunTask
  <1>15. CASE WorkerSpuriousWake(w) BY <1>15, <1>b DEF WorkerSpuriousWake
  <1> QED BY <1>1, <1>2, <1>3, <1>4, <1>5, <1>6, <1>7, <1>8, <1>9, <1>10, <1>11,
          <1>12, <1>13, <1>14, <1>15 DEF WorkerStep, BodyStep

\* The destructor starts when no call is in progress.
LEMMA FrameOther ==
  ASSUME Frame,
         (\E h \in Handlers : CompleteOperation(h)) \/ DestructorStep \/ UNCHANGED vars
  PROVE  OutPart' /\ ShutdownPart'
  <1> USE DEF Frame, OutPart, ShutdownPart, IsRoot, TypeInv, TypeOK, Idle, context,
          callVars, rootVars, workerVars
  <1>1. CASE \E h \in Handlers : CompleteOperation(h) BY <1>1 DEF CompleteOperation
  <1>2. CASE SetCoreDone BY <1>2 DEF SetCoreDone
  <1>3. CASE NotifyAll BY <1>3 DEF NotifyAll
  <1>4. CASE Join BY <1>4 DEF Join
  <1>5. CASE UNCHANGED vars BY <1>5 DEF vars
  <1> QED BY <1>1, <1>2, <1>3, <1>4, <1>5 DEF DestructorStep

-----------------------------------------------------------------------------
(* Somebody comes.                                                         *)

\* A caller raises core_work_pending_ first and wakes a thread up then.
LEMMA ComingCaller ==
  ASSUME Frame, ComingPart, \A c \in Calls : DonePart(c), NEW c \in Calls,
         CallerStep(c) \/ CallerSpuriousWake(c)
  PROVE  ComingPart'
  <1> USE HandlerShape, PoolAssumption DEF Frame, OutPart, ShutdownPart, ComingPart,
          Active, DonePart, IsRoot, TypeInv, TypeOK, Idle, context, callVars,
          rootVars, workerVars, CallAt, WorkerAt
  <1>1. CASE PostStart(c) BY <1>1 DEF PostStart
  <1>2. CASE SetPending(c) BY <1>2 DEF SetPending
  <1>3. CASE NotifyOne(c)
    <2>1. /\ UNCHANGED <<stopped, pending, done>>
          /\ \A e \in Calls : callpc[e] = "flag" => callpc'[e] = "flag"
          /\ \A w \in Workers : wpc[w] # "asleep" => wpc'[w] = wpc[w]
          /\ Active => Active'
      BY <1>3 DEF NotifyOne
    <2>2. \A w \in Workers : wpc[w] # "exited"
      BY <1>3 DEF NotifyOne
    <2>3. ~Active => \E w \in Workers : wpc'[w] = "wait"
      BY <1>3, <2>1, <2>2 DEF NotifyOne
    <2>4. ~stopped => Active \/ pending \/ \E e \in Calls : callpc[e] = "flag"
      BY <1>3 DEF NotifyOne
    <2> HIDE DEF Active
    <2> QED BY <2>1, <2>3, <2>4
  <1>4. CASE WaitDone(c) BY <1>4 DEF WaitDone
  <1>5. CASE DestroyFrame(c) BY <1>5 DEF DestroyFrame
  <1>6. CASE ReleaseGuard(c) BY <1>6 DEF ReleaseGuard, StopWhenIdle
  <1>7. CASE CallerSpuriousWake(c) BY <1>7 DEF CallerSpuriousWake
  <1> QED BY <1>1, <1>2, <1>3, <1>4, <1>5, <1>6, <1>7 DEF CallerStep

\* A worker that lowers core_work_pending_ goes into run(), and leaves it only
\* when the context is stopped.
LEMMA ComingWorker ==
  ASSUME Frame, ComingPart, \A c \in Calls : DonePart(c), NEW w \in Workers,
         WorkerStep(w) \/ BodyStep(w) \/ WorkerSpuriousWake(w)
  PROVE  ComingPart'
  <1>b. wpc[w] \notin Idle => cur[w] \in Handlers /\ CallOf(w) \in Calls
    BY BusyWorker DEF Frame
  <1> USE HandlerShape, PoolAssumption DEF Frame, OutPart, ShutdownPart, ComingPart,
          Active, DonePart, IsRoot, TypeInv, TypeOK, Idle, context, callVars,
          rootVars, workerVars, CallOf, WorkerAt
  <1>1. CASE AwaitWork(w) BY <1>1, <1>b DEF AwaitWork
  <1>2. CASE EnterRun(w) BY <1>2, <1>b DEF EnterRun, StopWhenIdle
  <1>3. CASE LeaveRun(w) BY <1>3, <1>b DEF LeaveRun
  <1>4. CASE TakeHandler(w) BY <1>4, <1>b DEF TakeHandler
  <1>5. CASE MarkDone(w) BY <1>5, <1>b DEF MarkDone
  <1>6. CASE NotifyCaller(w) BY <1>6, <1>b DEF NotifyCaller
  <1>7. CASE FinalSuspend(w) BY <1>7, <1>b DEF FinalSuspend, AfterCoroutine
  <1>8. CASE AssignHandle(w) BY <1>8, <1>b DEF AssignHandle
  <1>9. CASE FinishHandler(w) BY <1>9, <1>b DEF FinishHandler, StopWhenIdle
  <1>10. CASE Spawn(w) BY <1>10, <1>b DEF Spawn
  <1>11. CASE Suspend(w) BY <1>11, <1>b DEF Suspend, AfterCoroutine
  <1>12. CASE Return(w) BY <1>12, <1>b DEF Return
  <1>13. CASE Throw(w) BY <1>13, <1>b DEF Throw
  <1>14. CASE RunTask(w) BY <1>14, <1>b DEF RunTask
  <1>15. CASE WorkerSpuriousWake(w) BY <1>15, <1>b DEF WorkerSpuriousWake
  <1> QED BY <1>1, <1>2, <1>3, <1>4, <1>5, <1>6, <1>7, <1>8, <1>9, <1>10, <1>11,
             <1>12, <1>13, <1>14, <1>15 DEF WorkerStep, BodyStep

\* Nothing else sends a worker away.
LEMMA ComingOther ==
  ASSUME Frame, ComingPart, \A c \in Calls : DonePart(c),
         (\E h \in Handlers : CompleteOperation(h)) \/ DestructorStep \/ UNCHANGED vars
  PROVE  ComingPart'
  <1> USE DEF Frame, OutPart, ShutdownPart, ComingPart, Active, DonePart, IsRoot,
          TypeInv, TypeOK, Idle, context, callVars, rootVars, workerVars
  <1>1. CASE \E h \in Handlers : CompleteOperation(h) BY <1>1 DEF CompleteOperation
  <1>2. CASE SetCoreDone BY <1>2 DEF SetCoreDone
  <1>3. CASE NotifyAll BY <1>3 DEF NotifyAll
  <1>4. CASE Join BY <1>4 DEF Join
  <1>5. CASE UNCHANGED vars BY <1>5 DEF vars
  <1> QED BY <1>1, <1>2, <1>3, <1>4, <1>5 DEF DestructorStep

-----------------------------------------------------------------------------
(* The control of a root coroutine.                                        *)

\* A caller posts its root once, and gets past cv.wait only when `done` is set.
LEMMA RootCaller ==
  ASSUME Frame, NEW d \in Calls, ControlPart(d), DonePart(d), NEW c \in Calls,
         CallerStep(c) \/ CallerSpuriousWake(c)
  PROVE  ControlPart(d)' /\ DonePart(d)'
  <1> USE HandlerShape, PoolAssumption DEF Frame, OutPart, ControlPart, DonePart,
          Controls, Root, IsRoot, TypeInv, TypeOK, Idle, context, callVars,
          rootVars, workerVars, CallAt, WorkerAt
  <1>1. CASE PostStart(c) BY <1>1 DEF PostStart
  <1>2. CASE SetPending(c) BY <1>2 DEF SetPending
  <1>3. CASE NotifyOne(c) BY <1>3 DEF NotifyOne
  <1>4. CASE WaitDone(c) BY <1>4 DEF WaitDone
  <1>5. CASE DestroyFrame(c) BY <1>5 DEF DestroyFrame
  <1>6. CASE ReleaseGuard(c) BY <1>6 DEF ReleaseGuard, StopWhenIdle
  <1>7. CASE CallerSpuriousWake(c) BY <1>7 DEF CallerSpuriousWake
  <1> QED BY <1>1, <1>2, <1>3, <1>4, <1>5, <1>6, <1>7 DEF CallerStep

\* Control passes from the handler taken to the worker, and from the worker to
\* the next resumption or, with `done`, to nobody.
LEMMA RootWorker ==
  ASSUME Frame, NEW d \in Calls, ControlPart(d), DonePart(d), NEW w \in Workers,
         WorkerStep(w) \/ BodyStep(w) \/ WorkerSpuriousWake(w)
  PROVE  ControlPart(d)' /\ DonePart(d)'
  <1>b. wpc[w] \notin Idle => cur[w] \in Handlers /\ CallOf(w) \in Calls
    BY BusyWorker DEF Frame
  <1> USE HandlerShape, PoolAssumption DEF Frame, OutPart, ControlPart, DonePart,
          Controls, Root, IsRoot, TypeInv, TypeOK, Idle, context, callVars,
          rootVars, workerVars, CallOf, WorkerAt
  <1>1. CASE AwaitWork(w) BY <1>1, <1>b DEF AwaitWork
  <1>2. CASE EnterRun(w) BY <1>2, <1>b DEF EnterRun, StopWhenIdle
  <1>3. CASE LeaveRun(w) BY <1>3, <1>b DEF LeaveRun
  <1>4. CASE TakeHandler(w) BY <1>4, <1>b DEF TakeHandler
  <1>5. CASE MarkDone(w) BY <1>5, <1>b DEF MarkDone
  <1>6. CASE NotifyCaller(w) BY <1>6, <1>b DEF NotifyCaller
  <1>7. CASE FinalSuspend(w) BY <1>7, <1>b DEF FinalSuspend, AfterCoroutine
  <1>8. CASE AssignHandle(w) BY <1>8, <1>b DEF AssignHandle
  <1>9. CASE FinishHandler(w) BY <1>9, <1>b DEF FinishHandler, StopWhenIdle
  <1>10. CASE Spawn(w) BY <1>10, <1>b DEF Spawn
  <1>11. CASE Suspend(w)
    <2> DEFINE c == CallOf(w)
               g == <<"step", c, steps[c] + 1>>
    <2>1. c \in Calls /\ steps[c] + 1 \in 1..StepsEach
      BY <1>11, <1>b DEF Suspend
    <2>2. g \in Handlers /\ g[1] = "step" /\ g[2] = c
      BY <2>1
    <2>3. /\ inflight' = inflight \cup {g} /\ Controls(w, c)
          /\ UNCHANGED <<ready, done, callpc, cur>>
          /\ wpc' = [wpc EXCEPT ![w] = AfterCoroutine(w)]
          /\ AfterCoroutine(w) \in {"assign", "finish"}
      BY <1>11 DEF Suspend, AfterCoroutine
    <2> HIDE DEF c, g
    <2>4. CASE d = c
      <3>1. \A v \in Workers : ~Controls(v, d)'
        BY <2>1, <2>3, <2>4
      <3> QED BY <2>2, <2>3, <2>4, <3>1
    <2>5. CASE d # c BY <2>2, <2>3, <2>5
    <2> QED BY <2>4, <2>5
  <1>12. CASE Return(w) BY <1>12, <1>b DEF Return
  <1>13. CASE Throw(w) BY <1>13, <1>b DEF Throw
  <1>14. CASE RunTask(w) BY <1>14, <1>b DEF RunTask
  <1>15. CASE WorkerSpuriousWake(w) BY <1>15, <1>b DEF WorkerSpuriousWake
  <1> QED BY <1>1, <1>2, <1>3, <1>4, <1>5, <1>6, <1>7, <1>8, <1>9, <1>10, <1>11,
             <1>12, <1>13, <1>14, <1>15 DEF WorkerStep, BodyStep

\* An operation that completes leaves the control with its handler.
LEMMA RootOther ==
  ASSUME Frame, NEW d \in Calls, ControlPart(d), DonePart(d),
         (\E h \in Handlers : CompleteOperation(h)) \/ DestructorStep \/ UNCHANGED vars
  PROVE  ControlPart(d)' /\ DonePart(d)'
  <1> USE DEF Frame, OutPart, ControlPart, DonePart, Controls, Root, IsRoot,
          TypeInv, TypeOK, Idle, context, callVars, rootVars, workerVars
  <1>1. CASE \E h \in Handlers : CompleteOperation(h) BY <1>1 DEF CompleteOperation
  <1>2. CASE SetCoreDone BY <1>2 DEF SetCoreDone
  <1>3. CASE NotifyAll BY <1>3 DEF NotifyAll
  <1>4. CASE Join BY <1>4 DEF Join
  <1>5. CASE UNCHANGED vars BY <1>5 DEF vars
  <1> QED BY <1>1, <1>2, <1>3, <1>4, <1>5 DEF DestructorStep

-----------------------------------------------------------------------------
(* The frame of a root that suspended.                                     *)

\* A caller that finds `done` set finds `handle` assigned, if the root suspended.
LEMMA ReclaimCaller ==
  ASSUME Frame, NEW d \in Calls, ControlPart(d), DonePart(d), ReclaimPart(d),
         NEW c \in Calls, CallerStep(c) \/ CallerSpuriousWake(c)
  PROVE  ReclaimPart(d)'
  <1> USE HandlerShape, PoolAssumption DEF Frame, OutPart, ControlPart, DonePart,
          ReclaimPart, Controls, Root, IsRoot, TypeInv, TypeOK, Idle, context,
          callVars, rootVars, workerVars, CallAt, WorkerAt
  <1>1. CASE PostStart(c) BY <1>1 DEF PostStart
  <1>2. CASE SetPending(c) BY <1>2 DEF SetPending
  <1>3. CASE NotifyOne(c) BY <1>3 DEF NotifyOne
  <1>4. CASE WaitDone(c) BY <1>4 DEF WaitDone
  <1>5. CASE DestroyFrame(c) BY <1>5 DEF DestroyFrame
  <1>6. CASE ReleaseGuard(c) BY <1>6 DEF ReleaseGuard, StopWhenIdle
  <1>7. CASE CallerSpuriousWake(c) BY <1>7 DEF CallerSpuriousWake
  <1> QED BY <1>1, <1>2, <1>3, <1>4, <1>5, <1>6, <1>7 DEF CallerStep

\* The one worker assigns `handle` before it can take what resumes the root.
LEMMA ReclaimWorker ==
  ASSUME Frame, NEW d \in Calls, ControlPart(d), DonePart(d), ReclaimPart(d),
         NEW w \in Workers,
         WorkerStep(w) \/ BodyStep(w) \/ WorkerSpuriousWake(w)
  PROVE  ReclaimPart(d)'
  <1>b. wpc[w] \notin Idle => cur[w] \in Handlers /\ CallOf(w) \in Calls
    BY BusyWorker DEF Frame
  <1> USE HandlerShape, PoolAssumption DEF Frame, OutPart, ControlPart, DonePart,
          ReclaimPart, Controls, Root, IsRoot, TypeInv, TypeOK, Idle, context,
          callVars, rootVars, workerVars, CallOf, WorkerAt
  <1>1. CASE AwaitWork(w) BY <1>1, <1>b DEF AwaitWork
  <1>2. CASE EnterRun(w) BY <1>2, <1>b DEF EnterRun, StopWhenIdle
  <1>3. CASE LeaveRun(w) BY <1>3, <1>b DEF LeaveRun
  <1>4. CASE TakeHandler(w) BY <1>4, <1>b DEF TakeHandler
  <1>5. CASE MarkDone(w) BY <1>5, <1>b DEF MarkDone
  <1>6. CASE NotifyCaller(w) BY <1>6, <1>b DEF NotifyCaller
  <1>7. CASE FinalSuspend(w) BY <1>7, <1>b DEF FinalSuspend, AfterCoroutine
  <1>8. CASE AssignHandle(w) BY <1>8, <1>b DEF AssignHandle
  <1>9. CASE FinishHandler(w) BY <1>9, <1>b DEF FinishHandler, StopWhenIdle
  <1>10. CASE Spawn(w) BY <1>10, <1>b DEF Spawn
  <1>11. CASE Suspend(w) BY <1>11, <1>b DEF Suspend, AfterCoroutine
  <1>12. CASE Return(w) BY <1>12, <1>b DEF Return
  <1>13. CASE Throw(w) BY <1>13, <1>b DEF Throw
  <1>14. CASE RunTask(w) BY <1>14, <1>b DEF RunTask
  <1>15. CASE WorkerSpuriousWake(w) BY <1>15, <1>b DEF WorkerSpuriousWake
  <1> QED BY <1>1, <1>2, <1>3, <1>4, <1>5, <1>6, <1>7, <1>8, <1>9, <1>10, <1>11,
             <1>12, <1>13, <1>14, <1>15 DEF WorkerStep, BodyStep

\* Nothing else touches handle, steps or the frame.
LEMMA ReclaimOther ==
  ASSUME Frame, NEW d \in Calls, ControlPart(d), DonePart(d), ReclaimPart(d),
         (\E h \in Handlers : CompleteOperation(h)) \/ DestructorStep \/ UNCHANGED vars
  PROVE  ReclaimPart(d)'
  <1> USE DEF Frame, OutPart, ControlPart, DonePart, ReclaimPart, Controls, Root,
          IsRoot, TypeInv, TypeOK, Idle, context, callVars, rootVars, workerVars
  <1>1. CASE \E h \in Handlers : CompleteOperation(h) BY <1>1 DEF CompleteOperation
  <1>2. CASE SetCoreDone BY <1>2 DEF SetCoreDone
  <1>3. CASE NotifyAll BY <1>3 DEF NotifyAll
  <1>4. CASE Join BY <1>4 DEF Join
  <1>5. CASE UNCHANGED vars BY <1>5 DEF vars
  <1> QED BY <1>1, <1>2, <1>3, <1>4, <1>5 DEF DestructorStep

-----------------------------------------------------------------------------
(* The inductive invariant and what follows from it.                       *)

\* Nobody has called block_on, and the workers have just been started.
LEMMA InvInit == Init => IInv
  <1> SUFFICES ASSUME Init PROVE IInv
    OBVIOUS
  <1>1. TypeInv
    <2>1. 0 \in 0..StepsEach /\ 0 \in 0..TasksEach
      BY PoolAssumption
    <2>2. steps \in [Calls -> 0..StepsEach] /\ spawned \in [Calls -> 0..TasksEach]
      BY <2>1 DEF Init
    <2> QED BY <2>2 DEF Init, TypeInv, TypeOK
  <1>2. OutPart /\ ShutdownPart /\ ComingPart
    BY DEF Init, OutPart, ShutdownPart, ComingPart, Idle
  <1>3. ASSUME NEW c \in Calls PROVE ControlPart(c) /\ DonePart(c) /\ ReclaimPart(c)
    BY DEF Init, ControlPart, DonePart, ReclaimPart, Controls
  <1> QED BY <1>1, <1>2, <1>3 DEF IInv

\* Every step of a caller, a worker, the environment or the destructor keeps it.
LEMMA InvStep == IInv /\ [Next]_vars => IInv'
  <1> SUFFICES ASSUME IInv, [Next]_vars PROVE IInv'
    OBVIOUS
  <1>1. /\ TypeInv /\ Frame /\ ComingPart
        /\ \A c \in Calls : ControlPart(c) /\ DonePart(c) /\ ReclaimPart(c)
    BY DEF IInv, Frame
  <1>2. CASE \E c \in Calls : CallerStep(c) \/ CallerSpuriousWake(c)
    BY <1>1, <1>2, TypeCaller, FrameCaller, ComingCaller, RootCaller,
          ReclaimCaller DEF IInv
  <1>3. CASE \E w \in Workers : WorkerStep(w) \/ BodyStep(w) \/ WorkerSpuriousWake(w)
    BY <1>1, <1>3, TypeWorker, FrameWorker, ComingWorker, RootWorker,
          ReclaimWorker DEF IInv
  <1>4. CASE (\E h \in Handlers : CompleteOperation(h)) \/ DestructorStep \/ UNCHANGED vars
    BY <1>1, <1>4, TypeOther, FrameOther, ComingOther, RootOther,
          ReclaimOther DEF IInv
  <1> QED BY <1>2, <1>3, <1>4 DEF Next

\* The invariant holds always.
LEMMA Inductive == Spec => []IInv
  BY InvInit, InvStep, PTL DEF Spec

\* The executor's state is well formed: a core thread executes a handler
\* exactly between taking it in run() and returning from it.
THEOREM TypeCorrect == Spec => []TypeOK
  <1>1. IInv => TypeOK
    BY DEF IInv, TypeInv
  <1> QED BY <1>1, Inductive, PTL

\* A block_on that has left cv.wait has no handler that resumes its root.
LEMMA DoneIsReturned == IInv => ReturnsWhenDone
  <1> SUFFICES ASSUME IInv, NEW c \in Calls,
                      callpc[c] \in {"guard", "release", "returned"}
               PROVE  /\ done[c] /\ Start(c) \notin ready
                      /\ \A k \in 1..StepsEach :
                           <<"step", c, k>> \notin ready \cup inflight
    BY DEF ReturnsWhenDone
  <1>1. done[c] /\ \A h \in ready \cup inflight : ~Root(h, c)
    BY DEF IInv, DonePart
  <1>2. Root(Start(c), c) /\ \A k \in 1..StepsEach : Root(<<"step", c, k>>, c)
    BY HandlerShape DEF Root
  <1> QED BY <1>1, <1>2

\* block_on_impl returns only when its root has ended, however many calls,
\* core threads and wake-ups there are, and then nothing in the io_context
\* resumes the root whose frame the caller destroys.
THEOREM ReturnsAfterRoot == Spec => []ReturnsWhenDone
  BY DoneIsReturned, Inductive, PTL

\* What is ready belongs to a call that was made.
LEMMA ComesWhenReady == IInv => SomeoneComes
  <1> SUFFICES ASSUME IInv, ready # {}, ~stopped PROVE SomeoneComes
    BY DEF SomeoneComes
  <1>1. \E c \in Calls : callpc[c] # "out"
    BY HandlerShape DEF IInv, OutPart, TypeInv, TypeOK
  <1> QED BY <1>1 DEF IInv, ComingPart, Active, SomeoneComes

\* No lost wake-up in core_work: while the context is not stopped, somebody
\* comes for what is ready, because block_on_impl sets core_work_pending_
\* before it notifies and a thread in run() stays there.
THEOREM NoLostWakeup == Spec => []SomeoneComes
  BY ComesWhenReady, Inductive, PTL

\* With one core thread, a root that suspended has had `handle` assigned when
\* its block_on gets there, so that its frame is destroyed.
THEOREM RootReclaimed ==
  ASSUME \A v, w \in Workers : v = w
  PROVE  Spec => []SuspendedRootReclaimed
  <1>1. IInv => SuspendedRootReclaimed
    BY DEF IInv, ReclaimPart, SuspendedRootReclaimed
  <1> QED BY <1>1, Inductive, PTL

-----------------------------------------------------------------------------
(* The executor as a whole.                                                *)

\* The block_on of a root that waits for a blocking function is in progress:
\* its guard keeps the context from stopping.
ParkedRootIsWaitedFor ==
  \A t \in parked :
    awaiter[t][1] = "step" =>
      callpc[awaiter[t][2]] \in {"flag", "notify", "wait", "asleep"}

\* A coroutine that waits for a blocking function is one of a call that was
\* made, and of a function that has not been called yet.
JoinPart ==
  /\ bsubmitted \in [Workers -> 0..BlockingEach]
  /\ bcpc \in [Workers -> {"idle", "push", "count", "try_lock", "unlock", "notify"}]
  /\ awaiter \in [B!Tasks -> Handlers \cup {NoHandler}]
  /\ parked \subseteq B!Tasks /\ bran \cap parked = {}
  /\ \A t \in parked : /\ awaiter[t] \in Handlers /\ callpc[awaiter[t][2]] # "out"
                        /\ t[2] <= bsubmitted[t[1]]
  /\ \A w \in Workers : bcpc[w] = "push" => bsubmitted[w] < BlockingEach
  /\ \A w \in Workers :
       wpc[w] = "blocking" => /\ bcpc[w] = "push" \/ bsubmitted[w] > 0
                              /\ IsRoot(w) => steps[CallOf(w)] < StepsEach

\* The root of c is in the context or runs, or has ended, or was not posted yet.
Elsewhere(c) ==
  \/ done[c] \/ callpc[c] = "out"
  \/ \E h \in ready \cup inflight : Root(h, c)
  \/ \E w \in Workers : Controls(w, c)

\* The control of a root that waits for a blocking function is nowhere else.
HeldPart(c) ==
  \A t \in parked :
    Root(awaiter[t], c) => /\ ~Elsewhere(c)
                           /\ steps[c] > 0 /\ awaiter[t][1] = "step"
                           /\ \A s \in parked : Root(awaiter[s], c) => s = t

\* What a stopped context holds: coroutines that a blocking thread posted to
\* it, and roots of calls that were made too late and do not return.
StoppedPart ==
  stopped =>
    /\ \A w \in Workers : cur[w] = NoHandler
    /\ inflight = {}
    /\ \A h \in ready :
         \/ h \in Range(awaiter)
         \/ \E c \in Calls : h = Start(c) /\ callpc[c] \notin {"out", "returned"}

JoinedPart == dpc = "joined" => \A w \in Workers : wpc[w] = "exited"

ExecutorInv == /\ IInv /\ JoinPart /\ StoppedPart /\ JoinedPart
               /\ \A c \in Calls : HeldPart(c)

-----------------------------------------------------------------------------
(* What the steps of the core half do to roots that wait for a blocking    *)
(* function.                                                               *)

\* A step of the core half brings control of d nowhere where it does not come
\* from, and d suspends only by itself.
Effect(d) ==
  /\ Elsewhere(d)' => Elsewhere(d)
  /\ callpc[d] # "out" => callpc'[d] # "out"
  /\ \/ steps'[d] = steps[d]
     \/ /\ steps'[d] = steps[d] + 1
        /\ \E w \in Workers : wpc[w] = "body" /\ Root(cur[w], d)
  /\ \A w \in Workers : wpc'[w] = "blocking" => wpc[w] = "blocking" /\ cur'[w] = cur[w]

\* The callers.
LEMMA EffectCaller ==
  ASSUME Frame, NEW d \in Calls,
         NEW c \in Calls, CallerStep(c) \/ CallerSpuriousWake(c)
  PROVE  Effect(d)
  <1> USE HandlerShape DEF Effect, Elsewhere, Frame, OutPart, Controls, Root,
          IsRoot, TypeInv, TypeOK, Idle, context, callVars,
          rootVars, workerVars, CallAt, WorkerAt
  <1>1. CASE PostStart(c) BY <1>1 DEF PostStart
  <1>2. CASE SetPending(c) BY <1>2 DEF SetPending
  <1>3. CASE NotifyOne(c) BY <1>3 DEF NotifyOne
  <1>4. CASE WaitDone(c) BY <1>4 DEF WaitDone
  <1>5. CASE DestroyFrame(c) BY <1>5 DEF DestroyFrame
  <1>6. CASE ReleaseGuard(c) BY <1>6 DEF ReleaseGuard, StopWhenIdle
  <1>7. CASE CallerSpuriousWake(c) BY <1>7 DEF CallerSpuriousWake
  <1> QED BY <1>1, <1>2, <1>3, <1>4, <1>5, <1>6, <1>7 DEF CallerStep

\* The core threads.
LEMMA EffectWorker ==
  ASSUME Frame, NEW d \in Calls,
         NEW w \in Workers, WorkerStep(w) \/ BodyStep(w) \/ WorkerSpuriousWake(w)
  PROVE  Effect(d)
  <1>b. wpc[w] \notin Idle => cur[w] \in Handlers /\ CallOf(w) \in Calls
    BY BusyWorker DEF Frame
  <1> USE HandlerShape DEF Effect, Elsewhere, Frame, OutPart, Controls, Root,
          IsRoot, TypeInv, TypeOK, Idle, context, callVars,
          rootVars, workerVars, CallOf, WorkerAt
  <1>1. CASE AwaitWork(w) BY <1>1, <1>b DEF AwaitWork
  <1>2. CASE EnterRun(w) BY <1>2, <1>b DEF EnterRun, StopWhenIdle
  <1>3. CASE LeaveRun(w) BY <1>3, <1>b DEF LeaveRun
  <1>4. CASE TakeHandler(w) BY <1>4, <1>b DEF TakeHandler
  <1>5. CASE MarkDone(w) BY <1>5, <1>b DEF MarkDone
  <1>6. CASE NotifyCaller(w) BY <1>6, <1>b DEF NotifyCaller
  <1>7. CASE FinalSuspend(w) BY <1>7, <1>b DEF FinalSuspend, AfterCoroutine
  <1>8. CASE AssignHandle(w) BY <1>8, <1>b DEF AssignHandle
  <1>9. CASE FinishHandler(w) BY <1>9, <1>b DEF FinishHandler, StopWhenIdle
  <1>10. CASE Spawn(w) BY <1>10, <1>b DEF Spawn
  <1>11. CASE Suspend(w) BY <1>11, <1>b DEF Suspend, AfterCoroutine
  <1>12. CASE Return(w) BY <1>12, <1>b DEF Return
  <1>13. CASE Throw(w) BY <1>13, <1>b DEF Throw
  <1>14. CASE RunTask(w) BY <1>14, <1>b DEF RunTask
  <1>15. CASE WorkerSpuriousWake(w) BY <1>15, <1>b DEF WorkerSpuriousWake
  <1> QED BY <1>1, <1>2, <1>3, <1>4, <1>5, <1>6, <1>7, <1>8, <1>9, <1>10, <1>11,
             <1>12, <1>13, <1>14, <1>15 DEF WorkerStep, BodyStep

\* The environment and the destructor.
LEMMA EffectOther ==
  ASSUME Frame, NEW d \in Calls,
         (\E h \in Handlers : CompleteOperation(h)) \/ DestructorStep \/ UNCHANGED vars
  PROVE  Effect(d)
  <1> USE DEF Effect, Elsewhere, Frame, OutPart, Controls, Root,
          IsRoot, TypeInv, TypeOK, Idle, context, callVars,
          rootVars, workerVars
  <1>1. CASE \E h \in Handlers : CompleteOperation(h) BY <1>1 DEF CompleteOperation
  <1>2. CASE SetCoreDone BY <1>2 DEF SetCoreDone
  <1>3. CASE NotifyAll BY <1>3 DEF NotifyAll
  <1>4. CASE Join BY <1>4 DEF Join
  <1>5. CASE UNCHANGED vars BY <1>5 DEF vars
  <1> QED BY <1>1, <1>2, <1>3, <1>4, <1>5 DEF DestructorStep

-----------------------------------------------------------------------------
(* The stopped context.                                                    *)

\* A call made too late does not return.
LEMMA StoppedCaller ==
  ASSUME Frame, StoppedPart, JoinedPart, \A e \in Calls : DonePart(e),
         UNCHANGED awaiter,
         NEW c \in Calls, CallerStep(c) \/ CallerSpuriousWake(c)
  PROVE  StoppedPart' /\ JoinedPart'
  <1> USE HandlerShape DEF StoppedPart, JoinedPart, Frame, ShutdownPart, DonePart,
          Root, TypeInv, TypeOK, Idle, context, callVars,
          rootVars, workerVars, CallAt, WorkerAt
  <1>1. CASE PostStart(c) BY <1>1 DEF PostStart
  <1>2. CASE SetPending(c) BY <1>2 DEF SetPending
  <1>3. CASE NotifyOne(c) BY <1>3 DEF NotifyOne
  <1>4. CASE WaitDone(c) BY <1>4 DEF WaitDone
  <1>5. CASE DestroyFrame(c) BY <1>5 DEF DestroyFrame
  <1>6. CASE ReleaseGuard(c) BY <1>6 DEF ReleaseGuard, StopWhenIdle, OutstandingWork
  <1>7. CASE CallerSpuriousWake(c) BY <1>7 DEF CallerSpuriousWake
  <1> QED BY <1>1, <1>2, <1>3, <1>4, <1>5, <1>6, <1>7 DEF CallerStep

\* The context stops when nothing is left in it, and nothing runs then.
LEMMA StoppedWorker ==
  ASSUME Frame, StoppedPart, JoinedPart, \A e \in Calls : DonePart(e),
         UNCHANGED awaiter,
         NEW w \in Workers, WorkerStep(w) \/ BodyStep(w) \/ WorkerSpuriousWake(w)
  PROVE  StoppedPart' /\ JoinedPart'
  <1>b. wpc[w] \notin Idle => cur[w] \in Handlers /\ cur[w] # NoHandler
    BY BusyWorker, SomeHandler DEF Frame
  <1> USE HandlerShape DEF StoppedPart, JoinedPart, Frame, ShutdownPart, DonePart,
          Root, TypeInv, TypeOK, Idle, context, callVars,
          rootVars, workerVars, CallOf, WorkerAt
  <1>1. CASE AwaitWork(w) BY <1>1, <1>b DEF AwaitWork
  <1>2. CASE EnterRun(w) BY <1>2, <1>b DEF EnterRun, StopWhenIdle, OutstandingWork
  <1>3. CASE LeaveRun(w) BY <1>3, <1>b DEF LeaveRun
  <1>4. CASE TakeHandler(w) BY <1>4, <1>b DEF TakeHandler
  <1>5. CASE MarkDone(w) BY <1>5, <1>b DEF MarkDone
  <1>6. CASE NotifyCaller(w) BY <1>6, <1>b DEF NotifyCaller
  <1>7. CASE FinalSuspend(w) BY <1>7, <1>b DEF FinalSuspend, AfterCoroutine
  <1>8. CASE AssignHandle(w) BY <1>8, <1>b DEF AssignHandle
  <1>9. CASE FinishHandler(w) BY <1>9, <1>b DEF FinishHandler, StopWhenIdle,
                                        OutstandingWork
  <1>10. CASE Spawn(w) BY <1>10, <1>b DEF Spawn
  <1>11. CASE Suspend(w) BY <1>11, <1>b DEF Suspend, AfterCoroutine
  <1>12. CASE Return(w) BY <1>12, <1>b DEF Return
  <1>13. CASE Throw(w) BY <1>13, <1>b DEF Throw
  <1>14. CASE RunTask(w) BY <1>14, <1>b DEF RunTask
  <1>15. CASE WorkerSpuriousWake(w) BY <1>15, <1>b DEF WorkerSpuriousWake
  <1> QED BY <1>1, <1>2, <1>3, <1>4, <1>5, <1>6, <1>7, <1>8, <1>9, <1>10, <1>11,
             <1>12, <1>13, <1>14, <1>15 DEF WorkerStep, BodyStep

\* The destructor joins threads that have left core_work.
LEMMA StoppedOther ==
  ASSUME Frame, StoppedPart, JoinedPart, \A e \in Calls : DonePart(e),
         UNCHANGED awaiter,
         (\E h \in Handlers : CompleteOperation(h)) \/ DestructorStep \/ UNCHANGED vars
  PROVE  StoppedPart' /\ JoinedPart'
  <1> USE DEF StoppedPart, JoinedPart, Frame, ShutdownPart, DonePart,
          Root, TypeInv, TypeOK, Idle, context, callVars,
          rootVars, workerVars
  <1>1. CASE \E h \in Handlers : CompleteOperation(h) BY <1>1 DEF CompleteOperation
  <1>2. CASE SetCoreDone BY <1>2 DEF SetCoreDone
  <1>3. CASE NotifyAll BY <1>3 DEF NotifyAll
  <1>4. CASE Join BY <1>4 DEF Join
  <1>5. CASE UNCHANGED vars BY <1>5 DEF vars
  <1> QED BY <1>1, <1>2, <1>3, <1>4, <1>5 DEF DestructorStep

-----------------------------------------------------------------------------
(* The steps of the core half, in the whole executor.                      *)

\* A step of the core half that leaves the other half alone.
LEMMA CoreKeeps ==
  ASSUME ExecutorInv, Next \/ UNCHANGED vars,
         UNCHANGED <<joinVars, bcpc, bsubmitted, bran>>
  PROVE  ExecutorInv'
  <1>1. IInv'
    BY InvStep DEF ExecutorInv
  <1>2. Frame /\ \A c \in Calls : ControlPart(c) /\ DonePart(c)
    BY DEF ExecutorInv, IInv, Frame
  <1>3. \A d \in Calls : Effect(d)
    BY <1>2, EffectCaller, EffectWorker, EffectOther DEF Next
  <1>4. StoppedPart' /\ JoinedPart'
    BY <1>2, StoppedCaller, StoppedWorker, StoppedOther DEF Next, ExecutorInv, joinVars
  <1>5. JoinPart'
    <2>1. \A t \in parked : callpc'[awaiter[t][2]] # "out"
      BY <1>3, HandlerShape DEF Effect, ExecutorInv, JoinPart
    <2>2. ASSUME NEW w \in Workers, wpc'[w] = "blocking"
          PROVE  /\ bcpc[w] = "push" \/ bsubmitted[w] > 0
                 /\ (IsRoot(w) => steps[CallOf(w)] < StepsEach)'
      <3>0. cur'[w] \in Handlers
        BY <1>1, <2>2 DEF IInv, TypeInv, TypeOK
      <3>1. wpc[w] = "blocking" /\ cur'[w] = cur[w] /\ CallOf(w) \in Calls
        BY <1>3, <2>2, <3>0, HandlerShape DEF Effect, CallOf
      <3>2. ASSUME IsRoot(w) PROVE steps'[CallOf(w)] = steps[CallOf(w)]
        <4>1. \A v \in Workers : wpc[v] = "body" => ~Root(cur[v], CallOf(w))
          BY <1>2, <3>1, <3>2 DEF ControlPart, Controls, Root, IsRoot, CallOf
        <4> QED BY <1>3, <3>1, <4>1 DEF Effect
      <3> QED BY <3>1, <3>2 DEF ExecutorInv, JoinPart, IsRoot, CallOf
    <2>3. UNCHANGED <<bcpc, bsubmitted, awaiter, parked, bran>>
      BY DEF joinVars
    <2> QED BY <2>1, <2>2, <2>3 DEF ExecutorInv, JoinPart, B!Tasks
  <1>6. ASSUME NEW c \in Calls PROVE HeldPart(c)'
    <2>1. steps[c] \in Nat
      BY <1>2, PoolAssumption DEF Frame, TypeInv, TypeOK
    <2> QED BY <1>3, <2>1 DEF HeldPart, Effect, ExecutorInv, joinVars
  <1> QED BY <1>1, <1>4, <1>5, <1>6 DEF ExecutorInv

-----------------------------------------------------------------------------
(* A coroutine in run_blocking.                                            *)

\* What a worker in a coroutine does.
LEMMA InCoroutine ==
  ASSUME ExecutorInv, NEW w \in Workers, wpc[w] \in {"body", "blocking"}
  PROVE  /\ cur[w] \in Handlers /\ CallOf(w) \in Calls
         /\ callpc[CallOf(w)] # "out" /\ ~stopped
  BY BusyWorker, SomeHandler
     DEF ExecutorInv, IInv, TypeInv, TypeOK, OutPart, StoppedPart, Idle, CallOf

\* A worker that goes into run_blocking or comes back keeps control of its root.
LEMMA BlockingControl ==
  ASSUME ExecutorInv, NEW w \in Workers, wpc[w] \in {"body", "blocking"},
         NEW l \in {"body", "blocking"}, WorkerAt(w, l),
         UNCHANGED <<context, pending, coreDone, callVars, rootVars, cur, dpc>>
  PROVE  IInv' /\ StoppedPart' /\ JoinedPart'
  <1> USE DEF context, callVars, rootVars, WorkerAt
  <1>1. /\ TypeInv /\ wpc \in [Workers -> {"wait", "asleep", "enter", "run", "body",
                           "set_done", "notify", "final", "assign", "finish",
                           "exited", "blocking"}]
        /\ cur[w] \in Handlers /\ ~stopped
    BY InCoroutine DEF ExecutorInv, IInv, TypeInv, TypeOK
  <1>2. \A v \in Workers : \/ wpc'[v] = wpc[v]
                           \/ v = w /\ wpc'[v] = l
    BY <1>1
  <1>3. TypeInv'
    BY <1>1, <1>2 DEF TypeInv, TypeOK
  <1>4. OutPart' /\ ShutdownPart' /\ ComingPart'
    BY <1>1, <1>2 DEF ExecutorInv, IInv, OutPart, ShutdownPart, ComingPart, Active,
                      Idle, IsRoot
  <1>5. ASSUME NEW c \in Calls PROVE ControlPart(c)' /\ DonePart(c)' /\ ReclaimPart(c)'
    <2>1. \A v \in Workers : Controls(v, c)' <=> Controls(v, c)
      BY <1>1, <1>2 DEF Controls
    <2>2. \A v \in Workers : wpc'[v] = "assign" <=> wpc[v] = "assign"
      BY <1>2
    <2> QED BY <2>1, <2>2 DEF ExecutorInv, IInv, ControlPart, DonePart, ReclaimPart
  <1>6. StoppedPart' /\ JoinedPart'
    BY <1>1 DEF ExecutorInv, StoppedPart, JoinedPart
  <1> QED BY <1>3, <1>4, <1>5, <1>6 DEF IInv

\* run_blocking is called.
LEMMA RunBlockingKeeps ==
  ASSUME ExecutorInv, NEW w \in Workers, RunBlocking(w)
  PROVE  ExecutorInv'
  <1>1. /\ wpc[w] = "body" /\ MayBlock(w) /\ WorkerAt(w, "blocking")
        /\ bsubmitted[w] < BlockingEach /\ bcpc' = [bcpc EXCEPT ![w] = "push"]
        /\ UNCHANGED <<context, pending, coreDone, callVars, rootVars, cur, dpc>>
        /\ UNCHANGED <<awaiter, parked, bran, bsubmitted>>
    BY DEF RunBlocking, B!BeginPush, B!CallerAt, B!workerVars, joinVars
  <1>2. IInv' /\ StoppedPart' /\ JoinedPart'
    BY <1>1, BlockingControl
  <1>3. wpc \in [Workers -> {"wait", "asleep", "enter", "run", "body", "set_done",
                            "notify", "final", "assign", "finish", "exited", "blocking"}]
    BY DEF ExecutorInv, IInv, TypeInv, TypeOK
  <1>4. JoinPart'
    <2>1. ASSUME NEW v \in Workers
          PROVE  /\ bcpc'[v] = "push" => bsubmitted[v] < BlockingEach
                 /\ wpc'[v] = "blocking" =>
                      /\ bcpc'[v] = "push" \/ bsubmitted[v] > 0
                      /\ IsRoot(v) => steps[CallOf(v)] < StepsEach
      BY <1>1, <1>3 DEF ExecutorInv, JoinPart, MayBlock, WorkerAt
    <2> QED BY <1>1, <2>1
         DEF ExecutorInv, JoinPart, B!Tasks, callVars, rootVars, IsRoot, CallOf
  <1>5. ASSUME NEW c \in Calls PROVE HeldPart(c)'
    <2>1. \A v \in Workers : Controls(v, c)' <=> Controls(v, c)
      BY <1>1, <1>3 DEF Controls, WorkerAt
    <2> QED BY <1>1, <2>1 DEF ExecutorInv, HeldPart, Elsewhere, context, callVars, rootVars
  <1> QED BY <1>2, <1>4, <1>5 DEF ExecutorInv

\* The rest of run_blocking: the task is linked, counted and notified.
LEMMA InRunBlockingKeeps ==
  ASSUME ExecutorInv, NEW w \in Workers, InRunBlocking(w)
  PROVE  ExecutorInv'
  <1>1. /\ UNCHANGED vars /\ awaiter' = awaiter /\ parked' = parked /\ bran' = bran
        /\ \E l \in {"count", "try_lock", "unlock", "notify", "idle"} :
             bcpc' = [bcpc EXCEPT ![w] = l]
        /\ \/ bsubmitted' = bsubmitted /\ bcpc[w] # "push"
           \/ bsubmitted' = [bsubmitted EXCEPT ![w] = @ + 1] /\ bcpc[w] = "push"
    BY DEF InRunBlocking, B!PushTask, B!Count, B!TryLock, B!Unlock, B!NotifyOne,
           B!CallerAt, B!workerVars, B!callerVars, joinVars
  <1>2. IInv'
    BY <1>1, InvStep DEF ExecutorInv
  <1>3. StoppedPart' /\ JoinedPart' /\ \A c \in Calls : HeldPart(c)'
    BY <1>1 DEF ExecutorInv, StoppedPart, JoinedPart, HeldPart, Elsewhere, Controls, vars,
                context, callVars, rootVars, workerVars
  <1>4. JoinPart'
    <2>1. /\ bsubmitted \in [Workers -> 0..BlockingEach]
          /\ bcpc \in [Workers -> {"idle", "push", "count", "try_lock", "unlock", "notify"}]
          /\ \A v \in Workers : bcpc[v] = "push" => bsubmitted[v] < BlockingEach
      BY DEF ExecutorInv, JoinPart
    <2>2. /\ bsubmitted' \in [Workers -> 0..BlockingEach]
          /\ \A v \in Workers : /\ bsubmitted[v] \in Nat /\ bsubmitted[v] <= bsubmitted'[v]
                                /\ bcpc[v] = "push" /\ v = w => bsubmitted'[v] > 0
                                /\ v # w => bsubmitted'[v] = bsubmitted[v]
      BY <1>1, <2>1, ExecutorAssumption
    <2>3. /\ bcpc' \in [Workers -> {"idle", "push", "count", "try_lock", "unlock", "notify"}]
          /\ bcpc'[w] # "push" /\ \A v \in Workers : v # w => bcpc'[v] = bcpc[v]
      BY <1>1, <2>1
    <2>4. ASSUME NEW t \in parked PROVE t[2] <= bsubmitted'[t[1]]
      <3>1. t[1] \in Workers /\ t[2] \in Nat /\ t[2] <= bsubmitted[t[1]]
        BY ExecutorAssumption DEF ExecutorInv, JoinPart, B!Tasks
      <3> QED BY <2>2, <3>1
    <2>5. ASSUME NEW v \in Workers
          PROVE  /\ bcpc'[v] = "push" => bsubmitted'[v] < BlockingEach
                 /\ wpc[v] = "blocking" => bcpc'[v] = "push" \/ bsubmitted'[v] > 0
      <3>1. bcpc'[v] = "push" => bsubmitted'[v] < BlockingEach
        BY <2>1, <2>2, <2>3
      <3>2. wpc[v] = "blocking" => bcpc[v] = "push" \/ bsubmitted[v] > 0
        BY DEF ExecutorInv, JoinPart
      <3> QED BY <2>2, <2>3, <3>1, <3>2
    <2>6. UNCHANGED <<wpc, cur, steps, callpc>>
      BY <1>1 DEF vars, workerVars, rootVars, callVars
    <2> QED BY <1>1, <2>2, <2>3, <2>4, <2>5, <2>6
            DEF ExecutorInv, JoinPart, B!Tasks, IsRoot, CallOf
  <1> QED BY <1>2, <1>3, <1>4 DEF ExecutorInv

\* The function had been called before the coroutine awaited it.
LEMMA AwaitReadyKeeps ==
  ASSUME ExecutorInv, NEW w \in Workers, wpc[w] = "blocking", WorkerAt(w, "body"),
         UNCHANGED <<context, pending, coreDone, callVars, rootVars, cur, dpc>>,
         UNCHANGED <<blockingVars, joinVars>>
  PROVE  ExecutorInv'
  <1>1. IInv' /\ StoppedPart' /\ JoinedPart'
    BY BlockingControl
  <1>2. wpc \in [Workers -> {"wait", "asleep", "enter", "run", "body", "set_done",
                            "notify", "final", "assign", "finish", "exited", "blocking"}]
    BY DEF ExecutorInv, IInv, TypeInv, TypeOK
  <1>3. JoinPart'
    <2>1. \A v \in Workers : wpc'[v] = "blocking" => wpc[v] = "blocking"
      BY <1>2 DEF WorkerAt
    <2>2. UNCHANGED <<bcpc, bsubmitted, bran, awaiter, parked, callpc, steps, cur>>
      BY DEF blockingVars, joinVars, callVars, rootVars
    <2> QED BY <2>1, <2>2 DEF ExecutorInv, JoinPart, B!Tasks, IsRoot, CallOf
  <1>4. ASSUME NEW c \in Calls PROVE HeldPart(c)'
    <2>1. \A v \in Workers : Controls(v, c)' <=> Controls(v, c)
      BY <1>2 DEF Controls, WorkerAt
    <2> QED BY <2>1 DEF ExecutorInv, HeldPart, Elsewhere, context, callVars, rootVars,
                        joinVars
  <1> QED BY <1>1, <1>3, <1>4 DEF ExecutorInv

\* A coroutine that awaits a function not called yet gives control back.
Gives(w) ==
  /\ wpc[w] = "blocking" /\ bcpc[w] = "idle" /\ <<w, bsubmitted[w]>> \notin bran
  /\ WorkerAt(w, AfterCoroutine(w))
  /\ awaiter' = [awaiter EXCEPT ![<<w, bsubmitted[w]>>] = Resumption(w)]
  /\ parked' = parked \cup {<<w, bsubmitted[w]>>}
  /\ steps' = IF IsRoot(w) THEN [steps EXCEPT ![CallOf(w)] = @ + 1] ELSE steps
  /\ UNCHANGED <<context, pending, coreDone, callVars, spawned, cur, dpc,
                 blockingVars>>

\* What resumes it.
LEMMA ResumptionShape ==
  ASSUME ExecutorInv, NEW w \in Workers, wpc[w] = "blocking"
  PROVE  /\ Resumption(w) \in Handlers /\ Resumption(w)[2] = CallOf(w)
         /\ IsRoot(w) => Resumption(w)[1] = "step"
         /\ ~IsRoot(w) => \A c : ~Root(Resumption(w), c)
         /\ IsRoot(w) => steps[CallOf(w)] + 1 \in 1..StepsEach
  <1>1. cur[w] \in Handlers /\ CallOf(w) \in Calls
    BY InCoroutine
  <1>2. ASSUME IsRoot(w)
        PROVE  steps[CallOf(w)] + 1 \in 1..StepsEach
    BY <1>1, <1>2, PoolAssumption DEF ExecutorInv, JoinPart, IInv, TypeInv, TypeOK
  <1> QED BY <1>1, <1>2, HandlerShape DEF Resumption, IsRoot, CallOf, Root

\* The core half of it: as when a root suspends on an operation, but nothing is
\* in flight.
LEMMA GivesCore ==
  ASSUME ExecutorInv, NEW w \in Workers, Gives(w)
  PROVE  IInv' /\ StoppedPart' /\ JoinedPart'
  <1> DEFINE d == CallOf(w)
  <1>1. /\ TypeInv /\ cur[w] \in Handlers /\ d \in Calls /\ callpc[d] # "out" /\ ~stopped
        /\ wpc[w] = "blocking"
        /\ wpc \in [Workers -> {"wait", "asleep", "enter", "run", "body", "set_done",
                            "notify", "final", "assign", "finish", "exited", "blocking"}]
    BY InCoroutine DEF ExecutorInv, IInv, TypeInv, TypeOK, Gives
  <1>2. /\ wpc' \in [Workers -> {"wait", "asleep", "enter", "run", "body", "set_done",
                            "notify", "final", "assign", "finish", "exited", "blocking"}]
        /\ wpc'[w] = AfterCoroutine(w) /\ wpc'[w] \in {"assign", "finish"}
        /\ \A v \in Workers : v # w => wpc'[v] = wpc[v]
        /\ UNCHANGED <<ready, inflight, stopped, pending, coreDone, callpc, done, handle,
                       frame, spawned, cur, dpc>>
    BY <1>1 DEF Gives, WorkerAt, AfterCoroutine, context, callVars
  <1>3. /\ steps' \in [Calls -> 0..StepsEach] /\ steps \in [Calls -> Nat]
        /\ \A c \in Calls : \/ steps'[c] = steps[c]
                            \/ c = d /\ IsRoot(w) /\ steps'[c] = steps[c] + 1
    BY <1>1, ResumptionShape, PoolAssumption DEF Gives, TypeInv, TypeOK
  <1>4. TypeInv'
    BY <1>1, <1>2, <1>3 DEF TypeInv, TypeOK
  <1>5. OutPart' /\ ShutdownPart' /\ ComingPart'
    <2>1. OutPart'
      BY <1>1, <1>2, <1>3 DEF ExecutorInv, IInv, OutPart, Idle, IsRoot, CallOf
    <2>2. ShutdownPart'
      BY <1>1, <1>2 DEF ExecutorInv, IInv, ShutdownPart
    <2>3. ComingPart'
      BY <1>1, <1>2 DEF ExecutorInv, IInv, ComingPart, Active
    <2> QED BY <2>1, <2>2, <2>3
  <1>6. ASSUME NEW c \in Calls PROVE ControlPart(c)' /\ DonePart(c)' /\ ReclaimPart(c)'
    <2>1. ControlPart(c) /\ DonePart(c) /\ ReclaimPart(c)
      BY DEF ExecutorInv, IInv
    <2>2. \A v \in Workers : Controls(v, c)' => Controls(v, c) /\ v # w
      BY <1>2 DEF Controls
    <2>3. ControlPart(c)' /\ DonePart(c)'
      BY <1>2, <2>1, <2>2 DEF ControlPart, DonePart
    <2>4. CASE steps'[c] = steps[c]
      <3>1. \A v \in Workers : wpc[v] = "assign" => wpc'[v] = "assign"
        BY <1>1, <1>2
      <3> QED BY <1>2, <2>1, <2>2, <2>3, <2>4, <3>1 DEF ReclaimPart
    <2>5. CASE c = d /\ IsRoot(w) /\ steps'[c] = steps[c] + 1
      <3>1. Controls(w, c)
        BY <1>1, <2>5 DEF Controls, Root, IsRoot, CallOf
      <3>2. ~done[c] /\ \A h \in ready \cup inflight : ~Root(h, c)
        BY <2>1, <3>1 DEF ControlPart, DonePart
      <3>3. Start(c) \notin ready \cup inflight
        BY <3>2, HandlerShape DEF Root
      <3>4. \A v \in Workers : ~Controls(v, c)'
        BY <2>1, <2>2, <3>1 DEF ControlPart
      <3>5. steps'[c] > 0
        BY <1>3, <2>5
      <3>6. callpc[c] \notin {"release", "returned"}
        BY <2>1, <3>2 DEF DonePart
      <3>7. (\A u, v \in Workers : u = v) =>
              handle[c] \/ (wpc'[w] = "assign" /\ cur[w] = Start(c))
        BY <1>1, <1>2, <2>1, <2>5, <3>1, HandlerShape
           DEF ReclaimPart, AfterCoroutine, CallOf
      <3> QED BY <1>2, <2>3, <3>2, <3>3, <3>4, <3>5, <3>6, <3>7 DEF ReclaimPart
    <2> QED BY <1>3, <2>4, <2>5
  <1>7. StoppedPart' /\ JoinedPart'
    BY <1>1, <1>2 DEF ExecutorInv, StoppedPart, JoinedPart
  <1> QED BY <1>4, <1>5, <1>6, <1>7 DEF IInv

\* And the other: the task keeps the resumption until it has run.
LEMMA GivesKeeps ==
  ASSUME ExecutorInv, NEW w \in Workers, Gives(w)
  PROVE  ExecutorInv'
  <1> DEFINE t == <<w, bsubmitted[w]>>
             d == CallOf(w)
             r == Resumption(w)
  <1>1. /\ cur[w] \in Handlers /\ d \in Calls /\ callpc[d] # "out" /\ wpc[w] = "blocking"
        /\ wpc \in [Workers -> {"wait", "asleep", "enter", "run", "body", "set_done",
                            "notify", "final", "assign", "finish", "exited", "blocking"}]
        /\ steps \in [Calls -> Nat]
    BY InCoroutine, PoolAssumption DEF ExecutorInv, IInv, TypeInv, TypeOK, Gives
  <1>2. /\ r \in Handlers /\ r[2] = d /\ (IsRoot(w) => r[1] = "step")
        /\ ~IsRoot(w) => \A c : ~Root(r, c)
    BY <1>1, ResumptionShape
  <1>3. t \in B!Tasks /\ t[1] = w /\ t[2] = bsubmitted[w] /\ t \notin bran
    <2>1. bsubmitted[w] \in 1..BlockingEach
      BY <1>1, ExecutorAssumption DEF ExecutorInv, JoinPart, Gives
    <2> QED BY <2>1 DEF B!Tasks, Gives
  <1>4. /\ UNCHANGED <<ready, inflight, callpc, done, cur, bcpc, bsubmitted, bran>>
        /\ parked' = parked \cup {t}
        /\ awaiter' \in [B!Tasks -> Handlers \cup {NoHandler}] /\ awaiter'[t] = r
        /\ \A s \in B!Tasks : s # t => awaiter'[s] = awaiter[s]
    BY <1>2, <1>3 DEF Gives, context, callVars, blockingVars, ExecutorInv, JoinPart
  <1>5. /\ \A v \in Workers : wpc'[v] \in {"body", "set_done", "blocking"} =>
                                 v # w /\ wpc'[v] = wpc[v]
        /\ \A c \in Calls : c # d \/ ~IsRoot(w) => steps'[c] = steps[c]
        /\ IsRoot(w) => steps'[d] = steps[d] + 1
    BY <1>1 DEF Gives, WorkerAt, AfterCoroutine
  <1>6. \A c \in Calls : \A v \in Workers : Controls(v, c)' => Controls(v, c) /\ v # w
    BY <1>4, <1>5 DEF Controls
  <1>7. JoinPart'
    <2>1. parked' \subseteq B!Tasks /\ bran' \cap parked' = {}
      BY <1>3, <1>4 DEF ExecutorInv, JoinPart
    <2>2. ASSUME NEW s \in parked'
          PROVE  /\ awaiter'[s] \in Handlers /\ callpc[awaiter'[s][2]] # "out"
                 /\ s[2] <= bsubmitted[s[1]]
      <3>1. CASE s = t
        <4>1. bsubmitted[w] \in Nat
          BY ExecutorAssumption DEF ExecutorInv, JoinPart
        <4> QED BY <1>1, <1>2, <1>3, <1>4, <3>1, <4>1
      <3>2. CASE s # t
        BY <1>4, <2>1, <3>2 DEF ExecutorInv, JoinPart
      <3> QED BY <3>1, <3>2
    <2>3. ASSUME NEW v \in Workers, wpc'[v] = "blocking"
          PROVE  /\ bcpc[v] = "push" \/ bsubmitted[v] > 0
                 /\ IsRoot(v) => steps'[CallOf(v)] < StepsEach
      <3>1. wpc[v] = "blocking" /\ v # w /\ CallOf(v) \in Calls
        BY <1>5, <2>3, InCoroutine
      <3>2. ASSUME IsRoot(v) PROVE ~(CallOf(v) = d /\ IsRoot(w))
        BY <1>1, <3>1, <3>2 DEF ExecutorInv, IInv, ControlPart, Controls, Root, IsRoot,
           CallOf
      <3> QED BY <1>5, <3>1, <3>2 DEF ExecutorInv, JoinPart
    <2> HIDE DEF t, d, r
    <2> QED BY <1>4, <2>1, <2>2, <2>3 DEF ExecutorInv, JoinPart, B!Tasks, IsRoot, CallOf
  <1>8. ASSUME NEW c \in Calls PROVE HeldPart(c)'
    <2>1. ControlPart(c) /\ DonePart(c) /\ HeldPart(c) /\ parked \subseteq B!Tasks
      BY DEF ExecutorInv, IInv, JoinPart
    <2>2. Elsewhere(c)' => Elsewhere(c)
      BY <1>4, <1>6 DEF Elsewhere
    <2>3. CASE c = d /\ IsRoot(w)
      <3>1. Controls(w, c)
        BY <1>1, <2>3 DEF Controls, Root, IsRoot, CallOf
      <3>2. ~Elsewhere(c)'
        BY <1>1, <1>4, <1>6, <2>1, <2>3, <3>1 DEF ControlPart, DonePart, Elsewhere
      <3>3. \A s \in parked : ~Root(awaiter[s], c)
        BY <2>1, <3>1 DEF HeldPart, Elsewhere
      <3>4. \A s \in parked' : Root(awaiter'[s], c) => s = t
        BY <1>4, <2>1, <3>3
      <3>5. steps'[c] > 0
        BY <1>1, <1>5, <2>3
      <3> QED BY <1>2, <1>4, <2>3, <3>2, <3>4, <3>5 DEF HeldPart
    <2>4. CASE c # d \/ ~IsRoot(w)
      <3>1. ~Root(r, c)
        BY <1>2, <2>4 DEF Root
      <3>2. \A s \in parked' :
              Root(awaiter'[s], c) => s \in parked /\ awaiter'[s] = awaiter[s]
        BY <1>4, <2>1, <3>1
      <3> QED BY <1>5, <2>1, <2>2, <2>4, <3>2 DEF HeldPart
    <2> QED BY <2>3, <2>4
  <1> QED BY <1>7, <1>8, GivesCore DEF ExecutorInv

-----------------------------------------------------------------------------
(* A blocking thread posts a coroutine back.                               *)

\* The coroutine is in one place again, the context, also when that has stopped.
LEMMA WakeKeeps ==
  ASSUME ExecutorInv, NEW b \in BlockingWorkers, RunTaskAndWake(b)
  PROVE  ExecutorInv'
  <1> DEFINE t == btask[b]
  <1>1. /\ bran' = bran \cup {t} /\ parked' = parked \ {t} /\ ready' = ready \cup Wake(t)
        /\ UNCHANGED <<bcpc, bsubmitted, awaiter, inflight, stopped, pending, coreDone, callpc,
                       done, handle, frame, steps, spawned, wpc, cur, dpc>>
    BY DEF RunTaskAndWake, B!RunTask, B!callerVars, callVars, rootVars, workerVars
  <1>2. JoinPart /\ TypeInv /\ steps \in [Calls -> Nat]
    BY PoolAssumption DEF ExecutorInv, IInv, TypeInv, TypeOK
  <1>3. \A h \in Wake(t) : /\ t \in parked /\ h = awaiter[t] /\ h \in Handlers
                           /\ callpc[h[2]] # "out" /\ h \in Range(awaiter)
    BY <1>2 DEF Wake, JoinPart, Range
  <1> HIDE DEF t
  <1>4. TypeInv'
    BY <1>1, <1>2, <1>3 DEF TypeInv, TypeOK
  <1>5. OutPart' /\ ShutdownPart' /\ ComingPart'
    BY <1>1, <1>3 DEF ExecutorInv, IInv, OutPart, ShutdownPart, ComingPart, Active, IsRoot
  <1>6. ASSUME NEW c \in Calls
        PROVE  /\ ControlPart(c)' /\ DonePart(c)' /\ ReclaimPart(c)'
               /\ HeldPart(c)'
    <2>1. ControlPart(c) /\ DonePart(c) /\ ReclaimPart(c) /\ HeldPart(c)
      BY DEF ExecutorInv, IInv
    <2>2. \A v \in Workers : Controls(v, c)' <=> Controls(v, c)
      BY <1>1 DEF Controls
    <2>3. CASE \A h \in Wake(t) : ~Root(h, c)
      <3>1. \A h \in ready' \cup inflight : Root(h, c) => h \in ready \cup inflight
        BY <1>1, <2>3
      <3>2. \A h \in ready' \cap inflight : Root(h, c) => h \in ready \cap inflight
        BY <1>1, <2>3
      <3>3. ControlPart(c)' /\ DonePart(c)'
        BY <1>1, <2>1, <2>2, <3>1, <3>2 DEF ControlPart, DonePart
      <3>4. Start(c) \in ready' \cup inflight => Start(c) \in ready \cup inflight
        BY <3>1, HandlerShape DEF Root
      <3>5. ReclaimPart(c)'
        BY <1>1, <2>1, <2>2, <3>1, <3>4 DEF ReclaimPart
      <3>6. HeldPart(c)'
        BY <1>1, <2>1, <2>2, <3>1 DEF HeldPart, Elsewhere
      <3> QED BY <3>3, <3>5, <3>6
    <2>4. CASE t \in parked /\ Wake(t) = {awaiter[t]} /\ Root(awaiter[t], c)
      <3>1. /\ ~Elsewhere(c) /\ steps[c] > 0 /\ awaiter[t][1] = "step"
            /\ \A s \in parked : Root(awaiter[s], c) => s = t
        BY <2>1, <2>4 DEF HeldPart
      <3>2. /\ ~done[c] /\ callpc[c] # "out"
            /\ \A h \in ready \cup inflight : ~Root(h, c)
            /\ \A v \in Workers : ~Controls(v, c)'
        BY <2>2, <3>1 DEF Elsewhere
      <3>3. \A h \in ready' \cup inflight :
              Root(h, c) => h = awaiter[t] /\ h \notin inflight
        BY <1>1, <2>4, <3>2
      <3>4. ControlPart(c)' /\ DonePart(c)'
        BY <1>1, <2>1, <3>2, <3>3 DEF ControlPart, DonePart
      <3>5. Start(c) \notin ready' \cup inflight
        BY <3>1, <3>3, HandlerShape DEF Root
      <3>6. ReclaimPart(c)'
        BY <1>1, <2>1, <3>1, <3>2, <3>5 DEF ReclaimPart
      <3>7. HeldPart(c)'
        BY <1>1, <3>1 DEF HeldPart
      <3> QED BY <3>4, <3>6, <3>7
    <2> QED BY <2>3, <2>4 DEF Wake
  <1>7. StoppedPart' /\ JoinedPart'
    BY <1>1, <1>3 DEF ExecutorInv, StoppedPart, JoinedPart
  <1>8. JoinPart'
    BY <1>1, <1>2 DEF JoinPart, B!Tasks, IsRoot, CallOf
  <1> QED BY <1>4, <1>5, <1>6, <1>7, <1>8 DEF ExecutorInv, IInv

\* A step of the other half alone.
LEMMA OtherKeeps ==
  ASSUME ExecutorInv, UNCHANGED <<vars, joinVars>>, UNCHANGED <<bcpc, bsubmitted, bran>>
  PROVE  ExecutorInv'
  BY CoreKeeps DEF joinVars

-----------------------------------------------------------------------------
(* The invariant of the whole executor and what follows from it.           *)

\* Nobody has called anything.
LEMMA ExecutorInvInit == ExecutorInit => ExecutorInv
  <1> SUFFICES ASSUME ExecutorInit PROVE ExecutorInv
    OBVIOUS
  <1>1. IInv
    BY InvInit DEF ExecutorInit
  <1>2. JoinPart /\ StoppedPart /\ JoinedPart /\ \A c \in Calls : HeldPart(c)
    BY ExecutorAssumption DEF ExecutorInit, Init, B!Init, JoinPart, StoppedPart,
       JoinedPart, HeldPart
  <1> QED BY <1>1, <1>2 DEF ExecutorInv

\* Every step of either half keeps it.
LEMMA ExecutorInvStep == ExecutorInv /\ [ExecutorNext]_allVars => ExecutorInv'
  <1> SUFFICES ASSUME ExecutorInv, [ExecutorNext]_allVars PROVE ExecutorInv'
    OBVIOUS
  <1>q. Quiet => UNCHANGED <<joinVars, bcpc, bsubmitted, bran>>
    BY DEF Quiet, blockingVars
  <1>1. CASE \E c \in Calls : CallOn(c)
    BY <1>1, <1>q, CoreKeeps DEF CallOn, Next
  <1>2. CASE \E w \in Workers : CoreStep(w) \/ (BodyStep(w) /\ Quiet)
    BY <1>2, <1>q, CoreKeeps DEF CoreStep, Next
  <1>3. ASSUME NEW w \in Workers, RunBlocking(w) PROVE ExecutorInv'
    BY <1>3, RunBlockingKeeps
  <1>4. ASSUME NEW w \in Workers, InRunBlocking(w) PROVE ExecutorInv'
    BY <1>4, InRunBlockingKeeps
  <1>5. ASSUME NEW w \in Workers, AwaitBlocking(w) PROVE ExecutorInv'
    <2>1. CASE <<w, bsubmitted[w]>> \in bran
      BY <1>5, <2>1, AwaitReadyKeeps DEF AwaitBlocking, rootVars
    <2>2. CASE <<w, bsubmitted[w]>> \notin bran
      <3>1. Gives(w)
        BY <1>5, <2>2 DEF AwaitBlocking, Gives
      <3> QED BY <3>1, GivesKeeps
    <2> QED BY <2>1, <2>2
  <1>6. ASSUME NEW b \in BlockingWorkers, BlockingWorkerStep(b) PROVE ExecutorInv'
    <2>1. CASE RunTaskAndWake(b)
      BY <2>1, WakeKeeps
    <2>2. CASE ~RunTaskAndWake(b)
      BY <1>6, <2>2, OtherKeeps DEF BlockingWorkerStep, B!PopTask, B!PopDummy,
         B!PopNothing, B!Uncount, B!Lock, B!TestPredicate, B!Block, B!callerVars,
         B!workerVars
    <2> QED BY <2>1, <2>2
  <1>7. CASE \E h \in Handlers : CompleteOperation(h) /\ Quiet
    BY <1>7, <1>q, CoreKeeps DEF Next
  <1>8. CASE DestroyExecutor \/ JoinBlocking
    BY <1>8, OtherKeeps DEF DestroyExecutor, JoinBlocking, B!Destroy, B!SetDone,
       B!NotifyAll, B!Join, B!callerVars, B!workerVars
  <1>9. CASE JoinCore
    BY <1>9, <1>q, CoreKeeps DEF JoinCore, Next, DestructorStep
  <1>10. CASE UNCHANGED allVars
    BY <1>10, OtherKeeps DEF allVars, blockingVars
  <1>11. ASSUME NEW b \in BlockingWorkers, LoseBlocking(b) PROVE ExecutorInv'
    BY <1>11, OtherKeeps DEF LoseBlocking, B!LoseTask, B!callerVars, B!workerVars
  <1> QED BY <1>1, <1>2, <1>3, <1>4, <1>5, <1>6, <1>7, <1>8, <1>9, <1>10,
          <1>11 DEF ExecutorNext, CoroutineStep, ExecutorDestructor

\* The invariant holds always.
LEMMA ExecutorInductive == ExecutorSpec => []ExecutorInv
  BY ExecutorInvInit, ExecutorInvStep, PTL DEF ExecutorSpec

\* In the whole executor, with coroutines in run_blocking, the core half keeps
\* its state well formed.
THEOREM ExecutorTypeCorrect == ExecutorSpec => []TypeOK
  <1>1. ExecutorInv => TypeOK
    BY DEF ExecutorInv, IInv, TypeInv
  <1> QED BY <1>1, ExecutorInductive, PTL

\* When ~executor has joined both halves, every task the roots spawned has run
\* to its end, or it awaited a blocking function: a context that is not stopped
\* still has its thread in run(), and one that stopped had nothing left but what
\* blocking threads posted to it afterwards.
THEOREM OnlyBlockedLeft == ExecutorSpec => []OnlyBlockedAbandoned
  <1>1. ASSUME ExecutorInv, dpc = "joined"
        PROVE  /\ inflight = {} /\ ready \subseteq Range(awaiter)
               /\ bran \cap parked = {}
    <2>1. /\ \A w \in Workers : wpc[w] = "exited"
          /\ \A c \in Calls : callpc[c] \in {"out", "returned"}
      BY <1>1 DEF ExecutorInv, JoinedPart, IInv, ShutdownPart
    <2>2. CASE stopped
      BY <1>1, <2>1, <2>2 DEF ExecutorInv, JoinPart, StoppedPart
    <2>3. CASE ~stopped
      <3>1. \A c \in Calls : callpc[c] = "out"
        BY <1>1, <2>1, <2>3 DEF ExecutorInv, IInv, ComingPart, Active
      <3>2. ready = {} /\ inflight = {}
        BY <1>1, <3>1, HandlerShape DEF ExecutorInv, IInv, TypeInv, TypeOK, OutPart
      <3> QED BY <1>1, <3>2 DEF ExecutorInv, JoinPart
    <2> QED BY <2>2, <2>3
  <1>2. ExecutorInv => OnlyBlockedAbandoned
    BY <1>1 DEF OnlyBlockedAbandoned
  <1> QED BY <1>2, ExecutorInductive, PTL

\* A root that waits for a blocking function does not let its block_on return
\* either: it has not ended, and nothing but the blocking thread resumes it.
THEOREM ExecutorReturnsAfterRoot ==
  ExecutorSpec => [](ReturnsWhenDone /\ ParkedRootIsWaitedFor)
  <1>1. ExecutorInv => ReturnsWhenDone
    BY DoneIsReturned DEF ExecutorInv
  <1>2. ExecutorInv => ParkedRootIsWaitedFor
    <2> SUFFICES ASSUME ExecutorInv, NEW t \in parked, awaiter[t][1] = "step"
                 PROVE  callpc[awaiter[t][2]] \in {"flag", "notify", "wait", "asleep"}
      BY DEF ParkedRootIsWaitedFor
    <2>1. awaiter[t][2] \in Calls /\ Root(awaiter[t], awaiter[t][2])
      BY HandlerShape DEF ExecutorInv, JoinPart, Root
    <2>2. ~done[awaiter[t][2]] /\ callpc[awaiter[t][2]] # "out"
      BY <2>1 DEF ExecutorInv, HeldPart, Elsewhere
    <2> QED BY <2>1, <2>2 DEF ExecutorInv, IInv, TypeInv, TypeOK, DonePart
  <1> QED BY <1>1, <1>2, ExecutorInductive, PTL

\* No lost wake-up in the whole executor: for a coroutine that a blocking thread
\* posts back too, somebody comes, unless the context has stopped.
THEOREM ExecutorNoLostWakeup == ExecutorSpec => []SomeoneComes
  <1>1. ExecutorInv => SomeoneComes
    BY ComesWhenReady DEF ExecutorInv
  <1> QED BY <1>1, ExecutorInductive, PTL

\* With one core thread, also a root that suspended on a blocking function has
\* had `handle` assigned when its block_on gets there.
THEOREM ExecutorRootReclaimed ==
  ASSUME \A v, w \in Workers : v = w
  PROVE  ExecutorSpec => []SuspendedRootReclaimed
  <1>1. ExecutorInv => SuspendedRootReclaimed
    BY DEF ExecutorInv, IInv, ReclaimPart, SuspendedRootReclaimed
  <1> QED BY <1>1, ExecutorInductive, PTL

-----------------------------------------------------------------------------
(* The blocking half, inside the executor.  What BlockingPoolProofs proves *)
(* of BlockingPool holds here, because what the executor does to that half *)
(* is what BlockingPool does.                                              *)

BP == INSTANCE BlockingPoolProofs
        WITH Callers <- Workers, Workers <- BlockingWorkers, TasksEach <- BlockingEach,
             tasks <- bqueue, lag <- blag, lost <- blost, waiting <- bwaiting,
             mut <- bmut, done <- bdone, cpc <- bcpc, submitted <- bsubmitted, wpc <- bwpc,
             task <- btask, dpc <- bdpc, ran <- bran, contended <- bcontended

\* The variables of the two halves are apart.
LEMMA BlockingVars ==
  /\ UNCHANGED blockingVars => UNCHANGED B!vars
  /\ Quiet => UNCHANGED B!vars
  BY DEF Quiet, blockingVars, B!vars, B!queueVars, B!callerVars, B!workerVars

\* A step of the executor is a step of its blocking half, or leaves it alone.
LEMMA BlockingStep == [ExecutorNext]_allVars => [B!Next]_(B!vars)
  <1> SUFFICES ASSUME [ExecutorNext]_allVars PROVE [B!Next]_(B!vars)
    OBVIOUS
  <1>1. CASE \/ \E c \in Calls : CallOn(c)
             \/ \E w \in Workers : CoreStep(w) \/ (BodyStep(w) /\ Quiet)
             \/ \E h \in Handlers : CompleteOperation(h) /\ Quiet
             \/ JoinCore
    BY <1>1, BlockingVars DEF CallOn, CoreStep, JoinCore
  <1>2. CASE \E w \in Workers : RunBlocking(w) \/ InRunBlocking(w)
    BY <1>2 DEF RunBlocking, InRunBlocking, B!Next, B!CallerStep
  <1>3. CASE \E w \in Workers : AwaitBlocking(w)
    BY <1>3, BlockingVars DEF AwaitBlocking
  <1>4. CASE \E b \in BlockingWorkers : BlockingWorkerStep(b) \/ LoseBlocking(b)
    BY <1>4 DEF BlockingWorkerStep, RunTaskAndWake, LoseBlocking, B!Next, B!WorkerStep
  <1>5. CASE DestroyExecutor \/ JoinBlocking
    BY <1>5 DEF DestroyExecutor, JoinBlocking, B!Next, B!DestructorStep
  <1>6. CASE UNCHANGED allVars
    BY <1>6, BlockingVars DEF allVars
  <1> QED BY <1>1, <1>2, <1>3, <1>4, <1>5, <1>6
          DEF ExecutorNext, CoroutineStep, ExecutorDestructor

\* The executor implements BlockingPool, with coroutines on core threads as the
\* callers of run_blocking: their awaits, the posts back to the io_context and
\* the order in which ~executor joins the halves leave its safety as it is.
THEOREM BlockingHalfImplements == ExecutorSpec => B!Init /\ [][B!Next]_(B!vars)
  <1>1. ExecutorInit => B!Init
    BY DEF ExecutorInit
  <1> QED BY <1>1, BlockingStep, PTL DEF ExecutorSpec

\* Finite sets and cardinalities are the same seen from either module.
LEMMA SameCardinality ==
  /\ \A S : BP!IsFiniteSet(S) <=> IsFiniteSet(S)
  /\ \A S : BP!Cardinality(S) = Cardinality(S)
  <1>1. \A S : BP!IsFiniteSet(S) <=> IsFiniteSet(S)
    BY DEF BP!IsFiniteSet, IsFiniteSet
  <1>2. \A S : BP!Cardinality(S) = Cardinality(S)
    BY DEF BP!Cardinality, Cardinality, BP!IsFiniteSet, IsFiniteSet
  <1> QED BY <1>1, <1>2

\* The two instances of BlockingPool are one.
LEMMA SameInstance ==
  /\ B!Init => BP!Init
  /\ [B!Next]_(B!vars) => [BP!Next]_(BP!vars)
  <1> USE DEF B!Unlocked, BP!Unlocked, B!NoTask, BP!NoTask, B!Started, BP!Started,
          B!queueVars, BP!queueVars, B!callerVars, BP!callerVars, B!workerVars,
          BP!workerVars
  <1>1. B!Init => BP!Init
    BY DEF B!Init, BP!Init, B!Queue!Init, BP!Queue!Init
  <1>2. B!vars = BP!vars /\ B!vars' = BP!vars'
    BY DEF B!vars, BP!vars
  <1> USE DEF B!CallerAt, BP!CallerAt, B!WorkerAt, BP!WorkerAt, B!Add, BP!Add,
          B!Tasks, BP!Tasks
  <1>3. ASSUME NEW w \in Workers, B!CallerStep(w) PROVE BP!CallerStep(w)
    BY <1>3 DEF B!CallerStep, BP!CallerStep, B!BeginPush, BP!BeginPush, B!PushTask, BP!PushTask, B!Queue!Push,
       BP!Queue!Push, B!Count, BP!Count, B!TryLock, BP!TryLock, B!Unlock, BP!Unlock,
       B!NotifyOne, BP!NotifyOne
  <1>4. ASSUME NEW b \in BlockingWorkers, B!WorkerStep(b) \/ B!SpuriousWake(b)
        PROVE  BP!WorkerStep(b) \/ BP!SpuriousWake(b)
    <2>1. B!Hidden(b) <=> BP!Hidden(b)
      BY DEF B!Hidden, BP!Hidden
    <2> QED BY <1>4, <2>1 DEF B!WorkerStep, BP!WorkerStep, B!SpuriousWake, BP!SpuriousWake,
       B!PopTask, BP!PopTask, B!Queue!PopItem, BP!Queue!PopItem, B!PopDummy,
       BP!PopDummy, B!Queue!PopMiss, BP!Queue!PopMiss, B!PopNothing, BP!PopNothing,
       B!Uncount, BP!Uncount, B!RunTask, BP!RunTask, B!Lock, BP!Lock,
       B!TestPredicate, BP!TestPredicate, B!Block, BP!Block
  <1>6. ASSUME NEW b \in BlockingWorkers, B!LoseTask(b) PROVE BP!LoseTask(b)
    BY <1>6, SameCardinality DEF B!LoseTask, BP!LoseTask, B!Cardinality, BP!Cardinality
  <1>5. B!DestructorStep => BP!DestructorStep
    BY DEF B!DestructorStep, BP!DestructorStep, B!Destroy, BP!Destroy, B!SetDone,
       BP!SetDone, B!NotifyAll, BP!NotifyAll, B!Join, BP!Join
  <1> QED BY <1>1, <1>2, <1>3, <1>4, <1>5, <1>6 DEF B!Next, BP!Next

\* The invariant of the blocking half.
LEMMA BlockingInductive == ExecutorSpec => []BP!IInv
  <1>1. BP!Init => BP!IInv
    BY BP!InvInit, SameCardinality, PoolAssumption, ExecutorAssumption
  <1>2. BP!IInv /\ [BP!Next]_(BP!vars) => BP!IInv'
    BY BP!InvStep, SameCardinality, PoolAssumption, ExecutorAssumption
  <1>3. ExecutorInit => BP!IInv
    BY <1>1, SameInstance DEF ExecutorInit
  <1>4. BP!IInv /\ [ExecutorNext]_allVars => BP!IInv'
    BY <1>2, BlockingStep, SameInstance
  <1> QED BY <1>3, <1>4, PTL DEF ExecutorSpec

\* In the whole executor, where the callers of run_blocking are coroutines on core
\* threads, blocking_waiting_ is exact modulo its width.
THEOREM ExecutorBlockingHalf == ExecutorSpec => []B!CounterExact
  <1>1. BP!CounterExact => B!CounterExact
    BY DEF BP!CounterExact, B!CounterExact, BP!Add, B!Add, BP!Cardinality, B!Cardinality
  <1>2. BP!IInv => BP!CounterExact
    BY DEF BP!IInv
  <1> QED BY <1>1, <1>2, BlockingInductive, PTL

\* A coroutine that waits for a blocking function has somebody to post it back: a
\* blocking thread has the function in hand, or it is queued and no thread sleeps
\* over it, but for the exception of WorkerComes; or the queue has lost it.
WakerComes ==
  \A t \in parked :
    \/ \E b \in BlockingWorkers : btask[b] = t /\ bwpc[b] \in {"uncount", "run"}
    \/ B!Queued(t) /\ BP!WorkerComes
    \/ t \in blost

\* The safety core of RootResumed, for any number of threads on either side: no
\* coroutine is left waiting for a function that was called already, or that
\* nobody will call, while the queue keeps its tasks.
THEOREM ParkedHasWaker == ExecutorSpec => []WakerComes
  <1>1. ExecutorInv /\ BP!IInv => WakerComes
    <2> SUFFICES ASSUME ExecutorInv, BP!IInv, NEW t \in parked
                 PROVE  \/ \E b \in BlockingWorkers :
                             btask[b] = t /\ bwpc[b] \in {"uncount", "run"}
                        \/ B!Queued(t) /\ BP!WorkerComes
                        \/ t \in blost
      BY DEF WakerComes
    <2>1. t \in BP!Tasks /\ BP!Submitted(t) /\ t \notin bran
      BY DEF ExecutorInv, JoinPart, B!Tasks, BP!Tasks, BP!Submitted
    <2>2. BP!Queued(t) \/ BP!Taken(t) \/ t \in blost
      BY <2>1 DEF BP!IInv, BP!PlacePart
    <2>3. ASSUME NEW b \in BlockingWorkers, btask[b] = t
          PROVE  bwpc[b] \in {"uncount", "run"}
      <3>1. t # BP!NoTask
        BY <2>1, BP!TaskShape, SameCardinality, PoolAssumption, ExecutorAssumption
      <3> QED BY <2>3, <3>1 DEF BP!IInv, BP!TypeOK
    <2>4. BP!Queued(t) => B!Queued(t)
      BY DEF B!Queued, BP!Queued, B!ToSet, BP!ToSet
    <2> QED BY <2>2, <2>3, <2>4 DEF BP!IInv, BP!Taken
  <1> QED BY <1>1, ExecutorInductive, BlockingInductive, PTL

\* ~executor joins the blocking threads first: no blocking thread sleeps through
\* its shutdown, although core threads still call run_blocking meanwhile.
THEOREM ExecutorShutdownIsSeen == ExecutorSpec => []BP!NobodySleepsOn
  <1>1. BP!IInv => BP!NobodySleepsOn
    BY DEF BP!IInv, BP!ShutdownPart
  <1> QED BY <1>1, BlockingInductive, PTL

=============================================================================
