# Crasy: specifications, model checking and proofs

Crasy is a C++20 coroutine runtime on top of asio. This directory holds TLA+
modules that model the runtime and what is built on it, TLC configurations that
check them on small instances, and theorems that TLAPS checks for every
instance. File and line numbers refer to the repository; `PROJECT.json` ties
every definition to its lines and lists the hazards, the findings and the
mutants.

## 1. Inventory

| component | state | operations | hard behaviour | what makes it correct |
|---|---|---|---|---|
| `executor`, blocking half (`executor.cpp:71-77,129-134,150-166`) | lock-free queue of tasks, counter, mutex, condition variable, done flag | `run_blocking`, `blocking_work`, first half of the destructor | a notification outside the mutex, a counter that wraps, a queue whose pop may miss and which several workers can break | a task the queue keeps is run, the counter is exact; the destructor ends |
| `executor`, core half (`79-127,136-148`) | `io_context`, pending flag, done flag, the locals of each `block_on_impl` | `block_on`, `schedule_task`, `core_work`, second half of the destructor | locals of one thread used by another; a context that stops when it is out of work | `block_on` returns, and only when its root has ended; nobody uses its locals or the frame afterwards; nothing is abandoned |
| `lfqueue` (`lfqueue.hpp`) | `head_`, `tail_`, the list of reusable entries `free_` | `push`, `pop`, destructor | every access is a race; entries are reused | FIFO, nothing lost or repeated, each entry freed once |
| `io_future` and the futures of `udp.cpp` and `resolve.cpp` | one atomic pointer, the result | `await_ready`, `await_suspend`, `finish` | completion on another thread at any moment | resumed once, after the result is there; who destroys the awaiter, and when, is safe |
| `spawn_blocking`, `blocking_join_handle` | heap state with mutex, result, waiter, three-valued state | spawn, await, `detach`, drop, `call` | two owners that leave in any order | freed once, after the last use; the awaiter is resumed |
| `spawn`, `join_handle` | promise with mutex, result, waiter, three-valued state, in the child's frame | spawn, await, `detach`, drop, `final_suspend` | the state is in the frame it decides about | the frame is destroyed once, after the last use |
| `executor` as a whole | both halves | `block_on` of coroutines that call `run_blocking` and await it, destructor | a coroutine that waits for a blocking thread is no work of the context; the two halves are joined one after the other | roots are resumed, the destructor ends, and what it abandons is known |
| `future` | promise with plain `done_`, `suspended_`, `value_`, `ex_` | eager start, await, drop, `final_suspend` | no synchronisation at all; a drop destroys a chain of suspended frames | the awaiter is resumed, with the outcome; no frame is used after it was destroyed |
| `sleep` | asio timer, `done_` | await | the timer expires after its coroutine was destroyed | as for `future` |
| `shared_mutex` | a word: one bit for a writer, the rest a count of readers; a queue of waiters | try, unlock, both shared and exclusive | readers are counted before they are admitted | one writer or any number of readers; the word is exact |
| `lock_guard`, `unique_lock` | the mutexes held, a flag | lock several, lock one, try, unlock, drop | lock order, giving back half an attempt | no deadlock, nothing unlocked that is not held, the call returns |
| `mutex`, `condition_variable` | a flag, queues of waiters | lock, try, unlock; wait, notify | hand-over between atomic steps | (waiting does not link or compile, see 7) |
| `udp_socket` | asio socket, two endpoints | bind, connect, send, receive, endpoints | a test before a suspension and its use after it; opening on several blocking threads | the local endpoint is what was asked for, and bound; errors are those of the calls or of a race |
| `option`, `result` | values | access, map, propagate | none: many overloads, no state | errors are passed on |
| `stream` | promise | yield, next | (does not compile when used) | |
| `ip_address`, `endpoint`, `utils` | values | conversions | none: sequential | |

How they interact. A caller's `block_on` posts the root coroutine to the
`io_context`; core threads run it, and everything that resumes a coroutine
(`io_future::finish`, `state_t::call`, `final_suspend`, the locks) does so by
posting to that context through `detail::schedule_task`. `spawn_blocking` puts
its task into the blocking half's `lfqueue`, whose workers run `state_t::call`,
which posts the awaiter back to the core half. `udp_socket` and `resolve` start
asio operations whose handlers call `finish` on a core thread.

## 2. Modules

| module | models | composed of / implements |
|---|---|---|
| `OneShot` | abstract: an operation completes once and is consumed once, after it completed, or abandoned | |
| `IoFuture` | `src/io_future.cpp` with the handler and the awaiter around it, which may be destroyed | implements `OneShot` |
| `LagQueue` | abstract: a FIFO queue whose pop misses once after it was drained | |
| `LfQueue` | `lfqueue.hpp`, one step per atomic access | implements `LagQueue` (one pusher, one popper) |
| `BlockingPool` | the blocking half of `executor` | uses `LagQueue` as its queue |
| `CorePool` | the core half of `executor`, over a model of `io_context` | |
| `LastOneOut` | abstract: two parties share an object, the last to leave frees it | |
| `BlockingJoin` | `spawn_blocking.hpp` | implements `LastOneOut` |
| `JoinHandle` | `spawn.hpp` | |
| `Executor` | `executor` as a whole | extends `CorePool`, instantiates `BlockingPool` |
| `Future` | `future.hpp`, `sleep.hpp` | |
| `RWLock` | abstract: one writer or any number of readers | |
| `SharedMutex` | `shared_mutex.cpp`, one step per atomic access | implements `RWLock` |
| `LockAll` | `lock_guard.hpp`, `unique_lock.hpp` over the flag of `mutex.cpp` | |
| `OptionResult` | what an `option` or a `result` holds, as values | |
| `UdpSocket` | `udp.cpp` around its asynchronous operations | uses `OptionResult` |
| `IoProofs` | theorems about `IoFuture` and `UdpSocket` | extends both |
| `LockProofs` | theorems about `SharedMutex` and `LockAll` | extends both |
| `ExecutorProofs` | theorems about `CorePool` and, composed with `BlockingPool`, about `Executor` | extends `Executor`, instantiates `BlockingPoolProofs` |
| other `*Proofs` | theorems about the module of that name | extends it |
| `MC*` | instances for TLC | |

Conventions. A variable `xpc[t]` is the place where thread, task or coroutine
`t` is in the function it executes; one action is one step another thread can
come before or after: an atomic access, a critical section of a mutex, a
notification, the call of user code. A critical section is one step where
nothing inside it can be seen from outside the mutex; `BlockingPool` keeps the
mutex explicit because `try_lock` looks at it. Definitions named `X_Something`
below a comment `Mutation:` are wrong variants of action `X`, each with the
mistake the comment names; they are used only to show that a property notices.
The specification of a module is `Spec`; where a proof speaks of two modules at
once, those of one have longer names (`SocketSpec`, `MutexSpec`,
`ExecutorSpec`).

What each module leaves out, and why that is sound for its properties:

* `IoFuture`. The handlers of the udp and resolver futures all fill `ret`, with
  a value or an error, and call `finish`; `Outcomes` stands for both.
  `suspended_` is accessed with the default, sequentially consistent order, so
  interleaving is exact. `apc = "gone"` stands for every later moment: the
  `io_future` is a local of the coroutine that awaited it. `Drop` is the
  destructor of that coroutine's `future`, which may come while it is suspended;
  what `finish` then finds in the freed frame is any pointer (`Found`).
* `LfQueue`. Sequential consistency is assumed although the code uses relaxed,
  acquire and release orders: a behaviour found here is possible in the code, a
  property that holds here holds of the code up to weak memory. Allocation does
  not fail. The history variables `order` and `got` record the exchanges of
  `head_` and the items taken.
* `BlockingPool`. The queue is `LagQueue`, which `LfQueue` is shown to implement
  with one pusher and one popper. With more, a pop that overlaps another one may
  find `tail_` null, a push that has not linked its entry yet hides the ones
  behind it (`PopNothing`, `Hidden`), and a task may be lost to the reuse of
  entries (`LoseTask`), whose steps are in `LfQueue` and not repeated. That a
  broken queue can also hand out a task twice is undefined behaviour and not
  followed; `lost` says that the queue is broken. The counter has `Width` bits;
  it wraps in the model where it wraps in the code. A task is an opaque item.
* `CorePool`. asio is external: handlers ready to run are a set (no property
  here depends on their order), operations in flight complete by themselves, and
  the count of outstanding work is the predicate `OutstandingWork`, whose fall
  stops the context, as `io_context` documents it. A root coroutine may spawn
  tasks, suspend, return or throw, at most `StepsEach` and `TasksEach` times
  (spawning only for callers in `Spawners`). The destructor is called when no
  `block_on` is in progress, as C++ requires.
* `BlockingJoin`. `T` and `void` versions are the same state machine. The frames
  of the owners in `Cancellable` may be destroyed while they are suspended,
  which is what `~future` does to an unfinished coroutine. Moving a handle is
  left out.
* `JoinHandle`. A coroutine occupies a core thread (`runners` of them, between
  one and `MaxRunners`) from its resumption to its suspension, and a spawned
  child starts on its owner's. Destroying the frame is one step with the
  critical section before it: the other party is past its own critical section
  then. A handle is dropped, or detached and then dropped, wherever its owner
  runs. After a use after free the model goes on with the values the frame had.
  `T` and `void` versions are the same state machine. Left out: moving a handle,
  and an owner that is destroyed while it awaits.
* `Executor`. The await of a blocking function is one step, since `BlockingJoin`
  has its interleavings; nothing wakes up spuriously, which the modules of the
  halves have. A spawned task awaits at most one blocking function.
* `Future`. Coroutine `k` calls coroutine `k + 1`, awaits it or drops it, and
  ends; it makes one call. Before the call and while it holds the future it may
  wait for something else, `Waits` times in the whole chain: a `sleep_future`,
  an `io_future` or a blocking function, all of which leave a handler or a
  closure with its `coroutine_handle` behind. That the handler runs and
  schedules is one step (`WaitEnds`), since `IoFuture` and `BlockingJoin` have
  the interleavings; it also runs when the coroutine was destroyed. A drop
  destroys the frames below one after the other, in one step. A post for a frame
  that was freed stays, since what its execution does is undefined. Moving a
  future is left out: it moves one pointer.
* `SharedMutex`. Failed compare-exchanges change nothing and are no steps.
  `EX_BIT` is any number above the number of threads, as the highest bit of a
  `size_t` is; the word wraps at twice its value.
* `LockAll`. `Mutex` is a template parameter of this code: try and unlock are
  those of `crasy::mutex`, `lock()` is external and taken at its name. Which
  mutexes a call names, and in which order, is chosen in the initial state. The
  guards of a tuple are destroyed in any order. The closure of an attempt that
  suspended in `m1.lock()` is gone when it reads `start` again (`gone`): the
  attempt then returns any index of the list (`Returned`).
* `UdpSocket`. Endpoints are a family and a port, which may be 0. asio's socket
  and the system are external: `open` tests and assigns in two steps; a
  descriptor is bound at most once, to an address of its family, and to a port
  the system chooses where 0 was asked for (`Chosen`) or where it is connected
  or sent from before it was bound (`BoundAfter`); an operation completes with
  success or an error. Each client makes one call and is not destroyed in it.
* `OptionResult`. Only the values, with the operators the socket uses. The
  overloads for values, references and constness come to the same operator, so
  nothing is said of them.

## 3. Runs

Every passing run also has, for each of its properties, a mutant in
`PROJECT.json` that TLC finds to violate it.

| run | instance | question | answer |
|---|---|---|---|
| `io_future` | 2 operations, 2 outcomes | is a resumption lost or doubled, the result missing; when can the awaiter be destroyed? | neither; safely once it has its result, never while it is suspended; it implements `OneShot` with its liveness |
| `lfqueue` | 1 pusher, 1 popper, 5 pushes, 1 entry to start with | loss, order, reuse, the destructor | correct; it implements `LagQueue` |
| `lfqueue_two_poppers` | 1 pusher, 2 poppers, 4 pushes | is everything popped? | no: ABA on `tail_` loses an item |
| `blocking_pool` | 2 callers, 1 or 2 workers, a task each, 3-bit counter, destructor | is the counter right, is a queued task run, does shutdown end? | the counter is exact up to the calls in progress; while the queue loses none, a queued task waits only if there is one worker and the latest `try_lock` failed; shutdown ends |
| `core_pool` | 2 callers, 2 core threads, 1 suspension each, one root spawns a task, roots may throw, destructor | does `block_on` return, when its root has ended, and is there always a thread that comes for what is ready? | yes, unless the root throws |
| `executor` | 1 caller, 1 core thread, 1 or 2 blocking threads, 1 spawned task, 1 blocking function, destructor | is a root that awaits a blocking function resumed, is a suspended root reclaimed, does `~executor` end, and what does it abandon? | resumed (with the exception of `blocking_pool`), reclaimed, it ends; only tasks that awaited a blocking function are abandoned |
| `blocking_join` | 2 tasks, exceptions, one owner that may be destroyed while suspended | who frees the state, and when; is the awaiter scheduled once, and resumed? | the last one, once; it implements `LastOneOut`; an owner that is not destroyed is scheduled once and resumed |
| `join_handle` | 2 tasks, 1 or 2 core threads; handles awaited, dropped, detached | does the frame outlive its users, is it reclaimed; is the awaiter scheduled once, with the outcome, and resumed? | yes, the first of these on one thread and for handles let go of after the task ended |
| `future` | a chain of 4 coroutines, 2 other waits by any of them, 1 or 2 core threads | does the outcome come up the chain, is the awaiter resumed, does a frame outlive its users? | yes, the last two on one thread, and but for the posted resumption or the handler of a coroutine that was cut |
| `shared_mutex` | 4 threads, `EX_BIT` 8 | is the word exact, who is admitted? | it is; one writer or several readers: it implements `RWLock` |
| `lock_all` | a call on 3 mutexes and one on 2 or 3 of them, in every pair of orders up to renaming, 1 `unique_lock` with 2 calls, 1 or 2 threads | deadlock, foreign unlocks, does `lock` return? | no call waits with a mutex in hand or unlocks another's; on one thread `lock` returns unless a `unique_lock` leaked a mutex, whatever index an attempt that waited returns |
| `udp_socket` | 3 clients with any operations, 3 endpoints, one with port 0, 1 or 2 blocking threads | what does `local_endpoint()` say of the descriptor, can `already_open` come out of a race only? | with one blocking thread it is the endpoint asked for, and bound but for the port where that was 0; yes |

Why the bounds are enough. Two operations or two tasks show that the state of
one does not leak into the other's; they share nothing else. The queue's
interesting cases are an empty, a drained and a one-item queue and an entry that
is reused while the popper still works on the one before: five pushes over one
spare entry reach each of them several times (every entry is reused, and three
are in circulation at once). Four pushes are the fewest that show the ABA. The
counter of `BlockingPool` is three bits, so it wraps below zero and is still
wider than the tasks and workers there are, as a `size_t` is. Two callers and
two workers reach a caller that overtakes a caller, a failed `try_lock`, and a
worker that takes a task before it is counted. `CorePool` needs two calls for a
notification that goes to the wrong thread and for a work guard that outlives
another. `Executor` needs one of each to let a task hand out its function
before, while and after the blocking threads are joined; two blocking threads
make the difference to one that misses its notification. In a chain of four
coroutines a middle one is both awaiter and awaited, and a drop at any level
cuts a chain of at least one suspended frame below it; two waits let a holder be
resumed before a callee whose resumption is posted as well. With four threads on
a `shared_mutex` there are a writer, a reader that fails, one that takes its
count back and one that comes after. Three mutexes are the fewest for which an
attempt fails after it has taken more than one and starts elsewhere than at the
first or the last. Three clients are the fewest for an open that falls between
another client's test and its turn while a third one binds; of the endpoints one
is of another family and one leaves the port to the system.

Deadlock is checked for `LfQueue`, where a popper never stops, and
`SharedMutex`. In the other runs the system really stops: operations, tasks and
coroutines are finite, callers need not call, workers exit. That it stops only
where it may is what the liveness properties say.

The violation run checks what the README of the repository says of its thread
pool; `findings` in `PROJECT.json` quotes it.

Some behaviours of the code are outside what the passing properties claim.
Unless it says otherwise, the model has them, and the property names the
condition that leaves them out:

* A coroutine that is destroyed while it awaits an I/O operation
  (`future.hpp:63`) always leaves a handler with a pointer into its frame
  (`udp.cpp:37,85`, `resolve.cpp`) or a posted resumption: cancelling the
  operation only makes the handler come sooner. `DestroyedSafelyOnlyAtEnd`
  states this half too, and `ImplementsOneShot` speaks of awaiters that are not
  destroyed.
* A coroutine that drops a future whose callee is suspended leaves the callee's
  posted resumption (`executor.cpp:125`) or the handler of a timer
  (`sleep.hpp:42-45`), an operation or a blocking function: they are the
  exceptions of `FramesOutliveUsers`. A callee that came to its end leaves
  nothing, on one thread.
* Several workers can lose tasks to the reuse of the queue's entries
  (`lfqueue.hpp:153`, the finding of `lfqueue_two_poppers`): `lost` in
  `QueuedRunsUnlessAlone` and `RootResumed`. A lost task is never uncounted, so
  the workers then spin on a counter that is not zero.
* Tasks that are still queued when the blocking threads see `blocking_done_` are
  not run (`executor.cpp:163`).
* The caller of `block_on` destroys the frame of the root's wrapper as soon as
  it has seen `done`, which the wrapper sets before it calls `notify_one` and
  suspends for the last time (`executor.cpp:97-102,114`): the core thread may
  still be inside. `CorePool` follows the steps of both, and no property claims
  that this frame outlives its use.
* A root that throws never sets `done`, so its `block_on` does not return
  (`executor.cpp:96`): `BlockOnReturns` names this as its exception.
* Nothing restarts an `io_context` that has stopped, so a later `block_on` on
  the same executor does not return (`executor.cpp:146`): `BlockOnReturns`
  starts from a context that is not stopped.
* A root that never suspends, as in `test/test.cpp:11`, can let `block_on_impl`
  return before `handle` is assigned, and its frame leaks (`executor.cpp:114`):
  `SuspendedRootReclaimed` speaks of roots that suspended.
* `blocking_join_handle::detach` leaves `suspended` in the state. If the frame
  of a suspended owner is destroyed, `call` schedules a coroutine that is gone,
  against the assertions at `executor.cpp:118,121`: `ScheduledOnce` speaks of
  owners that are not `Cancellable`.
* `free_` is compared by address, as `tail_` is. With two pushers, one that has
  read `free_` and its `next` can find the same entry there again after the
  other has taken it and the one behind it and the popper has given the first
  one back; its `compare_exchange` then makes an entry that is in the queue free
  (`lfqueue.hpp:92`). `run_blocking` may be called from several threads. The
  properties of `LfQueue` speak of one pusher.
* With a single blocking thread, a `try_lock` that fails because the thread
  holds the mutex, having found the counter zero and not yet asleep, makes
  `notify_one` come too early: the task waits for the next call
  (`executor.cpp:132-133`). `QueuedRunsUnlessAlone` and `RootResumed` name it.
* After `dn = true` the caller may return while the core thread has yet to call
  `cond_var.notify_one()` and to assign `handle`, both in the caller's stack
  frame (`executor.cpp:101,94`); `docs/main_page.dox:20-33` shows a program that
  can meet this. No property speaks of the caller's locals.
* `block_on` wakes one core thread, and nothing wakes the others: a handler
  waits while that thread computes (`executor.cpp:109,144`), where
  `README.md:11` speaks of a pool. The specifications are fair to the code of
  coroutines.
* A coroutine that awaits a blocking function is not outstanding work: after
  `block_on` returned, the context can stop and a spawned task is left
  suspended, or posted to nobody (`OnlyBlockedAbandoned`).
* `join_handle::detach` leaves `handle_` set, so the destructor detaches again,
  with a mutex in a frame that may be gone (`spawn.hpp:201`), as in
  `examples/udp_echo_server.cpp:62-64`; and a detached task destroys its frame
  in `final_suspend` and then suspends in it (`spawn.hpp:166-174`):
  `FrameOutlivesUsersOnOneThread` leaves both out, `FrameReclaimed` does not.
* `future`'s promise has no synchronisation: with two core threads the callee
  can end between `await_ready` and `await_suspend`, and the awaiter is never
  resumed, or the awaiter can destroy the frame under the callee
  (`future.hpp:33-39,75-79`). `AwaiterResumes` and `FramesOutliveUsers` speak of
  one thread.
* `lock_unique` returns a `unique_lock` whose flag is down, so that its
  destructor leaves the mutex locked (`unique_lock.hpp:30,67`); `Leaked` in
  `LockReturns`. On several threads two calls of `lock` can keep failing against
  each other.
* The lambda of `lock_impl` is a coroutine whose captured `start` lives in a
  closure that is destroyed when `lock_impl` returns. When `m1.lock()`
  suspended, line 85 of `lock_guard.hpp` reads it afterwards. The value is
  undefined and the index returned any of the list; `LockReturns` holds
  nevertheless on one thread: `% n` keeps the index in range, and the next
  attempt either waits as well, for somebody who gives the mutex back, or does
  not suspend and is not misled.
* `unique_lock::lock` raises its flag before it waits (`unique_lock.hpp:44`).
  That is wrong only if the waiter is destroyed or `lock` throws, for which the
  model has no step.
* Two coroutines that find the socket closed both open it, and one fails with
  `already_open` (`udp.cpp:51-54`); two blocking threads inside `open` lose a
  descriptor, bound or not. `bind_remote` never sets `remote_`, so
  `remote_endpoint()` is always empty.
* `local_endpoint()` is what `bind_local` was asked for (`udp.cpp:26`): port 0
  stays 0, and a socket that was bound by `send_to` or `bind_remote` has none,
  while an explicit `bind_local` then fails. `LocalIsAsked` says what can be
  relied on.
* `ensure_open`'s function keeps references into the frame of a coroutine
  (`udp.cpp:53`) that may be destroyed while it waits for it. Not in the model,
  whose clients are not destroyed.
* `option<T&>::map` never calls its function and returns an empty option
  (`option.hpp:191`). Not in the model, which has one operator for all
  overloads.
* With two core threads the owner can be resumed and destroy the child's frame
  while the child is still in `final_suspend` (`spawn.hpp:174`):
  `FrameOutlivesUsersOnOneThread` says where the code is safe.
* A function handed to `spawn_blocking` that throws leaves `ret` empty and
  `await_resume` dereferences it (`spawn_blocking.hpp:59`): in
  `OutcomeBeforeResume` the exception counts as an outcome.

## 4. Fairness

Weak fairness of each thread's next step: the operating system runs every thread
that can run. What is not fair is what nobody has to do: call `run_blocking`,
`block_on` or the destructor, or wake up spuriously (`SpuriousWake`). Beyond
that:

* `IoFuture`: `Fill` is not fair, an operation may never complete; the liveness
  property starts where it has completed.
* `BlockingPool`: strong fairness of `Lock`, since a mutex that is released
  again and again is acquired in the end, and of a successful pop, because what
  hides a task from a pop (another pop's exchange of a null `next`, another push
  before its link) is over once the task is linked. `LoseTask` is not fair, and
  properties do not need it. User functions return (`RunTask`).
* `CorePool`: operations in flight complete, and the code of coroutines ends or
  suspends (`BodyStep`). Handlers are finitely many, so that one is starved by
  others cannot arise.
* `Executor`: the fairness of both halves, in the terms of the composition.
* `BlockingJoin`: the blocking pool runs the task, an owner that was resumed
  goes on; nobody has to spawn.
* `JoinHandle`: every behaviour is finite, so weak fairness of owner and child
  lets both reach their end; `GoAway` happens at most once per owner.
* `Future`: threads run, timers, operations and functions come to an end, and so
  does the innermost coroutine; nobody has to drop a future or to wait.
* `LockAll`: threads run and critical sections are left; nobody has to call
  anything on a `unique_lock`.
* `SharedMutex` and `UdpSocket` state safety only.

## 5. Proofs

`tlapm` checks every obligation. The theorems hold for any number of operations,
tasks, threads, callers, mutexes and coroutines, under the named assumptions of
the modules that declare the constants; TLC evaluates these on every run, and
found each inductive invariant true on small instances.

* `IoProofs`. For `io_future`, `IInv` is `TypeOK`, whose `HandlerPart` says what
  the handler's place tells of the result, and two facts per operation: before
  the awaiter's exchange `suspended_` tells whether `finish` was called and
  nothing is posted (`BeforeExchange`); after it, exactly one side owes the
  resumption (`AfterExchange`). `ResumedOnce` alone is not inductive: it says
  nothing of the value of `suspended_`, on which both exchanges decide. From
  `IInv`: `Typing`, `AtMostOneResumption`, `ResultIsThere`,
  `FrameFreeOnlyAtEnd`, `NoLostResumption`, and `Refinement`, one step at a
  time, of `OneShot`'s safety part. It uses `OutcomeAssumption`: an empty option
  is not an outcome. For `udp_socket`, `SInv` says who was overtaken
  (`ClientPart`: whoever is past the test of `is_open` and finds the socket
  open) and, with one blocking thread, that one client at a time is between
  opening and binding, what is open while it is, and that the descriptor is
  bound as `local_` was asked for (`AlonePart`). That one client at a time is
  there comes from the count of busy threads in the guard (`FreeBlocker`), for
  which `SocketAssumption` has the clients finite. From it
  `OnlyTheOvertakenFail` and `LocalEndpointIsAsked`.
* `BlockingJoinProofs`. `IInv` says that the state is live exactly as long as
  one of the two will touch it (`HeapPart`), and what `state` says of both
  (`StatePart`): while the function runs it is -1 exactly if the owner has left,
  afterwards it is 1 and the outcome is there. From it `Typing`,
  `StateOutlivesUsers`, `FreedOnce`, `OutcomeIsThere` and `Refinement` of
  `LastOneOut`. `AtMostOneScheduling` and `NoLostResumption` speak of the tasks
  outside `Cancellable`, and add to the invariant who owes the resumption.
* `LockProofs`. For `shared_mutex`, `WordExact` alone is not inductive: it
  allows two writers, whose bits add up to zero modulo the width, and the next
  one in. `WordInv` adds that a writer is alone (`WriterAlone`). The work is in
  counting: moving one thread from one place to another changes two
  cardinalities by one (`MoveCount`), and the counts stay below `EX_BIT` because
  there are fewer threads than that (`MutexAssumption`). From it `WordIsExact`
  and, step by step, `MutexRefinement` of `RWLock`: a word without the bit has
  no writer, a zero word nobody. For `lock(...)` and `unique_lock`: a coroutine
  in `lock` holds exactly the first places of its argument list, rotated to
  where its attempt began; a `unique_lock` holds its mutex exactly if its flag
  says so; and a flag is up exactly if one holds the mutex. The rotation by `%
  n` visits each place once (`Rotation`). From it `LocksExclude` and
  `NobodyHoldsAndWaits`, with any index in the place of the one an attempt that
  waited should return. It uses `LockAssumption` and `CallsAssumption`: a list
  names no mutex twice.
* `JoinHandleProofs`. `IInv` says, for each value of `state_`, where child and
  owner are, whether `suspended_` or a post stands for a suspended owner, and
  whose the frame is. `FrameOutlivesUsers` needs two more facts, for one core
  thread: one coroutine runs at a time (`OneRuns`, from the guard `FreeRunner`),
  so that an owner that frees the frame finds the child at rest (`AtRest`). Also
  `NoFrameLeaks`, `AtMostOneScheduling`, `NoLostResumption` and
  `OutcomeIsThere`, which hold on any number of threads. `NoFrameLeaks` says
  that the frame is freed once both are done and not before both have passed the
  mutex; on several threads the child may still be leaving `final_suspend` then.
* `ExecutorProofs`. First the core half alone. `IInv`: the control of each root
  is in one place (a handler that is ready, in flight or executed) and in none
  once it is done; and a thread that enters `run()` stays while the context is
  not stopped (`ComingPart`), which is why what is ready is come for although
  `block_on_impl` notifies without looking who sleeps. From it `TypeCorrect`,
  `ReturnsAfterRoot`, `NoLostWakeup`, and `RootReclaimed`, whose hypothesis is
  one core thread. Then the composition. `ExecutorInv` is `IInv`, proved again
  for the steps in which a coroutine suspends on a blocking function and is
  posted back, with where it is meanwhile: a root that waits is with the
  blocking half and nowhere else (`HeldPart`), and a stopped context holds only
  what a blocking thread posted to it and calls that came too late
  (`StoppedPart`). From it `ExecutorTypeCorrect`, `ExecutorReturnsAfterRoot`,
  `ExecutorNoLostWakeup`, `ExecutorRootReclaimed` and `OnlyBlockedLeft`. Every
  step of the composition is a step of `BlockingPool`, whose callers are the
  core threads, or leaves its variables alone (`BlockingHalfImplements`); the
  invariant of `BlockingPoolProofs` therefore holds in the composition, where it
  is proved no second time (`ExecutorBlockingHalf`: the counter;
  `ExecutorShutdownIsSeen`). The two together give `ParkedHasWaker`: whoever
  waits for a blocking function has a task that is queued, with a worker, or
  lost by the queue. The assumptions of `BlockingPool` are instances of
  `ExecutorAssumption`.
* `BlockingPoolProofs`. Each task is in one place, the queue, a worker, `ran` or
  `lost` (`PlacePart`, an aid: it says how the model moves tasks), the mutex
  belongs to whom `mut` names (`MutexPart`), and the counter balances. The
  balance is modulo `2^Width`, as the counter is; the arithmetic is in lemmas of
  its own (`RemShift`, `Balance`). From it `TypeCorrect`, `CounterIsExact` and
  `ShutdownIsSeen`: the safety core of `ShutdownEnds`, which TLC checks.
  `NoTaskIsSleptOver` is that of `QueuedRunsUnlessAlone`: `WorkerComes` says who
  will come for a queued task at each moment of `run_blocking` and of a worker
  on its way to sleep. It is here that the width counts (`WidthAssumption`): a
  counter that wrapped all the way round would be zero with tasks in the queue.
  `NamesAssumption` says that no thread is named like the two other values of
  `mut`.
* `LfQueueProofs`. For one pusher and one popper (`Alone`, a hypothesis of every
  theorem), any number of pushes and any initial capacity. The invariant names
  two lists that the pointers imply: `L`, the queue's entries, and `F`, the free
  ones. `Shape` says that these and the entry each thread has taken off a list
  (`Owned`) are all entries there are, each in one place; what `head_`, `tail_`
  and `free_` point to, also between a push's exchange and its link and while a
  pop holds the last entry and `tail_` is null; and that what a thread has read
  is still so, which is why the `compare_exchange` of `tail_` never takes a
  wrong entry, or fails. The properties follow pointers with `ChainFrom`. That
  it finds `L` and `F` (`ChainIs`) is shown by induction on the length of what
  is left; the theorem of the library that states induction takes a predicate,
  so `NatSets` states it for a set, from the well-foundedness of `<`. From the
  invariant `ListsStayApart`, `PrivateEntriesAreNotShared` and
  `DestructorFreesAll`. For `QueueImplementsLagQueue` `DataPart` adds which
  entries hold items; linking an entry is the push, reading `next` the pop, and
  everything else is not seen (`EveryStepMoves`). With two poppers the queue is
  not FIFO, nor lossless: the run `lfqueue_two_poppers`.
* `FutureProofs`. For chains of any depth: where a caller and its callee are
  (`CallPart`), who has freed the frame between them (`FramePart`), what the
  promise then holds (`OutcomePart`), and that each suspension has at most one
  handler, post or entry in `suspended_` to end it (`PostPart`). The outcome
  needs no induction over the chain: that of the last coroutine is that of every
  one below which all futures were awaited (`ChainPart`). From it `TypeCorrect`
  and `OutcomeReachesTop`, on any number of threads. On one thread, one
  coroutine has it (`OneActive`, from the guard `FreeRunner`), and frames are
  freed at rest (`FreedAtRest`): hence `FramesOutlive`. `NoLostAwaiter` says
  that a coroutine that waits for something else has its handler or a post to
  come, and that whoever awaits a future is known to a callee that will end (the
  latter on one thread).

Only model-checked:

* all liveness under fairness, which is out of this prover's reach. The theorems
  named as safety cores say that whoever must act to make it true is there:
  `NoLostResumption` (three times), `NoLostAwaiter`, `NoTaskIsSleptOver`,
  `ShutdownIsSeen`, `NoLostWakeup`, `ParkedHasWaker`; that it then acts is the
  fairness of section 4;
* the liveness in `OneShot`, for the same reason: the theorem `Refinement` of
  `IoProofs` is about its safety part.

Every invariant that a passing run checks is stated by a theorem. The theorems
about `LfQueue` cannot do without their hypothesis: with two pushers or two
poppers `NoSharedEntry` is false (section 3).

## 6. Plan

Modelled: what sections 1 and 2 list. Proved: what section 5 lists. What could
come next is the queue under the code's own memory orders, which needs another
model of memory than interleaving, and the operations that section 7 leaves out
once the repository defines them.

## 7. Not modelled

* Waiting on a `mutex` or a `shared_mutex`. `mutex::lock`, `shared_mutex::lock`,
  `shared_mutex::lock_shared` and the constructors of the futures they return
  are declared and not defined, and `await_resume` of `mutex_lock_future` is
  defined as a free function (`mutex.cpp:14`): a program that awaits one does
  not link. What stands in `mutex.cpp:5-12` and `shared_mutex.cpp:7-56` is
  therefore never executed. (As written it would not exclude: a resumed waiter
  does not take the flag again, and the future of `lock_shared` tries the
  exclusive lock.)
* `condition_variable`. `wait(lk)` does not compile (`condition_variable.hpp:67`
  passes one argument to a constructor of two), so there are never waiters.
* `lock` of several mutexes calls a private constructor of `lock_guard`, which
  befriends `lock` of one only (`lock_guard.hpp:43,101`). `LockAll` models the
  algorithm that stands there.
* `stream` does not compile when its members are used.
* `ip_address`, `utils`, the headers that only include others and the vendored
  asio have no state or behaviour of their own to check; the conversions of
  `resolve` turn one list into another.
* Moves of futures, handles, guards and sockets; what tells the overloads of
  `option` and `result` apart, their `map` and `map_err`, comparisons and
  conversions; the destruction of a client of a socket, of the owner of a
  `join_handle` or of a waiter for a lock in the middle of its call; calls from
  threads outside an executor, which throw.
* Memory orders weaker than sequential consistency.
