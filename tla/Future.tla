------------------------------- MODULE Future -------------------------------
(***************************************************************************)
(* future (include/crasy/future.hpp): a chain of coroutines 1 .. Depth,    *)
(* each of which calls the next one, holds the future<T> it got, and       *)
(* awaits or drops it.  A called coroutine starts at once, on the thread   *)
(* of its caller, and control comes back when it first suspends.           *)
(*                                                                         *)
(* Besides, every coroutine may wait for something else, before its call   *)
(* or while it holds the future: for a sleep_future (sleep.hpp), an        *)
(* io_future or a blocking function.  Such a wait is one step here; what   *)
(* counts is that a handler which outlives the frame will schedule the     *)
(* coroutine.                                                              *)
(*                                                                         *)
(* done_ and suspended_ of a promise are plain members: every access of    *)
(* them is a step, in the order of the program.  `runners` threads run the *)
(* io_context; a coroutine occupies one from its resumption to its         *)
(* suspension, and lends it to whom it calls.                              *)
(***************************************************************************)
EXTENDS Naturals, FiniteSets

CONSTANTS Depth,         \* length of the chain of calls
          MaxRunners,    \* bound: threads that call run() on the context
          Waits          \* bound: waits other than for a future, all together

ASSUME FutureAssumption == /\ Depth \in Nat \ {0, 1}
                           /\ MaxRunners \in Nat \ {0} /\ Waits \in Nat

Coroutines == 1 .. Depth
Callees == 2 .. Depth      \* those that a future<T> stands for

VARIABLES
  runners,     \* threads in run(); never changes
  frame,       \* frame[k]: "none", "live" or "freed"
  done_,       \* promise_type::done_
  suspended_,  \* promise_type::suspended_ is set, to the caller
  ret,         \* value_ or ex_: "none", "value", "exception", "taken"
  got,         \* got[k]: what k's co_await returned, or what k is to return
  pc,          \* pc[k]: where coroutine k is
  posts,       \* posts[k]: resumptions of k that were scheduled
  pending,     \* pending[k]: a handler that will schedule k has not run yet
  waits        \* waits that were begun

promiseVars == <<frame, done_, suspended_, ret>>
waitVars == <<pending, waits>>
vars == <<runners, promiseVars, got, pc, posts, waitVars>>

Init == /\ runners \in 1..MaxRunners
        /\ frame = [k \in Coroutines |-> "none"]
        /\ done_ = [k \in Coroutines |-> FALSE]
        /\ suspended_ = [k \in Coroutines |-> FALSE]
        /\ ret = [k \in Coroutines |-> "none"]
        /\ got = [k \in Coroutines |-> "none"]
        /\ pc = [k \in Coroutines |-> "none"]
        /\ posts = [k \in Coroutines |-> 0]
        /\ pending = [k \in Coroutines |-> FALSE] /\ waits = 0

At(k, l) == pc' = [pc EXCEPT ![k] = l]

\* k suspends or ends: a caller that is still inside the call gets its future.
SuspendAt(k, l) == pc' = [j \in Coroutines |->
                            IF j = k THEN l
                            ELSE IF j + 1 = k /\ pc[j] = "calling" THEN "holding"
                            ELSE pc[j]]

\* k has a thread, which a coroutine that is "calling" has lent to its callee.
Off == {"none", "parked", "asleep", "settled", "cut"}
Active(k) == pc[k] \notin Off \cup {"calling"}
FreeRunner == Cardinality({k \in Coroutines : Active(k)}) < runners

\* k has called the next coroutine, and not yet awaited or dropped its future.
Holds(k) == /\ k < Depth /\ frame[k + 1] # "none"
            /\ pc[k] \in {"calling", "holding", "asleep", "suspend", "parked", "resume"}

-----------------------------------------------------------------------------
(* Calling and awaiting.                                                   *)

Start == /\ pc[1] = "none" /\ FreeRunner
         /\ frame' = [frame EXCEPT ![1] = "live"]
         /\ At(1, "body")
         /\ UNCHANGED <<runners, done_, suspended_, ret, got, posts, waitVars>>

\* initial_suspend is suspend_never: the callee runs before the call returns.
Call(k) == /\ pc[k] = "body" /\ k < Depth
           /\ frame' = [frame EXCEPT ![k + 1] = "live"]
           /\ pc' = [pc EXCEPT ![k] = "calling", ![k + 1] = "body"]
           /\ UNCHANGED <<runners, done_, suspended_, ret, got, posts, waitVars>>

AwaitReady(k) == /\ pc[k] = "holding"
                 /\ At(k, IF done_[k + 1] THEN "resume" ELSE "suspend")
                 /\ UNCHANGED <<runners, promiseVars, got, posts, waitVars>>

\* Mutation: the awaiting coroutine is not stored.
AwaitSuspend_Forgets(k) ==
  /\ pc[k] = "suspend"
  /\ SuspendAt(k, "parked")
  /\ UNCHANGED <<runners, promiseVars, got, posts, waitVars>>

AwaitSuspend(k) == /\ pc[k] = "suspend"
                   /\ suspended_' = [suspended_ EXCEPT ![k + 1] = TRUE]
                   /\ SuspendAt(k, "parked")
                   /\ UNCHANGED <<runners, frame, done_, ret, got, posts, waitVars>>

\* The context resumes k.  What it does with a posted coroutine whose frame was
\* destroyed is undefined: the post stays, for FramesOutliveUsers to see.
Resume(k) == /\ pc[k] \in {"parked", "asleep"} /\ posts[k] > 0 /\ FreeRunner
             /\ posts' = [posts EXCEPT ![k] = @ - 1]
             /\ At(k, CASE pc[k] = "parked" -> "resume"
                        [] Holds(k) /\ pc[k] = "asleep" -> "holding"
                        [] OTHER -> "body")
             /\ UNCHANGED <<runners, promiseVars, got, waitVars>>

\* Mutation: ex_ is not looked at.
Outcome_Swallowed(k) == "value"

\* What await_resume of k's future gives: the value moved out, or ex_ rethrown.
Outcome(k) == ret[k]

\* await_resume, then the destructor of the temporary future.
AwaitResume(k) == /\ pc[k] = "resume"
                  /\ got' = [got EXCEPT ![k] = Outcome(k + 1)]
                  /\ ret' = [ret EXCEPT ![k + 1] = "taken"]
                  /\ frame' = [frame EXCEPT ![k + 1] = "freed"]
                  /\ At(k, "end")
                  /\ UNCHANGED <<runners, done_, suspended_, posts, waitVars>>

\* k ends, by a return or an exception, without awaiting the future it holds:
\* ~future destroys the frame wherever its coroutine is suspended, and with it
\* the futures that this frame holds.  Nothing takes back what was posted for
\* them, or the handlers they wait for.
Drop(k) == /\ pc[k] = "holding"
           /\ frame' = [j \in Coroutines |->
                          IF j > k /\ frame[j] = "live" THEN "freed" ELSE frame[j]]
           /\ pc' = [j \in Coroutines |->
                       IF j = k THEN "end"
                       ELSE IF j > k /\ frame[j] = "live" /\ pc[j] # "settled"
                       THEN "cut" ELSE pc[j]]
           /\ \E r \in {"value", "exception"} : got' = [got EXCEPT ![k] = r]
           /\ UNCHANGED <<runners, done_, suspended_, ret, posts, waitVars>>

-----------------------------------------------------------------------------
(* Waits for something other than a future.                                *)

\* k awaits a sleep_future, an io_future or a blocking function, which is not
\* done yet: its handler or its closure has the coroutine_handle.
Wait(k) == /\ pc[k] \in {"body", "holding"} /\ waits < Waits
           /\ pending' = [pending EXCEPT ![k] = TRUE] /\ waits' = waits + 1
           /\ SuspendAt(k, "asleep")
           /\ UNCHANGED <<runners, promiseVars, got, posts>>

\* The handler: it writes into the frame of the coroutine that it then schedules,
\* also when the frame is gone and the timer or the socket was cancelled thereby.
\* A blocking function ends on a thread of its own, so none has to be free here.
WaitEnds(k) == /\ pending[k]
               /\ pending' = [pending EXCEPT ![k] = FALSE]
               /\ posts' = [posts EXCEPT ![k] = @ + 1]
               /\ UNCHANGED <<runners, promiseVars, got, pc, waits>>

-----------------------------------------------------------------------------
(* The end of a coroutine.                                                 *)

\* The last coroutine's own code comes to a value or an exception.
Finish == /\ pc[Depth] = "body"
          /\ \E r \in {"value", "exception"} : got' = [got EXCEPT ![Depth] = r]
          /\ At(Depth, "end")
          /\ UNCHANGED <<runners, promiseVars, posts, waitVars>>

\* return_value / return_void, or unhandled_exception for what was rethrown.
Return(k) == /\ pc[k] = "end"
             /\ ret' = [ret EXCEPT ![k] = got[k]]
             /\ At(k, "final")
             /\ UNCHANGED <<runners, frame, done_, suspended_, got, posts, waitVars>>

SetDone(k) == /\ pc[k] = "final"
              /\ done_' = [done_ EXCEPT ![k] = TRUE]
              /\ At(k, "wake")
              /\ UNCHANGED <<runners, frame, suspended_, ret, got, posts, waitVars>>

\* The rest of final_suspend: who awaits the future is scheduled.
WakeAwaiter(k) == /\ pc[k] = "wake"
                  /\ suspended_' = [suspended_ EXCEPT ![k] = FALSE]
                  /\ posts' = [j \in Coroutines |->
                                 posts[j] + IF j + 1 = k /\ suspended_[k] THEN 1 ELSE 0]
                  /\ At(k, "settle")
                  /\ UNCHANGED <<runners, frame, done_, ret, got, waitVars>>

\* Mutation: final_suspend returns suspend_never, the frame destroys itself.
Settle_SuspendNever(k) == /\ pc[k] = "settle"
                          /\ SuspendAt(k, "settled")
                          /\ frame' = [frame EXCEPT ![k] = "freed"]
                          /\ UNCHANGED <<runners, done_, suspended_, ret, got,
                                         posts, waitVars>>

\* The coroutine is suspended for good, which it notes in its frame.
Settle(k) == /\ pc[k] = "settle"
             /\ SuspendAt(k, "settled")
             /\ UNCHANGED <<runners, promiseVars, got, posts, waitVars>>

-----------------------------------------------------------------------------
Step(k) == \/ Call(k) \/ AwaitReady(k) \/ AwaitSuspend(k) \/ Resume(k)
           \/ AwaitResume(k) \/ Drop(k) \/ Wait(k) \/ Return(k) \/ SetDone(k)
           \/ WakeAwaiter(k) \/ Settle(k)

Next == Start \/ Finish \/ \E k \in Coroutines : Step(k) \/ WaitEnds(k)

\* Threads run, what is waited for happens, and the coroutines' own code ends.
\* Nobody has to drop a future.
Spec == /\ Init /\ [][Next]_vars
        /\ WF_vars(Finish \/ Step(Depth))
        /\ \A k \in Coroutines : WF_vars(Step(k)) /\ WF_vars(WaitEnds(k))

-----------------------------------------------------------------------------
(* Properties.                                                             *)

\* Types.
TypeOK ==
  /\ runners \in 1..MaxRunners
  /\ frame \in [Coroutines -> {"none", "live", "freed"}]
  /\ done_ \in [Coroutines -> BOOLEAN] /\ suspended_ \in [Coroutines -> BOOLEAN]
  /\ ret \in [Coroutines -> {"none", "value", "exception", "taken"}]
  /\ got \in [Coroutines -> {"none", "value", "exception"}]
  /\ pc \in [Coroutines -> Off \cup {"body", "calling", "holding", "suspend",
                                     "resume", "end", "final", "wake", "settle"}]
  /\ posts \in [Coroutines -> Nat]
  /\ pending \in [Coroutines -> BOOLEAN] /\ waits \in 0..Waits

\* Who will touch the frame of k: k itself, a scheduled resumption of it, the
\* handler that it waits for, and the caller through its future.
Users(k) ==
  {u \in {"self", "post", "handler", "caller"} :
     CASE u = "self" -> pc[k] \notin {"none", "settled", "cut"}
       [] u = "post" -> posts[k] > 0
       [] u = "handler" -> pending[k]
       [] u = "caller" -> k > 1 /\ Holds(k - 1)}

\* On one thread the frame of a coroutine that came to its end outlives all its
\* users, wherever callers and callees suspend in between: ~future never takes
\* it from under final_suspend, a posted resumption or the caller's await.  Of a
\* coroutine that was cut, because a caller dropped it while it was suspended,
\* the posted resumption or the handler it waited for may be left, and will then
\* run on freed memory: nothing else.
FramesOutliveUsers ==
  runners = 1 =>
    \A k \in Coroutines :
      frame[k] # "live" =>
        Users(k) \subseteq (IF pc[k] = "cut" THEN {"post", "handler"} ELSE {})

\* Whoever resumes from an await finds an outcome, and if every future of the
\* chain was awaited the first coroutine ends as the last one did, by the same
\* value or exception; on any number of threads, because the promise has the
\* outcome before done_ is set or a resumption scheduled.
OutcomePassesUp ==
  /\ \A k \in Coroutines : pc[k] = "resume" => ret[k + 1] \in {"value", "exception"}
  /\ (\A k \in Callees : ret[k] = "taken") => got[1] = got[Depth]

\* On one thread an awaiting coroutine is resumed, or its own caller drops it.
\* (On two, the callee can look for the awaiter between its await_ready and its
\* await_suspend: nobody then schedules it.)
AwaiterResumes ==
  \A k \in Coroutines : pc[k] = "suspend" /\ runners = 1 ~> pc[k] \notin {"suspend", "parked"}
=============================================================================
