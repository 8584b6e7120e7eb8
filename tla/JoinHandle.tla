----------------------------- MODULE JoinHandle -----------------------------
(***************************************************************************)
(* spawn and join_handle (include/crasy/spawn.hpp): a child coroutine that *)
(* starts inside the call of spawn, on the thread of its owner, and an     *)
(* owner that awaits it and then drops the handle, or detaches it.  Who    *)
(* destroys the child's frame is decided under the mutex in its promise; a *)
(* critical section, with the destroy() that follows it, is one step.      *)
(***************************************************************************)
EXTENDS Naturals, FiniteSets

CONSTANTS Tasks,         \* the spawned tasks, each with its owner
          MaxRunners,    \* bound: threads that call run() on the context
          Suspensions,   \* bound: suspensions of each child before its end
          CanThrow       \* whether a child may end by an exception

ASSUME JoinAssumption == /\ MaxRunners \in Nat \ {0}
                         /\ IsFiniteSet(Tasks)
                         /\ Suspensions \in Nat
                         /\ CanThrow \in BOOLEAN

VARIABLES
  runners,     \* threads in run(): one per block_on in progress, at most
  frame,       \* frame[t]: the child's frame: "none", "live" or "freed"
  state_,      \* its promise's state_: "waiting", "done" or "detached"
  suspended_,  \* its promise's suspended_ is set
  ret,         \* its promise's value_ or ex_: "none", "value", "exception"
  cpc,         \* cpc[t]: where the child is
  left,        \* left[t]: suspensions the child may still make
  opc,         \* opc[t]: where the owner is
  posts        \* posts[t]: resumptions of the owner that were scheduled

\* `runners` never changes.
promiseVars == <<runners, frame, state_, suspended_, ret>>
childVars == <<cpc, left>>
vars == <<promiseVars, childVars, opc, posts>>

Init == /\ runners \in 1..MaxRunners
        /\ frame = [t \in Tasks |-> "none"]
        /\ state_ = [t \in Tasks |-> "waiting"]
        /\ suspended_ = [t \in Tasks |-> FALSE]
        /\ ret = [t \in Tasks |-> "none"]
        /\ cpc = [t \in Tasks |-> "none"]
        /\ left = [t \in Tasks |-> Suspensions]
        /\ opc = [t \in Tasks |-> "new"]
        /\ posts = [t \in Tasks |-> 0]

OwnerAt(t, l) == opc' = [opc EXCEPT ![t] = l]
ChildAt(t, l) == cpc' = [cpc EXCEPT ![t] = l]

\* A coroutine occupies a runner from its resumption to its suspension; the
\* child that spawn() starts borrows its owner's.
OwnerRuns(t) == opc[t] \notin {"new", "away", "parked", "gone"}
ChildRuns(t) == /\ cpc[t] \in {"running", "final", "settle"}
                /\ opc[t] # "nested"
FreeRunner == Cardinality({t \in Tasks : OwnerRuns(t)})
                + Cardinality({t \in Tasks : ChildRuns(t)}) < runners

\* Control goes back to the owner if it is still inside spawn().
GiveBack(t) == opc' = [opc EXCEPT ![t] = IF @ = "nested" THEN "holding" ELSE @]

-----------------------------------------------------------------------------
(* The owner.                                                              *)

\* spawn(): initial_suspend is suspend_never, the child runs at once.
Spawn(t) == /\ opc[t] = "new" /\ FreeRunner
            /\ frame' = [frame EXCEPT ![t] = "live"]
            /\ ChildAt(t, "running")
            /\ OwnerAt(t, "nested")
            /\ UNCHANGED <<runners, state_, suspended_, ret, left, posts>>

\* The owner awaits something else before it comes to the handle (once).
GoAway(t) == /\ opc[t] = "holding"
             /\ OwnerAt(t, "away")
             /\ UNCHANGED <<promiseVars, childVars, posts>>

ComeBack(t) == /\ opc[t] = "away" /\ FreeRunner
               /\ OwnerAt(t, "back")
               /\ UNCHANGED <<promiseVars, childVars, posts>>

AwaitReady(t) ==
  /\ opc[t] \in {"holding", "back"}
  /\ OwnerAt(t, IF state_[t] = "done" THEN "resume" ELSE "suspend")
  /\ UNCHANGED <<promiseVars, childVars, posts>>

\* Mutation: await_suspend does not look at the state again.
AwaitSuspend_NoTest(t) == /\ opc[t] = "suspend"
                          /\ suspended_' = [suspended_ EXCEPT ![t] = TRUE]
                          /\ OwnerAt(t, "parked")
                          /\ UNCHANGED <<runners, frame, state_, ret, childVars, posts>>

\* On another runner the child may have ended since await_ready.
AwaitSuspend(t) ==
  /\ opc[t] = "suspend"
  /\ IF state_[t] = "waiting"
     THEN suspended_' = [suspended_ EXCEPT ![t] = TRUE] /\ UNCHANGED posts
     ELSE posts' = [posts EXCEPT ![t] = @ + 1] /\ UNCHANGED suspended_
  /\ OwnerAt(t, "parked")
  /\ UNCHANGED <<runners, frame, state_, ret, childVars>>

Resume(t) == /\ opc[t] = "parked" /\ posts[t] > 0 /\ FreeRunner
             /\ posts' = [posts EXCEPT ![t] = @ - 1]
             /\ OwnerAt(t, "resume")
             /\ UNCHANGED <<promiseVars, childVars>>

\* await_resume takes the value out, or rethrows the exception.
AwaitResume(t) == /\ opc[t] = "resume"
                  /\ OwnerAt(t, "awaited")
                  /\ UNCHANGED <<promiseVars, childVars, posts>>

\* Where the owner can let go of the handle, and where that leaves it: by the
\* handle's destructor, or by detach(), which leaves handle_ as it is, so that
\* the destructor comes to detach() a second time.
CanLetGo(t) == opc[t] \in {"holding", "back", "awaited", "detached"}
AfterLetGo(t) == {"gone"} \cup (IF opc[t] = "detached" THEN {} ELSE {"detached"})

\* Mutation: the frame is always left to the child.
LetGo_LeavesIt(t) == /\ CanLetGo(t)
                     /\ state_' = [state_ EXCEPT ![t] = "detached"]
                     /\ \E l \in AfterLetGo(t) : OwnerAt(t, l)
                     /\ UNCHANGED <<runners, frame, suspended_, ret, childVars, posts>>

\* detach(), called or from the destructor of the handle.
LetGo(t) == /\ CanLetGo(t)
            /\ IF state_[t] = "done"
               THEN frame' = [frame EXCEPT ![t] = "freed"] /\ UNCHANGED state_
               ELSE state_' = [state_ EXCEPT ![t] = "detached"] /\ UNCHANGED frame
            /\ \E l \in AfterLetGo(t) : OwnerAt(t, l)
            /\ UNCHANGED <<runners, suspended_, ret, childVars, posts>>

-----------------------------------------------------------------------------
(* The child.                                                              *)

\* The child suspends on something; a thread resumes it when that is there.
ChildSuspend(t) == /\ cpc[t] = "running" /\ left[t] > 0
                   /\ left' = [left EXCEPT ![t] = @ - 1]
                   /\ ChildAt(t, "suspended")
                   /\ GiveBack(t)
                   /\ UNCHANGED <<promiseVars, posts>>

ChildResume(t) == /\ cpc[t] = "suspended" /\ FreeRunner
                  /\ ChildAt(t, "running")
                  /\ UNCHANGED <<promiseVars, left, opc, posts>>

\* Mutation: the value is not stored.
Return_NoResult(t) == /\ cpc[t] = "running"
                      /\ ChildAt(t, "final")
                      /\ UNCHANGED <<promiseVars, left, opc, posts>>

\* return_value / return_void or unhandled_exception.
Return(t) == /\ cpc[t] = "running"
             /\ \E r \in {"value"} \cup (IF CanThrow THEN {"exception"} ELSE {}) :
                  ret' = [ret EXCEPT ![t] = r]
             /\ ChildAt(t, "final")
             /\ UNCHANGED <<runners, frame, state_, suspended_, left, opc, posts>>

\* Mutation: the waiter is scheduled and not cleared.
FinalSuspend_KeepsWaiter(t) ==
  /\ cpc[t] = "final"
  /\ state_' = [state_ EXCEPT ![t] = "done"]
  /\ posts' = [posts EXCEPT ![t] = IF suspended_[t] THEN @ + 1 ELSE @]
  /\ ChildAt(t, "settle")
  /\ UNCHANGED <<runners, frame, suspended_, ret, left, opc>>

\* Mutation: the child destroys its frame also when the owner holds a handle.
FinalSuspend_AlwaysDestroys(t) ==
  /\ cpc[t] = "final"
  /\ frame' = [frame EXCEPT ![t] = "freed"]
  /\ state_' = [state_ EXCEPT ![t] = "done"]
  /\ suspended_' = [suspended_ EXCEPT ![t] = FALSE]
  /\ posts' = [posts EXCEPT ![t] = IF suspended_[t] THEN @ + 1 ELSE @]
  /\ ChildAt(t, "settle")
  /\ UNCHANGED <<runners, ret, left, opc>>

\* final_suspend(): a detached child destroys its own frame.
FinalSuspend(t) ==
  /\ cpc[t] = "final"
  /\ IF state_[t] = "detached"
     THEN /\ frame' = [frame EXCEPT ![t] = "freed"]
          /\ UNCHANGED <<state_, suspended_, posts>>
     ELSE /\ state_' = [state_ EXCEPT ![t] = "done"]
          /\ suspended_' = [suspended_ EXCEPT ![t] = FALSE]
          /\ posts' = [posts EXCEPT ![t] = IF suspended_[t] THEN @ + 1 ELSE @]
          /\ UNCHANGED frame
  /\ ChildAt(t, "settle")
  /\ UNCHANGED <<runners, ret, left, opc>>

\* What final_suspend returns is a suspend_always kept in the frame: the
\* coroutine writes there that it is suspended, and only then gives control
\* back.
Settle(t) == /\ cpc[t] = "settle"
             /\ ChildAt(t, "settled")
             /\ GiveBack(t)
             /\ UNCHANGED <<promiseVars, left, posts>>

-----------------------------------------------------------------------------
OwnerStep(t) == \/ Spawn(t) \/ GoAway(t) \/ ComeBack(t) \/ AwaitReady(t)
                \/ AwaitSuspend(t) \/ Resume(t) \/ AwaitResume(t) \/ LetGo(t)

ChildStep(t) == \/ ChildSuspend(t) \/ ChildResume(t) \/ Return(t)
                \/ FinalSuspend(t) \/ Settle(t)

Next == \E t \in Tasks : OwnerStep(t) \/ ChildStep(t)

SafeSpec == Init /\ [][Next]_vars

\* Core threads run what was posted, and what a coroutine awaits arrives.
Fairness == \A t \in Tasks : WF_vars(OwnerStep(t)) /\ WF_vars(ChildStep(t))

Spec == SafeSpec /\ Fairness

-----------------------------------------------------------------------------
(* Properties.                                                             *)

\* Who will still touch the child's frame.
OwnerUses(t) == opc[t] \notin {"new", "gone"}
ChildUses(t) == cpc[t] \notin {"none", "settled"}

\* Types, and that a handle in an owner's hands was given a frame.
TypeOK ==
  /\ runners \in 1..MaxRunners
  /\ frame \in [Tasks -> {"none", "live", "freed"}]
  /\ state_ \in [Tasks -> {"waiting", "done", "detached"}]
  /\ suspended_ \in [Tasks -> BOOLEAN]
  /\ ret \in [Tasks -> {"none", "value", "exception"}]
  /\ cpc \in [Tasks -> {"none", "running", "suspended", "final", "settle",
                        "settled"}]
  /\ left \in [Tasks -> 0 .. Suspensions]
  /\ opc \in [Tasks -> {"new", "nested", "holding", "away", "back", "suspend",
                        "parked", "resume", "awaited", "detached", "gone"}]
  /\ posts \in [Tasks -> Nat]
  /\ \A t \in Tasks : opc[t] = "new" <=> frame[t] = "none"

\* The frame outlives both its coroutine and its handle: neither touches it
\* after the other destroyed it.  That is so as long as one thread runs the
\* context, for final_suspend schedules the owner while the child has yet to
\* suspend in its frame, and the owner cannot be resumed before the child's
\* thread is free; and as long as the handle is dropped once, after the task
\* ended.  (A child that finds itself detached destroys the frame it is about
\* to suspend in, and detach() is repeated by the destructor.)
FrameOutlivesUsersOnOneThread ==
  \A t \in Tasks :
    runners = 1 /\ state_[t] # "detached" /\ opc[t] # "detached" =>
      (OwnerUses(t) \/ ChildUses(t) => frame[t] = "live")

\* No frame is leaked: when child and owner are both done with it, whichever of
\* them was last has destroyed it, also if the handle was dropped or detached
\* while the child was running, suspended or just about to end.
FrameReclaimed ==
  \A t \in Tasks :
    opc[t] = "gone" /\ ~ChildUses(t) => frame[t] = "freed"

\* The owner is scheduled only while it is suspended on the handle, and once,
\* whether await_suspend or final_suspend does it.
ScheduledOnce ==
  \A t \in Tasks : posts[t] + (IF suspended_[t] THEN 1 ELSE 0)
                     <= IF opc[t] = "parked" THEN 1 ELSE 0

\* Whenever await_resume runs, the child has left its value or its exception.
OutcomeBeforeResume ==
  \A t \in Tasks : opc[t] \in {"resume", "awaited"} => ret[t] # "none"

\* No wake-up is lost between await_ready, await_suspend and final_suspend.
AwaiterResumes == \A t \in Tasks : opc[t] = "suspend" ~> opc[t] = "awaited"
=============================================================================
