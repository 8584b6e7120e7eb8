---------------------------- MODULE BlockingJoin ----------------------------
(***************************************************************************)
(* spawn_blocking and blocking_join_handle                                 *)
(* (include/crasy/spawn_blocking.hpp): the heap-allocated state_t shared   *)
(* by a blocking task, which runs call() on a worker of the blocking pool, *)
(* and the coroutine that owns the join handle and awaits, detaches or     *)
(* drops it.  Which of the two deletes the state is decided under its      *)
(* mutex; a critical section is one step.                                  *)
(***************************************************************************)
EXTENDS Naturals

CONSTANTS Tasks,        \* the blocking tasks, each with its join handle
          CanThrow,     \* whether the task's function may throw
          Cancellable   \* tasks whose owner, the coroutine with the handle, may
                        \* be destroyed while it is suspended on it

ASSUME JoinAssumption == CanThrow \in BOOLEAN /\ Cancellable \subseteq Tasks

VARIABLES
  heap,        \* heap[t]: the state_t: "none", "live" or "freed"
  state,       \* heap[t]->state: 0, 1 (done) or -1 (detached)
  suspended,   \* heap[t]->suspended is set
  ret,         \* heap[t]->ret: "none", or what became of the function
  wpc,         \* wpc[t]: where the blocking worker is with task t
  opc,         \* opc[t]: where the owner of the handle is
  posts        \* posts[t]: resumptions of the owner that were scheduled

stateVars == <<heap, state, suspended, ret>>
vars == <<stateVars, wpc, opc, posts>>

Init == /\ heap = [t \in Tasks |-> "none"]
        /\ state = [t \in Tasks |-> 0]
        /\ suspended = [t \in Tasks |-> FALSE]
        /\ ret = [t \in Tasks |-> "none"]
        /\ wpc = [t \in Tasks |-> "none"]
        /\ opc = [t \in Tasks |-> "new"]
        /\ posts = [t \in Tasks |-> 0]

OwnerAt(t, l) == opc' = [opc EXCEPT ![t] = l]
WorkerAt(t, l) == wpc' = [wpc EXCEPT ![t] = l]

-----------------------------------------------------------------------------
(* The owner.                                                              *)

\* new state_t, and run_blocking in the constructor of the handle.
SpawnBlocking(t) == /\ opc[t] = "new"
                    /\ heap' = [heap EXCEPT ![t] = "live"]
                    /\ WorkerAt(t, "queued")
                    /\ OwnerAt(t, "holding")
                    /\ UNCHANGED <<state, suspended, ret, posts>>

AwaitReady(t) == /\ opc[t] = "holding"
                 /\ OwnerAt(t, IF state[t] = 1 THEN "resume" ELSE "suspend")
                 /\ UNCHANGED <<stateVars, wpc, posts>>

\* Mutation: await_suspend does not look at the state again.
AwaitSuspend_NoTest(t) == /\ opc[t] = "suspend"
                          /\ suspended' = [suspended EXCEPT ![t] = TRUE]
                          /\ OwnerAt(t, "parked")
                          /\ UNCHANGED <<heap, state, ret, wpc, posts>>

\* The task may have ended since await_ready.
AwaitSuspend(t) ==
  /\ opc[t] = "suspend"
  /\ IF state[t] = 1
     THEN posts' = [posts EXCEPT ![t] = @ + 1] /\ UNCHANGED suspended
     ELSE suspended' = [suspended EXCEPT ![t] = TRUE] /\ UNCHANGED posts
  /\ OwnerAt(t, "parked")
  /\ UNCHANGED <<heap, state, ret, wpc>>

\* A core thread runs the resumption.
Resume(t) == /\ opc[t] = "parked" /\ posts[t] > 0
             /\ posts' = [posts EXCEPT ![t] = @ - 1]
             /\ OwnerAt(t, "resume")
             /\ UNCHANGED <<stateVars, wpc>>

\* await_resume; the handle goes out of scope some time later.
AwaitResume(t) == /\ opc[t] = "resume"
                  /\ OwnerAt(t, "awaited")
                  /\ UNCHANGED <<stateVars, wpc, posts>>

\* The frame of the suspended owner is destroyed, and its locals with it.
Cancel(t) == /\ t \in Cancellable
             /\ opc[t] = "parked"
             /\ OwnerAt(t, "cancelled")
             /\ UNCHANGED <<stateVars, wpc, posts>>

\* Mutation: detach never deletes, it always leaves that to the task.
Detach_LeavesIt(t) == /\ opc[t] \in {"holding", "awaited", "cancelled"}
                      /\ state' = [state EXCEPT ![t] = 0 - 1]
                      /\ OwnerAt(t, "gone")
                      /\ UNCHANGED <<heap, suspended, ret, wpc, posts>>

\* Mutation: detach deletes the state even if the task still uses it.
Detach_Deletes(t) == /\ opc[t] \in {"holding", "awaited", "cancelled"}
                     /\ OwnerAt(t, "delete")
                     /\ UNCHANGED <<stateVars, wpc, posts>>

\* detach(), called or from the destructor of the handle.
Detach(t) == /\ opc[t] \in {"holding", "awaited", "cancelled"}
             /\ IF state[t] = 1
                THEN OwnerAt(t, "delete") /\ UNCHANGED state
                ELSE OwnerAt(t, "gone") /\ state' = [state EXCEPT ![t] = 0 - 1]
             /\ UNCHANGED <<heap, suspended, ret, wpc, posts>>

\* delete state_, after the mutex was released.
OwnerDelete(t) == /\ opc[t] = "delete"
                  /\ heap' = [heap EXCEPT ![t] = "freed"]
                  /\ OwnerAt(t, "gone")
                  /\ UNCHANGED <<state, suspended, ret, wpc, posts>>

-----------------------------------------------------------------------------
(* The worker of the blocking pool: state_t::call().                       *)

BeginCall(t) == /\ wpc[t] = "queued"
                /\ WorkerAt(t, "running")
                /\ UNCHANGED <<stateVars, opc, posts>>

\* Mutation: call() never deletes the state.
WorkerNext_NeverDeletes(t) == IF suspended[t] THEN "schedule" ELSE "gone"

\* `susp` and `st` of call(): the pcs tell them apart.
WorkerNext(t) == IF suspended[t]
                 THEN IF state[t] = 0 - 1 THEN "schedule_delete" ELSE "schedule"
                 ELSE IF state[t] = 0 - 1 THEN "delete" ELSE "gone"

\* Mutation: the outcome is published without clearing `suspended`.
EndCall_KeepsWaiter(t) == /\ wpc[t] = "running"
                          /\ ret' = [ret EXCEPT ![t] = "value"]
                          /\ state' = [state EXCEPT ![t] = 1]
                          /\ WorkerAt(t, WorkerNext(t))
                          /\ UNCHANGED <<heap, suspended, opc, posts>>

\* Mutation: the state is marked done before the result is there.
EndCall_NoResult(t) == /\ wpc[t] = "running"
                       /\ state' = [state EXCEPT ![t] = 1]
                       /\ suspended' = [suspended EXCEPT ![t] = FALSE]
                       /\ WorkerAt(t, WorkerNext(t))
                       /\ UNCHANGED <<heap, ret, opc, posts>>

\* The function returned or threw; one critical section stores what came of
\* it, takes the waiter out and marks the state done.
EndCall(t) == /\ wpc[t] = "running"
              /\ \E r \in {"value"} \cup (IF CanThrow THEN {"exception"} ELSE {}) :
                   ret' = [ret EXCEPT ![t] = r]
              /\ suspended' = [suspended EXCEPT ![t] = FALSE]
              /\ state' = [state EXCEPT ![t] = 1]
              /\ WorkerAt(t, WorkerNext(t))
              /\ UNCHANGED <<heap, opc, posts>>

\* schedule_task(susp), of whatever `suspended` held.
Schedule(t) == /\ wpc[t] \in {"schedule", "schedule_delete"}
               /\ posts' = [posts EXCEPT ![t] = @ + 1]
               /\ WorkerAt(t, IF wpc[t] = "schedule" THEN "gone" ELSE "delete")
               /\ UNCHANGED <<stateVars, opc>>

\* delete this.
WorkerDelete(t) == /\ wpc[t] = "delete"
                   /\ heap' = [heap EXCEPT ![t] = "freed"]
                   /\ WorkerAt(t, "gone")
                   /\ UNCHANGED <<state, suspended, ret, opc, posts>>

-----------------------------------------------------------------------------
OwnerStep(t) == \/ SpawnBlocking(t) \/ AwaitReady(t) \/ AwaitSuspend(t)
                \/ Resume(t) \/ AwaitResume(t) \/ Detach(t) \/ OwnerDelete(t)

WorkerStep(t) == \/ BeginCall(t) \/ EndCall(t) \/ Schedule(t) \/ WorkerDelete(t)

Next == \E t \in Tasks : OwnerStep(t) \/ Cancel(t) \/ WorkerStep(t)

SafeSpec == Init /\ [][Next]_vars

\* The pool runs every task handed to it (BlockingPool), functions end, core
\* threads run what was posted, and an owner that was resumed goes on until it
\* lets go of the handle.
Fairness == \A t \in Tasks : /\ WF_vars(WorkerStep(t))
                             /\ WF_vars(OwnerStep(t) /\ opc[t] # "new")

Spec == SafeSpec /\ Fairness

-----------------------------------------------------------------------------
(* Properties.                                                             *)

TypeOK ==
  /\ heap \in [Tasks -> {"none", "live", "freed"}]
  /\ state \in [Tasks -> {0, 1, 0 - 1}]
  /\ suspended \in [Tasks -> BOOLEAN]
  /\ ret \in [Tasks -> {"none", "value", "exception"}]
  /\ wpc \in [Tasks -> {"none", "queued", "running", "schedule",
                        "schedule_delete", "delete", "gone"}]
  /\ opc \in [Tasks -> {"new", "holding", "suspend", "parked", "resume",
                        "awaited", "cancelled", "delete", "gone"}]
  /\ \A t \in Tasks : /\ opc[t] = "new" <=> heap[t] = "none"
                      /\ opc[t] = "new" <=> wpc[t] = "none"
  /\ posts \in [Tasks -> Nat]

\* Who will still touch the state.
OwnerUses(t) == opc[t] \notin {"new", "gone"}
WorkerUses(t) == wpc[t] \in {"queued", "running", "schedule_delete", "delete"}

\* The state outlives both users: neither the worker's last critical section
\* nor the owner's finds it freed, in whichever order they come.
NoUseAfterFree ==
  \A t \in Tasks : OwnerUses(t) \/ WorkerUses(t) => heap[t] = "live"

\* Exactly one of the two deletes it: never both (a double delete), and when
\* both are done with it, it is deleted (no leak).
FreedByExactlyOne ==
  \A t \in Tasks :
    /\ ~(opc[t] = "delete" /\ WorkerUses(t))
    /\ ~(wpc[t] = "delete" /\ OwnerUses(t))
    /\ opc[t] = "gone" /\ ~WorkerUses(t) => heap[t] = "freed"

\* The owner is scheduled only while it is suspended on the handle, and once.
\* An owner that was destroyed is not: detach leaves its handle in the state.
ScheduledOnce ==
  \A t \in Tasks \ Cancellable :
    posts[t] + (IF wpc[t] \in {"schedule", "schedule_delete"} THEN 1 ELSE 0)
             + (IF suspended[t] THEN 1 ELSE 0)
      <= IF opc[t] = "parked" THEN 1 ELSE 0

\* Whenever await_resume runs, on the ready path or after a resumption, the
\* task has left its outcome in the state.
OutcomeBeforeResume ==
  \A t \in Tasks : opc[t] \in {"resume", "awaited"} => ret[t] # "none"

\* No lost wake-up between await_ready, await_suspend and the end of call():
\* an owner that suspends on the handle, and is not destroyed, is resumed.
AwaiterResumes ==
  \A t \in Tasks \ Cancellable : opc[t] = "suspend" ~> opc[t] = "awaited"

-----------------------------------------------------------------------------
(* Refinement of LastOneOut.                                               *)

Shared == INSTANCE LastOneOut WITH
            Objects <- Tasks,
            Parties <- {"owner", "worker"},
            holders <- [t \in Tasks |-> (IF OwnerUses(t) THEN {"owner"} ELSE {})
                                \cup (IF WorkerUses(t) THEN {"worker"} ELSE {})],
            freed   <- [t \in Tasks |-> heap[t] = "freed"]

\* The state is shared as LastOneOut says: whoever leaves last deletes it.
ImplementsLastOneOut == Shared!SafeSpec
=============================================================================
