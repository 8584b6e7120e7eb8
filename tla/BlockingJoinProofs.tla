------------------------- MODULE BlockingJoinProofs -------------------------
(***************************************************************************)
(* The state shared by a blocking task and its join handle is freed        *)
(* exactly once, by the last of the two that uses it, for any number of    *)
(* tasks and whether or not functions throw and owners are cancelled.      *)
(***************************************************************************)
EXTENDS BlockingJoin, TLAPS

\* call() has not reached its critical section yet.
Unfinished(t) == wpc[t] \in {"none", "queued", "running"}

\* The state exists as long as somebody uses it.
HeapPart(t) == heap[t] = "live" <=> OwnerUses(t) \/ WorkerUses(t)

\* What `state` and `ret` say of the two parties.
StatePart(t) ==
  /\ Unfinished(t) => /\ ret[t] = "none" /\ posts[t] = 0
                      /\ opc[t] \notin {"resume", "awaited", "delete"}
                      /\ state[t] = (IF opc[t] = "gone" THEN 0 - 1 ELSE 0)
  /\ ~Unfinished(t) => ret[t] # "none" /\ state[t] = 1
  /\ wpc[t] \in {"schedule_delete", "delete"} => opc[t] = "gone"

IInv == TypeOK /\ \A t \in Tasks : HeapPart(t) /\ StatePart(t)

-----------------------------------------------------------------------------
\* Each step changes the state of one task only and stays in its type.
LEMMA TypeStep == TypeOK /\ [Next]_vars => TypeOK'
  <1> SUFFICES ASSUME TypeOK, [Next]_vars PROVE TypeOK'
    OBVIOUS
  <1> USE DEF TypeOK, OwnerAt, WorkerAt, stateVars
  <1>1. ASSUME NEW t \in Tasks, OwnerStep(t) PROVE TypeOK'
    <2>1. CASE SpawnBlocking(t) BY <2>1 DEF SpawnBlocking
    <2>2. CASE AwaitReady(t)    BY <2>2 DEF AwaitReady
    <2>3. CASE AwaitSuspend(t)
      <3>1. CASE state[t] = 1   BY <2>3, <3>1 DEF AwaitSuspend
      <3>2. CASE state[t] # 1   BY <2>3, <3>2 DEF AwaitSuspend
      <3> QED BY <3>1, <3>2
    <2>4. CASE Resume(t)        BY <2>4 DEF Resume
    <2>5. CASE AwaitResume(t)   BY <2>5 DEF AwaitResume
    <2>6. CASE Detach(t)        BY <2>6 DEF Detach
    <2>7. CASE OwnerDelete(t)   BY <2>7 DEF OwnerDelete
    <2> QED BY <1>1, <2>1, <2>2, <2>3, <2>4, <2>5, <2>6, <2>7 DEF OwnerStep
  <1>2. ASSUME NEW t \in Tasks, Cancel(t) PROVE TypeOK'
    BY <1>2 DEF Cancel
  <1>3. ASSUME NEW t \in Tasks, WorkerStep(t) PROVE TypeOK'
    <2>1. CASE BeginCall(t)    BY <2>1 DEF BeginCall
    <2>2. CASE EndCall(t)      BY <2>2 DEF EndCall, WorkerNext
    <2>3. CASE Schedule(t)     BY <2>3 DEF Schedule
    <2>4. CASE WorkerDelete(t) BY <2>4 DEF WorkerDelete
    <2> QED BY <1>3, <2>1, <2>2, <2>3, <2>4 DEF WorkerStep
  <1>4. CASE UNCHANGED vars
    BY <1>4 DEF vars
  <1> QED BY <1>1, <1>2, <1>3, <1>4 DEF Next

\* Inductive step: for each action on task u, the parts of any task t are kept.
LEMMA InvStep == IInv /\ [Next]_vars => IInv'
  <1> SUFFICES ASSUME IInv, [Next]_vars PROVE IInv'
    OBVIOUS
  <1>1. TypeOK'
    BY TypeStep DEF IInv
  <1> SUFFICES ASSUME NEW t \in Tasks PROVE HeapPart(t)' /\ StatePart(t)'
    BY <1>1 DEF IInv
  <1> USE DEF IInv, TypeOK, HeapPart, StatePart, Unfinished, OwnerUses,
              WorkerUses, OwnerAt, WorkerAt, stateVars
  <1>2. ASSUME NEW u \in Tasks, OwnerStep(u)
        PROVE  HeapPart(t)' /\ StatePart(t)'
    <2>1. CASE SpawnBlocking(u) BY <2>1 DEF SpawnBlocking
    <2>2. CASE AwaitReady(u)    BY <2>2 DEF AwaitReady
    <2>3. CASE AwaitSuspend(u)  BY <2>3 DEF AwaitSuspend
    <2>4. CASE Resume(u)        BY <2>4 DEF Resume
    <2>5. CASE AwaitResume(u)   BY <2>5 DEF AwaitResume
    <2>6. CASE Detach(u)        BY <2>6 DEF Detach
    <2>7. CASE OwnerDelete(u)   BY <2>7 DEF OwnerDelete
    <2> QED BY <1>2, <2>1, <2>2, <2>3, <2>4, <2>5, <2>6, <2>7 DEF OwnerStep
  <1>3. ASSUME NEW u \in Tasks, Cancel(u)
        PROVE  HeapPart(t)' /\ StatePart(t)'
    BY <1>3 DEF Cancel
  <1>4. ASSUME NEW u \in Tasks, WorkerStep(u)
        PROVE  HeapPart(t)' /\ StatePart(t)'
    <2>1. CASE BeginCall(u)    BY <2>1 DEF BeginCall
    <2>2. CASE EndCall(u)      BY <2>2 DEF EndCall, WorkerNext
    <2>3. CASE Schedule(u)     BY <2>3 DEF Schedule
    <2>4. CASE WorkerDelete(u) BY <2>4 DEF WorkerDelete
    <2> QED BY <1>4, <2>1, <2>2, <2>3, <2>4 DEF WorkerStep
  <1>5. CASE UNCHANGED vars
    BY <1>5 DEF vars
  <1> QED BY <1>2, <1>3, <1>4, <1>5 DEF Next

LEMMA Inductive == SafeSpec => []IInv
  <1>1. Init => IInv
    BY DEF Init, IInv, TypeOK, HeapPart, StatePart, Unfinished, OwnerUses,
           WorkerUses
  <1> QED BY <1>1, InvStep, PTL DEF SafeSpec

\* Types, with the tie between the state's existence and its two users.
THEOREM Typing == Spec => []TypeOK
  <1>1. IInv => TypeOK
    BY DEF IInv
  <1> QED BY <1>1, Inductive, PTL DEF Spec

\* Neither call() nor the join handle ever touches a deleted state.
THEOREM StateOutlivesUsers == Spec => []NoUseAfterFree
  <1>1. IInv => NoUseAfterFree
    BY DEF IInv, HeapPart, NoUseAfterFree
  <1> QED BY <1>1, Inductive, PTL DEF Spec

\* `delete state_` in detach and `delete this` in call() exclude each other,
\* and one of them happens.
THEOREM FreedOnce == Spec => []FreedByExactlyOne
  <1>1. IInv => FreedByExactlyOne
    <2> SUFFICES ASSUME IInv, NEW t \in Tasks
                 PROVE  /\ ~(opc[t] = "delete" /\ WorkerUses(t))
                        /\ ~(wpc[t] = "delete" /\ OwnerUses(t))
                        /\ opc[t] = "gone" /\ ~WorkerUses(t) => heap[t] = "freed"
      BY DEF FreedByExactlyOne
    <2> QED BY DEF IInv, TypeOK, HeapPart, StatePart, Unfinished, OwnerUses,
                   WorkerUses
  <1> QED BY <1>1, Inductive, PTL DEF Spec

\* await_resume finds what the task left.
THEOREM OutcomeIsThere == Spec => []OutcomeBeforeResume
  <1>1. IInv => OutcomeBeforeResume
    BY DEF IInv, StatePart, Unfinished, OutcomeBeforeResume
  <1> QED BY <1>1, Inductive, PTL DEF Spec

-----------------------------------------------------------------------------
(* Scheduling of the owners that are not destroyed while suspended.        *)

\* A suspended owner will be scheduled: by call(), which finds its handle in
\* `suspended` or has taken it out, or it has been.
Owed(t) ==
  opc[t] = "parked" => \/ posts[t] = 1
                       \/ wpc[t] \in {"schedule", "schedule_delete"}
                       \/ suspended[t] /\ wpc[t] \in {"queued", "running"}

\* The resumption of the owner is owed by one place only: the state's
\* `suspended`, the worker, or a handler already posted.
OwedPart(t) ==
  /\ Owed(t)
  /\ opc[t] # "cancelled"
  /\ suspended[t] => opc[t] = "parked" /\ Unfinished(t) /\ posts[t] = 0
  /\ wpc[t] \in {"schedule", "schedule_delete"} =>
       opc[t] = "parked" /\ posts[t] = 0
  /\ posts[t] # 0 => opc[t] = "parked" /\ posts[t] = 1

OwedInv == \A t \in Tasks \ Cancellable : OwedPart(t)

\* For each action on task u, the owner of any task t is owed what it was.
LEMMA OwedStep == IInv /\ OwedInv /\ [Next]_vars => OwedInv'
  <1> SUFFICES ASSUME IInv, OwedInv, [Next]_vars, NEW t \in Tasks \ Cancellable
               PROVE  OwedPart(t)'
    BY DEF OwedInv
  <1> USE DEF IInv, TypeOK, StatePart, Unfinished, OwedInv, OwedPart, OwnerAt,
              WorkerAt, stateVars, Owed
  <1>1. ASSUME NEW u \in Tasks, OwnerStep(u) PROVE OwedPart(t)'
    <2>1. CASE SpawnBlocking(u) BY <2>1 DEF SpawnBlocking
    <2>2. CASE AwaitReady(u)    BY <2>2 DEF AwaitReady
    <2>3. CASE AwaitSuspend(u)  BY <2>3 DEF AwaitSuspend
    <2>4. CASE Resume(u)        BY <2>4 DEF Resume
    <2>5. CASE AwaitResume(u)   BY <2>5 DEF AwaitResume
    <2>6. CASE Detach(u)        BY <2>6 DEF Detach
    <2>7. CASE OwnerDelete(u)   BY <2>7 DEF OwnerDelete
    <2> QED BY <1>1, <2>1, <2>2, <2>3, <2>4, <2>5, <2>6, <2>7 DEF OwnerStep
  <1>2. ASSUME NEW u \in Tasks, Cancel(u) PROVE OwedPart(t)'
    BY <1>2 DEF Cancel
  <1>3. ASSUME NEW u \in Tasks, WorkerStep(u) PROVE OwedPart(t)'
    <2>1. CASE BeginCall(u)    BY <2>1 DEF BeginCall
    <2>2. CASE EndCall(u)      BY <2>2 DEF EndCall, WorkerNext
    <2>3. CASE Schedule(u)     BY <2>3 DEF Schedule
    <2>4. CASE WorkerDelete(u) BY <2>4 DEF WorkerDelete
    <2> QED BY <1>3, <2>1, <2>2, <2>3, <2>4 DEF WorkerStep
  <1>4. CASE UNCHANGED vars
    BY <1>4 DEF vars
  <1> QED BY <1>1, <1>2, <1>3, <1>4 DEF Next

\* It holds always.
LEMMA OwedInductive == SafeSpec => [](IInv /\ OwedInv)
  <1>1. Init => OwedInv
    BY DEF Init, OwedInv, OwedPart, Owed, Unfinished
  <1> QED BY <1>1, OwedStep, Inductive, PTL DEF SafeSpec

\* await_suspend and call() schedule an owner at most once and only while it is
\* suspended, if it is not one that is destroyed while suspended.
THEOREM AtMostOneScheduling == Spec => []ScheduledOnce
  <1>1. IInv /\ OwedInv => ScheduledOnce
    <2> SUFFICES ASSUME IInv, OwedInv, NEW t \in Tasks \ Cancellable
                 PROVE  posts[t]
                          + (IF wpc[t] \in {"schedule", "schedule_delete"} THEN 1 ELSE 0)
                          + (IF suspended[t] THEN 1 ELSE 0)
                        <= IF opc[t] = "parked" THEN 1 ELSE 0
      BY DEF ScheduledOnce
    <2> USE DEF IInv, TypeOK, OwedInv, OwedPart, Unfinished
    <2>1. CASE suspended[t]
      BY <2>1
    <2>2. CASE ~suspended[t] /\ wpc[t] \in {"schedule", "schedule_delete"}
      BY <2>2
    <2>3. CASE ~suspended[t] /\ wpc[t] \notin {"schedule", "schedule_delete"}
      BY <2>3
    <2> QED BY <2>1, <2>2, <2>3
  <1> QED BY <1>1, OwedInductive, PTL DEF Spec

\* Nobody awaits a blocking task in vain, whichever of await_suspend and the end
\* of call() gets the state's mutex first: the safety core of AwaiterResumes.
THEOREM NoLostResumption == Spec => [](\A t \in Tasks \ Cancellable : Owed(t))
  <1>1. OwedInv => \A t \in Tasks \ Cancellable : Owed(t)
    BY DEF OwedInv, OwedPart
  <1> QED BY <1>1, OwedInductive, PTL DEF Spec

-----------------------------------------------------------------------------
(* Refinement of LastOneOut.                                               *)

H(t) == (IF OwnerUses(t) THEN {"owner"} ELSE {})
          \cup (IF WorkerUses(t) THEN {"worker"} ELSE {})
F(t) == heap[t] = "freed"

\* A step of the code in which one party stops using the state of task u...
LEMMA LeaveStep ==
  ASSUME NEW u \in Tasks, NEW p \in {"owner", "worker"},
         p \in H(u), H(u)' = H(u) \ {p}, F(u)' = (H(u) = {p}),
         \A t \in Tasks \ {u} : H(t)' = H(t) /\ F(t)' = F(t)
  PROVE  Shared!Leave(u, p)
  <1>1. [t \in Tasks |-> H(t)]' = [[t \in Tasks |-> H(t)] EXCEPT ![u] = @ \ {p}]
    OBVIOUS
  <1>2. [t \in Tasks |-> F(t)]' = [[t \in Tasks |-> F(t)] EXCEPT ![u] = H(u) = {p}]
    OBVIOUS
  <1> QED BY <1>1, <1>2 DEF Shared!Leave, H, F

\* ...and one in which nobody does.
LEMMA StayStep ==
  ASSUME \A t \in Tasks : H(t)' = H(t) /\ F(t)' = F(t)
  PROVE  UNCHANGED Shared!vars
  <1>1. [t \in Tasks |-> H(t)]' = [t \in Tasks |-> H(t)]
    OBVIOUS
  <1>2. [t \in Tasks |-> F(t)]' = [t \in Tasks |-> F(t)]
    OBVIOUS
  <1> QED BY <1>1, <1>2 DEF Shared!vars, H, F

LEMMA RefinementStep == IInv /\ [Next]_vars => [Shared!Next]_(Shared!vars)
  <1> SUFFICES ASSUME IInv, [Next]_vars PROVE [Shared!Next]_(Shared!vars)
    OBVIOUS
  <1> USE DEF IInv, TypeOK, HeapPart, StatePart, Unfinished, OwnerUses,
              WorkerUses, OwnerAt, WorkerAt, stateVars
  <1>1. ASSUME NEW u \in Tasks, SpawnBlocking(u) PROVE Shared!Create(u)
    <2>1. H(u) = {} /\ ~F(u) /\ H(u)' = {"owner", "worker"} /\ ~F(u)'
      BY <1>1 DEF SpawnBlocking, H, F
    <2>2. \A t \in Tasks \ {u} : H(t)' = H(t) /\ F(t)' = F(t)
      BY <1>1 DEF SpawnBlocking, H, F
    <2>3. [t \in Tasks |-> H(t)]'
            = [[t \in Tasks |-> H(t)] EXCEPT ![u] = {"owner", "worker"}]
      BY <2>1, <2>2
    <2>4. [t \in Tasks |-> F(t)]' = [t \in Tasks |-> F(t)]
      BY <2>1, <2>2 DEF F
    <2> QED BY <2>1, <2>3, <2>4 DEF Shared!Create, H, F
  <1>2. ASSUME NEW u \in Tasks,
               AwaitReady(u) \/ AwaitSuspend(u) \/ Resume(u) \/ AwaitResume(u)
                 \/ Cancel(u) \/ BeginCall(u)
        PROVE UNCHANGED Shared!vars
    <2> \A t \in Tasks : H(t)' = H(t) /\ F(t)' = F(t)
      BY <1>2 DEF AwaitReady, AwaitSuspend, Resume, AwaitResume, Cancel,
                  BeginCall, H, F
    <2> QED BY StayStep
  <1>3. ASSUME NEW u \in Tasks, Detach(u) PROVE [Shared!Next]_(Shared!vars)
    <2>1. CASE state[u] = 1
      <3> \A t \in Tasks : H(t)' = H(t) /\ F(t)' = F(t)
        BY <1>3, <2>1 DEF Detach, H, F
      <3> QED BY StayStep
    <2>2. CASE state[u] # 1
      <3>1. /\ "owner" \in H(u) /\ H(u)' = H(u) \ {"owner"}
            /\ F(u)' = (H(u) = {"owner"})
        BY <1>3, <2>2 DEF Detach, H, F
      <3>2. \A t \in Tasks \ {u} : H(t)' = H(t) /\ F(t)' = F(t)
        BY <1>3, <2>2 DEF Detach, H, F
      <3> QED BY <3>1, <3>2, LeaveStep DEF Shared!Next
    <2> QED BY <2>1, <2>2
  <1>4. ASSUME NEW u \in Tasks, OwnerDelete(u) PROVE Shared!Leave(u, "owner")
    <2>1. /\ "owner" \in H(u) /\ H(u)' = H(u) \ {"owner"}
          /\ F(u)' = (H(u) = {"owner"})
      BY <1>4 DEF OwnerDelete, H, F
    <2>2. \A t \in Tasks \ {u} : H(t)' = H(t) /\ F(t)' = F(t)
      BY <1>4 DEF OwnerDelete, H, F
    <2> QED BY <2>1, <2>2, LeaveStep
  <1>5. ASSUME NEW u \in Tasks, EndCall(u) PROVE [Shared!Next]_(Shared!vars)
    <2>1. CASE state[u] = 0 - 1
      <3> \A t \in Tasks : H(t)' = H(t) /\ F(t)' = F(t)
        BY <1>5, <2>1 DEF EndCall, WorkerNext, H, F
      <3> QED BY StayStep
    <2>2. CASE state[u] # 0 - 1
      <3>1. /\ "worker" \in H(u) /\ H(u)' = H(u) \ {"worker"}
            /\ F(u)' = (H(u) = {"worker"})
        BY <1>5, <2>2 DEF EndCall, WorkerNext, H, F
      <3>2. \A t \in Tasks \ {u} : H(t)' = H(t) /\ F(t)' = F(t)
        BY <1>5, <2>2 DEF EndCall, WorkerNext, H, F
      <3> QED BY <3>1, <3>2, LeaveStep DEF Shared!Next
    <2> QED BY <2>1, <2>2
  <1>6. ASSUME NEW u \in Tasks, Schedule(u) PROVE UNCHANGED Shared!vars
    <2> \A t \in Tasks : H(t)' = H(t) /\ F(t)' = F(t)
      BY <1>6 DEF Schedule, H, F
    <2> QED BY StayStep
  <1>7. ASSUME NEW u \in Tasks, WorkerDelete(u) PROVE Shared!Leave(u, "worker")
    <2>1. /\ "worker" \in H(u) /\ H(u)' = H(u) \ {"worker"}
          /\ F(u)' = (H(u) = {"worker"})
      BY <1>7 DEF WorkerDelete, H, F
    <2>2. \A t \in Tasks \ {u} : H(t)' = H(t) /\ F(t)' = F(t)
      BY <1>7 DEF WorkerDelete, H, F
    <2> QED BY <2>1, <2>2, LeaveStep
  <1>8. CASE UNCHANGED vars
    <2> \A t \in Tasks : H(t)' = H(t) /\ F(t)' = F(t)
      BY <1>8 DEF vars, H, F
    <2> QED BY StayStep
  <1> QED BY <1>1, <1>2, <1>3, <1>4, <1>5, <1>6, <1>7, <1>8
          DEF Next, OwnerStep, WorkerStep, Shared!Next

\* spawn_blocking.hpp: the join handle and the task share the state as LastOneOut
\* says, and whoever leaves last deletes it.
THEOREM Refinement == Spec => ImplementsLastOneOut
  <1>1. ASSUME Init PROVE Shared!Init
    <2>1. \A t \in Tasks : H(t) = {} /\ F(t) = FALSE
      BY <1>1 DEF Init, OwnerUses, WorkerUses, H, F
    <2>2. [t \in Tasks |-> H(t)] = [t \in Tasks |-> {}]
      BY <2>1
    <2>3. [t \in Tasks |-> F(t)] = [t \in Tasks |-> FALSE]
      BY <2>1
    <2> QED BY <2>2, <2>3 DEF Shared!Init, H, F
  <1> QED BY <1>1, Inductive, RefinementStep, PTL
          DEF Spec, SafeSpec, ImplementsLastOneOut, Shared!SafeSpec
=============================================================================
