--------------------------- MODULE JoinHandleProofs ---------------------------
(***************************************************************************)
(* spawn and join_handle for any number of tasks and core threads.  The    *)
(* inductive invariant says what state_, written under the mutex of the    *)
(* promise, tells of the child, of its owner and of the frame; and that on *)
(* one core thread one coroutine runs at a time.                           *)
(***************************************************************************)
EXTENDS JoinHandle, FiniteSetTheorems, TLAPS

\* The child has passed final_suspend's critical section.
Ended(t) == cpc[t] \in {"settle", "settled"}
\* The owner has let go of the handle at least once.
LetGone(t) == opc[t] \in {"detached", "gone"}

\* Before spawn().
NewPart(t) ==
  /\ opc[t] = "new" <=> cpc[t] = "none"
  /\ opc[t] = "new" => state_[t] = "waiting"

\* Neither side has decided anything: the child will find out, and an owner
\* that waits has left its handle in suspended_.
WaitingPart(t) ==
  state_[t] = "waiting" =>
    /\ ~Ended(t) /\ ~LetGone(t) /\ opc[t] \notin {"resume", "awaited"}
    /\ posts[t] = 0
    /\ suspended_[t] <=> opc[t] = "parked"
    /\ opc[t] # "new" => frame[t] = "live"

\* The child ended first: the outcome is there, and the frame is the owner's.
DonePart(t) ==
  state_[t] = "done" =>
    /\ Ended(t) /\ ret[t] # "none"
    /\ ~suspended_[t]
    /\ posts[t] = IF opc[t] = "parked" THEN 1 ELSE 0
    /\ frame[t] = IF LetGone(t) THEN "freed" ELSE "live"

\* The owner let go first: the frame is the child's.
DetachedPart(t) ==
  state_[t] = "detached" =>
    /\ LetGone(t)
    /\ posts[t] = 0 /\ ~suspended_[t]
    /\ frame[t] = IF Ended(t) THEN "freed" ELSE "live"

\* The outcome is stored before final_suspend.
OutcomePart(t) == cpc[t] \in {"final", "settle", "settled"} => ret[t] # "none"

TaskInv(t) == /\ NewPart(t) /\ WaitingPart(t) /\ DonePart(t)
              /\ DetachedPart(t) /\ OutcomePart(t)

\* With one core thread, at most one coroutine occupies it.
OneRuns ==
  runners = 1 =>
    \A t, u \in Tasks : /\ OwnerRuns(t) /\ OwnerRuns(u) => t = u
                        /\ ChildRuns(t) /\ ChildRuns(u) => t = u
                        /\ ~(OwnerRuns(t) /\ ChildRuns(u))

\* With one core thread, an owner that frees the frame finds the child at rest.
AtRest == runners = 1 =>
            \A t \in Tasks : state_[t] = "done" /\ LetGone(t) => cpc[t] = "settled"

IInv == TypeOK /\ (\A t \in Tasks : TaskInv(t)) /\ OneRuns /\ AtRest

-----------------------------------------------------------------------------
\* When one core thread is free, no coroutine runs.
LEMMA FreeMeansIdle ==
  ASSUME runners = 1, FreeRunner
  PROVE  \A t \in Tasks : ~OwnerRuns(t) /\ ~ChildRuns(t)
  <1> DEFINE O == {t \in Tasks : OwnerRuns(t)}
             C == {t \in Tasks : ChildRuns(t)}
  <1>1. IsFiniteSet(O) /\ IsFiniteSet(C)
    BY FS_Subset, JoinAssumption
  <1>2. Cardinality(O) \in Nat /\ Cardinality(C) \in Nat
    BY <1>1, FS_CardinalityType
  <1>3. Cardinality(O) = 0 /\ Cardinality(C) = 0
    BY <1>2 DEF FreeRunner
  <1>4. O = {} /\ C = {}
    BY <1>1, <1>3, FS_EmptySet
  <1> QED BY <1>4

\* Each step stays in its type.
LEMMA TypeStep == IInv /\ [Next]_vars => TypeOK'
  <1> SUFFICES ASSUME IInv, [Next]_vars PROVE TypeOK'
    OBVIOUS
  <1>0. TypeOK /\ \A t \in Tasks : NewPart(t)
    BY DEF IInv, TaskInv
  <1> USE <1>0
  <1> USE JoinAssumption DEF TypeOK, OwnerAt, ChildAt, GiveBack, promiseVars, childVars
  <1>1. ASSUME NEW t \in Tasks, OwnerStep(t) PROVE TypeOK'
    <2>1. CASE Spawn(t)        BY <2>1 DEF Spawn
    <2>2. CASE GoAway(t)       BY <2>2 DEF GoAway
    <2>3. CASE ComeBack(t)     BY <2>3 DEF ComeBack
    <2>4. CASE AwaitReady(t)   BY <2>4 DEF AwaitReady
    <2>5. CASE AwaitSuspend(t)
      <3>1. CASE state_[t] = "waiting" BY <2>5, <3>1 DEF AwaitSuspend
      <3>2. CASE state_[t] # "waiting" BY <2>5, <3>2 DEF AwaitSuspend
      <3> QED BY <3>1, <3>2
    <2>6. CASE Resume(t)       BY <2>6 DEF Resume
    <2>7. CASE AwaitResume(t)  BY <2>7 DEF AwaitResume
    <2>8. CASE LetGo(t)        BY <2>8 DEF LetGo, CanLetGo, AfterLetGo
    <2> QED BY <1>1, <2>1, <2>2, <2>3, <2>4, <2>5, <2>6, <2>7, <2>8 DEF OwnerStep
  <1>2. ASSUME NEW t \in Tasks, ChildStep(t) PROVE TypeOK'
    <2>1. CASE ChildSuspend(t) BY <2>1 DEF ChildSuspend
    <2>2. CASE ChildResume(t)  BY <2>2 DEF ChildResume
    <2>3. CASE Return(t)       BY <2>3 DEF Return
    <2>4. CASE FinalSuspend(t)
      <3>1. CASE state_[t] = "detached" BY <2>4, <3>1 DEF FinalSuspend, NewPart
      <3>2. CASE state_[t] # "detached"
        <4>1. posts' \in [Tasks -> Nat]
          BY <2>4, <3>2 DEF FinalSuspend
        <4> QED BY <2>4, <3>2, <4>1 DEF FinalSuspend
      <3> QED BY <3>1, <3>2
    <2>5. CASE Settle(t)       BY <2>5 DEF Settle
    <2> QED BY <1>2, <2>1, <2>2, <2>3, <2>4, <2>5 DEF ChildStep
  <1>3. CASE UNCHANGED vars
    BY <1>3 DEF vars
  <1> QED BY <1>1, <1>2, <1>3 DEF Next

\* For each action on task u, the part of any task t is kept.
LEMMA TaskStep == IInv /\ [Next]_vars => \A t \in Tasks : TaskInv(t)'
  <1> SUFFICES ASSUME IInv, [Next]_vars, NEW t \in Tasks PROVE TaskInv(t)'
    OBVIOUS
  <1> USE DEF IInv, TypeOK, TaskInv, NewPart, WaitingPart, DonePart, DetachedPart,
              OutcomePart, Ended, LetGone, OwnerAt, ChildAt, GiveBack,
              promiseVars, childVars
  <1>1. ASSUME NEW u \in Tasks, OwnerStep(u) PROVE TaskInv(t)'
    <2>1. CASE Spawn(u)        BY <2>1 DEF Spawn
    <2>2. CASE GoAway(u)       BY <2>2 DEF GoAway
    <2>3. CASE ComeBack(u)     BY <2>3 DEF ComeBack
    <2>4. CASE AwaitReady(u)   BY <2>4 DEF AwaitReady
    <2>5. CASE AwaitSuspend(u) BY <2>5 DEF AwaitSuspend
    <2>6. CASE Resume(u)       BY <2>6 DEF Resume
    <2>7. CASE AwaitResume(u)  BY <2>7 DEF AwaitResume
    <2>8. CASE LetGo(u)        BY <2>8 DEF LetGo, CanLetGo, AfterLetGo
    <2> QED BY <1>1, <2>1, <2>2, <2>3, <2>4, <2>5, <2>6, <2>7, <2>8 DEF OwnerStep
  <1>2. ASSUME NEW u \in Tasks, ChildStep(u) PROVE TaskInv(t)'
    <2>1. CASE ChildSuspend(u) BY <2>1 DEF ChildSuspend
    <2>2. CASE ChildResume(u)  BY <2>2 DEF ChildResume
    <2>3. CASE Return(u)       BY <2>3 DEF Return
    <2>4. CASE FinalSuspend(u) BY <2>4 DEF FinalSuspend
    <2>5. CASE Settle(u)       BY <2>5 DEF Settle
    <2> QED BY <1>2, <2>1, <2>2, <2>3, <2>4, <2>5 DEF ChildStep
  <1>3. CASE UNCHANGED vars
    BY <1>3 DEF vars
  <1> QED BY <1>1, <1>2, <1>3 DEF Next

\* A coroutine that starts to run takes the thread when nobody has it, or from
\* the one that gives it up.
LEMMA OneRunsStep == IInv /\ [Next]_vars => OneRuns'
  <1> SUFFICES ASSUME IInv, [Next]_vars, runners' = 1, NEW t \in Tasks, NEW u \in Tasks
               PROVE  /\ OwnerRuns(t)' /\ OwnerRuns(u)' => t = u
                      /\ ChildRuns(t)' /\ ChildRuns(u)' => t = u
                      /\ ~(OwnerRuns(t)' /\ ChildRuns(u)')
    BY DEF OneRuns
  <1>0. runners = 1 /\ UNCHANGED runners
    BY DEF Next, OwnerStep, ChildStep, Spawn, GoAway, ComeBack, AwaitReady,
           AwaitSuspend, Resume, AwaitResume, LetGo, ChildSuspend, ChildResume,
           Return, FinalSuspend, Settle, promiseVars, vars
  <1>1. ASSUME NEW v \in Tasks, FreeRunner
        PROVE  \A x \in Tasks : ~OwnerRuns(x) /\ ~ChildRuns(x)
    BY <1>0, <1>1, FreeMeansIdle
  <1> USE <1>0 DEF IInv, TypeOK, OneRuns, OwnerRuns, ChildRuns, OwnerAt, ChildAt,
              GiveBack, promiseVars, childVars
  <1>2. ASSUME NEW v \in Tasks, OwnerStep(v)
        PROVE  /\ OwnerRuns(t)' /\ OwnerRuns(u)' => t = u
               /\ ChildRuns(t)' /\ ChildRuns(u)' => t = u
               /\ ~(OwnerRuns(t)' /\ ChildRuns(u)')
    <2>1. CASE Spawn(v)        BY <1>1, <2>1 DEF Spawn
    <2>2. CASE GoAway(v)       BY <2>2 DEF GoAway
    <2>3. CASE ComeBack(v)     BY <1>1, <2>3 DEF ComeBack
    <2>4. CASE AwaitReady(v)   BY <2>4 DEF AwaitReady
    <2>5. CASE AwaitSuspend(v) BY <2>5 DEF AwaitSuspend
    <2>6. CASE Resume(v)       BY <1>1, <2>6 DEF Resume
    <2>7. CASE AwaitResume(v)  BY <2>7 DEF AwaitResume
    <2>8. CASE LetGo(v)        BY <2>8 DEF LetGo, CanLetGo, AfterLetGo
    <2> QED BY <1>2, <2>1, <2>2, <2>3, <2>4, <2>5, <2>6, <2>7, <2>8 DEF OwnerStep
  <1>3. ASSUME NEW v \in Tasks, ChildStep(v)
        PROVE  /\ OwnerRuns(t)' /\ OwnerRuns(u)' => t = u
               /\ ChildRuns(t)' /\ ChildRuns(u)' => t = u
               /\ ~(OwnerRuns(t)' /\ ChildRuns(u)')
    <2>1. CASE ChildSuspend(v) BY <2>1 DEF ChildSuspend
    <2>2. CASE ChildResume(v)  BY <1>1, <2>2 DEF ChildResume
    <2>3. CASE Return(v)       BY <2>3 DEF Return
    <2>4. CASE FinalSuspend(v) BY <2>4 DEF FinalSuspend
    <2>5. CASE Settle(v)       BY <2>5 DEF Settle
    <2> QED BY <1>3, <2>1, <2>2, <2>3, <2>4, <2>5 DEF ChildStep
  <1>4. CASE UNCHANGED vars
    BY <1>4 DEF vars
  <1> QED BY <1>2, <1>3, <1>4 DEF Next

\* An owner that lets go runs, so that a child on the same thread does not.
LEMMA AtRestStep == IInv /\ [Next]_vars => AtRest'
  <1> SUFFICES ASSUME IInv, [Next]_vars, runners' = 1, NEW t \in Tasks,
                      state_'[t] = "done", LetGone(t)'
               PROVE  cpc'[t] = "settled"
    BY DEF AtRest
  <1> USE DEF IInv, TypeOK, AtRest, LetGone, OwnerAt, ChildAt, GiveBack,
              promiseVars, childVars
  <1>1. ASSUME NEW u \in Tasks, OwnerStep(u) PROVE cpc'[t] = "settled"
    <2>1. CASE Spawn(u)        BY <2>1 DEF Spawn
    <2>2. CASE GoAway(u)       BY <2>2 DEF GoAway
    <2>3. CASE ComeBack(u)     BY <2>3 DEF ComeBack
    <2>4. CASE AwaitReady(u)   BY <2>4 DEF AwaitReady
    <2>5. CASE AwaitSuspend(u) BY <2>5 DEF AwaitSuspend
    <2>6. CASE Resume(u)       BY <2>6 DEF Resume
    <2>7. CASE AwaitResume(u)  BY <2>7 DEF AwaitResume
    <2>8. CASE LetGo(u) /\ u # t
      BY <2>8 DEF LetGo
    <2>9. CASE LetGo(u) /\ u = t
      <3>1. state_[t] = "done" /\ runners = 1 /\ cpc' = cpc
        BY <2>9 DEF LetGo
      <3>2. cpc[t] \in {"settle", "settled"}
        BY <3>1 DEF TaskInv, DonePart, Ended
      <3>3. OwnerRuns(t) /\ opc[t] # "nested"
        BY <2>9 DEF LetGo, CanLetGo, OwnerRuns
      <3>4. ~ChildRuns(t)
        BY <3>1, <3>3 DEF OneRuns
      <3> QED BY <3>1, <3>2, <3>3, <3>4 DEF ChildRuns
    <2> QED BY <1>1, <2>1, <2>2, <2>3, <2>4, <2>5, <2>6, <2>7, <2>8, <2>9 DEF OwnerStep
  <1>2. ASSUME NEW u \in Tasks, ChildStep(u) PROVE cpc'[t] = "settled"
    <2>1. CASE ChildSuspend(u) BY <2>1 DEF ChildSuspend
    <2>2. CASE ChildResume(u)  BY <2>2 DEF ChildResume
    <2>3. CASE Return(u)       BY <2>3 DEF Return
    <2>4. CASE FinalSuspend(u) BY <2>4 DEF FinalSuspend, TaskInv, WaitingPart, DonePart, Ended
    <2>5. CASE Settle(u)       BY <2>5 DEF Settle
    <2> QED BY <1>2, <2>1, <2>2, <2>3, <2>4, <2>5 DEF ChildStep
  <1>3. CASE UNCHANGED vars
    BY <1>3 DEF vars
  <1> QED BY <1>1, <1>2, <1>3 DEF Next

LEMMA Inductive == SafeSpec => []IInv
  <1>1. Init => IInv
    BY JoinAssumption
       DEF Init, IInv, TypeOK, TaskInv, NewPart, WaitingPart, DonePart, DetachedPart,
           OutcomePart, Ended, LetGone, OneRuns, AtRest, OwnerRuns, ChildRuns
  <1>2. IInv /\ [Next]_vars => IInv'
    BY TypeStep, TaskStep, OneRunsStep, AtRestStep DEF IInv
  <1> QED BY <1>1, <1>2, PTL DEF SafeSpec

-----------------------------------------------------------------------------
\* On one core thread nobody touches a child's frame after it was destroyed,
\* for any number of tasks, as long as the handle is let go of after the end.
THEOREM FrameOutlivesUsers == Spec => []FrameOutlivesUsersOnOneThread
  <1>1. IInv => FrameOutlivesUsersOnOneThread
    BY DEF IInv, TypeOK, TaskInv, NewPart, WaitingPart, DonePart, DetachedPart, Ended,
           LetGone, AtRest, FrameOutlivesUsersOnOneThread, OwnerUses, ChildUses
  <1> QED BY <1>1, Inductive, PTL DEF Spec

\* The frame goes only when the owner let go of the handle and the child is past
\* the critical section of final_suspend.  On several core threads the child may
\* then still be on the way from that section to its suspension.
FreedWhenAgreed == \A t \in Tasks : frame[t] = "freed" => LetGone(t) /\ Ended(t)

\* On any number of threads, what detach() and final_suspend() do under the mutex
\* of the promise neither leaks the frame (once the child is at rest and the
\* owner is done, it is freed) nor frees it before both have been there.  That
\* nobody uses it afterwards holds for one thread: FrameOutlivesUsers.
THEOREM NoFrameLeaks == Spec => [](FrameReclaimed /\ FreedWhenAgreed)
  <1>1. IInv => FrameReclaimed
    BY DEF IInv, TypeOK, TaskInv, NewPart, WaitingPart, DonePart, DetachedPart, Ended,
           LetGone, FrameReclaimed, ChildUses
  <1>2. IInv => FreedWhenAgreed
    BY DEF IInv, TypeOK, TaskInv, NewPart, WaitingPart, DonePart, DetachedPart, Ended,
           LetGone, FreedWhenAgreed
  <1> QED BY <1>1, <1>2, Inductive, PTL DEF Spec

\* await_suspend and final_suspend never both schedule the owner, and only one
\* that is suspended.
THEOREM AtMostOneScheduling == Spec => []ScheduledOnce
  <1>1. IInv => ScheduledOnce
    <2> SUFFICES ASSUME IInv, NEW t \in Tasks
                 PROVE  posts[t] + (IF suspended_[t] THEN 1 ELSE 0)
                          <= IF opc[t] = "parked" THEN 1 ELSE 0
      BY DEF ScheduledOnce
    <2> USE DEF IInv, TypeOK, TaskInv, WaitingPart, DonePart, DetachedPart
    <2>1. CASE state_[t] = "waiting"
      BY <2>1
    <2>2. CASE state_[t] = "done"
      BY <2>2
    <2>3. CASE state_[t] = "detached"
      BY <2>3
    <2> QED BY <2>1, <2>2, <2>3
  <1> QED BY <1>1, Inductive, PTL DEF Spec

\* An owner that comes to await_resume finds the value or the exception.
THEOREM OutcomeIsThere == Spec => []OutcomeBeforeResume
  <1>1. IInv => OutcomeBeforeResume
    BY DEF IInv, TypeOK, TaskInv, WaitingPart, DonePart, DetachedPart, LetGone,
           OutcomeBeforeResume
  <1> QED BY <1>1, Inductive, PTL DEF Spec

\* A suspended owner has been scheduled, or it stands in suspended_ and the child
\* that will find it there has not reached final_suspend's critical section.
Owed(t) == opc[t] = "parked" =>
             \/ posts[t] = 1
             \/ suspended_[t] /\ cpc[t] # "none" /\ ~Ended(t)

\* On any number of core threads nobody awaits a task in vain, whichever of
\* await_suspend and final_suspend gets the promise's mutex first: the safety
\* core of AwaiterResumes.
THEOREM NoLostResumption == Spec => [](\A t \in Tasks : Owed(t))
  <1>1. ASSUME IInv, NEW t \in Tasks PROVE Owed(t)
    BY <1>1 DEF IInv, TypeOK, TaskInv, NewPart, WaitingPart, DonePart,
                DetachedPart, LetGone, Owed
  <1>2. IInv => \A t \in Tasks : Owed(t)
    BY <1>1
  <1> QED BY <1>2, Inductive, PTL DEF Spec
=============================================================================
