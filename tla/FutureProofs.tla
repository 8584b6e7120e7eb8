---------------------------- MODULE FutureProofs ----------------------------
(***************************************************************************)
(* future<T> for chains of any depth, on any number of core threads, with  *)
(* any number of other waits on the way.  The inductive invariant says how *)
(* the places of a caller and its callee, the promise between them and the *)
(* callee's frame belong together; that a suspended coroutine has at most  *)
(* one handler or post to come; and that one core thread runs at most one  *)
(* coroutine at a time, so that who drops a future has its callee at rest. *)
(*                                                                         *)
(* The outcome at the top of the chain needs no induction over the chain:  *)
(* ChainPart, which says it of every suffix, is kept by every step.        *)
(***************************************************************************)
EXTENDS Future, FiniteSetTheorems, TLAPS

\* The coroutine is done with the future it held.
Past == {"end", "final", "wake", "settle", "settled", "cut"}

\* Calls go down the chain, and a call that has not returned is on top of its
\* caller.
CallPart ==
  \A k \in Coroutines :
    /\ pc[k] \in {"calling", "holding", "suspend", "parked", "resume"} =>
         k < Depth /\ pc[k + 1] # "none"
    /\ pc[k] = "calling" => pc[k + 1] \notin Off
    /\ k < Depth /\ pc[k] \in {"none", "body"} => pc[k + 1] = "none"
    /\ pc[1] = "none" => pc[k] = "none"

\* A frame is freed only by a caller that is done with it, and cut only then.
FramePart ==
  \A k \in Coroutines :
    /\ frame[k] = "none" <=> pc[k] = "none"
    /\ pc[k] = "cut" => frame[k] = "freed" /\ (k < Depth => frame[k + 1] # "live")
    /\ frame[k] = "freed" => /\ pc[k] \in {"wake", "settle", "settled", "cut"}
                             /\ k > 1 => pc[k - 1] \in Past

\* The promise has the outcome before done_ is set, and it is taken once.
OutcomePart ==
  \A k \in Coroutines :
    /\ ret[k] \in {"value", "exception"} => ret[k] = got[k]
    /\ ret[k] # "none" => pc[k] \in {"final", "wake", "settle", "settled", "cut"}
    /\ done_[k] => ret[k] # "none" /\ pc[k] \in {"wake", "settle", "settled", "cut"}
    /\ pc[k] \in {"wake", "settle", "settled"} => done_[k]
    /\ pc[k] \in {"end", "final"} => got[k] # "none"
    /\ pc[k] = "final" => ret[k] # "none"
    /\ ret[k] = "taken" => k > 1 /\ pc[k - 1] \in Past
    /\ pc[k] = "resume" => done_[k + 1]

\* A coroutine is scheduled once for each time it suspends, and only then: by the
\* handler it waits for, or by the end of the callee that has it in suspended_.
PostPart ==
  \A k \in Coroutines :
    /\ posts[k] \in {0, 1}
    /\ posts[k] > 0 => pc[k] \in {"parked", "asleep", "cut"}
    /\ pending[k] => posts[k] = 0 /\ pc[k] \in {"asleep", "cut"}
    /\ posts[k] > 0 /\ pc[k] = "parked" => done_[k + 1]
    /\ k < Depth /\ suspended_[k + 1] =>
         posts[k] = 0 /\ ~pending[k] /\ pc[k] \in {"parked", "cut"}

\* Where all futures below k were awaited, k has the outcome of the last one.
ChainPart ==
  \A k \in Coroutines :
    (\A j \in Callees : j > k => ret[j] = "taken") => got[k] = got[Depth]

\* On one core thread: one coroutine has it, and a frame is freed when its
\* coroutine is at rest.
OneActive == \A j, k \in Coroutines : Active(j) /\ Active(k) => j = k
FreedAtRest == \A k \in Coroutines : frame[k] = "freed" => pc[k] \in {"settled", "cut"}

OneThreadPart == runners = 1 => OneActive /\ FreedAtRest

IInv == /\ TypeOK /\ CallPart /\ FramePart /\ OutcomePart /\ PostPart
        /\ ChainPart /\ OneThreadPart

-----------------------------------------------------------------------------
\* Neighbours in the chain.
LEMMA Places ==
  /\ 1 \in Coroutines /\ Depth \in Coroutines
  /\ \A k \in Coroutines : /\ k \in Nat /\ 1 <= k /\ k <= Depth
                           /\ k < Depth => k + 1 \in Coroutines
                           /\ k > 1 => k - 1 \in Coroutines
  BY FutureAssumption DEF Coroutines

\* Each step stays in its type; what await_resume takes out of a promise is there.
LEMMA TypeStep == IInv /\ [Next]_vars => TypeOK'
  <1> USE Places DEF IInv, TypeOK, CallPart, OutcomePart, PostPart, Past, Off
  <1> SUFFICES ASSUME IInv, [Next]_vars PROVE TypeOK'
    OBVIOUS
  <1>1. CASE Start
    BY <1>1 DEF Start, At, waitVars
  <1>2. ASSUME NEW k \in Coroutines, Wait(k) PROVE TypeOK'
    BY <1>2, FutureAssumption DEF Wait, SuspendAt, promiseVars
  <1>3. ASSUME NEW k \in Coroutines, WaitEnds(k) PROVE TypeOK'
    <2>1. posts' \in [Coroutines -> Nat]
      BY <1>3 DEF WaitEnds
    <2> QED BY <1>3, <2>1 DEF WaitEnds, promiseVars
  <1>4. CASE Finish
    BY <1>4 DEF Finish, At, promiseVars, waitVars
  <1>5. ASSUME NEW k \in Coroutines, Call(k) PROVE TypeOK'
    BY <1>5 DEF Call, waitVars
  <1>6. ASSUME NEW k \in Coroutines, AwaitReady(k) PROVE TypeOK'
    BY <1>6 DEF AwaitReady, At, promiseVars, waitVars
  <1>7. ASSUME NEW k \in Coroutines, AwaitSuspend(k) PROVE TypeOK'
    BY <1>7 DEF AwaitSuspend, SuspendAt, waitVars
  <1>8. ASSUME NEW k \in Coroutines, Resume(k) PROVE TypeOK'
    BY <1>8 DEF Resume, Holds, At, promiseVars, waitVars
  <1>9. ASSUME NEW k \in Coroutines, AwaitResume(k) PROVE TypeOK'
    BY <1>9 DEF AwaitResume, At, Outcome, waitVars
  <1>10. ASSUME NEW k \in Coroutines, Drop(k) PROVE TypeOK'
    BY <1>10 DEF Drop, waitVars
  <1>11. ASSUME NEW k \in Coroutines, Return(k) PROVE TypeOK'
    BY <1>11 DEF Return, At, waitVars
  <1>12. ASSUME NEW k \in Coroutines, SetDone(k) PROVE TypeOK'
    BY <1>12 DEF SetDone, At, waitVars
  <1>13. ASSUME NEW k \in Coroutines, WakeAwaiter(k) PROVE TypeOK'
    BY <1>13 DEF WakeAwaiter, At, waitVars
  <1>14. ASSUME NEW k \in Coroutines, Settle(k) PROVE TypeOK'
    BY <1>14 DEF Settle, SuspendAt, promiseVars, waitVars
  <1>15. CASE UNCHANGED vars
    BY <1>15 DEF vars, promiseVars, waitVars
  <1> QED BY <1>1, <1>2, <1>3, <1>4, <1>5, <1>6, <1>7, <1>8, <1>9, <1>10, <1>11,
             <1>12, <1>13, <1>14, <1>15 DEF Next, Step

\* Each step keeps the calls that are open on top of each other.
LEMMA CallStep == IInv /\ [Next]_vars => CallPart'
  <1> USE Places DEF IInv, TypeOK, CallPart, FramePart, OutcomePart, PostPart, Past, Off
  <1> SUFFICES ASSUME IInv, [Next]_vars PROVE CallPart'
    OBVIOUS
  <1>1. CASE Start
    BY <1>1 DEF Start, At
  <1>2. ASSUME NEW k \in Coroutines, Wait(k) PROVE CallPart'
    BY <1>2 DEF Wait, SuspendAt, promiseVars
  <1>3. ASSUME NEW k \in Coroutines, WaitEnds(k) PROVE CallPart'
    BY <1>3 DEF WaitEnds, promiseVars
  <1>4. CASE Finish
    BY <1>4 DEF Finish, At, promiseVars, waitVars
  <1>5. ASSUME NEW k \in Coroutines, Call(k) PROVE CallPart'
    BY <1>5 DEF Call
  <1>6. ASSUME NEW k \in Coroutines, AwaitReady(k) PROVE CallPart'
    BY <1>6 DEF AwaitReady, At, promiseVars, waitVars
  <1>7. ASSUME NEW k \in Coroutines, AwaitSuspend(k) PROVE CallPart'
    BY <1>7 DEF AwaitSuspend, SuspendAt
  <1>8. ASSUME NEW k \in Coroutines, Resume(k) PROVE CallPart'
    BY <1>8 DEF Resume, Holds, At, promiseVars, waitVars
  <1>9. ASSUME NEW k \in Coroutines, AwaitResume(k) PROVE CallPart'
    BY <1>9 DEF AwaitResume, At, Outcome, waitVars
  <1>10. ASSUME NEW k \in Coroutines, Drop(k) PROVE CallPart'
    BY <1>10 DEF Drop
  <1>11. ASSUME NEW k \in Coroutines, Return(k) PROVE CallPart'
    BY <1>11 DEF Return, At, waitVars
  <1>12. ASSUME NEW k \in Coroutines, SetDone(k) PROVE CallPart'
    BY <1>12 DEF SetDone, At, waitVars
  <1>13. ASSUME NEW k \in Coroutines, WakeAwaiter(k) PROVE CallPart'
    BY <1>13 DEF WakeAwaiter, At, waitVars
  <1>14. ASSUME NEW k \in Coroutines, Settle(k) PROVE CallPart'
    BY <1>14 DEF Settle, SuspendAt, promiseVars, waitVars
  <1>15. CASE UNCHANGED vars
    BY <1>15 DEF vars, promiseVars, waitVars
  <1> QED BY <1>1, <1>2, <1>3, <1>4, <1>5, <1>6, <1>7, <1>8, <1>9, <1>10, <1>11,
             <1>12, <1>13, <1>14, <1>15 DEF Next, Step

\* Each step keeps the frames of whoever is still awaited.
LEMMA FrameStep == IInv /\ [Next]_vars => FramePart'
  <1> USE Places DEF IInv, TypeOK, CallPart, FramePart, Past, Off
  <1> SUFFICES ASSUME IInv, [Next]_vars PROVE FramePart'
    OBVIOUS
  <1>1. CASE Start
    BY <1>1 DEF Start, At, waitVars
  <1>2. ASSUME NEW k \in Coroutines, Wait(k) PROVE FramePart'
    BY <1>2 DEF Wait, SuspendAt, promiseVars
  <1>3. ASSUME NEW k \in Coroutines, WaitEnds(k) PROVE FramePart'
    BY <1>3 DEF WaitEnds, promiseVars
  <1>4. CASE Finish
    BY <1>4 DEF Finish, At, promiseVars, waitVars
  <1>5. ASSUME NEW k \in Coroutines, Call(k) PROVE FramePart'
    BY <1>5 DEF Call, waitVars
  <1>6. ASSUME NEW k \in Coroutines, AwaitReady(k) PROVE FramePart'
    BY <1>6 DEF AwaitReady, At, promiseVars, waitVars
  <1>7. ASSUME NEW k \in Coroutines, AwaitSuspend(k) PROVE FramePart'
    BY <1>7 DEF AwaitSuspend, SuspendAt, waitVars
  <1>8. ASSUME NEW k \in Coroutines, Resume(k) PROVE FramePart'
    BY <1>8 DEF Resume, Holds, At, promiseVars, waitVars
  <1>9. ASSUME NEW k \in Coroutines, AwaitResume(k) PROVE FramePart'
    BY <1>9 DEF AwaitResume, At, waitVars, OutcomePart
  <1>10. ASSUME NEW k \in Coroutines, Drop(k) PROVE FramePart'
    <2> SUFFICES ASSUME NEW i \in Coroutines
                 PROVE  /\ frame'[i] = "none" <=> pc'[i] = "none"
                        /\ pc'[i] = "cut" =>
                             frame'[i] = "freed" /\ (i < Depth => frame'[i + 1] # "live")
                        /\ frame'[i] = "freed" =>
                             /\ pc'[i] \in {"wake", "settle", "settled", "cut"}
                             /\ i > 1 => pc'[i - 1] \in Past
      OBVIOUS
    <2>1. CASE i <= k
      BY <1>10, <2>1 DEF Drop
    <2>2. CASE i = k + 1
      BY <1>10, <2>2 DEF Drop
    <2>3. CASE i > k + 1
      <3>1. i - 1 \in Coroutines /\ i - 1 > k /\ i - 1 # k /\ (i - 1) + 1 = i
        BY <2>3
      <3>2. pc[i - 1] = "none" => pc[i] = "none"
        BY <2>3, <3>1
      <3>3. frame'[i] = "freed" => pc'[i - 1] \in Past
        BY <1>10, <2>3, <3>1, <3>2 DEF Drop
      <3>4. pc'[i] = "none" <=> pc[i] = "none"
        BY <1>10, <2>3 DEF Drop
      <3>5. frame'[i] = "none" <=> frame[i] = "none"
        BY <1>10 DEF Drop
      <3>6. pc'[i] = "cut" => frame'[i] = "freed"
        BY <1>10, <2>3 DEF Drop
      <3>7. i < Depth => frame'[i + 1] # "live"
        BY <1>10, <2>3 DEF Drop
      <3>8. frame'[i] = "freed" => pc'[i] \in {"wake", "settle", "settled", "cut"}
        <4>1. CASE frame[i] = "live"
          BY <1>10, <2>3, <4>1 DEF Drop
        <4>2. CASE frame[i] # "live"
          BY <1>10, <2>3, <4>2 DEF Drop
        <4> QED BY <4>1, <4>2
      <3>9. frame'[i] = "none" <=> pc'[i] = "none"
        BY <3>4, <3>5
      <3> QED BY <3>3, <3>6, <3>7, <3>8, <3>9
    <2>4. i \in Nat /\ k \in Nat
      OBVIOUS
    <2> QED BY ONLY <2>1, <2>2, <2>3, <2>4
  <1>11. ASSUME NEW k \in Coroutines, Return(k) PROVE FramePart'
    BY <1>11 DEF Return, At, waitVars
  <1>12. ASSUME NEW k \in Coroutines, SetDone(k) PROVE FramePart'
    BY <1>12 DEF SetDone, At, waitVars
  <1>13. ASSUME NEW k \in Coroutines, WakeAwaiter(k) PROVE FramePart'
    BY <1>13 DEF WakeAwaiter, At, waitVars
  <1>14. ASSUME NEW k \in Coroutines, Settle(k) PROVE FramePart'
    BY <1>14 DEF Settle, SuspendAt, promiseVars, waitVars
  <1>15. CASE UNCHANGED vars
    BY <1>15 DEF vars, promiseVars, waitVars
  <1> QED BY <1>1, <1>2, <1>3, <1>4, <1>5, <1>6, <1>7, <1>8, <1>9, <1>10, <1>11,
             <1>12, <1>13, <1>14, <1>15 DEF Next, Step

\* Each step keeps the promises in step with their coroutines.
LEMMA OutcomeStep == IInv /\ [Next]_vars => OutcomePart'
  <1> USE Places DEF IInv, TypeOK, CallPart, OutcomePart, Past, Off
  <1> SUFFICES ASSUME IInv, [Next]_vars PROVE OutcomePart'
    OBVIOUS
  <1>1. CASE Start
    BY <1>1 DEF Start, At, waitVars
  <1>2. ASSUME NEW k \in Coroutines, Wait(k) PROVE OutcomePart'
    BY <1>2 DEF Wait, SuspendAt, promiseVars
  <1>3. ASSUME NEW k \in Coroutines, WaitEnds(k) PROVE OutcomePart'
    BY <1>3 DEF WaitEnds, promiseVars
  <1>4. CASE Finish
    BY <1>4 DEF Finish, At, promiseVars, waitVars
  <1>5. ASSUME NEW k \in Coroutines, Call(k) PROVE OutcomePart'
    BY <1>5 DEF Call, waitVars
  <1>6. ASSUME NEW k \in Coroutines, AwaitReady(k) PROVE OutcomePart'
    BY <1>6 DEF AwaitReady, At, promiseVars, waitVars
  <1>7. ASSUME NEW k \in Coroutines, AwaitSuspend(k) PROVE OutcomePart'
    BY <1>7 DEF AwaitSuspend, SuspendAt, waitVars
  <1>8. ASSUME NEW k \in Coroutines, Resume(k) PROVE OutcomePart'
    BY <1>8 DEF Resume, Holds, At, promiseVars, waitVars, PostPart
  <1>9. ASSUME NEW k \in Coroutines, AwaitResume(k) PROVE OutcomePart'
    BY <1>9 DEF AwaitResume, At, Outcome, waitVars
  <1>10. ASSUME NEW k \in Coroutines, Drop(k) PROVE OutcomePart'
    BY <1>10 DEF Drop, waitVars
  <1>11. ASSUME NEW k \in Coroutines, Return(k) PROVE OutcomePart'
    BY <1>11 DEF Return, At, waitVars
  <1>12. ASSUME NEW k \in Coroutines, SetDone(k) PROVE OutcomePart'
    BY <1>12 DEF SetDone, At, waitVars
  <1>13. ASSUME NEW k \in Coroutines, WakeAwaiter(k) PROVE OutcomePart'
    BY <1>13 DEF WakeAwaiter, At, waitVars
  <1>14. ASSUME NEW k \in Coroutines, Settle(k) PROVE OutcomePart'
    BY <1>14 DEF Settle, SuspendAt, promiseVars, waitVars
  <1>15. CASE UNCHANGED vars
    BY <1>15 DEF vars, promiseVars, waitVars
  <1> QED BY <1>1, <1>2, <1>3, <1>4, <1>5, <1>6, <1>7, <1>8, <1>9, <1>10, <1>11,
             <1>12, <1>13, <1>14, <1>15 DEF Next, Step

\* Each step keeps the resumptions to one per suspension.
LEMMA PostStep == IInv /\ [Next]_vars => PostPart'
  <1> USE Places DEF IInv, TypeOK, CallPart, PostPart, OutcomePart, Past, Off
  <1> SUFFICES ASSUME IInv, [Next]_vars PROVE PostPart'
    OBVIOUS
  <1>1. CASE Start
    BY <1>1 DEF Start, At, waitVars
  <1>2. ASSUME NEW k \in Coroutines, Wait(k) PROVE PostPart'
    BY <1>2 DEF Wait, SuspendAt, promiseVars
  <1>3. ASSUME NEW k \in Coroutines, WaitEnds(k) PROVE PostPart'
    BY <1>3 DEF WaitEnds, promiseVars
  <1>4. CASE Finish
    BY <1>4 DEF Finish, At, promiseVars, waitVars
  <1>5. ASSUME NEW k \in Coroutines, Call(k) PROVE PostPart'
    BY <1>5 DEF Call, waitVars
  <1>6. ASSUME NEW k \in Coroutines, AwaitReady(k) PROVE PostPart'
    BY <1>6 DEF AwaitReady, At, promiseVars, waitVars
  <1>7. ASSUME NEW k \in Coroutines, AwaitSuspend(k) PROVE PostPart'
    BY <1>7 DEF AwaitSuspend, SuspendAt, waitVars
  <1>8. ASSUME NEW k \in Coroutines, Resume(k) PROVE PostPart'
    BY <1>8 DEF Resume, Holds, At, promiseVars, waitVars
  <1>9. ASSUME NEW k \in Coroutines, AwaitResume(k) PROVE PostPart'
    BY <1>9 DEF AwaitResume, At, Outcome, waitVars
  <1>10. ASSUME NEW k \in Coroutines, Drop(k) PROVE PostPart'
    BY <1>10 DEF Drop, waitVars
  <1>11. ASSUME NEW k \in Coroutines, Return(k) PROVE PostPart'
    BY <1>11 DEF Return, At, waitVars
  <1>12. ASSUME NEW k \in Coroutines, SetDone(k) PROVE PostPart'
    BY <1>12 DEF SetDone, At, waitVars
  <1>13. ASSUME NEW k \in Coroutines, WakeAwaiter(k) PROVE PostPart'
    BY <1>13 DEF WakeAwaiter, At, waitVars
  <1>14. ASSUME NEW k \in Coroutines, Settle(k) PROVE PostPart'
    BY <1>14 DEF Settle, SuspendAt, promiseVars, waitVars
  <1>15. CASE UNCHANGED vars
    BY <1>15 DEF vars, promiseVars, waitVars
  <1> QED BY <1>1, <1>2, <1>3, <1>4, <1>5, <1>6, <1>7, <1>8, <1>9, <1>10, <1>11,
             <1>12, <1>13, <1>14, <1>15 DEF Next, Step

\* Each step keeps the outcome of the last coroutine passing up.
LEMMA ChainStep == IInv /\ [Next]_vars => ChainPart'
  <1> USE Places DEF IInv, TypeOK, CallPart, OutcomePart, ChainPart, Callees, Past, Off
  <1> SUFFICES ASSUME IInv, [Next]_vars PROVE ChainPart'
    OBVIOUS
  <1>1. CASE Start
    BY <1>1 DEF Start, At, waitVars
  <1>2. ASSUME NEW k \in Coroutines, Wait(k) PROVE ChainPart'
    BY <1>2 DEF Wait, SuspendAt, promiseVars
  <1>3. ASSUME NEW k \in Coroutines, WaitEnds(k) PROVE ChainPart'
    BY <1>3 DEF WaitEnds, promiseVars
  <1>4. CASE Finish
    <2>1. ret[Depth] = "none" /\ UNCHANGED ret
      BY <1>4 DEF Finish, promiseVars
    <2> SUFFICES ASSUME NEW i \in Coroutines, \A j \in Callees : j > i => ret[j] = "taken"
                 PROVE  got'[i] = got'[Depth]
      BY <2>1
    <2>2. i = Depth
      BY <2>1, FutureAssumption
    <2> QED BY <2>2
  <1>5. ASSUME NEW k \in Coroutines, Call(k) PROVE ChainPart'
    BY <1>5 DEF Call, waitVars
  <1>6. ASSUME NEW k \in Coroutines, AwaitReady(k) PROVE ChainPart'
    BY <1>6 DEF AwaitReady, At, promiseVars, waitVars
  <1>7. ASSUME NEW k \in Coroutines, AwaitSuspend(k) PROVE ChainPart'
    BY <1>7 DEF AwaitSuspend, SuspendAt, waitVars
  <1>8. ASSUME NEW k \in Coroutines, Resume(k) PROVE ChainPart'
    BY <1>8 DEF Resume, Holds, At, promiseVars, waitVars
  <1>9. ASSUME NEW k \in Coroutines, AwaitResume(k) PROVE ChainPart'
    BY <1>9 DEF AwaitResume, At, Outcome, waitVars
  <1>10. ASSUME NEW k \in Coroutines, Drop(k) PROVE ChainPart'
    BY <1>10 DEF Drop, waitVars
  <1>11. ASSUME NEW k \in Coroutines, Return(k) PROVE ChainPart'
    BY <1>11 DEF Return, At, waitVars
  <1>12. ASSUME NEW k \in Coroutines, SetDone(k) PROVE ChainPart'
    BY <1>12 DEF SetDone, At, waitVars
  <1>13. ASSUME NEW k \in Coroutines, WakeAwaiter(k) PROVE ChainPart'
    BY <1>13 DEF WakeAwaiter, At, waitVars
  <1>14. ASSUME NEW k \in Coroutines, Settle(k) PROVE ChainPart'
    BY <1>14 DEF Settle, SuspendAt, promiseVars, waitVars
  <1>15. CASE UNCHANGED vars
    BY <1>15 DEF vars, promiseVars, waitVars
  <1> QED BY <1>1, <1>2, <1>3, <1>4, <1>5, <1>6, <1>7, <1>8, <1>9, <1>10, <1>11,
             <1>12, <1>13, <1>14, <1>15 DEF Next, Step

-----------------------------------------------------------------------------
(* One core thread.                                                        *)

\* When the thread is free, no coroutine has it.
LEMMA FreeMeansIdle ==
  ASSUME runners = 1, FreeRunner
  PROVE  \A k \in Coroutines : ~Active(k)
  <1> DEFINE R == {k \in Coroutines : Active(k)}
  <1>1. IsFiniteSet(Coroutines)
    BY FS_Interval, FutureAssumption DEF Coroutines
  <1>2. IsFiniteSet(R)
    BY <1>1, FS_Subset
  <1>3. Cardinality(R) \in Nat
    BY <1>2, FS_CardinalityType
  <1>4. Cardinality(R) = 0
    BY <1>3 DEF FreeRunner
  <1>5. R = {}
    BY <1>2, <1>4, FS_EmptySet
  <1> QED BY <1>5

\* Each step leaves the thread to at most one coroutine.
LEMMA StackStep == IInv /\ [Next]_vars /\ runners = 1 => OneActive'
  <1> USE Places DEF IInv, TypeOK, CallPart, OneThreadPart, OneActive, Active, Off
  <1> SUFFICES ASSUME IInv, [Next]_vars, runners = 1 PROVE OneActive'
    OBVIOUS
  <1>1. CASE Start
    BY <1>1 DEF Start, At
  <1>2. ASSUME NEW k \in Coroutines, Wait(k) PROVE OneActive'
    BY <1>2 DEF Wait, SuspendAt, promiseVars
  <1>3. ASSUME NEW k \in Coroutines, WaitEnds(k) PROVE OneActive'
    BY <1>3 DEF WaitEnds, promiseVars
  <1>4. CASE Finish
    BY <1>4 DEF Finish, At, promiseVars
  <1>5. ASSUME NEW k \in Coroutines, Call(k) PROVE OneActive'
    BY <1>5 DEF Call
  <1>6. ASSUME NEW k \in Coroutines, AwaitReady(k) PROVE OneActive'
    BY <1>6 DEF AwaitReady, At, promiseVars
  <1>7. ASSUME NEW k \in Coroutines, AwaitSuspend(k) PROVE OneActive'
    BY <1>7 DEF AwaitSuspend, SuspendAt
  <1>8. ASSUME NEW k \in Coroutines, Resume(k) PROVE OneActive'
    <2>1. \A i \in Coroutines : pc[i] \in Off \cup {"calling"}
      BY <1>8, FreeMeansIdle DEF Resume
    <2> QED BY <1>8, <2>1 DEF Resume, Holds, At
  <1>9. ASSUME NEW k \in Coroutines, AwaitResume(k) PROVE OneActive'
    BY <1>9 DEF AwaitResume, At
  <1>10. ASSUME NEW k \in Coroutines, Drop(k) PROVE OneActive'
    <2>1. ASSUME NEW i \in Coroutines, Active(i)' PROVE Active(i)
      <3>1. CASE i < k
        BY <1>10, <2>1, <3>1 DEF Drop
      <3>2. CASE i = k
        BY <1>10, <2>1, <3>2 DEF Drop
      <3>3. CASE i > k
        <4>1. CASE frame[i] = "live"
          BY <1>10, <2>1, <3>3, <4>1 DEF Drop
        <4>2. CASE frame[i] # "live"
          <5>1. pc[i] \in Off /\ pc'[i] = pc[i]
            BY <1>10, <3>3, <4>2 DEF Drop, FramePart, FreedAtRest
          <5> QED BY <2>1, <5>1
        <4> QED BY <4>1, <4>2
      <3>4. i \in Nat /\ k \in Nat
        OBVIOUS
      <3> QED BY ONLY <3>1, <3>2, <3>3, <3>4
    <2> QED BY <2>1
  <1>11. ASSUME NEW k \in Coroutines, Return(k) PROVE OneActive'
    BY <1>11 DEF Return, At
  <1>12. ASSUME NEW k \in Coroutines, SetDone(k) PROVE OneActive'
    BY <1>12 DEF SetDone, At
  <1>13. ASSUME NEW k \in Coroutines, WakeAwaiter(k) PROVE OneActive'
    BY <1>13 DEF WakeAwaiter, At
  <1>14. ASSUME NEW k \in Coroutines, Settle(k) PROVE OneActive'
    BY <1>14 DEF Settle, SuspendAt, promiseVars
  <1>15. CASE UNCHANGED vars
    BY <1>15 DEF vars, promiseVars
  <1> QED BY <1>1, <1>2, <1>3, <1>4, <1>5, <1>6, <1>7, <1>8, <1>9, <1>10, <1>11,
             <1>12, <1>13, <1>14, <1>15 DEF Next, Step

\* Each step frees only frames whose coroutine is at rest.
LEMMA RestStep == IInv /\ [Next]_vars /\ runners = 1 => FreedAtRest'
  <1> USE Places DEF IInv, TypeOK, CallPart, FramePart, OneThreadPart, FreedAtRest, Off
  <1> SUFFICES ASSUME IInv, [Next]_vars, runners = 1 PROVE FreedAtRest'
    OBVIOUS
  <1>1. CASE Start
    BY <1>1 DEF Start, At
  <1>2. ASSUME NEW k \in Coroutines, Wait(k) PROVE FreedAtRest'
    BY <1>2 DEF Wait, SuspendAt, promiseVars
  <1>3. ASSUME NEW k \in Coroutines, WaitEnds(k) PROVE FreedAtRest'
    BY <1>3 DEF WaitEnds, promiseVars
  <1>4. CASE Finish
    BY <1>4 DEF Finish, At, promiseVars
  <1>5. ASSUME NEW k \in Coroutines, Call(k) PROVE FreedAtRest'
    BY <1>5 DEF Call
  <1>6. ASSUME NEW k \in Coroutines, AwaitReady(k) PROVE FreedAtRest'
    BY <1>6 DEF AwaitReady, At, promiseVars
  <1>7. ASSUME NEW k \in Coroutines, AwaitSuspend(k) PROVE FreedAtRest'
    BY <1>7 DEF AwaitSuspend, SuspendAt
  <1>8. ASSUME NEW k \in Coroutines, Resume(k) PROVE FreedAtRest'
    BY <1>8 DEF Resume, Holds, At, promiseVars
  <1>9. ASSUME NEW k \in Coroutines, AwaitResume(k) PROVE FreedAtRest'
    <2>1. k + 1 \in Coroutines /\ pc[k + 1] \in {"wake", "settle", "settled", "cut"}
      BY <1>9 DEF AwaitResume, OutcomePart
    <2>2. Active(k) /\ ~Active(k + 1)
      BY <1>9, <2>1 DEF AwaitResume, OneActive, Active
    <2>3. pc[k + 1] \in {"settled", "cut"}
      BY <2>1, <2>2 DEF Active
    <2> QED BY <1>9, <2>1, <2>3 DEF AwaitResume, At
  <1>10. ASSUME NEW k \in Coroutines, Drop(k) PROVE FreedAtRest'
    BY <1>10 DEF Drop
  <1>11. ASSUME NEW k \in Coroutines, Return(k) PROVE FreedAtRest'
    BY <1>11 DEF Return, At
  <1>12. ASSUME NEW k \in Coroutines, SetDone(k) PROVE FreedAtRest'
    BY <1>12 DEF SetDone, At
  <1>13. ASSUME NEW k \in Coroutines, WakeAwaiter(k) PROVE FreedAtRest'
    BY <1>13 DEF WakeAwaiter, At
  <1>14. ASSUME NEW k \in Coroutines, Settle(k) PROVE FreedAtRest'
    BY <1>14 DEF Settle, SuspendAt, promiseVars
  <1>15. CASE UNCHANGED vars
    BY <1>15 DEF vars, promiseVars
  <1> QED BY <1>1, <1>2, <1>3, <1>4, <1>5, <1>6, <1>7, <1>8, <1>9, <1>10, <1>11,
             <1>12, <1>13, <1>14, <1>15 DEF Next, Step

-----------------------------------------------------------------------------
(* The theorems.                                                           *)

\* The invariant holds in every reachable state of a chain of any depth.
LEMMA Invariant == Spec => []IInv
  <1>1. Init => IInv
    <2> SUFFICES ASSUME Init PROVE IInv
      OBVIOUS
    <2> USE Places, FutureAssumption DEF Init
    <2>1. waits \in 0..Waits /\ posts \in [Coroutines -> Nat]
      OBVIOUS
    <2>2. TypeOK /\ PostPart
      <3>1. TypeOK
        BY <2>1 DEF TypeOK, Off
      <3>2. PostPart
        BY DEF PostPart
      <3> QED BY <3>1, <3>2
    <2>3. CallPart /\ FramePart /\ OutcomePart
      BY DEF CallPart, FramePart, OutcomePart, Off
    <2>4. ChainPart
      BY DEF ChainPart
    <2>5. OneThreadPart
      BY DEF OneThreadPart, OneActive, FreedAtRest, Active, Off
    <2> QED BY <2>2, <2>3, <2>4, <2>5 DEF IInv
  <1>2. IInv /\ [Next]_vars => IInv'
    <2> SUFFICES ASSUME IInv, [Next]_vars PROVE IInv'
      OBVIOUS
    <2>1. OneThreadPart'
      <3>1. runners' = runners
        BY DEF Next, Step, Start, Wait, WaitEnds, Finish, Call, AwaitReady,
               AwaitSuspend, Resume, AwaitResume, Drop, Return, SetDone,
               WakeAwaiter, Settle, vars
      <3> QED BY <3>1, StackStep, RestStep DEF OneThreadPart
    <2> QED BY <2>1, TypeStep, CallStep, FrameStep, OutcomeStep, PostStep,
               ChainStep DEF IInv
  <1> QED BY <1>1, <1>2, PTL DEF Spec

\* Every variable keeps its type: what await_resume moves out of the promise
\* (ret) is always a value or an exception, however many threads there are.
THEOREM TypeCorrect == Spec => []TypeOK
  <1>1. IInv => TypeOK
    BY DEF IInv
  <1> QED BY <1>1, Invariant, PTL

\* Whoever resumes from co_await finds an outcome in the promise, and if every
\* future was awaited the first coroutine has the outcome of the last one: for
\* chains of any depth and any number of core threads.
THEOREM OutcomeReachesTop == Spec => []OutcomePassesUp
  <1>1. IInv => OutcomePassesUp
    <2> SUFFICES ASSUME IInv PROVE OutcomePassesUp
      OBVIOUS
    <2> USE Places DEF IInv
    <2>1. ASSUME NEW k \in Coroutines, pc[k] = "resume"
          PROVE  ret[k + 1] \in {"value", "exception"}
      <3>1. k + 1 \in Coroutines /\ (k + 1) - 1 = k
        BY <2>1 DEF CallPart
      <3>2. ret[k + 1] # "none"
        BY <2>1, <3>1 DEF OutcomePart
      <3>3. ret[k + 1] # "taken"
        BY <2>1, <3>1 DEF OutcomePart, Past
      <3> QED BY <3>1, <3>2, <3>3 DEF TypeOK
    <2>2. (\A k \in Callees : ret[k] = "taken") => got[1] = got[Depth]
      BY DEF ChainPart
    <2> QED BY <2>1, <2>2 DEF OutcomePassesUp
  <1> QED BY <1>1, Invariant, PTL

\* On one core thread, for chains of any depth that also wait for other things: the
\* frame of a coroutine that came to its end has no user left when it is freed, and
\* one that was cut has none but the resumption or the handler it was waiting for.
THEOREM FramesOutlive == Spec => []FramesOutliveUsers
  <1>1. IInv => FramesOutliveUsers
    <2> SUFFICES ASSUME IInv, runners = 1, NEW k \in Coroutines, frame[k] # "live",
                        NEW u \in Users(k)
                 PROVE  pc[k] = "cut" /\ u \in {"post", "handler"}
      BY DEF FramesOutliveUsers
    <2> USE Places DEF IInv
    <2>1. pc[k] \in {"none", "settled", "cut"}
      BY DEF FramePart, OneThreadPart, FreedAtRest, TypeOK
    <2>2. ~(k > 1 /\ Holds(k - 1))
      <3> SUFFICES ASSUME k > 1, Holds(k - 1) PROVE FALSE
        OBVIOUS
      <3>1. k - 1 \in Coroutines /\ (k - 1) + 1 = k
        OBVIOUS
      <3> QED BY <3>1 DEF Holds, FramePart, TypeOK, Past
    <2>3. posts[k] > 0 \/ pending[k] => pc[k] = "cut"
      BY <2>1 DEF PostPart
    <2>4. u \in {"post", "handler"}
      BY <2>1, <2>2 DEF Users
    <2>5. posts[k] > 0 \/ pending[k]
      BY <2>4 DEF Users
    <2> QED BY <2>3, <2>4, <2>5
  <1> QED BY <1>1, Invariant, PTL

-----------------------------------------------------------------------------
(* Nobody awaits in vain.                                                  *)

\* A coroutine that waits for something other than a future has a handler, or its
\* resumption is scheduled.
SleeperPart ==
  \A k \in Coroutines : pc[k] = "asleep" => pending[k] \/ posts[k] = 1

\* A caller between await_ready and await_suspend has a callee that has not set
\* done_; one that is suspended is scheduled, or it stands in suspended_ and its
\* callee has not looked there yet.
CallerPart(k) ==
  /\ pc[k] = "suspend" => ~done_[k + 1]
  /\ pc[k] = "parked" =>
       \/ posts[k] = 1
       \/ suspended_[k + 1] /\ pc[k + 1] \notin {"none", "settle", "settled", "cut"}

\* The resumption of whoever is suspended is still to come.
NobodyForgotten ==
  /\ SleeperPart
  /\ runners = 1 => \A k \in Coroutines : k < Depth => CallerPart(k)

\* The handler of a wait schedules the coroutine that began it.
LEMMA SleeperStep == IInv /\ SleeperPart /\ [Next]_vars => SleeperPart'
  <1> USE Places DEF IInv, TypeOK, CallPart, PostPart, SleeperPart, Off
  <1> SUFFICES ASSUME IInv, SleeperPart, [Next]_vars PROVE SleeperPart'
    OBVIOUS
  <1>1. CASE Start
    BY <1>1 DEF Start, At
  <1>2. ASSUME NEW k \in Coroutines, Wait(k) PROVE SleeperPart'
    BY <1>2 DEF Wait, SuspendAt, promiseVars
  <1>3. ASSUME NEW k \in Coroutines, WaitEnds(k) PROVE SleeperPart'
    BY <1>3 DEF WaitEnds, promiseVars
  <1>4. CASE Finish
    BY <1>4 DEF Finish, At, promiseVars, waitVars
  <1>5. ASSUME NEW k \in Coroutines, Call(k) PROVE SleeperPart'
    BY <1>5 DEF Call, waitVars
  <1>6. ASSUME NEW k \in Coroutines, AwaitReady(k) PROVE SleeperPart'
    BY <1>6 DEF AwaitReady, At, promiseVars, waitVars
  <1>7. ASSUME NEW k \in Coroutines, AwaitSuspend(k) PROVE SleeperPart'
    BY <1>7 DEF AwaitSuspend, SuspendAt, waitVars
  <1>8. ASSUME NEW k \in Coroutines, Resume(k) PROVE SleeperPart'
    BY <1>8 DEF Resume, Holds, At, promiseVars, waitVars
  <1>9. ASSUME NEW k \in Coroutines, AwaitResume(k) PROVE SleeperPart'
    BY <1>9 DEF AwaitResume, At, waitVars
  <1>10. ASSUME NEW k \in Coroutines, Drop(k) PROVE SleeperPart'
    BY <1>10 DEF Drop, waitVars
  <1>11. ASSUME NEW k \in Coroutines, Return(k) PROVE SleeperPart'
    BY <1>11 DEF Return, At, waitVars
  <1>12. ASSUME NEW k \in Coroutines, SetDone(k) PROVE SleeperPart'
    BY <1>12 DEF SetDone, At, waitVars
  <1>13. ASSUME NEW k \in Coroutines, WakeAwaiter(k) PROVE SleeperPart'
    BY <1>13 DEF WakeAwaiter, At, waitVars
  <1>14. ASSUME NEW k \in Coroutines, Settle(k) PROVE SleeperPart'
    BY <1>14 DEF Settle, SuspendAt, promiseVars, waitVars
  <1>15. CASE UNCHANGED vars
    BY <1>15 DEF vars, promiseVars, waitVars
  <1> QED BY <1>1, <1>2, <1>3, <1>4, <1>5, <1>6, <1>7, <1>8, <1>9, <1>10, <1>11,
             <1>12, <1>13, <1>14, <1>15 DEF Next, Step

\* On one thread a callee cannot get to final_suspend between await_ready and
\* await_suspend of its caller, which has the thread.
LEMMA CallerStep ==
  ASSUME IInv, runners = 1, [Next]_vars,
         NEW c \in Coroutines, c < Depth, CallerPart(c)
  PROVE  CallerPart(c)'
  <1> USE Places DEF IInv, TypeOK, CallPart, OutcomePart, PostPart, CallerPart, Off
  <1>1. CASE Start
    BY <1>1 DEF Start, At
  <1>2. ASSUME NEW k \in Coroutines, Wait(k) PROVE CallerPart(c)'
    BY <1>2 DEF Wait, SuspendAt, promiseVars
  <1>3. ASSUME NEW k \in Coroutines, WaitEnds(k) PROVE CallerPart(c)'
    BY <1>3 DEF WaitEnds, promiseVars
  <1>4. CASE Finish
    BY <1>4 DEF Finish, At, promiseVars, waitVars
  <1>5. ASSUME NEW k \in Coroutines, Call(k) PROVE CallerPart(c)'
    BY <1>5 DEF Call, waitVars
  <1>6. ASSUME NEW k \in Coroutines, AwaitReady(k) PROVE CallerPart(c)'
    BY <1>6 DEF AwaitReady, At, promiseVars, waitVars
  <1>7. ASSUME NEW k \in Coroutines, AwaitSuspend(k) PROVE CallerPart(c)'
    <2>1. c + 1 \in Coroutines /\ c + 1 > 1 /\ (c + 1) - 1 = c
      OBVIOUS
    <2>2. CASE k = c
      <3>1. pc[c + 1] \notin {"none", "wake", "settle", "settled"}
        BY <1>7, <2>1, <2>2 DEF AwaitSuspend
      <3>2. pc[c + 1] # "cut"
        BY <1>7, <2>1, <2>2 DEF AwaitSuspend, FramePart, Past
      <3> QED BY <1>7, <2>1, <2>2, <3>1, <3>2 DEF AwaitSuspend, SuspendAt
    <2>3. CASE k # c
      BY <1>7, <2>1, <2>3 DEF AwaitSuspend, SuspendAt
    <2> QED BY <2>2, <2>3
  <1>8. ASSUME NEW k \in Coroutines, Resume(k) PROVE CallerPart(c)'
    BY <1>8 DEF Resume, Holds, At, promiseVars, waitVars
  <1>9. ASSUME NEW k \in Coroutines, AwaitResume(k) PROVE CallerPart(c)'
    BY <1>9 DEF AwaitResume, At, waitVars
  <1>10. ASSUME NEW k \in Coroutines, Drop(k) PROVE CallerPart(c)'
    <2>1. c + 1 \in Coroutines /\ k \in Nat
      OBVIOUS
    <2>2. UNCHANGED <<done_, suspended_, posts>>
      BY <1>10 DEF Drop
    <2>3. CASE c < k
      <3>1. pc[c]' = pc[c] /\ pc[c + 1]' \in {pc[c + 1], "end"}
        BY <1>10, <2>1, <2>3 DEF Drop
      <3> QED BY <2>2, <3>1
    <2>4. CASE k <= c
      <3>1. pc[c]' \notin {"suspend", "parked"}
        BY <1>10, <2>1, <2>4 DEF Drop, FramePart
      <3> QED BY <3>1
    <2> QED BY <2>1, <2>3, <2>4
  <1>11. ASSUME NEW k \in Coroutines, Return(k) PROVE CallerPart(c)'
    BY <1>11 DEF Return, At, waitVars
  <1>12. ASSUME NEW k \in Coroutines, SetDone(k) PROVE CallerPart(c)'
    <2>1. c + 1 \in Coroutines /\ c + 1 # 1 /\ (c + 1) - 1 = c
      OBVIOUS
    <2>2. CASE k = c + 1 /\ pc[c] = "suspend"
      <3>1. Active(c) /\ Active(c + 1)
        BY <1>12, <2>1, <2>2 DEF SetDone, Active
      <3> QED BY <2>1, <3>1 DEF OneThreadPart, OneActive
    <2>3. CASE ~(k = c + 1 /\ pc[c] = "suspend")
      BY <1>12, <2>1, <2>3 DEF SetDone, At
    <2> QED BY <2>2, <2>3
  <1>13. ASSUME NEW k \in Coroutines, WakeAwaiter(k) PROVE CallerPart(c)'
    BY <1>13 DEF WakeAwaiter, At, waitVars
  <1>14. ASSUME NEW k \in Coroutines, Settle(k) PROVE CallerPart(c)'
    BY <1>14 DEF Settle, SuspendAt, promiseVars, waitVars
  <1>15. CASE UNCHANGED vars
    BY <1>15 DEF vars, promiseVars, waitVars
  <1> QED BY <1>1, <1>2, <1>3, <1>4, <1>5, <1>6, <1>7, <1>8, <1>9, <1>10, <1>11,
             <1>12, <1>13, <1>14, <1>15 DEF Next, Step

\* For chains of any depth: a coroutine that waits is scheduled by its handler, and on
\* one core thread whoever awaits a future is scheduled by the end of its callee
\* or is cut with it; the safety core of AwaiterResumes.
THEOREM NoLostAwaiter == Spec => []NobodyForgotten
  <1>1. Init => NobodyForgotten
    BY Places DEF Init, NobodyForgotten, SleeperPart, CallerPart
  <1>2. ASSUME IInv, NobodyForgotten, [Next]_vars PROVE NobodyForgotten'
    <2>1. runners' = runners
      BY <1>2 DEF Next, Step, Start, Wait, WaitEnds, Finish, Call, AwaitReady,
             AwaitSuspend, Resume, AwaitResume, Drop, Return, SetDone,
             WakeAwaiter, Settle, vars
    <2>2. SleeperPart'
      BY <1>2, SleeperStep DEF NobodyForgotten
    <2>3. ASSUME runners = 1, NEW k \in Coroutines, k < Depth PROVE CallerPart(k)'
      BY <1>2, <2>3, CallerStep DEF NobodyForgotten
    <2> QED BY <2>1, <2>2, <2>3 DEF NobodyForgotten
  <1> QED BY <1>1, <1>2, Invariant, PTL DEF Spec
=============================================================================
