----------------------------- MODULE IoFuture -----------------------------
(***************************************************************************)
(* The handshake between a coroutine that awaits an I/O operation and the  *)
(* completion handler asio calls on one of the threads that run the        *)
(* io_context: detail::io_future (src/io_future.cpp) and the structs that  *)
(* derive from it (src/udp.cpp, src/resolve.cpp).                          *)
(*                                                                         *)
(* suspended_ is one atomic pointer with three meanings: null, the handle  *)
(* of the coroutine that waits, and FUTURE_DONE.  Every access to it is    *)
(* one step.  The awaiting coroutine and the handler of the same operation *)
(* may run on two threads, so their steps interleave freely.               *)
(*                                                                         *)
(* The io_future is a local of the awaiting coroutine, and asio's handler  *)
(* keeps a bare pointer to it.  Whoever holds the future of that coroutine *)
(* may destroy it while it is suspended (~future, future.hpp): nothing     *)
(* cancels the operation or takes a posted resumption back, and what they  *)
(* do to the frame that was freed is undefined.                            *)
(***************************************************************************)
EXTENDS Naturals

CONSTANTS Ops,        \* the operations, each with its io_future and awaiter
          Outcomes,   \* what the handler can be called with
          NoOutcome   \* an empty option<result<T>>

ASSUME OutcomeAssumption == NoOutcome \notin Outcomes

VARIABLES
  suspended,   \* suspended[o]: io_future::suspended_
  ret,         \* ret[o]: the option<result<T>> the handler fills
  apc,         \* apc[o]: where the awaiting coroutine is
  cpc,         \* cpc[o]: where the completion handler is
  posts        \* posts[o]: resumptions of the awaiter posted, not yet run;
               \* a freed frame's too

vars == <<suspended, ret, apc, cpc, posts>>

\* "parked" is the coroutine suspended for good (await_suspend has nothing
\* left to do); "gone" is after await_resume, when the io_future may be
\* destroyed at any moment; "dropped" is a coroutine destroyed while parked.
AwaiterAt == {"new", "ready", "suspend", "repost", "parked", "resume", "gone",
              "dropped"}
Pointers == {"null", "handle", "done"}
HandlerAt == {"idle", "pending", "filled", "post", "returned"}

Init == /\ suspended = [o \in Ops |-> "null"]
        /\ ret = [o \in Ops |-> NoOutcome]
        /\ apc = [o \in Ops |-> "new"]
        /\ cpc = [o \in Ops |-> "idle"]
        /\ posts = [o \in Ops |-> 0]

-----------------------------------------------------------------------------
(* The awaiting coroutine.                                                 *)

\* fut.start(...): hands the handler to asio; it may be called from now on.
Start(o) == /\ apc[o] = "new"
            /\ apc' = [apc EXCEPT ![o] = "ready"]
            /\ cpc' = [cpc EXCEPT ![o] = "pending"]
            /\ UNCHANGED <<suspended, ret, posts>>

\* Mutation: readiness judged from the result and not from suspended_.
AwaitReady_LooksAtResult(o) ==
  /\ apc[o] = "ready"
  /\ apc' = [apc EXCEPT ![o] = IF ret[o] # NoOutcome THEN "resume"
                                                     ELSE "suspend"]
  /\ UNCHANGED <<suspended, ret, cpc, posts>>

AwaitReady(o) ==
  /\ apc[o] = "ready"
  /\ apc' = [apc EXCEPT ![o] = IF suspended[o] # "null" THEN "resume"
                                                        ELSE "suspend"]
  /\ UNCHANGED <<suspended, ret, cpc, posts>>

\* Mutation: the handle is stored without looking at what was there.
AwaitSuspend_PlainStore(o) ==
  /\ apc[o] = "suspend"
  /\ suspended' = [suspended EXCEPT ![o] = "handle"]
  /\ apc' = [apc EXCEPT ![o] = "parked"]
  /\ UNCHANGED <<ret, cpc, posts>>

\* suspended_.exchange(handle): the coroutine is resumable from here on, and
\* await_suspend uses nothing but its own locals afterwards.
AwaitSuspend(o) ==
  /\ apc[o] = "suspend"
  /\ suspended' = [suspended EXCEPT ![o] = "handle"]
  /\ apc' = [apc EXCEPT ![o] = IF suspended[o] = "done" THEN "repost"
                                                        ELSE "parked"]
  /\ UNCHANGED <<ret, cpc, posts>>

\* The handler won the race: await_suspend schedules its own coroutine.
Repost(o) == /\ apc[o] = "repost"
             /\ posts' = [posts EXCEPT ![o] = @ + 1]
             /\ apc' = [apc EXCEPT ![o] = "parked"]
             /\ UNCHANGED <<suspended, ret, cpc>>

\* A thread of the io_context runs a posted resumption, of a frame that may
\* have been freed by then.
Resume(o) == /\ apc[o] \in {"parked", "dropped"}
             /\ posts[o] > 0
             /\ posts' = [posts EXCEPT ![o] = @ - 1]
             /\ apc' = [apc EXCEPT ![o] = IF @ = "parked" THEN "resume" ELSE @]
             /\ UNCHANGED <<suspended, ret, cpc>>

\* await_resume moves the result out and the coroutine goes on to co_return.
AwaitResume(o) == /\ apc[o] = "resume"
                  /\ apc' = [apc EXCEPT ![o] = "gone"]
                  /\ UNCHANGED <<suspended, ret, cpc, posts>>

\* The future of the awaiting coroutine is destroyed while that is suspended.
Drop(o) == /\ apc[o] = "parked"
           /\ apc' = [apc EXCEPT ![o] = "dropped"]
           /\ UNCHANGED <<suspended, ret, cpc, posts>>

-----------------------------------------------------------------------------
(* The completion handler.                                                 *)

\* asio calls the handler, which fills ret.
Fill(o) == /\ cpc[o] = "pending"
           /\ \E r \in Outcomes : ret' = [ret EXCEPT ![o] = r]
           /\ cpc' = [cpc EXCEPT ![o] = "filled"]
           /\ UNCHANGED <<suspended, apc, posts>>

\* Mutation: finish() is called before the result is filled in.
Finish_BeforeFill(o) ==
  /\ cpc[o] \in {"pending", "filled"}
  /\ suspended' = [suspended EXCEPT ![o] = "done"]
  /\ cpc' = [cpc EXCEPT ![o] = IF suspended[o] # "null" THEN "post"
                                                        ELSE "returned"]
  /\ UNCHANGED <<ret, apc, posts>>

\* Mutation: finish() schedules a handle whether or not one was stored.
Finish_AlwaysPosts(o) ==
  /\ cpc[o] = "filled"
  /\ suspended' = [suspended EXCEPT ![o] = "done"]
  /\ cpc' = [cpc EXCEPT ![o] = "post"]
  /\ UNCHANGED <<ret, apc, posts>>

\* What a load of suspended_ can find: in a freed frame, anything.
Found(o) == IF apc[o] = "dropped" THEN Pointers ELSE {suspended[o]}

\* finish(): suspended_.exchange(FUTURE_DONE), its last use of the io_future.
Finish(o) ==
  /\ cpc[o] = "filled"
  /\ suspended' = [suspended EXCEPT ![o] = "done"]
  /\ \E h \in Found(o) :
       cpc' = [cpc EXCEPT ![o] = IF h # "null" THEN "post" ELSE "returned"]
  /\ UNCHANGED <<ret, apc, posts>>

FinishPost(o) == /\ cpc[o] = "post"
                 /\ posts' = [posts EXCEPT ![o] = @ + 1]
                 /\ cpc' = [cpc EXCEPT ![o] = "returned"]
                 /\ UNCHANGED <<suspended, ret, apc>>

-----------------------------------------------------------------------------
AwaiterStep(o) == \/ Start(o) \/ AwaitReady(o) \/ AwaitSuspend(o)
                  \/ Repost(o) \/ Resume(o) \/ AwaitResume(o)

HandlerStep(o) == Finish(o) \/ FinishPost(o)

Next == \E o \in Ops : AwaiterStep(o) \/ Drop(o) \/ Fill(o) \/ HandlerStep(o)

SafeSpec == Init /\ [][Next]_vars

\* Threads that run the io_context keep running, so a coroutine or handler
\* that can go on does; that an operation ever completes (Fill) is up to the
\* network and the resolver and is not assumed, and nobody has to Drop.
Fairness == \A o \in Ops : WF_vars(AwaiterStep(o)) /\ WF_vars(HandlerStep(o))

Spec == SafeSpec /\ Fairness

-----------------------------------------------------------------------------
(* Properties.                                                             *)

\* The result is there exactly when the handler has filled it, and the
\* operation has a handler from the moment it is started.
HandlerPart(o) ==
  /\ ret[o] = NoOutcome <=> cpc[o] \in {"idle", "pending"}
  /\ apc[o] = "new" <=> cpc[o] = "idle"

\* Types, and what the place of the handler says of its operation.
TypeOK == /\ suspended \in [Ops -> Pointers]
          /\ ret \in [Ops -> Outcomes \cup {NoOutcome}]
          /\ apc \in [Ops -> AwaiterAt]
          /\ cpc \in [Ops -> HandlerAt]
          /\ posts \in [Ops -> Nat]
          /\ \A o \in Ops : HandlerPart(o)

\* Wherever the two exchanges of suspended_ fall, at most one side schedules
\* the coroutine: a coroutine that is not parked has no resumption posted or
\* about to be, and a parked one has at most one in total (io_future.cpp:12
\* and 18 must never both decide to post).
ResumedOnce ==
  \A o \in Ops :
    LET owed == posts[o] + (IF cpc[o] = "post" THEN 1 ELSE 0)
                         + (IF apc[o] = "repost" THEN 1 ELSE 0)
    IN  owed <= IF apc[o] \in {"parked", "repost", "dropped"} THEN 1 ELSE 0

\* await_resume dereferences ret without a test (udp.cpp:47), so whenever the
\* coroutine gets there, on the ready path or after a resumption, the handler
\* has filled it.
ResultBeforeResume ==
  \A o \in Ops : apc[o] \in {"resume", "gone"} => ret[o] # NoOutcome

\* Who will still touch the io_future or resume the frame that holds it.
Users(o) ==
  (IF cpc[o] \in {"pending", "filled"} THEN {"handler"} ELSE {})
    \cup (IF cpc[o] = "post" \/ posts[o] > 0 THEN {"resumption"} ELSE {})

\* A coroutine that awaits an I/O operation may be destroyed once it has its
\* result, and not before: past await_resume neither the handler, which keeps a
\* bare pointer to the io_future, nor a resumption is still to come, whereas
\* while it is suspended one of them always is, so that every ~future that cuts
\* it there (Drop) leaves a pointer to the freed frame that will be used.
DestroyedSafelyOnlyAtEnd ==
  \A o \in Ops : /\ apc[o] = "gone" => Users(o) = {}
                 /\ apc[o] = "parked" => Users(o) # {}

-----------------------------------------------------------------------------
(* Refinement of OneShot.                                                  *)

PhaseOf(o) == CASE apc[o] = "new"     -> "new"
                [] apc[o] = "gone"    -> "consumed"
                [] apc[o] = "dropped" -> "abandoned"
                [] OTHER -> IF ret[o] = NoOutcome THEN "pending"
                                                  ELSE "completed"

OutcomeOf(o) == IF apc[o] = "dropped" THEN NoOutcome ELSE ret[o]

Promise == INSTANCE OneShot WITH phase   <- [o \in Ops |-> PhaseOf(o)],
                                 outcome <- [o \in Ops |-> OutcomeOf(o)]

\* The handshake implements OneShot: an outcome is consumed only after the
\* operation reported it, once, and every reported outcome is consumed unless
\* its awaiter was dropped: no resumption is lost.
ImplementsOneShot == Promise!Spec
=============================================================================
