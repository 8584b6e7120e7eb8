------------------------------ MODULE Executor ------------------------------
(***************************************************************************)
(* crasy::executor (src/executor.cpp) as a whole: CorePool and             *)
(* BlockingPool put together.  Coroutines that run on a core thread hand   *)
(* functions to the blocking threads through run_blocking and await them;  *)
(* a blocking thread that has run one posts the awaiting coroutine back to *)
(* the io_context.  A coroutine that waits for a blocking thread is not    *)
(* outstanding work of the io_context.  ~executor joins the blocking       *)
(* threads first and the core threads then.                                *)
(*                                                                         *)
(* The handshake between the two sides of an await is BlockingJoin's and   *)
(* is one step here: the coroutine goes on if the function has returned,   *)
(* and is left to be posted otherwise.  Spurious wake-ups are left to the  *)
(* modules of the two halves.                                              *)
(***************************************************************************)
EXTENDS CorePool, Sequences, Functions

CONSTANTS BlockingWorkers,   \* bound: blocking_workers_
          BlockingEach,      \* bound: calls of run_blocking by each core thread
          Width              \* bits of blocking_waiting_

\* What BlockingPool assumes of its constants, for the core threads as callers.
ASSUME ExecutorAssumption ==
  /\ BlockingWorkers # {} /\ IsFiniteSet(BlockingWorkers)
  /\ Workers \cap BlockingWorkers = {}
  /\ {"unlocked", "destructor"} \cap (Workers \cup BlockingWorkers) = {}
  /\ BlockingEach \in Nat /\ Width \in Nat \ {0}
  /\ BlockingEach * Cardinality(Workers) + Cardinality(BlockingWorkers) < 2^Width

VARIABLES
  bqueue, blag, blost, bwaiting, bmut, bdone, bcpc, bsubmitted, bwpc, btask, bdpc,
  bran, bcontended,          \* the variables of BlockingPool
  awaiter,                   \* awaiter[t]: the resumption that awaits t
  parked                     \* the tasks whose awaiters are suspended on them

blockingVars == <<bqueue, blag, blost, bwaiting, bmut, bdone, bcpc, bsubmitted,
                  bwpc, btask, bdpc, bran, bcontended>>
joinVars == <<awaiter, parked>>
allVars == <<vars, blockingVars, joinVars>>

B == INSTANCE BlockingPool
       WITH Callers <- Workers, Workers <- BlockingWorkers, TasksEach <- BlockingEach,
            tasks <- bqueue, lag <- blag, lost <- blost, waiting <- bwaiting,
            mut <- bmut, done <- bdone, cpc <- bcpc, submitted <- bsubmitted, wpc <- bwpc,
            task <- btask, dpc <- bdpc, ran <- bran, contended <- bcontended

ExecutorInit == /\ Init /\ B!Init
                /\ awaiter = [t \in B!Tasks |-> NoHandler]
                /\ parked = {}

-----------------------------------------------------------------------------
(* spawn_blocking, from a coroutine on core thread w.                      *)

\* What will resume the coroutine: the root's next step, or the spawned task.
Resumption(w) == IF IsRoot(w) THEN <<"step", CallOf(w), steps[CallOf(w)] + 1>>
                              ELSE cur[w]

\* Within the bounds: a spawned task suspends on one blocking function at most.
MayBlock(w) == IF IsRoot(w) THEN steps[CallOf(w)] < StepsEach
                            ELSE cur[w] \notin Range(awaiter)

RunBlocking(w) == /\ wpc[w] = "body" /\ MayBlock(w)
                  /\ B!BeginPush(w)
                  /\ WorkerAt(w, "blocking")
                  /\ UNCHANGED <<context, pending, coreDone, callVars, rootVars,
                                 cur, dpc, joinVars>>

\* The rest of run_blocking.
InRunBlocking(w) == /\ \/ B!PushTask(w) \/ B!Count(w) \/ B!TryLock(w)
                       \/ B!Unlock(w) \/ B!NotifyOne(w)
                    /\ UNCHANGED <<vars, joinVars>>

\* co_await of the handle: the coroutine goes on, or suspends.
AwaitBlocking(w) ==
  /\ wpc[w] = "blocking" /\ bcpc[w] = "idle"
  /\ LET t == <<w, bsubmitted[w]>>
     IN  IF t \in bran
         THEN WorkerAt(w, "body") /\ UNCHANGED <<joinVars, steps>>
         ELSE /\ WorkerAt(w, AfterCoroutine(w))
              /\ awaiter' = [awaiter EXCEPT ![t] = Resumption(w)]
              /\ parked' = parked \cup {t}
              /\ steps' = IF IsRoot(w) THEN [steps EXCEPT ![CallOf(w)] = @ + 1]
                                       ELSE steps
  /\ UNCHANGED <<context, pending, coreDone, callVars, spawned, cur, dpc,
                 blockingVars>>

\* detail::schedule_task on the blocking thread: the coroutine becomes ready.
Wake(t) == IF t \in parked THEN {awaiter[t]} ELSE {}

RunTaskAndWake(b) == /\ B!RunTask(b)
                     /\ ready' = ready \cup Wake(btask[b])
                     /\ parked' = parked \ {btask[b]}
                     /\ UNCHANGED <<inflight, stopped, pending, coreDone, callVars,
                                    rootVars, workerVars, dpc, awaiter>>

BlockingWorkerStep(b) ==
  \/ RunTaskAndWake(b)
  \/ /\ \/ B!PopTask(b) \/ B!PopDummy(b) \/ B!PopNothing(b) \/ B!Uncount(b)
        \/ B!Lock(b) \/ B!TestPredicate(b) \/ B!Block(b)
     /\ UNCHANGED <<vars, joinVars>>

LoseBlocking(b) == B!LoseTask(b) /\ UNCHANGED <<vars, joinVars>>

-----------------------------------------------------------------------------
(* ~executor, and the steps of the core half that do not concern the other.*)

Quiet == UNCHANGED <<blockingVars, joinVars>>

\* No block_on is in progress or comes when the destructor is called.
DestroyExecutor == /\ dpc = "idle" /\ \A c \in Calls : callpc[c] \in {"out", "returned"}
                   /\ B!Destroy
                   /\ UNCHANGED <<vars, joinVars>>

JoinBlocking == /\ B!SetDone \/ B!NotifyAll \/ B!Join
                /\ UNCHANGED <<vars, joinVars>>

JoinCore == /\ (SetCoreDone /\ bdpc = "joined") \/ NotifyAll \/ Join
            /\ Quiet

ExecutorDestructor == DestroyExecutor \/ JoinBlocking \/ JoinCore

CallOn(c) == CallerStep(c) /\ (callpc[c] = "out" => bdpc = "idle") /\ Quiet

CoreStep(w) == WorkerStep(w) /\ Quiet

CoroutineStep(w) == \/ BodyStep(w) /\ Quiet
                    \/ RunBlocking(w) \/ InRunBlocking(w) \/ AwaitBlocking(w)

ExecutorNext ==
  \/ \E c \in Calls : CallOn(c)
  \/ \E w \in Workers : CoreStep(w) \/ CoroutineStep(w)
  \/ \E b \in BlockingWorkers : BlockingWorkerStep(b) \/ LoseBlocking(b)
  \/ \E h \in Handlers : CompleteOperation(h) /\ Quiet
  \/ ExecutorDestructor

\* The fairness of the two halves.
ExecutorSpec ==
  /\ ExecutorInit /\ [][ExecutorNext]_allVars
  /\ \A c \in Calls : WF_allVars(CallOn(c) /\ callpc[c] # "out")
  /\ \A w \in Workers : WF_allVars(CoreStep(w)) /\ WF_allVars(CoroutineStep(w))
  /\ \A b \in BlockingWorkers :
       /\ WF_allVars(BlockingWorkerStep(b))
       /\ SF_allVars(B!Lock(b) /\ UNCHANGED <<vars, joinVars>>)
       /\ SF_allVars((B!PopTask(b) \/ B!PopDummy(b)) /\ UNCHANGED <<vars, joinVars>>)
  /\ \A h \in Handlers : WF_allVars(CompleteOperation(h) /\ Quiet)
  /\ WF_allVars(ExecutorDestructor /\ (bdpc # "idle"))

-----------------------------------------------------------------------------
(* Properties.                                                             *)

Stranded == bcontended /\ Cardinality(B!Started) = 1

\* A root that awaits a blocking function is resumed: although it is no work of
\* the io_context meanwhile, the guard of its block_on keeps the core thread in
\* run(), and the blocking thread comes, unless it is alone and missed its
\* notification or the queue loses tasks (see BlockingPool).
RootResumed ==
  \A t \in B!Tasks :
    t \in parked /\ awaiter[t][1] = "step"
      ~> (\E w \in Workers : cur[w] = awaiter[t]) \/ Stranded \/ blost # {}

\* ~executor ends, with the blocking threads gone while core threads may still
\* run tasks and hand out functions that nobody will run.
ExecutorDestroyed == bdpc = "locked" ~> dpc = "joined"

\* When both halves are joined every task the roots spawned has run to its end,
\* with one exception: those that awaited a blocking function, and were left
\* suspended on it or posted to a context that had stopped.
OnlyBlockedAbandoned ==
  dpc = "joined" =>
    /\ inflight = {} /\ ready \subseteq Range(awaiter)
    /\ bran \cap parked = {}
=============================================================================
