------------------------------ MODULE OneShot ------------------------------
(***************************************************************************)
(* What an asynchronous I/O operation of crasy promises to the coroutine   *)
(* that awaits it: the operation is started, it completes once with an     *)
(* outcome, and only then is the outcome consumed, once, by the awaiter,   *)
(* unless the awaiter was dropped before it came to that.                  *)
(* IoFuture is shown to implement this specification.                      *)
(***************************************************************************)
CONSTANTS Ops,        \* the asynchronous operations
          Outcomes,   \* what an operation can report (a count, an error...)
          NoOutcome   \* the value of a result that is not there yet

VARIABLES phase,      \* phase[o]: how far operation o has come
          outcome     \* outcome[o]: what operation o reported

vars == <<phase, outcome>>

Phases == {"new", "pending", "completed", "consumed", "abandoned"}

Init == /\ phase = [o \in Ops |-> "new"]
        /\ outcome = [o \in Ops |-> NoOutcome]

Begin(o) == /\ phase[o] = "new"
            /\ phase' = [phase EXCEPT ![o] = "pending"]
            /\ UNCHANGED outcome

Complete(o) == /\ phase[o] = "pending"
               /\ phase' = [phase EXCEPT ![o] = "completed"]
               /\ \E r \in Outcomes : outcome' = [outcome EXCEPT ![o] = r]

\* The awaiter moves the outcome out and goes on with it.
Consume(o) == /\ phase[o] = "completed"
              /\ phase' = [phase EXCEPT ![o] = "consumed"]
              /\ UNCHANGED outcome

\* The awaiter is dropped, and with it any outcome it did not get.
Abandon(o) == /\ phase[o] \in {"pending", "completed"}
              /\ phase' = [phase EXCEPT ![o] = "abandoned"]
              /\ outcome' = [outcome EXCEPT ![o] = NoOutcome]

Next == \E o \in Ops : Begin(o) \/ Complete(o) \/ Consume(o) \/ Abandon(o)

SafeSpec == Init /\ [][Next]_vars

Spec == SafeSpec /\ \A o \in Ops : WF_vars(Consume(o))
=============================================================================
