----------------------------- MODULE LastOneOut -----------------------------
(***************************************************************************)
(* Shared ownership of a heap object by two parties that leave it in any   *)
(* order: the last one to leave frees the object, in the same step.        *)
(* BlockingJoin is shown to implement this specification.                  *)
(***************************************************************************)
CONSTANTS Objects, Parties

VARIABLES holders,   \* holders[x]: the parties that still use object x
          freed      \* freed[x]: object x was freed

vars == <<holders, freed>>

Init == /\ holders = [x \in Objects |-> {}]
        /\ freed = [x \in Objects |-> FALSE]

Create(x) == /\ holders[x] = {} /\ ~freed[x]
             /\ holders' = [holders EXCEPT ![x] = Parties]
             /\ UNCHANGED freed

Leave(x, p) == /\ p \in holders[x]
               /\ holders' = [holders EXCEPT ![x] = @ \ {p}]
               /\ freed' = [freed EXCEPT ![x] = holders[x] = {p}]

Next == \E x \in Objects : Create(x) \/ \E p \in Parties : Leave(x, p)

SafeSpec == Init /\ [][Next]_vars
=============================================================================
