------------------------------ MODULE LagQueue ------------------------------
(***************************************************************************)
(* What crasy::lfqueue does, seen from outside, when at most one pop is in *)
(* progress at a time: a FIFO queue whose pop may miss once.  The last     *)
(* entry of a drained queue stays at the tail as an empty dummy; once      *)
(* something is pushed behind it the next pop takes the dummy, and returns *)
(* nothing although an item is queued.  LfQueue is shown to implement this *)
(* specification; BlockingPool uses it as its queue.                       *)
(***************************************************************************)
EXTENDS Sequences, Naturals

CONSTANT Items

VARIABLES q,     \* the items in the queue
          lag    \* an empty dummy stands before them

Init == q = <<>> /\ lag = FALSE

Push(i) == /\ q' = Append(q, i)
           /\ UNCHANGED lag

\* The first item is returned; taking the last one leaves its entry behind.
PopItem(i) == /\ ~lag /\ q # <<>>
              /\ i = Head(q)
              /\ q' = Tail(q)
              /\ lag' = (Len(q) = 1)

\* The dummy is taken: nothing is returned, the next pop finds the item.
PopMiss == /\ lag /\ q # <<>>
           /\ lag' = FALSE
           /\ UNCHANGED q

PopEmpty == q = <<>> /\ UNCHANGED <<q, lag>>

Next == (\E i \in Items : Push(i) \/ PopItem(i)) \/ PopMiss \/ PopEmpty

Spec == Init /\ [][Next]_<<q, lag>>
=============================================================================
