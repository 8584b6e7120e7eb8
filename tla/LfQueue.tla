------------------------------ MODULE LfQueue ------------------------------
(***************************************************************************)
(* crasy::lfqueue (include/crasy/lfqueue.hpp): a linked queue with head_   *)
(* (last entry) and tail_ (first entry), and a stack free_ of entries to   *)
(* reuse.  Every load, store, exchange and compare_exchange of one of      *)
(* those atomics is a step; put_data and take_data are one step each.      *)
(* Steps interleave as under sequential consistency: the acquire, release  *)
(* and relaxed orders of the code are not modelled.                        *)
(***************************************************************************)
EXTENDS Naturals, FiniteSets, Sequences, SequencesExt

CONSTANTS Pushers,           \* threads that push
          Poppers,           \* threads that pop
          PushesEach,        \* bound: how often each pusher pushes
          InitialCapacity    \* entries the constructor puts on free_

ASSUME BoundsAssumption == /\ PushesEach \in Nat /\ InitialCapacity \in Nat
                           /\ IsFiniteSet(Pushers)
                           /\ Pushers \cap Poppers = {}

Null == 0
\* Enough for every push to allocate, so allocation never fails.
HeapSize == InitialCapacity + PushesEach * Cardinality(Pushers)
Entries == 1..HeapSize
Pointers == Entries \cup {Null}
Items == Pushers \X (1..PushesEach)
NoItem == <<>>

VARIABLES
  head, tail, free,   \* head_, tail_, free_
  next,               \* next[e]: entry_t::next
  data,               \* data[e]: the item, NoItem when has_value is false
  allocated,          \* entries created by new so far: 1..allocated
  pc,                 \* pc[t]: where thread t is in push or pop
  ent,                \* ent[t]: its local `entry` (push) or `tail` (pop)
  nxt,                \* nxt[t]: its local `next`, or push's `head`
  pushed,             \* pushed[p]: pushes completed by p
  order,              \* history: items in the order of the head_ exchanges
  got                 \* history: items in the order pop took them

shared == <<head, tail, free, next, data, allocated>>
vars == <<shared, pc, ent, nxt, pushed, order, got>>

Threads == Pushers \cup Poppers

\* The constructor chains its entries on free_, the last one made on top.
Init == /\ head = Null /\ tail = Null
        /\ free = InitialCapacity
        /\ next = [e \in Entries |-> IF e <= InitialCapacity THEN e - 1
                                                             ELSE Null]
        /\ data = [e \in Entries |-> NoItem]
        /\ allocated = InitialCapacity
        /\ pc = [t \in Threads |-> "start"]
        /\ ent = [t \in Threads |-> Null]
        /\ nxt = [t \in Threads |-> Null]
        /\ pushed = [p \in Pushers |-> 0]
        /\ order = <<>>
        /\ got = <<>>

Goto(t, l) == pc' = [pc EXCEPT ![t] = l]

-----------------------------------------------------------------------------
(* new_entry.                                                              *)

\* A load of free_ brought f: reuse it, or allocate when the list is empty.
HaveFree(t, f) ==
  IF f = Null
  THEN /\ allocated' = allocated + 1
       /\ ent' = [ent EXCEPT ![t] = allocated + 1]
       /\ Goto(t, "put")
  ELSE /\ ent' = [ent EXCEPT ![t] = f]
       /\ Goto(t, "new_next")
       /\ UNCHANGED allocated

NewLoad(p) == /\ pc[p] = "start" /\ pushed[p] < PushesEach
              /\ HaveFree(p, free)
              /\ UNCHANGED <<head, tail, free, next, data, nxt, pushed, order, got>>

NewNext(p) == /\ pc[p] = "new_next"
              /\ nxt' = [nxt EXCEPT ![p] = next[ent[p]]]
              /\ Goto(p, "new_cas")
              /\ UNCHANGED <<shared, ent, pushed, order, got>>

NewCas(p) == /\ pc[p] = "new_cas"
             /\ \/ /\ free = ent[p]
                   /\ free' = nxt[p]
                   /\ Goto(p, "new_clear")
                   /\ UNCHANGED <<allocated, ent>>
                \/ /\ free # ent[p]
                   /\ HaveFree(p, free)
                   /\ UNCHANGED free
             /\ UNCHANGED <<head, tail, next, data, nxt, pushed, order, got>>

\* Mutation: a reused entry keeps the next it had on the free list.
NewClear_Forgotten(p) == /\ pc[p] = "new_clear"
                         /\ Goto(p, "put")
                         /\ UNCHANGED <<shared, ent, nxt, pushed, order, got>>

NewClear(p) == /\ pc[p] = "new_clear"
               /\ next' = [next EXCEPT ![ent[p]] = Null]
               /\ Goto(p, "put")
               /\ UNCHANGED <<head, tail, free, data, allocated, ent, nxt,
                              pushed, order, got>>

-----------------------------------------------------------------------------
(* push.                                                                   *)

ItemOf(p) == <<p, pushed[p] + 1>>

PutData(p) == /\ pc[p] = "put"
              /\ data' = [data EXCEPT ![ent[p]] = ItemOf(p)]
              /\ Goto(p, "exchange")
              /\ UNCHANGED <<head, tail, free, next, allocated, ent, nxt,
                             pushed, order, got>>

Exchange(p) == /\ pc[p] = "exchange"
               /\ head' = ent[p]
               /\ nxt' = [nxt EXCEPT ![p] = head]
               /\ order' = Append(order, ItemOf(p))
               /\ Goto(p, "link")
               /\ UNCHANGED <<tail, free, next, data, allocated, ent, pushed, got>>

Link(p) == /\ pc[p] = "link"
           /\ IF nxt[p] = Null
              THEN tail' = ent[p] /\ UNCHANGED next
              ELSE next' = [next EXCEPT ![nxt[p]] = ent[p]] /\ UNCHANGED tail
           /\ pushed' = [pushed EXCEPT ![p] = @ + 1]
           /\ Goto(p, "start")
           /\ UNCHANGED <<head, free, data, allocated, ent, nxt, order, got>>

-----------------------------------------------------------------------------
(* pop.  A pop that finds tail_ null returns nothing and the thread is     *)
(* back at "start", which is a step that changes nothing.                  *)

LoadTail(c) == /\ pc[c] = "start" /\ tail # Null
               /\ ent' = [ent EXCEPT ![c] = tail]
               /\ Goto(c, "pop_next")
               /\ UNCHANGED <<shared, nxt, pushed, order, got>>

ReadNext(c) == /\ pc[c] = "pop_next"
               /\ nxt' = [nxt EXCEPT ![c] = next[ent[c]]]
               /\ Goto(c, "pop_cas")
               /\ UNCHANGED <<shared, ent, pushed, order, got>>

PopCas(c) == /\ pc[c] = "pop_cas"
             /\ IF tail = ent[c]
                THEN tail' = nxt[c] /\ Goto(c, "take")
                ELSE Goto(c, "start") /\ UNCHANGED tail
             /\ UNCHANGED <<head, free, next, data, allocated, ent, nxt,
                            pushed, order, got>>

Take(c) == /\ pc[c] = "take"
           /\ data' = [data EXCEPT ![ent[c]] = NoItem]
           /\ got' = IF data[ent[c]] = NoItem THEN got
                                              ELSE Append(got, data[ent[c]])
           /\ Goto(c, IF nxt[c] = Null THEN "put_back" ELSE "del_load")
           /\ UNCHANGED <<head, tail, free, next, allocated, ent, nxt,
                          pushed, order>>

\* Mutation: the drained entry is put back with the `next` read earlier.
PutBack_Next(c) == /\ pc[c] = "put_back"
                   /\ tail' = nxt[c]
                   /\ Goto(c, "start")
                   /\ UNCHANGED <<head, free, next, data, allocated, ent, nxt,
                                  pushed, order, got>>

\* Mutation: the drained entry is recycled although head_ still points to it.
PutBack_Delete(c) == /\ pc[c] = "put_back"
                     /\ Goto(c, "del_load")
                     /\ UNCHANGED <<shared, ent, nxt, pushed, order, got>>

PutBack(c) == /\ pc[c] = "put_back"
              /\ tail' = ent[c]
              /\ Goto(c, "start")
              /\ UNCHANGED <<head, free, next, data, allocated, ent, nxt,
                             pushed, order, got>>

-----------------------------------------------------------------------------
(* del_entry.                                                              *)

DelLoad(c) == /\ pc[c] = "del_load"
              /\ nxt' = [nxt EXCEPT ![c] = free]
              /\ Goto(c, "del_store")
              /\ UNCHANGED <<shared, ent, pushed, order, got>>

DelStore(c) == /\ pc[c] = "del_store"
               /\ next' = [next EXCEPT ![ent[c]] = nxt[c]]
               /\ Goto(c, "del_cas")
               /\ UNCHANGED <<head, tail, free, data, allocated, ent, nxt,
                              pushed, order, got>>

\* Mutation: free_ is stored, not compared.
DelCas_PlainStore(c) == /\ pc[c] = "del_cas"
                        /\ free' = ent[c]
                        /\ Goto(c, "start")
                        /\ UNCHANGED <<head, tail, next, data, allocated, ent,
                                       nxt, pushed, order, got>>

DelCas(c) == /\ pc[c] = "del_cas"
             /\ IF free = nxt[c]
                THEN free' = ent[c] /\ Goto(c, "start") /\ UNCHANGED nxt
                ELSE /\ nxt' = [nxt EXCEPT ![c] = free]
                     /\ Goto(c, "del_store")
                     /\ UNCHANGED free
             /\ UNCHANGED <<head, tail, next, data, allocated, ent, pushed,
                            order, got>>

-----------------------------------------------------------------------------
PushStep(p) == \/ NewLoad(p) \/ NewNext(p) \/ NewCas(p) \/ NewClear(p)
               \/ PutData(p) \/ Exchange(p) \/ Link(p)

PopStep(c) == \/ LoadTail(c) \/ ReadNext(c) \/ PopCas(c) \/ Take(c)
              \/ PutBack(c) \/ DelLoad(c) \/ DelStore(c) \/ DelCas(c)

Next == (\E p \in Pushers : PushStep(p)) \/ (\E c \in Poppers : PopStep(c))

SafeSpec == Init /\ [][Next]_vars

\* A thread inside push gets on with it, and a popper keeps popping, as a
\* worker of the executor does while its counter says tasks are waiting.
Fairness == /\ \A p \in Pushers : WF_vars(PushStep(p))
            /\ \A c \in Poppers : WF_vars(PopStep(c))

Spec == SafeSpec /\ Fairness

-----------------------------------------------------------------------------
(* Properties.                                                             *)

PushLabels == {"start", "new_next", "new_cas", "new_clear",
               "put", "exchange", "link"}

PopLabels == {"start", "pop_next", "pop_cas", "take",
              "put_back", "del_load", "del_store", "del_cas"}

TypeOK ==
  /\ {head, tail, free} \subseteq Pointers
  /\ next \in [Entries -> Pointers]
  /\ data \in [Entries -> Items \cup {NoItem}]
  /\ allocated \in InitialCapacity..HeapSize
  /\ pc \in [Threads -> PushLabels \cup PopLabels]
  /\ \A p \in Pushers : pc[p] \in PushLabels
  /\ \A c \in Poppers : pc[c] \in PopLabels
  /\ ent \in [Threads -> Pointers]
  /\ \A t \in Threads : pc[t] # "start" => ent[t] \in 1..allocated
  /\ nxt \in [Threads -> Pointers]
  /\ pushed \in [Pushers -> 0..PushesEach]
  /\ order \in Seq(Items)
  /\ got \in Seq(Items)

\* The entries met from e on, following next, cut off after HeapSize of them.
ChainFrom(e) ==
  LET chain[n \in 0..HeapSize] ==
        [x \in Pointers |-> IF n = 0 \/ x = Null
                            THEN <<>> ELSE <<x>> \o chain[n - 1][next[x]]]
  IN  chain[HeapSize][e]

Chained(e) == ToSet(ChainFrom(e))

\* The entry a thread works on without synchronisation, a pusher from its
\* compare_exchange of free_ until it links it and a popper from its
\* compare_exchange of tail_ until it gives it back, is on no list and is no
\* other thread's.
Private(t) == IF pc[t] \in {"new_clear", "put", "exchange", "link", "take",
                            "put_back", "del_load", "del_store", "del_cas"}
              THEN {ent[t]} ELSE {}

NoSharedEntry ==
  \A t \in Threads :
    /\ Private(t) \cap (Chained(tail) \cup Chained(free)) = {}
    /\ \A u \in Threads \ {t} : Private(t) \cap Private(u) = {}

\* ~lfqueue deletes what it reaches from tail_ and from free_: when no call is
\* in progress, that is every entry that was allocated, each exactly once.
DestructorFreesEachOnce ==
  (\A t \in Threads : pc[t] = "start") =>
    LET freed == ChainFrom(tail) \o ChainFrom(free)
    IN  Len(freed) = allocated /\ ToSet(freed) = 1..allocated

\* No item is stranded: one whose push has reached head_ is popped, also when
\* it arrives while the popper holds the drained entry and tail_ is null.
PushedIsPopped ==
  \A i \in Items : i \in ToSet(order) ~> i \in ToSet(got)

-----------------------------------------------------------------------------
(* Refinement of LagQueue, for one pusher and one popper.  A push takes    *)
(* effect when it links its entry, a pop when it reads next.               *)

Decided(c) == pc[c] \in {"pop_cas", "take", "put_back"}

DecidedEntry == ent[CHOOSE c \in Poppers : Decided(c)]

Dummy == IF \E c \in Poppers : Decided(c)
         THEN \E c \in Poppers : Decided(c) /\ nxt[c] = Null
         ELSE tail # Null /\ data[tail] = NoItem

QueuedEntries == IF \E c \in Poppers : Decided(c)
                 THEN ChainFrom(next[DecidedEntry])
                 ELSE IF Dummy THEN Tail(ChainFrom(tail)) ELSE ChainFrom(tail)

Outside == INSTANCE LagQueue WITH
             q   <- [k \in DOMAIN QueuedEntries |-> data[QueuedEntries[k]]],
             lag <- Dummy

\* With one pusher and one popper the linked queue behaves as a FIFO queue whose
\* pop misses at most once after it was drained.
ImplementsLagQueue == Outside!Spec
=============================================================================
