------------------------------ MODULE IoProofs ------------------------------
(***************************************************************************)
(* The asynchronous operations and the socket that starts them.            *)
(*                                                                         *)
(* The io_future handshake is correct for any set of operations and any    *)
(* outcomes.  The inductive invariant IInv says, for each place the        *)
(* awaiting coroutine can be, where the handler can be and what the atomic *)
(* pointer then holds; of an awaiter that was dropped, only that what is   *)
(* still to resume its frame is one thing.                                 *)
(*                                                                         *)
(* udp_socket is correct for any clients, endpoints and number of blocking *)
(* threads.  Its inductive invariant SInv says who was overtaken between   *)
(* looking whether the socket is open and opening it, and, for a single    *)
(* blocking thread, that one client at a time is between the two and what  *)
(* it then finds.                                                          *)
(***************************************************************************)
EXTENDS IoFuture, UdpSocket, FiniteSetTheorems, TLAPS

\* Before the awaiter's exchange, suspended_ tells whether finish() was called.
BeforeExchange(o) ==
  apc[o] \in {"new", "ready", "suspend"} =>
    /\ posts[o] = 0
    /\ \/ suspended[o] = "null" /\ cpc[o] \in {"idle", "pending", "filled"}
       \/ suspended[o] = "done" /\ cpc[o] = "returned"

\* After it, the resumption is owed by exactly one side.
AfterExchange(o) ==
  /\ apc[o] = "repost" => cpc[o] = "returned" /\ posts[o] = 0
  /\ apc[o] = "parked" =>
       \/ posts[o] = 0 /\ cpc[o] \in {"pending", "filled"} /\ suspended[o] = "handle"
       \/ posts[o] = 0 /\ cpc[o] = "post"
       \/ posts[o] = 1 /\ cpc[o] = "returned"
  /\ apc[o] \in {"resume", "gone"} => cpc[o] = "returned" /\ posts[o] = 0
  /\ apc[o] = "dropped" => \/ posts[o] = 0
                           \/ posts[o] = 1 /\ cpc[o] = "returned"

OpInv(o) == BeforeExchange(o) /\ AfterExchange(o)

IInv == TypeOK /\ \A o \in Ops : OpInv(o)

-----------------------------------------------------------------------------
\* Each step changes the state of one operation only and stays in its type.
LEMMA TypeStep == TypeOK /\ [Next]_vars => TypeOK'
  <1> SUFFICES ASSUME TypeOK, [Next]_vars PROVE TypeOK'
    OBVIOUS
  <1> USE OutcomeAssumption DEF TypeOK, AwaiterAt, HandlerAt, HandlerPart, Pointers
  <1>1. ASSUME NEW o \in Ops, AwaiterStep(o) PROVE TypeOK'
    <2>1. CASE Start(o)        BY <2>1 DEF Start
    <2>2. CASE AwaitReady(o)   BY <2>2 DEF AwaitReady
    <2>3. CASE AwaitSuspend(o) BY <2>3 DEF AwaitSuspend
    <2>4. CASE Repost(o)       BY <2>4 DEF Repost
    <2>5. CASE Resume(o)       BY <2>5 DEF Resume
    <2>6. CASE AwaitResume(o)  BY <2>6 DEF AwaitResume
    <2> QED BY <1>1, <2>1, <2>2, <2>3, <2>4, <2>5, <2>6 DEF AwaiterStep
  <1>2. ASSUME NEW o \in Ops, Fill(o) PROVE TypeOK'
    BY <1>2 DEF Fill
  <1>3. ASSUME NEW o \in Ops, HandlerStep(o) PROVE TypeOK'
    BY <1>3 DEF HandlerStep, Finish, FinishPost
  <1>4. ASSUME NEW o \in Ops, Drop(o) PROVE TypeOK'
    BY <1>4 DEF Drop
  <1>5. CASE UNCHANGED vars
    BY <1>5 DEF vars
  <1> QED BY <1>1, <1>2, <1>3, <1>4, <1>5 DEF Next

\* Inductive step: for each action on operation p, the invariant of any
\* operation o is kept.
LEMMA InvStep == IInv /\ [Next]_vars => IInv'
  <1> SUFFICES ASSUME IInv, [Next]_vars PROVE IInv'
    OBVIOUS
  <1>1. TypeOK'
    BY TypeStep DEF IInv
  <1> SUFFICES ASSUME NEW o \in Ops PROVE OpInv(o)'
    BY <1>1 DEF IInv
  <1> USE OutcomeAssumption
      DEF IInv, TypeOK, OpInv, HandlerPart, BeforeExchange, AfterExchange,
          AwaiterAt, HandlerAt, Pointers
  <1>2. ASSUME NEW p \in Ops, AwaiterStep(p) PROVE OpInv(o)'
    <2>1. CASE Start(p)        BY <2>1 DEF Start
    <2>2. CASE AwaitReady(p)   BY <2>2 DEF AwaitReady
    <2>3. CASE AwaitSuspend(p) BY <2>3 DEF AwaitSuspend
    <2>4. CASE Repost(p)       BY <2>4 DEF Repost
    <2>5. CASE Resume(p)       BY <2>5 DEF Resume
    <2>6. CASE AwaitResume(p)  BY <2>6 DEF AwaitResume
    <2> QED BY <1>2, <2>1, <2>2, <2>3, <2>4, <2>5, <2>6 DEF AwaiterStep
  <1>3. ASSUME NEW p \in Ops, Fill(p) PROVE OpInv(o)'
    BY <1>3 DEF Fill
  <1>4. ASSUME NEW p \in Ops, HandlerStep(p) PROVE OpInv(o)'
    <2>1. CASE Finish(p)     BY <2>1 DEF Finish, Found
    <2>2. CASE FinishPost(p) BY <2>2 DEF FinishPost
    <2> QED BY <1>4, <2>1, <2>2 DEF HandlerStep
  <1>5. ASSUME NEW p \in Ops, Drop(p) PROVE OpInv(o)'
    BY <1>5 DEF Drop
  <1>6. CASE UNCHANGED vars
    BY <1>6 DEF vars
  <1> QED BY <1>2, <1>3, <1>4, <1>5, <1>6 DEF Next

LEMMA Inductive == SafeSpec => []IInv
  <1>1. Init => IInv
    BY DEF Init, IInv, TypeOK, OpInv, HandlerPart, BeforeExchange,
           AfterExchange, AwaiterAt, HandlerAt, Pointers
  <1> QED BY <1>1, InvStep, PTL DEF SafeSpec

\* Types: the variables keep to the values the code can give them.
THEOREM Typing == Spec => []TypeOK
  <1>1. IInv => TypeOK
    BY DEF IInv
  <1> QED BY <1>1, Inductive, PTL DEF Spec

\* The two sides of io_future.cpp:12 and 18 never both schedule the awaiter,
\* and never schedule one that is not suspended.
THEOREM AtMostOneResumption == Spec => []ResumedOnce
  <1>1. IInv => ResumedOnce
    <2> SUFFICES ASSUME IInv, NEW o \in Ops
                 PROVE  posts[o] + (IF cpc[o] = "post" THEN 1 ELSE 0)
                                 + (IF apc[o] = "repost" THEN 1 ELSE 0)
                          <= IF apc[o] \in {"parked", "repost", "dropped"}
                               THEN 1 ELSE 0
      BY DEF ResumedOnce
    <2> USE DEF IInv, TypeOK, AwaiterAt, OpInv, HandlerPart, BeforeExchange,
                AfterExchange
    <2>1. CASE apc[o] \in {"new", "ready", "suspend"}
      <3> /\ posts[o] = 0 /\ cpc[o] # "post"
          /\ apc[o] \notin {"parked", "repost", "dropped"}
        BY <2>1
      <3> QED OBVIOUS
    <2>2. CASE apc[o] = "repost"
      <3> posts[o] = 0 /\ cpc[o] # "post"
        BY <2>2
      <3> QED BY <2>2
    <2>3. CASE apc[o] \in {"parked", "dropped"}
      <3> \/ posts[o] = 0
          \/ posts[o] = 1 /\ cpc[o] # "post"
        BY <2>3
      <3> QED BY <2>3
    <2>4. CASE apc[o] \in {"resume", "gone"}
      <3> /\ posts[o] = 0 /\ cpc[o] # "post"
          /\ apc[o] \notin {"parked", "repost", "dropped"}
        BY <2>4
      <3> QED OBVIOUS
    <2> QED BY <2>1, <2>2, <2>3, <2>4
  <1> QED BY <1>1, Inductive, PTL DEF Spec

\* Every *std::move(ret) of an await_resume finds a result.
THEOREM ResultIsThere == Spec => []ResultBeforeResume
  <1>1. IInv => ResultBeforeResume
    BY DEF IInv, TypeOK, OpInv, HandlerPart, AfterExchange, ResultBeforeResume
  <1> QED BY <1>1, Inductive, PTL DEF Spec

\* Past await_resume nothing touches the coroutine's io_future any more, so
\* that it may be destroyed; a coroutine destroyed while it is suspended on the
\* operation always leaves the handler or a resumption to a frame that is gone.
THEOREM FrameFreeOnlyAtEnd == Spec => []DestroyedSafelyOnlyAtEnd
  <1>1. IInv => DestroyedSafelyOnlyAtEnd
    <2> SUFFICES ASSUME IInv, NEW o \in Ops
                 PROVE  /\ apc[o] = "gone" => Users(o) = {}
                        /\ apc[o] = "parked" => Users(o) # {}
      BY DEF DestroyedSafelyOnlyAtEnd
    <2>1. ASSUME apc[o] = "gone" PROVE Users(o) = {}
      <3>1. cpc[o] = "returned" /\ posts[o] = 0
        BY <2>1 DEF IInv, OpInv, AfterExchange
      <3> QED BY <3>1 DEF Users
    <2>2. ASSUME apc[o] = "parked" PROVE Users(o) # {}
      <3>1. cpc[o] \in {"pending", "filled", "post"} \/ posts[o] = 1
        BY <2>2 DEF IInv, OpInv, AfterExchange
      <3> QED BY <3>1 DEF Users
    <2> QED BY <2>1, <2>2
  <1> QED BY <1>1, Inductive, PTL DEF Spec

\* A suspended awaiter is never forgotten: its resumption is in the io_context,
\* or finish() is about to put it there, or suspended_ holds its handle and the
\* handler, which will find it, has not exchanged it yet (io_future.cpp:10-22).
OwedAResumption ==
  \A o \in Ops : apc[o] = "parked" =>
    \/ posts[o] = 1
    \/ cpc[o] = "post"
    \/ suspended[o] = "handle" /\ cpc[o] \in {"pending", "filled"}

\* No interleaving of the exchanges of await_suspend and finish loses the wakeup
\* of the awaiter: the safety core of the liveness that TLC checks.
THEOREM NoLostResumption == Spec => []OwedAResumption
  <1>1. IInv => OwedAResumption
    BY DEF IInv, OpInv, AfterExchange, OwedAResumption
  <1> QED BY <1>1, Inductive, PTL DEF Spec

-----------------------------------------------------------------------------
\* Every step of the handshake is a step of OneShot or leaves it unchanged.
LEMMA RefinementStep == IInv /\ [Next]_vars => [Promise!Next]_(Promise!vars)
  <1> SUFFICES ASSUME IInv, [Next]_vars PROVE [Promise!Next]_(Promise!vars)
    OBVIOUS
  <1> USE OutcomeAssumption
      DEF IInv, TypeOK, OpInv, HandlerPart, BeforeExchange, AfterExchange,
          AwaiterAt, HandlerAt, PhaseOf, OutcomeOf, Promise!vars
  <1>1. ASSUME NEW o \in Ops, Start(o) PROVE Promise!Begin(o)
    BY <1>1 DEF Start, Promise!Begin
  <1>2. ASSUME NEW o \in Ops, Fill(o), apc[o] # "dropped" PROVE Promise!Complete(o)
    <2>1. PhaseOf(o) = "pending" /\ PhaseOf(o)' = "completed"
      BY <1>2 DEF Fill
    <2>2. \A p \in Ops : p # o => PhaseOf(p)' = PhaseOf(p)
      BY <1>2 DEF Fill
    <2>3. \E r \in Outcomes : [p \in Ops |-> OutcomeOf(p)]'
                                = [[p \in Ops |-> OutcomeOf(p)] EXCEPT ![o] = r]
      BY <1>2 DEF Fill
    <2>4. [p \in Ops |-> PhaseOf(p)]'
            = [[p \in Ops |-> PhaseOf(p)] EXCEPT ![o] = "completed"]
      <3> HIDE DEF PhaseOf
      <3> QED BY <2>1, <2>2
    <2>5. [p \in Ops |-> PhaseOf(p)][o] = "pending"
      BY <2>1
    <2> QED BY <2>3, <2>4, <2>5 DEF Promise!Complete
  <1>f. ASSUME NEW o \in Ops, Fill(o), apc[o] = "dropped" PROVE UNCHANGED Promise!vars
    BY <1>f DEF Fill
  <1>d. ASSUME NEW o \in Ops, Drop(o) PROVE Promise!Abandon(o)
    <2>1. /\ PhaseOf(o) \in {"pending", "completed"} /\ PhaseOf(o)' = "abandoned"
          /\ OutcomeOf(o)' = NoOutcome
      BY <1>d DEF Drop
    <2>2. \A p \in Ops : p # o => /\ PhaseOf(p)' = PhaseOf(p)
                                  /\ OutcomeOf(p)' = OutcomeOf(p)
      BY <1>d DEF Drop
    <2> HIDE DEF PhaseOf, OutcomeOf
    <2> QED BY <2>1, <2>2 DEF Promise!Abandon
  <1>3. ASSUME NEW o \in Ops, AwaitResume(o) PROVE Promise!Consume(o)
    BY <1>3 DEF AwaitResume, Promise!Consume
  <1>4. ASSUME NEW o \in Ops,
               AwaitReady(o) \/ AwaitSuspend(o) \/ Repost(o) \/ Resume(o)
        PROVE UNCHANGED Promise!vars
    BY <1>4 DEF AwaitReady, AwaitSuspend, Repost, Resume
  <1>5. ASSUME NEW o \in Ops, HandlerStep(o) PROVE UNCHANGED Promise!vars
    BY <1>5 DEF HandlerStep, Finish, FinishPost
  <1>6. CASE UNCHANGED vars
    BY <1>6 DEF vars
  <1> QED BY <1>1, <1>2, <1>f, <1>d, <1>3, <1>4, <1>5, <1>6
          DEF Next, AwaiterStep, Promise!Next

\* The handshake implements what an operation promises its awaiter (the
\* liveness half of OneShot is left to the model checker).
THEOREM Refinement == Spec => Promise!SafeSpec
  <1>1. Init => Promise!Init
    BY DEF Init, PhaseOf, OutcomeOf, Promise!Init
  <1> QED BY <1>1, Inductive, RefinementStep, PTL DEF Spec, SafeSpec, Promise!SafeSpec

-----------------------------------------------------------------------------
(* udp_socket.                                                             *)

OpenErrors == {"already_open", "system"}
CallErrors == OpenErrors \cup {"bad_descriptor"}

\* The threads of the blocking pool that the socket keeps busy.
Busy == {c \in Clients : pc[c] \in {"open", "assign", "bind"}}

SocketTypes ==
  /\ blockers \in Nat \ {0}
  /\ op \in [Clients -> Operations] /\ ep \in [Clients -> Endpoints]
  /\ family \in Families \cup {"closed"}
  /\ bound \in Options(Endpoints) /\ local_ \in Options(Endpoints)
  /\ remote_ = Nullopt
  /\ pc \in [Clients -> {"new", "queued", "open", "assign", "bind", "back", "io", "end"}]
  /\ ec \in [Clients -> Options(OpenErrors)]
  /\ res \in [Clients -> Options(Results({0}, CallErrors))]

\* What a client's place tells of the socket: who is about to open it, having
\* seen it closed, was overtaken if it is open; an error of opening is in ec until
\* the call returns it, and nothing is returned before the end.
ClientPart(c) ==
  /\ op[c] = "bind_local" => pc[c] # "io"
  /\ pc[c] \in {"open", "assign"} /\ IsOpen => c \in raced
  /\ pc[c] = "queued" /\ op[c] # "bind_local" /\ IsOpen => c \in raced
  /\ ec[c] = Emplace("already_open") \/ res[c] = Emplace(Err("already_open")) =>
       c \in raced /\ (blockers = 1 => op[c] # "bind_local")
  /\ pc[c] \in {"new", "queued", "open", "assign", "bind"} => ~HasValue(ec[c])
  /\ pc[c] # "end" => ~HasValue(res[c])

\* With one blocking thread one client at a time is between the test of asio's
\* open and the end of bind, so that what it tested still holds there: the
\* socket is opened once, and local_ is set with the binding of the descriptor
\* that stays.
AlonePart ==
  blockers = 1 =>
    /\ \A c, d \in Busy : c = d
    /\ HasValue(local_) =>
         \E e \in Chosen(Deref(local_)[1], Deref(local_)[2]) : bound = Emplace(e)
    /\ ~IsOpen => bound = Nullopt
    /\ \A c \in Clients :
         /\ pc[c] = "assign" => ~IsOpen
         /\ pc[c] = "open" /\ op[c] = "bind_local" => ~IsOpen
         /\ op[c] = "bind_local" /\
              (res[c] = Emplace(Ok(0)) \/ (pc[c] = "back" /\ ~HasValue(ec[c])))
              => local_ = Emplace(ep[c])

\* The inductive invariant of the socket.
SInv == SocketTypes /\ AlonePart /\ \A c \in Clients : ClientPart(c)

-----------------------------------------------------------------------------
\* What option and result tell apart.
LEMMA Values ==
  /\ ~HasValue(Nullopt)
  /\ \A v : /\ HasValue(Emplace(v)) /\ Emplace(v) # Nullopt
            /\ Deref(Emplace(v)) = v
  /\ \A v, w : Emplace(v) = Emplace(w) => v = w
  /\ \A v : IsOk(Ok(v)) /\ Get(Ok(v)) = v
  /\ \A e : ~IsOk(Err(e)) /\ Get(Err(e)) = e
  /\ \A v, e : Ok(v) # Err(e)
  /\ \A e, f : Err(e) = Err(f) => e = f
  /\ \A e : Propagate(Err(e)) = Err(e)
  <1>1. \A v : <<v>> # <<>> /\ <<v>>[1] = v
    OBVIOUS
  <1>2. \A a, b : <<a, b>>[1] = a /\ <<a, b>>[2] = b
    OBVIOUS
  <1>3. "ok" # "err"
    OBVIOUS
  <1> QED BY <1>1, <1>2, <1>3
          DEF HasValue, Nullopt, Emplace, Deref, IsOk, Ok, Err, Get, Propagate

\* What an option or a result can be.
LEMMA ValueShapes ==
  /\ \A V : Nullopt \in Options(V) /\ \A v \in V : Emplace(v) \in Options(V)
  /\ \A V : \A o \in Options(V) : o = Nullopt \/ \E v \in V : o = Emplace(v)
  /\ \A V, E : /\ \A v \in V : Ok(v) \in Results(V, E)
               /\ \A e \in E : Err(e) \in Results(V, E)
               /\ \A r \in Results(V, E) : \/ \E v \in V : r = Ok(v)
                                           \/ \E e \in E : r = Err(e)
  BY DEF Options, Results

\* Each step of a client keeps the types; what a call can return is listed once.
LEMMA TypesStep ==
  ASSUME SocketTypes, NEW c \in Clients, Step(c)
  PROVE  SocketTypes'
  <1> USE Values, ValueShapes, SocketAssumption
      DEF SocketTypes, At, Returns, Fails, fixed,
          socket, locals
  <1>1. CASE Call(c) BY <1>1 DEF Call
  <1>2. CASE Begin(c) BY <1>2 DEF Begin
  <1>3. CASE OpenCheck(c) BY <1>3 DEF OpenCheck, OpenErrors
  <1>4. CASE OpenAssign(c) BY <1>4 DEF OpenAssign, OpenErrors, FamilyOf
  <1>5. CASE Bind(c) BY <1>5 DEF Bind, OpenErrors, LocalAfter, BoundBy, Chosen
  <1>6. CASE Back(c)
    <2>1. ASSUME HasValue(ec[c])
          PROVE  Emplace(Propagate(Err(Deref(ec[c]))))
                   \in Options(Results({0}, CallErrors))
      BY <2>1 DEF CallErrors
    <2>2. Emplace(Ok(0)) \in Options(Results({0}, CallErrors))
      OBVIOUS
    <2> QED BY <1>6, <2>1, <2>2 DEF Back, OpenFailed
  <1>7. CASE Complete(c)
    <2>1. \A r \in Completions(c) : r \in Results({0}, CallErrors)
      BY DEF Completions, CallErrors, OpenErrors
    <2>2. \A r : PeerAfter(c, r) \subseteq Endpoints
      BY DEF PeerAfter, Chosen
    <2>3. \A r : BoundAfter(c, r) \subseteq Options(Endpoints)
      BY DEF BoundAfter, Chosen
    <2> QED BY <1>7, <2>1, <2>2, <2>3 DEF Complete
  <1> QED BY <1>1, <1>2, <1>3, <1>4, <1>5, <1>6, <1>7 DEF Step

\* A step of c keeps ClientPart of every client d: when c opens the socket, the
\* clients that had seen it closed become overtaken.
LEMMA ClientStep ==
  ASSUME SocketTypes, AlonePart, NEW d \in Clients, ClientPart(d),
         NEW c \in Clients, Step(c)
  PROVE  ClientPart(d)'
  <1> USE Values, ValueShapes
      DEF SocketTypes, ClientPart, At, Returns, Fails, fixed, socket,
          locals, IsOpen
  <1>1. CASE Call(c) BY <1>1 DEF Call, MustOpen
  <1>2. CASE Begin(c) BY <1>2 DEF Begin
  <1>3. CASE OpenCheck(c) BY <1>3 DEF OpenCheck, AlonePart
  <1>4. CASE OpenAssign(c) BY <1>4 DEF OpenAssign
  <1>5. CASE Bind(c) BY <1>5 DEF Bind
  <1>6. CASE Back(c) BY <1>6 DEF Back, OpenFailed
  <1>7. CASE Complete(c)
    <2>1. Err("already_open") \notin Completions(c)
      BY DEF Completions
    <2> QED BY <1>7, <2>1 DEF Complete
  <1> QED BY <1>1, <1>2, <1>3, <1>4, <1>5, <1>6, <1>7 DEF Step

\* A client gets on a single blocking thread when no other is there.
LEMMA OneBlocker ==
  ASSUME blockers = 1, FreeBlocker
  PROVE  Busy = {}
  <1>1. IsFiniteSet(Busy)
    BY FS_Subset, SocketAssumption DEF Busy
  <1>2. Cardinality(Busy) \in Nat /\ Cardinality(Busy) < 1
    BY <1>1, FS_CardinalityType DEF FreeBlocker, Busy
  <1> QED BY <1>1, <1>2, FS_EmptySet

\* With one blocking thread, no step comes between a client's test of the socket
\* and its use of what it found; bind is the step that moves bound and local_.
LEMMA AloneStep ==
  ASSUME SInv, NEW c \in Clients, Step(c)
  PROVE  AlonePart'
  <1>0. CASE blockers # 1
    BY <1>0 DEF Step, Call, Begin, OpenCheck, OpenAssign, Bind,
                Back, Complete, fixed, AlonePart
  <1> SUFFICES ASSUME blockers = 1 PROVE AlonePart'
    BY <1>0
  <1> USE Values, ValueShapes
      DEF SInv, SocketTypes, ClientPart, AlonePart, Busy, At, Returns,
          Fails, fixed, socket, locals, IsOpen
  <1>1. CASE Call(c) BY <1>1 DEF Call, MustOpen
  <1>2. CASE Begin(c) BY <1>2, OneBlocker DEF Begin
  <1>3. CASE OpenCheck(c) BY <1>3 DEF OpenCheck
  <1>4. CASE OpenAssign(c) BY <1>4 DEF OpenAssign
  <1>5. CASE Bind(c)
    <2>1. PICK ok \in (IF CanBind(c) THEN BOOLEAN ELSE {FALSE}) :
            /\ bound' \in BoundBy(c, ok)
            /\ local_' = LocalAfter(c, ok)
            /\ IF ok THEN UNCHANGED ec ELSE Fails(c, "system")
      BY <1>5 DEF Bind
    <2>2. /\ \A d \in Clients : pc'[d] = IF d = c THEN "back" ELSE pc[d]
          /\ UNCHANGED <<blockers, op, ep, family, res>>
      BY <1>5 DEF Bind
    <2>3. CASE ok
      <3>1. IsOpen /\ bound = Nullopt
        <4>1. CanBind(c)
          BY <2>1, <2>3
        <4>2. ep[c][1] \in Families /\ "closed" \notin Families
          BY SocketAssumption DEF Families
        <4> QED BY <4>1, <4>2 DEF CanBind, FamilyOf
      <3>2. local_ = Nullopt /\ local_' = Emplace(ep[c]) /\ UNCHANGED ec
        BY <2>1, <2>3, <3>1 DEF LocalAfter
      <3>3. \E e \in Chosen(ep[c][1], ep[c][2]) : bound' = Emplace(e)
        BY <2>1, <2>3 DEF BoundBy
      <3> HIDE DEF Chosen
      <3> QED BY <1>5, <2>2, <3>1, <3>2, <3>3 DEF Bind
    <2>4. CASE ~ok
      <3>1. bound' = bound /\ local_' = local_ /\ Fails(c, "system")
        BY <2>1, <2>4 DEF BoundBy, LocalAfter
      <3> QED BY <1>5, <2>2, <3>1 DEF Bind
    <2> QED BY <2>3, <2>4
  <1>6. CASE Back(c) BY <1>6 DEF Back, OpenFailed
  <1>7. CASE Complete(c)
    <2>1. PICK r \in Completions(c) : bound' \in BoundAfter(c, r) /\ Returns(c, r)
      BY <1>7 DEF Complete
    <2>2. bound' = bound \/ (IsOpen /\ bound = Nullopt)
      BY <2>1 DEF BoundAfter
    <2>3. HasValue(local_) => bound # Nullopt /\ bound' = bound
      BY <2>2
    <2>4. /\ UNCHANGED <<blockers, op, family, local_, ec>> /\ op[c] # "bind_local"
          /\ \A d \in Clients \ {c} : ep'[d] = ep[d] /\ res'[d] = res[d] /\ pc'[d] = pc[d]
          /\ pc'[c] = "end"
      BY <1>7 DEF Complete
    <2> QED BY <2>2, <2>3, <2>4
  <1> QED BY <1>1, <1>2, <1>3, <1>4, <1>5, <1>6, <1>7 DEF Step

\* The socket's invariant is inductive.
LEMMA SocketInductive == SocketSpec => []SInv
  <1>1. SocketInit => SInv
    <2> SUFFICES ASSUME SocketInit PROVE SInv
      OBVIOUS
    <2>1. SocketTypes
      BY ValueShapes, SocketAssumption DEF SocketInit, SocketTypes
    <2>2. AlonePart
      BY Values DEF SocketInit, AlonePart, Busy
    <2>3. \A c \in Clients : ClientPart(c)
      BY Values DEF SocketInit, ClientPart, IsOpen
    <2> QED BY <2>1, <2>2, <2>3 DEF SInv
  <1>2. SInv /\ [SocketNext]_(socketVars) => SInv'
    <2> SUFFICES ASSUME SInv, [SocketNext]_(socketVars) PROVE SInv'
      OBVIOUS
    <2>1. CASE \E c \in Clients : Step(c)
      BY <2>1, TypesStep, ClientStep, AloneStep DEF SInv
    <2>2. CASE UNCHANGED socketVars
      BY <2>2 DEF SInv, SocketTypes, AlonePart, ClientPart, Busy, IsOpen,
                  socketVars, fixed, socket, locals
    <2> QED BY <2>1, <2>2 DEF SocketNext
  <1> QED BY <1>1, <1>2, PTL DEF SocketSpec

\* For any clients and blocking threads, a call of udp_socket returns
\* already_open only to a client that was overtaken between its look at the
\* socket (udp.cpp:51) and its turn to open it; with one blocking thread
\* bind_local, which looks on that thread, never returns it.
THEOREM OnlyTheOvertakenFail == SocketSpec => []AlreadyOpenOnlyByRace
  <1>1. SInv => AlreadyOpenOnlyByRace
    BY DEF SInv, ClientPart, AlreadyOpenOnlyByRace
  <1> QED BY <1>1, SocketInductive, PTL

\* For any clients and one blocking thread, local_endpoint() names what the
\* bind_local that succeeded asked for, and the descriptor is bound to that or to
\* a port that was left to the system, whatever part of opening, binding,
\* connecting and sending has failed.
THEOREM LocalEndpointIsAsked == SocketSpec => []LocalIsAsked
  <1>1. SInv => LocalIsAsked
    BY DEF SInv, AlonePart, LocalIsAsked
  <1> QED BY <1>1, SocketInductive, PTL
=============================================================================
