------------------------------ MODULE UdpSocket ------------------------------
(***************************************************************************)
(* udp_socket (src/udp.cpp): coroutines that use one socket, each for one  *)
(* call.  bind_local runs on a blocking thread; bind_remote, send_to and   *)
(* recv_from first make sure that the socket is open, which takes a        *)
(* blocking thread if it is not; send stands for send, recv, wait_read and *)
(* wait_write, which start at once.  The asynchronous operation itself is  *)
(* an IoFuture, of which only start and completion are seen here.          *)
(*                                                                         *)
(* asio's socket and the system are external.  The socket is not safe      *)
(* against concurrent use: open is its test and its assignment, with other *)
(* threads in between.  The system binds a descriptor once: when bind asks *)
(* for it, to a port of its own choice if that names port 0, or when the   *)
(* descriptor is connected or first sent from.                             *)
(***************************************************************************)
EXTENDS OptionResult, Naturals, FiniteSets

CONSTANTS Clients,       \* coroutines, with one call each
          Endpoints,     \* addresses and ports, as <<family, port>>
          MaxBlockers    \* bound: threads of the blocking pool

Families == {"v4", "v6"}

\* What the system may bind a descriptor to that shall be bound to <<f, port>>.
Chosen(f, port) == {e \in Endpoints : e[1] = f /\ e[2] # 0 /\ port \in {0, e[2]}}

ASSUME SocketAssumption == /\ \A e \in Endpoints : e[1] \in Families
                           /\ \A f \in Families : Chosen(f, 0) # {}
                           /\ IsFiniteSet(Clients)
                           /\ MaxBlockers \in Nat \ {0}

Opening == {"bind_remote", "send_to", "recv_from"}   \* those that ensure_open
Operations == {"bind_local", "send"} \cup Opening

VARIABLES
  blockers,         \* threads of the blocking pool; never changes
  op,               \* op[c]: the operation that c calls; never changes
  ep,               \* ep[c]: its endpoint, which recv_from overwrites
  family,           \* the family of sock_, or "closed"
  bound,            \* option: what sock_'s descriptor is bound to
  local_,           \* udp_socket::local_
  remote_,          \* udp_socket::remote_
  pc,               \* pc[c]: where c is
  ec,               \* ec[c]: the error of opening or binding, as an option
  res,              \* res[c]: option: what the call returned
  raced             \* history: c found sock_ closed and another client opened it

fixed == <<blockers, op>>
socket == <<family, bound, local_, remote_>>
locals == <<ep, ec, res>>
socketVars == <<fixed, socket, pc, locals, raced>>

SocketInit == /\ blockers \in 1..MaxBlockers
              /\ op \in [Clients -> Operations] /\ ep \in [Clients -> Endpoints]
              /\ family = "closed" /\ bound = Nullopt
              /\ local_ = Nullopt /\ remote_ = Nullopt
              /\ pc = [c \in Clients |-> "new"]
              /\ ec = [c \in Clients |-> Nullopt]
              /\ res = [c \in Clients |-> Nullopt]
              /\ raced = {}

At(c, l) == pc' = [pc EXCEPT ![c] = l]
Returns(c, r) == /\ res' = [res EXCEPT ![c] = Emplace(r)]
                 /\ At(c, "end")
Fails(c, e) == ec' = [ec EXCEPT ![c] = Emplace(e)]

IsOpen == family # "closed"
FamilyOf(c) == ep[c][1]

\* Mutation: ensure_open does not ask whether the socket is open.
MustOpen_Always(c) == op[c] \in Opening

MustOpen(c) == op[c] \in Opening /\ ~IsOpen

\* The call, up to its first suspension.
Call(c) == /\ pc[c] = "new"
           /\ At(c, IF op[c] = "bind_local" \/ MustOpen(c) THEN "queued" ELSE "io")
           /\ UNCHANGED <<fixed, socket, locals, raced>>

-----------------------------------------------------------------------------
(* On a thread of the blocking pool.                                       *)

FreeBlocker ==
  Cardinality({c \in Clients : pc[c] \in {"open", "assign", "bind"}}) < blockers

\* bind_local opens the socket if it is not; ensure_open has asked before.
Begin(c) == /\ pc[c] = "queued" /\ FreeBlocker
            /\ At(c, IF op[c] = "bind_local" /\ IsOpen THEN "bind" ELSE "open")
            /\ UNCHANGED <<fixed, socket, locals, raced>>

\* basic_socket::open looks whether it is open...
OpenCheck(c) == /\ pc[c] = "open"
                /\ IF IsOpen
                   THEN Fails(c, "already_open") /\ At(c, "back")
                   ELSE At(c, "assign") /\ UNCHANGED ec
                /\ UNCHANGED <<fixed, socket, ep, res, raced>>

\* ...and takes a new descriptor, in the place of the one that is there by now.
OpenAssign(c) ==
  /\ pc[c] = "assign"
  /\ \/ /\ family' = FamilyOf(c) /\ bound' = Nullopt
        /\ raced' = raced \cup {d \in Clients \ {c} : pc[d] \in {"queued", "open", "assign"}}
        /\ At(c, IF op[c] = "bind_local" THEN "bind" ELSE "back")
        /\ UNCHANGED ec
     \/ /\ Fails(c, "system")
        /\ At(c, "back")
        /\ UNCHANGED <<family, bound, raced>>
  /\ UNCHANGED <<fixed, local_, remote_, ep, res>>

\* bind, of a descriptor that is not bound, to an address of its family.
CanBind(c) == bound = Nullopt /\ family = FamilyOf(c)

\* What bind leaves the descriptor bound to: what it was, or as it was asked.
BoundBy(c, ok) == IF ok THEN {Emplace(e) : e \in Chosen(ep[c][1], ep[c][2])}
                        ELSE {bound}

\* Mutation: local_ is set before the error is looked at.
LocalAfter_Anyway(c, ok) == Emplace(ep[c])

\* local_ is set from the endpoint that was asked for; nobody asks the system.
LocalAfter(c, ok) == IF ok THEN Emplace(ep[c]) ELSE local_

Bind(c) == /\ pc[c] = "bind"
           /\ \E ok \in (IF CanBind(c) THEN BOOLEAN ELSE {FALSE}) :
                /\ bound' \in BoundBy(c, ok)
                /\ local_' = LocalAfter(c, ok)
                /\ IF ok THEN UNCHANGED ec ELSE Fails(c, "system")
           /\ At(c, "back")
           /\ UNCHANGED <<fixed, family, remote_, ep, res, raced>>

-----------------------------------------------------------------------------
(* Back in the coroutine.                                                  *)

OpenFailed(c) == HasValue(ec[c])

\* spawn_blocking was awaited: an error is returned, through ensure_open's and
\* by propagate() into the caller's type of result; otherwise the call goes on.
Back(c) == /\ pc[c] = "back"
           /\ \/ OpenFailed(c) /\ Returns(c, Propagate(Err(Deref(ec[c]))))
              \/ ~OpenFailed(c) /\ op[c] = "bind_local" /\ Returns(c, Ok(0))
              \/ ~OpenFailed(c) /\ op[c] # "bind_local" /\ At(c, "io") /\ UNCHANGED res
           /\ UNCHANGED <<fixed, socket, ep, ec, raced>>

\* What the handler can be called with: whether the endpoint will do, for one
\* of another family too, is up to the system.
Completions(c) == IF IsOpen THEN Results({0}, {"system"}) ELSE {Err("bad_descriptor")}

\* Connecting a descriptor, or sending from it, binds one that is not bound; an
\* attempt that fails may have bound it or not.
BoundAfter(c, r) ==
  IF IsOpen /\ bound = Nullopt /\ op[c] \in {"bind_remote", "send_to"}
  THEN {Emplace(e) : e \in Chosen(family, 0)} \cup (IF IsOk(r) THEN {} ELSE {bound})
  ELSE {bound}

\* What recv_from writes to its peer argument: the sender, or on an error the
\* address it was called with, converted to asio's and back.
PeerAfter(c, r) == IF op[c] = "recv_from" /\ IsOk(r) THEN Chosen(family, 0)
                                                     ELSE {ep[c]}

\* The operation completes, its future is awaited and the call returns.
\* bind_remote does not record its endpoint in remote_.
Complete(c) == /\ pc[c] = "io"
               /\ \E r \in Completions(c) :
                    /\ Returns(c, r)
                    /\ bound' \in BoundAfter(c, r)
                    /\ \E e \in PeerAfter(c, r) : ep' = [ep EXCEPT ![c] = e]
               /\ UNCHANGED <<fixed, family, local_, remote_, ec, raced>>

Step(c) == \/ Call(c) \/ Begin(c) \/ OpenCheck(c) \/ OpenAssign(c) \/ Bind(c)
           \/ Back(c) \/ Complete(c)

SocketNext == \E c \in Clients : Step(c)

SocketSpec == SocketInit /\ [][SocketNext]_socketVars

-----------------------------------------------------------------------------
(* Properties.                                                             *)

\* With one blocking thread local_endpoint() is what the bind_local asked for that
\* has succeeded, and whoever opens, binds, connects, sends or fails meanwhile,
\* the descriptor is bound to that very endpoint, or to a port of the system's
\* choice where it named port 0.  (A descriptor that was bound by send_to or
\* bind_remote has no local_endpoint(), and no bind_local succeeds on it.  Two
\* threads can open the socket twice and lose the one that was bound.)
LocalIsAsked ==
  blockers = 1 =>
    /\ HasValue(local_) =>
         \E e \in Chosen(Deref(local_)[1], Deref(local_)[2]) : bound = Emplace(e)
    /\ \A c \in Clients : op[c] = "bind_local" /\ res[c] = Emplace(Ok(0))
                            => local_ = Emplace(ep[c])

\* An operation fails because the socket is already open only if another client
\* opened it between this one's look and its turn on a blocking thread; with one
\* such thread bind_local, which looks there, never does.
AlreadyOpenOnlyByRace ==
  \A c \in Clients :
    res[c] = Emplace(Err("already_open")) =>
      c \in raced /\ (blockers = 1 => op[c] # "bind_local")
=============================================================================
