---------------------------- MODULE RelayServer ----------------------------
(***************************************************************************)
(* The broker's WSS control channel: class RelayServer of                  *)
(* src/relay/server.ts.  It keeps a registry of daemons by uuid (derived   *)
(* from the TLS client certificate), forwards HTTP requests over the       *)
(* daemon's socket, correlates the answers by request id, and pings every  *)
(* registered socket.                                                      *)
(*                                                                         *)
(* One action is one event-loop callback run to completion: Node never     *)
(* interleaves two handlers, so the interleavings that matter are those    *)
(* of callbacks.  The `ws` library is modelled from how the code uses it:  *)
(* a socket leaves OPEN when either side starts to close it, frames that   *)
(* were already received are still delivered while it is CLOSING, and its  *)
(* 'close' event comes later, in a callback of its own.                    *)
(*                                                                         *)
(* A definition whose name has an underscore is a seeded fault: a wrong    *)
(* variant of the definition it precedes, never used by Spec, that shows   *)
(* which property notices it (PROJECT.json, "mutants").                    *)
(***************************************************************************)
EXTENDS Naturals, FiniteSets

CONSTANTS
  Uuids,           \* daemon identities
  Sockets,         \* WebSocket objects; each is used for one connection
  Calls,           \* forward() calls, each with its fresh uuidv4
  NoUuid,          \* "no uuid": null / undefined
  NoSocket,        \* "no entry" in the registry
  MaxPending,      \* maxPendingPerClient
  PingIntervalMs,  \* pingIntervalMs
  PongTimeoutMs,   \* pongTimeoutMs
  Fragile          \* connections whose peer may vanish (bounds the model: a
                   \* peer that stays but keeps silent behaves the same)

ASSUME RelayAssumption ==
  /\ IsFiniteSet(Calls)
  /\ NoUuid \notin Uuids
  /\ NoSocket \notin Sockets
  /\ MaxPending \in Nat
  /\ PingIntervalMs \in Nat /\ PongTimeoutMs \in Nat
  /\ Fragile \subseteq Sockets

VARIABLES
  \* fields of RelayServer
  clients,         \* uuid -> socket of its registry entry
  pending,         \* call -> uuid it was issued to, NoUuid when not in the map
  pendingByClient, \* uuid -> outstanding count (0: no entry)
  \* locals of handleConnection, per socket
  registeredUuid,
  pingTimer,       \* the setInterval is running
  pongTimer,       \* the setTimeout held by `pongTimer` is armed
  lostPongTimer,   \* an earlier one, overwritten while armed, is still armed
  \* locals of forward(), per call
  timer,           \* the request's setTimeout is armed
  target,          \* its uuid argument
  outcome,         \* the promise: "idle", "waiting", or how it was settled
  \* the ws library and the peers
  ws,              \* readyState, and "NEW" before the connection
  peer,            \* uuid of the peer certificate, NoUuid when it was rejected
  alive,           \* the peer still reads and writes (FALSE: half-open)
  welcomed,        \* a welcome frame was written to the socket
  deliveredOn,     \* call -> socket its request frame was written to
  \* around the server
  online,          \* uuids in MetricsCollector, from the emitted events
  closing,         \* close() was called
  closeDone        \* its promise is settled

registryVars == <<clients, registeredUuid, online>>
pendingVars  == <<pending, pendingByClient, timer, target, outcome, deliveredOn>>
aliveVars    == <<pingTimer, pongTimer, lostPongTimer>>
socketVars   == <<ws, peer, alive, welcomed>>
closeVars    == <<closing, closeDone>>
vars == <<registryVars, pendingVars, aliveVars, socketVars, closeVars>>

Outcomes == {"idle", "waiting", "notConnected", "backpressure", "capExceeded",
             "response", "timeout", "serverClosing"}

TypeOK ==
  /\ clients \in [Uuids -> Sockets \cup {NoSocket}]
  /\ pending \in [Calls -> Uuids \cup {NoUuid}]
  /\ pendingByClient \in [Uuids -> Nat]
  /\ registeredUuid \in [Sockets -> Uuids \cup {NoUuid}]
  /\ pingTimer \in [Sockets -> BOOLEAN]
  /\ pongTimer \in [Sockets -> BOOLEAN]
  /\ lostPongTimer \in [Sockets -> BOOLEAN]
  /\ timer \in [Calls -> BOOLEAN]
  /\ target \in [Calls -> Uuids \cup {NoUuid}]
  /\ outcome \in [Calls -> Outcomes]
  /\ ws \in [Sockets -> {"NEW", "OPEN", "CLOSING", "CLOSED"}]
  /\ peer \in [Sockets -> Uuids \cup {NoUuid}]
  /\ alive \in [Sockets -> BOOLEAN]
  /\ welcomed \in [Sockets -> BOOLEAN]
  /\ deliveredOn \in [Calls -> Sockets \cup {NoSocket}]
  /\ online \in SUBSET Uuids
  /\ closing \in BOOLEAN
  /\ closeDone \in BOOLEAN

Init ==
  /\ clients = [u \in Uuids |-> NoSocket]
  /\ pending = [i \in Calls |-> NoUuid]
  /\ pendingByClient = [u \in Uuids |-> 0]
  /\ registeredUuid = [s \in Sockets |-> NoUuid]
  /\ pingTimer = [s \in Sockets |-> FALSE]
  /\ pongTimer = [s \in Sockets |-> FALSE]
  /\ lostPongTimer = [s \in Sockets |-> FALSE]
  /\ timer = [i \in Calls |-> FALSE]
  /\ target = [i \in Calls |-> NoUuid]
  /\ outcome = [i \in Calls |-> "idle"]
  /\ ws = [s \in Sockets |-> "NEW"]
  /\ peer = [s \in Sockets |-> NoUuid]
  /\ alive = [s \in Sockets |-> TRUE]
  /\ welcomed = [s \in Sockets |-> FALSE]
  /\ deliveredOn = [i \in Calls |-> NoSocket]
  /\ online = {}
  /\ closing = FALSE
  /\ closeDone = FALSE

-----------------------------------------------------------------------------
(* Helpers of the class *)

\* ws.close() and ws.terminate(): both leave OPEN at once and are no-ops on a
\* socket that is already closing or closed.
Shut(s) == IF ws[s] = "OPEN" THEN "CLOSING" ELSE ws[s]

\* Fault: the entry's socket is not compared with this one.
OwnsEntry_AnySocket(s) == registeredUuid[s] # NoUuid

\* The registry entry of the uuid this connection registered is still its own.
OwnsEntry(s) == registeredUuid[s] # NoUuid /\ clients[registeredUuid[s]] = s

\* Fault: the entry stays in the registry.
Cleanup_KeepsEntry(s) ==
  /\ pingTimer' = [pingTimer EXCEPT ![s] = FALSE]
  /\ pongTimer' = [pongTimer EXCEPT ![s] = FALSE]
  /\ registeredUuid' = [registeredUuid EXCEPT ![s] = NoUuid]
  /\ UNCHANGED <<clients, online>>

\* Fault: client:disconnected is not emitted.
Cleanup_NoEvent(s) ==
  /\ pingTimer' = [pingTimer EXCEPT ![s] = FALSE]
  /\ pongTimer' = [pongTimer EXCEPT ![s] = FALSE]
  /\ registeredUuid' = [registeredUuid EXCEPT ![s] = NoUuid]
  /\ clients' = IF OwnsEntry(s) THEN [clients EXCEPT ![registeredUuid[s]] = NoSocket] ELSE clients
  /\ UNCHANGED online

\* The closure every exit path of a connection runs.  Overwritten pong timers
\* are out of its reach.
Cleanup(s) ==
  /\ pingTimer' = [pingTimer EXCEPT ![s] = FALSE]
  /\ pongTimer' = [pongTimer EXCEPT ![s] = FALSE]
  /\ registeredUuid' = [registeredUuid EXCEPT ![s] = NoUuid]
  /\ IF OwnsEntry(s)
     THEN /\ clients' = [clients EXCEPT ![registeredUuid[s]] = NoSocket]
          /\ online' = online \ {registeredUuid[s]}
     ELSE UNCHANGED <<clients, online>>

AddPending(i, u) ==
  /\ pending' = [pending EXCEPT ![i] = u]
  /\ pendingByClient' = [pendingByClient EXCEPT ![u] = @ + 1]

\* Fault: the map keeps the entry.
RemovePending_KeepsEntry(i) == UNCHANGED <<pending, pendingByClient>>

\* Fault: the count is not taken down.
RemovePending_KeepsCount(i) ==
  /\ pending' = [pending EXCEPT ![i] = NoUuid]
  /\ UNCHANGED pendingByClient

\* Fault: the count is taken down twice.
RemovePending_CountsTwice(i) ==
  /\ pending' = [pending EXCEPT ![i] = NoUuid]
  /\ pendingByClient' = [u \in Uuids |-> pendingByClient[u] - IF pending[i] = u THEN 2 ELSE 0]

RemovePending(i) ==
  IF pending[i] = NoUuid
  THEN UNCHANGED <<pending, pendingByClient>>
  ELSE /\ pending' = [pending EXCEPT ![i] = NoUuid]
       /\ pendingByClient' =
            [pendingByClient EXCEPT ![pending[i]] = IF @ <= 1 THEN 0 ELSE @ - 1]

-----------------------------------------------------------------------------
(* handleConnection: a socket's life *)

\* The upgrade completed with a P-256 client certificate: the lifecycle
\* handlers are attached.  WebSocketServer accepts no connection once closed.
Connect(s, u) ==
  /\ ~closing
  /\ ws[s] = "NEW"
  /\ ws' = [ws EXCEPT ![s] = "OPEN"]
  /\ peer' = [peer EXCEPT ![s] = u]
  /\ UNCHANGED <<registryVars, pendingVars, aliveVars, alive, welcomed, closeVars>>

\* No certificate (4401), or one whose key is not P-256 (4402).
RejectConnection(s) ==
  /\ ~closing
  /\ ws[s] = "NEW"
  /\ ws' = [ws EXCEPT ![s] = "CLOSING"]
  /\ UNCHANGED <<registryVars, pendingVars, aliveVars, peer, alive, welcomed, closeVars>>

\* A frame of the peer can reach the 'message' handler.
Delivers(s) == peer[s] # NoUuid /\ alive[s] /\ ws[s] \in {"OPEN", "CLOSING"}

\* Text that is not JSON closes the connection, registered or not.
RecvInvalidJson(s) ==
  /\ Delivers(s)
  /\ ws' = [ws EXCEPT ![s] = Shut(s)]
  /\ UNCHANGED <<registryVars, pendingVars, aliveVars, peer, alive, welcomed, closeVars>>

\* Before registration: a bad envelope, a frame other than hello, or a hello
\* whose decrypt_pubkey is refused.  After registration such frames, and
\* responses with a status outside 100..599, change nothing.
RecvBadHello(s) ==
  /\ Delivers(s)
  /\ registeredUuid[s] = NoUuid
  /\ ws' = [ws EXCEPT ![s] = Shut(s)]
  /\ UNCHANGED <<registryVars, pendingVars, aliveVars, peer, alive, welcomed, closeVars>>

\* Fault: the previous socket is not terminated.
Register_LeavesPrevious(s, u) ==
  /\ Delivers(s)
  /\ registeredUuid[s] = NoUuid
  /\ clients' = [clients EXCEPT ![u] = s]
  /\ registeredUuid' = [registeredUuid EXCEPT ![s] = u]
  /\ online' = online \cup {u}
  /\ welcomed' = [welcomed EXCEPT ![s] = @ \/ ws[s] = "OPEN"]
  /\ pingTimer' = [pingTimer EXCEPT ![s] = TRUE]
  /\ UNCHANGED <<pendingVars, pongTimer, lostPongTimer, ws, peer, alive, closeVars>>

\* A valid hello registers the connection under u.  A previous socket of u
\* loses its entry first and is terminated; the welcome frame is written only
\* to an open socket.
Register(s, u) ==
  LET previous == clients[u] IN
  /\ Delivers(s)
  /\ registeredUuid[s] = NoUuid
  /\ ws' = IF previous = NoSocket THEN ws ELSE [ws EXCEPT ![previous] = Shut(previous)]
  /\ clients' = [clients EXCEPT ![u] = s]
  /\ registeredUuid' = [registeredUuid EXCEPT ![s] = u]
  /\ online' = online \cup {u}
  /\ welcomed' = [welcomed EXCEPT ![s] = @ \/ ws[s] = "OPEN"]
  /\ pingTimer' = [pingTimer EXCEPT ![s] = TRUE]
  /\ UNCHANGED <<pendingVars, pongTimer, lostPongTimer, peer, alive, closeVars>>

\* Fault: the uuid is one the frame names.
RecvHello_UuidOfFrame(s) == \E u \in Uuids : Register(s, u)

\* The uuid is the certificate's, never one the frame names.
RecvHello(s) == Register(s, peer[s])

\* A response: the first one for a pending id resolves that call, whichever
\* connection it arrives on.  A daemon knows the ids of the requests it was
\* sent, on this connection or an earlier one, and cannot guess others.  For
\* an id no longer pending removePending returns undefined: no effect.
RecvResponse(s, i) ==
  /\ Delivers(s)
  /\ registeredUuid[s] # NoUuid
  /\ deliveredOn[i] # NoSocket /\ peer[deliveredOn[i]] = peer[s]
  /\ pending[i] # NoUuid
  /\ RemovePending(i)
  /\ timer' = [timer EXCEPT ![i] = FALSE]
  /\ outcome' = [outcome EXCEPT ![i] = "response"]
  /\ UNCHANGED <<registryVars, aliveVars, socketVars, target, deliveredOn, closeVars>>

\* Fault: the pong timer is not armed.
PingTick_NoPongTimer(s) ==
  /\ pingTimer[s]
  /\ ws[s] # "OPEN"
  /\ Cleanup(s)
  /\ UNCHANGED <<lostPongTimer, pendingVars, socketVars, closeVars>>

\* The ping interval.  On a socket that is no longer open it is the last line
\* of defence; otherwise it pings and arms the pong timer, overwriting the
\* handle of one that is still armed.  That needs pongTimeoutMs to be no
\* shorter than pingIntervalMs.
PingTick(s) ==
  /\ pingTimer[s]
  /\ IF ws[s] # "OPEN"
     THEN Cleanup(s) /\ UNCHANGED lostPongTimer
     ELSE /\ pongTimer[s] => PongTimeoutMs >= PingIntervalMs
          /\ pongTimer' = [pongTimer EXCEPT ![s] = TRUE]
          /\ lostPongTimer' = [lostPongTimer EXCEPT ![s] = @ \/ pongTimer[s]]
          /\ UNCHANGED <<registryVars, pingTimer>>
  /\ UNCHANGED <<pendingVars, socketVars, closeVars>>

Pong(s) ==
  /\ Delivers(s)
  /\ pongTimer[s]
  /\ pongTimer' = [pongTimer EXCEPT ![s] = FALSE]
  /\ UNCHANGED <<registryVars, pendingVars, pingTimer, lostPongTimer, socketVars, closeVars>>

\* An armed pong timer fires, be it the current one or one that was lost.
PongTimeout(s) ==
  /\ pongTimer[s] \/ lostPongTimer[s]
  /\ ws' = [ws EXCEPT ![s] = Shut(s)]
  /\ Cleanup(s)
  /\ \/ pongTimer[s] /\ UNCHANGED lostPongTimer
     \/ lostPongTimer[s] /\ lostPongTimer' = [lostPongTimer EXCEPT ![s] = FALSE]
  /\ UNCHANGED <<pendingVars, peer, alive, welcomed, closeVars>>

\* 'error': the safety listener terminates, and the lifecycle listener of an
\* admitted connection cleans up.
SocketError(s) ==
  /\ ws[s] \in {"OPEN", "CLOSING"}
  /\ ws' = [ws EXCEPT ![s] = Shut(s)]
  /\ IF peer[s] = NoUuid THEN UNCHANGED <<registryVars, pingTimer, pongTimer>> ELSE Cleanup(s)
  /\ UNCHANGED <<pendingVars, lostPongTimer, peer, alive, welcomed, closeVars>>

\* 'close': the socket is gone.
SocketClosed(s) ==
  /\ ws[s] = "CLOSING"
  /\ ws' = [ws EXCEPT ![s] = "CLOSED"]
  /\ IF peer[s] = NoUuid THEN UNCHANGED <<registryVars, pingTimer, pongTimer>> ELSE Cleanup(s)
  /\ UNCHANGED <<pendingVars, lostPongTimer, peer, alive, welcomed, closeVars>>

\* A close frame or the end of the TCP stream reaches the library, which
\* starts to close the socket before it tells the code.
PeerCloses(s) ==
  /\ ws[s] = "OPEN"
  /\ alive[s]
  /\ ws' = [ws EXCEPT ![s] = "CLOSING"]
  /\ UNCHANGED <<registryVars, pendingVars, aliveVars, peer, alive, welcomed, closeVars>>

\* The peer loses power or its network: nothing is signalled to the broker.
PeerVanishes(s) ==
  /\ s \in Fragile
  /\ ws[s] = "OPEN"
  /\ alive[s]
  /\ alive' = [alive EXCEPT ![s] = FALSE]
  /\ UNCHANGED <<registryVars, pendingVars, aliveVars, ws, peer, welcomed, closeVars>>

-----------------------------------------------------------------------------
(* forward(), its timer, and close() *)

\* Fault: the cap admits one call too many.
Admission_OffByOne(u, congested) ==
  CASE clients[u] = NoSocket -> "notConnected"
    [] clients[u] # NoSocket /\ congested -> "backpressure"
    [] clients[u] # NoSocket /\ ~congested /\ pendingByClient[u] > MaxPending -> "capExceeded"
    [] OTHER -> "waiting"

\* The refusal of a call to daemon u, in the order forward() tests them;
\* "waiting" when it is accepted.  `congested` says that bufferedAmount is
\* above maxBufferedBytes.
Admission(u, congested) ==
  CASE clients[u] = NoSocket -> "notConnected"
    [] clients[u] # NoSocket /\ congested -> "backpressure"
    [] clients[u] # NoSocket /\ ~congested /\ pendingByClient[u] >= MaxPending -> "capExceeded"
    [] OTHER -> "waiting"

Refuse(i, u, congested) ==
  /\ outcome[i] = "idle"
  /\ Admission(u, congested) # "waiting"
  /\ outcome' = [outcome EXCEPT ![i] = Admission(u, congested)]
  /\ target' = [target EXCEPT ![i] = u]
  /\ UNCHANGED <<pending, pendingByClient, timer, deliveredOn,
                 registryVars, aliveVars, socketVars, closeVars>>

\* sendServerMessage drops the frame, silently, when the registered socket is
\* no longer open.
WrittenTo(u) == IF ws[clients[u]] = "OPEN" THEN clients[u] ELSE NoSocket

\* The call is accepted.
Forward(i, u) ==
  /\ outcome[i] = "idle"
  /\ Admission(u, FALSE) = "waiting"
  /\ outcome' = [outcome EXCEPT ![i] = "waiting"]
  /\ target' = [target EXCEPT ![i] = u]
  /\ timer' = [timer EXCEPT ![i] = TRUE]
  /\ AddPending(i, u)
  /\ deliveredOn' = [deliveredOn EXCEPT ![i] = WrittenTo(u)]
  /\ UNCHANGED <<registryVars, aliveVars, socketVars, closeVars>>

\* Fault: the caller is not told.
ForwardTimeout_Silent(i) ==
  /\ timer[i]
  /\ timer' = [timer EXCEPT ![i] = FALSE]
  /\ RemovePending(i)
  /\ UNCHANGED <<outcome, target, deliveredOn, registryVars, aliveVars, socketVars, closeVars>>

ForwardTimeout(i) ==
  /\ timer[i]
  /\ timer' = [timer EXCEPT ![i] = FALSE]
  /\ RemovePending(i)
  /\ outcome' = [outcome EXCEPT ![i] = "timeout"]
  /\ UNCHANGED <<target, deliveredOn, registryVars, aliveVars, socketVars, closeVars>>

\* close(): every pending call is rejected and every registered socket
\* terminated.  No disconnected event is emitted.
Close ==
  /\ ~closing
  /\ closing' = TRUE
  /\ timer' = [i \in Calls |-> timer[i] /\ pending[i] = NoUuid]
  /\ outcome' = [i \in Calls |-> IF pending[i] = NoUuid THEN outcome[i] ELSE "serverClosing"]
  /\ pending' = [i \in Calls |-> NoUuid]
  /\ pendingByClient' = [u \in Uuids |-> 0]
  /\ ws' = [s \in Sockets |-> IF \E u \in Uuids : clients[u] = s THEN Shut(s) ELSE ws[s]]
  /\ clients' = [u \in Uuids |-> NoSocket]
  /\ UNCHANGED <<target, deliveredOn, registeredUuid, online, aliveVars,
                 peer, alive, welcomed, closeDone>>

\* wss.close(cb) calls back when the WebSocketServer has no socket left.
CloseCallback ==
  /\ closing
  /\ ~closeDone
  /\ \A s \in Sockets : ws[s] \in {"NEW", "CLOSED"}
  /\ closeDone' = TRUE
  /\ UNCHANGED <<registryVars, pendingVars, aliveVars, socketVars, closing>>

-----------------------------------------------------------------------------

Next ==
  \/ \E s \in Sockets, u \in Uuids : Connect(s, u)
  \/ \E s \in Sockets : RejectConnection(s)
  \/ \E s \in Sockets : RecvInvalidJson(s)
  \/ \E s \in Sockets : RecvBadHello(s)
  \/ \E s \in Sockets : RecvHello(s)
  \/ \E s \in Sockets, i \in Calls : RecvResponse(s, i)
  \/ \E s \in Sockets : PingTick(s)
  \/ \E s \in Sockets : Pong(s)
  \/ \E s \in Sockets : PongTimeout(s)
  \/ \E s \in Sockets : SocketError(s)
  \/ \E s \in Sockets : SocketClosed(s)
  \/ \E s \in Sockets : PeerCloses(s)
  \/ \E s \in Sockets : PeerVanishes(s)
  \/ \E i \in Calls, u \in Uuids, congested \in BOOLEAN : Refuse(i, u, congested)
  \/ \E i \in Calls, u \in Uuids : Forward(i, u)
  \/ \E i \in Calls : ForwardTimeout(i)
  \/ Close
  \/ CloseCallback

Spec == Init /\ [][Next]_vars

\* Timers fire, the library reports the end of a closing socket (it destroys
\* one whose peer does not answer the close frame), and wss.close calls back.
\* Nothing obliges a peer to send a frame or callers to forward.
FairSpec ==
  /\ Spec
  /\ \A i \in Calls : WF_vars(ForwardTimeout(i))
  /\ \A s \in Sockets : WF_vars(PingTick(s)) /\ WF_vars(PongTimeout(s))
                        /\ WF_vars(SocketClosed(s))
  /\ WF_vars(CloseCallback)

-----------------------------------------------------------------------------
(* Properties *)

Outstanding(u) == {i \in Calls : pending[i] = u}

\* pendingByClient counts exactly the pending entries of each daemon, on every
\* exit path: response, late response, timeout, close ("in lockstep",
\* addPending/removePending).
CountsInLockstep == \A u \in Uuids : pendingByClient[u] = Cardinality(Outstanding(u))

\* The cap bounds the pending entries themselves, not only their count, also
\* across the daemon's disconnects and reconnects.
CapRespected == \A u \in Uuids : Cardinality(Outstanding(u)) <= MaxPending

\* The two together: what admission reads is exact, so the cap is kept.
CapBookkeeping == CountsInLockstep /\ CapRespected

\* A caller is waiting exactly while its entry is in the pending map and its
\* request timer is armed: no exit path leaks an entry, leaves a timer running
\* or strands a caller.
WaitersArePending ==
  \A i \in Calls :
    /\ (outcome[i] = "waiting") <=> (pending[i] # NoUuid)
    /\ timer[i] <=> (pending[i] # NoUuid)
    /\ pending[i] # NoUuid => pending[i] = target[i]

\* A registry entry always names a socket that still knows it is registered,
\* is not yet closed and has its ping interval running: whatever happened to
\* the connection, something is left that will remove the entry.
RegistryBacked ==
  \A u \in Uuids : clients[u] # NoSocket =>
    LET s == clients[u] IN
    /\ registeredUuid[s] = u /\ peer[s] = u
    /\ ws[s] \in {"OPEN", "CLOSING"}
    /\ pingTimer[s]

\* A daemon that has been welcomed on a socket that is still open is the one
\* forward() routes to: no order of reconnects, stale close events, timers and
\* shutdown leaves an open connection the broker has forgotten.
WelcomedIsRouted ==
  \A s \in Sockets : welcomed[s] /\ ws[s] = "OPEN" => clients[peer[s]] = s

\* The status page's client set, driven by the connected and disconnected
\* events, is the registry's key set until close() empties the registry.
MetricsInSync == ~closing => online = {u \in Uuids : clients[u] # NoSocket}

\* A request frame is written only to a connection whose certificate has the
\* uuid the caller named, so only that daemon can answer the call.
RequestsReachTheirTarget ==
  \A i \in Calls : deliveredOn[i] # NoSocket => peer[deliveredOn[i]] = target[i]

\* On every connection the welcome precedes the first request, which is what
\* the daemon's handshake takes the first frame to be.
WelcomePrecedesRequests ==
  \A i \in Calls : deliveredOn[i] # NoSocket => welcomed[deliveredOn[i]]

\* The two together: the daemon named gets the request, where it expects one.
RequestsWellRouted == RequestsReachTheirTarget /\ WelcomePrecedesRequests

\* forward() keeps its contract with its callers (ForwardContract).
Contract == INSTANCE ForwardContract WITH target <- target, outcome <- outcome
ForwardKeepsContract == Contract!Spec

\* ... and leaves none of them waiting for ever.
ForwardSettles == Contract!FairSpec

\* A daemon that vanished without closing its connection does not stay in the
\* registry: the keepalive, or a reconnect, removes it.
HalfOpenIsEvicted ==
  \A u \in Uuids, s \in Sockets :
    clients[u] = s /\ ~alive[s] ~> clients[u] # s

\* What close() is documented to do: SIGTERM and SIGINT "trigger a graceful
\* handle.close() and exit 0" (src/index.ts).  Fails when a connection has not
\* said hello by then, or says it afterwards: close() terminates only the
\* sockets in the registry, and wss.close waits for all of them.
CloseSettles == closing ~> closeDone

=============================================================================
