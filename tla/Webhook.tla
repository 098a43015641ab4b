------------------------------ MODULE Webhook ------------------------------
(***************************************************************************)
(* A webhook end to end and in time: the HTTP front end of src/start.ts    *)
(* (forwardToClient), forward() and the keepalive of src/relay/server.ts,  *)
(* and the dispatch to the local daemon of src/client/forwarder.ts.        *)
(*                                                                         *)
(* RelayServer and Connection leave time out.  Here every timer is a       *)
(* countdown, frames take time on the wire, and Tick lets a unit of time   *)
(* pass only while nothing is due.  One daemon is followed, over its       *)
(* successive connections; its calls share one cap.                        *)
(*                                                                         *)
(* Definitions with an underscore in their name are seeded faults, as in   *)
(* RelayServer.                                                            *)
(***************************************************************************)
EXTENDS Integers, FiniteSets

CONSTANTS
  Calls,           \* HTTP requests for the daemon
  MaxPending,      \* maxPendingPerClient
  LocalStatuses,   \* what the local daemon may answer, see Statuses
  FetchTimeout,    \* the AbortSignal.timeout of dispatchRequest
  RequestTimeouts, \* values tried for requestTimeoutMs,
  PingIntervals,   \* ... pingIntervalMs,
  PongTimeouts,    \* ... pongTimeoutMs,
  Trips            \* ... and the longest round trip, processing aside

\* HTTP statuses, as far as they are told apart: 400 stands for the 400, 403
\* and 413 of a request the client does not pass on, 200 for all the others a
\* local daemon may answer.  The caller cannot see who gave a status.
Statuses == {"200", "400", "429", "502", "503", "504"}

ASSUME WebhookAssumption ==
  /\ IsFiniteSet(Calls)
  /\ LocalStatuses \subseteq Statuses
  /\ MaxPending \in Nat
  /\ FetchTimeout \in Nat \ {0}
  /\ RequestTimeouts \subseteq Nat \ {0} /\ PingIntervals \subseteq Nat \ {0}
  /\ PongTimeouts \subseteq Nat \ {0} /\ Trips \subseteq Nat

VARIABLES
  limits,      \* the configuration: request, ping, pong, trip
  \* the daemon's connection
  conn,        \* see Conns
  pingLeft,    \* countdown of the ping interval
  pongLeft,    \* countdown of the timer held by `pongTimer`, Off when null
  lostPongs,   \* countdowns of those that were overwritten while armed
  pings,       \* age of the oldest ping without a pong, Off when there is none
  silentFor,   \* how long the registry has named a connection that is gone
  \* per call
  stage,       \* where its request or response is, see Stages
  answer,      \* the status of the daemon's response, "none" before
  reply,       \* the status the HTTP caller was given, "none" before
  requestLeft, \* countdown of forward()'s timer
  fetchLeft,   \* countdown of the fetch
  wireLeft,    \* time its frames may still spend on the wire
  trouble      \* what happened to it on its way, see Troubles

connVars == <<conn, pingLeft, pongLeft, lostPongs, pings, silentFor>>
callVars == <<stage, answer, reply, requestLeft, fetchLeft, wireLeft, trouble>>
vars == <<limits, connVars, callVars>>

Off == -1

\* down: not in the registry.  The others are: held is a daemon that still
\* persists the broker's key, cut one that vanished, closing a socket that is
\* no longer open and whose 'close' has not been heard.
Conns == {"down", "held", "up", "cut", "closing"}
Registered == conn # "down"
Reachable == conn \in {"held", "up"}

Stages == {"idle", "sent", "buffered", "arrived", "fetching", "reading", "replied", "over"}

\* lost: the connection that carried the call is gone; held: the frame waited
\* in the handshake adapter; body: the local response broke off; headers: the
\* answer carries a header that Node does not write.
Troubles == {"none", "lost", "held", "body", "headers"}

TypeOK ==
  /\ limits \in [request : RequestTimeouts, ping : PingIntervals,
                 pong : PongTimeouts, trip : Trips]
  /\ conn \in Conns
  /\ pingLeft \in 0..limits.ping
  /\ pongLeft \in {Off} \cup 0..limits.pong
  /\ lostPongs \subseteq 0..limits.pong
  /\ pings \in {Off} \cup 0..limits.trip
  /\ silentFor \in Nat
  /\ stage \in [Calls -> Stages]
  /\ answer \in [Calls -> {"none"} \cup Statuses]
  /\ reply \in [Calls -> {"none"} \cup Statuses]
  /\ requestLeft \in [Calls -> {Off} \cup 0..limits.request]
  /\ fetchLeft \in [Calls -> {Off} \cup 0..FetchTimeout]
  /\ wireLeft \in [Calls -> 0..limits.trip]
  /\ trouble \in [Calls -> Troubles]

Init ==
  /\ limits \in [request : RequestTimeouts, ping : PingIntervals,
                 pong : PongTimeouts, trip : Trips]
  /\ conn = "down"
  /\ pingLeft = limits.ping
  /\ pongLeft = Off /\ lostPongs = {} /\ pings = Off /\ silentFor = 0
  /\ stage = [i \in Calls |-> "idle"]
  /\ answer = [i \in Calls |-> "none"]
  /\ reply = [i \in Calls |-> "none"]
  /\ requestLeft = [i \in Calls |-> Off]
  /\ fetchLeft = [i \in Calls |-> Off]
  /\ wireLeft = [i \in Calls |-> limits.trip]
  /\ trouble = [i \in Calls |-> "none"]

-----------------------------------------------------------------------------
(* The connection and its keepalive *)

Waiting(i) == requestLeft[i] # Off

\* Calls whose request frame was written and whose response was not read.
UnderWay(i) == stage[i] \notin {"idle", "over"}

\* The connection under the calls is gone: whatever is on it, or will be
\* written to it, reaches nobody.  What the daemon has started goes on.
LoseCalls ==
  /\ trouble' = [i \in Calls |-> IF UnderWay(i) THEN "lost" ELSE trouble[i]]
  /\ stage' = [i \in Calls |-> IF stage[i] \in {"sent", "replied"} THEN "over" ELSE stage[i]]

\* cleanup(): out of the registry, its timers cleared, the lost ones apart
\* (they can only terminate a socket that is closed).
Unregister ==
  /\ conn' = "down"
  /\ pingLeft' = limits.ping
  /\ pongLeft' = Off /\ lostPongs' = {} /\ pings' = Off /\ silentFor' = 0

\* A hello was accepted.  A predecessor that is still registered is replaced.
Register ==
  /\ conn \in {"down", "cut", "closing"}
  /\ conn' = "held"
  /\ pingLeft' = limits.ping
  /\ pongLeft' = Off /\ lostPongs' = {} /\ pings' = Off /\ silentFor' = 0
  /\ UNCHANGED <<limits, callVars>>

\* The daemon's client serves; what its adapter buffered is replayed.
StartServing ==
  /\ conn = "held"
  /\ conn' = "up"
  /\ stage' = [i \in Calls |->
       IF stage[i] = "buffered" /\ trouble[i] # "lost" THEN "arrived" ELSE stage[i]]
  /\ UNCHANGED <<limits, pingLeft, pongLeft, lostPongs, pings, silentFor,
                 answer, reply, requestLeft, fetchLeft, wireLeft, trouble>>

\* Either side starts to close the socket.
SocketClosing ==
  /\ Reachable
  /\ conn' = "closing"
  /\ pings' = Off
  /\ LoseCalls
  /\ UNCHANGED <<limits, pingLeft, pongLeft, lostPongs, silentFor,
                 answer, reply, requestLeft, fetchLeft, wireLeft>>

SocketClosed ==
  /\ conn = "closing"
  /\ Unregister
  /\ UNCHANGED <<limits, callVars>>

\* The daemon loses its network or its power; nothing tells the broker.
Vanish ==
  /\ Reachable
  /\ conn' = "cut"
  /\ pings' = Off
  /\ LoseCalls
  /\ UNCHANGED <<limits, pingLeft, pongLeft, lostPongs, silentFor,
                 answer, reply, requestLeft, fetchLeft, wireLeft>>

\* Fault: the ping arms no pong timer.
PingTick_NoPongTimer ==
  /\ Registered /\ pingLeft = 0
  /\ IF conn = "closing"
     THEN Unregister
     ELSE /\ pingLeft' = limits.ping
          /\ pings' = IF Reachable /\ pings = Off THEN 0 ELSE pings
          /\ UNCHANGED <<conn, pongLeft, lostPongs, silentFor>>
  /\ UNCHANGED <<limits, callVars>>

\* The interval: a socket that is not open is cleaned up; otherwise a ping,
\* and a pong timer whose handle replaces that of one still armed.
PingTick ==
  /\ Registered /\ pingLeft = 0
  /\ IF conn = "closing"
     THEN Unregister
     ELSE /\ pingLeft' = limits.ping
          /\ pongLeft' = limits.pong
          /\ lostPongs' = lostPongs \cup ({pongLeft} \ {Off})
          /\ pings' = IF Reachable /\ pings = Off THEN 0 ELSE pings
          /\ UNCHANGED <<conn, silentFor>>
  /\ UNCHANGED <<limits, callVars>>

\* Fault: the pong is not listened to.
Pong_Deaf ==
  /\ Reachable /\ pings # Off
  /\ pings' = Off
  /\ UNCHANGED <<limits, conn, pingLeft, pongLeft, lostPongs, silentFor, callVars>>

\* The peer's library answers pings whatever its code is waiting for.  The
\* current timer is cleared, whichever ping the pong answers; pings sent while
\* one was on its way are taken to be answered with it.
Pong ==
  /\ Reachable /\ pings # Off
  /\ pings' = Off
  /\ pongLeft' = Off
  /\ UNCHANGED <<limits, conn, pingLeft, lostPongs, silentFor, callVars>>

\* The pong timers that are armed.
PongTimers == lostPongs \cup ({pongLeft} \ {Off})

PongTimeout ==
  /\ Registered /\ 0 \in PongTimers
  /\ Unregister
  /\ IF Reachable THEN LoseCalls ELSE UNCHANGED <<stage, trouble>>
  /\ UNCHANGED <<limits, answer, reply, requestLeft, fetchLeft, wireLeft>>

-----------------------------------------------------------------------------
(* A call at the broker: forwardToClient and forward() *)

\* Fault: a PendingCapExceededError is not told from other errors (500).
Refusal_Unmapped(congested) ==
  CASE ~Registered -> "502"
    [] Registered /\ congested -> "503"
    [] Registered /\ ~congested /\ Cardinality({i \in Calls : Waiting(i)}) >= MaxPending ->
         "500"
    [] OTHER -> "none"

\* The statuses forwardToClient gives without the daemon: it tests hasClient,
\* forward() the socket's buffer and then the cap.
Refusal(congested) ==
  CASE ~Registered -> "502"
    [] Registered /\ congested -> "503"
    [] Registered /\ ~congested /\ Cardinality({i \in Calls : Waiting(i)}) >= MaxPending ->
         "429"
    [] OTHER -> "none"

Refuse(i, congested) ==
  /\ stage[i] = "idle" /\ reply[i] = "none"
  /\ Refusal(congested) # "none"
  /\ reply' = [reply EXCEPT ![i] = Refusal(congested)]
  /\ UNCHANGED <<limits, connVars, stage, answer, requestLeft, fetchLeft, wireLeft, trouble>>

\* The frame is dropped when the socket is not open, and is on its way to
\* nowhere when the daemon has vanished.
Forward(i) ==
  /\ stage[i] = "idle" /\ reply[i] = "none"
  /\ Refusal(FALSE) = "none"
  /\ requestLeft' = [requestLeft EXCEPT ![i] = limits.request]
  /\ IF Reachable
     THEN stage' = [stage EXCEPT ![i] = "sent"] /\ UNCHANGED trouble
     ELSE /\ stage' = [stage EXCEPT ![i] = "over"]
          /\ trouble' = [trouble EXCEPT ![i] = "lost"]
  /\ UNCHANGED <<limits, connVars, answer, reply, fetchLeft, wireLeft>>

RequestTimeout(i) ==
  /\ requestLeft[i] = 0
  /\ requestLeft' = [requestLeft EXCEPT ![i] = Off]
  /\ reply' = [reply EXCEPT ![i] = "504"]
  /\ UNCHANGED <<limits, connVars, stage, answer, fetchLeft, wireLeft, trouble>>

\* The response frame: it settles a call that still waits.  The caller is given
\* the daemon's status; or, when writing the answer throws (res.append), what
\* the .catch behind it gives.
ReadResponse(i) ==
  /\ stage[i] = "replied"
  /\ Reachable /\ trouble[i] # "lost"
  /\ stage' = [stage EXCEPT ![i] = "over"]
  /\ \/ /\ Waiting(i)
        /\ requestLeft' = [requestLeft EXCEPT ![i] = Off]
        /\ \/ /\ reply' = [reply EXCEPT ![i] = answer[i]]
              /\ UNCHANGED trouble
           \/ /\ reply' = [reply EXCEPT ![i] = "504"]
              /\ trouble' = [trouble EXCEPT ![i] = "headers"]
     \/ ~Waiting(i) /\ UNCHANGED <<reply, requestLeft, trouble>>
  /\ UNCHANGED <<limits, connVars, answer, fetchLeft, wireLeft>>

-----------------------------------------------------------------------------
(* A call at the daemon: handleFrame and dispatchRequest *)

\* The request frame is read: by serve(), or by the handshake adapter.
ReadRequest(i) ==
  /\ stage[i] = "sent"
  /\ Reachable
  /\ IF conn = "up"
     THEN stage' = [stage EXCEPT ![i] = "arrived"] /\ UNCHANGED trouble
     ELSE /\ stage' = [stage EXCEPT ![i] = "buffered"]
          /\ trouble' = [trouble EXCEPT ![i] = "held"]
  /\ UNCHANGED <<limits, connVars, answer, reply, requestLeft, fetchLeft, wireLeft>>

\* The frame of a connection that closed while the key was persisted is
\* replayed all the same.
ReplayLate(i) ==
  /\ stage[i] = "buffered" /\ trouble[i] = "lost"
  /\ stage' = [stage EXCEPT ![i] = "arrived"]
  /\ UNCHANGED <<limits, connVars, answer, reply, requestLeft, fetchLeft, wireLeft, trouble>>

\* handleFrame sends the answer on the socket the request came on.
Send(i, status) ==
  /\ answer' = [answer EXCEPT ![i] = status]
  /\ stage' = [stage EXCEPT ![i] = IF trouble[i] = "lost" THEN "over" ELSE "replied"]
  /\ fetchLeft' = [fetchLeft EXCEPT ![i] = Off]
  /\ UNCHANGED <<limits, connVars, reply, requestLeft, wireLeft, trouble>>

\* A path that cannot be decoded, is not in normal form or is off the
\* allow-list, or a body above MAX_BODY.
RefuseLocally(i) == stage[i] = "arrived" /\ Send(i, "400")

Fetch(i) ==
  /\ stage[i] = "arrived"
  /\ stage' = [stage EXCEPT ![i] = "fetching"]
  /\ fetchLeft' = [fetchLeft EXCEPT ![i] = FetchTimeout]
  /\ UNCHANGED <<limits, connVars, answer, reply, requestLeft, wireLeft, trouble>>

\* Headers and status of the local daemon.
ReadHeaders(i) ==
  /\ stage[i] = "fetching"
  /\ stage' = [stage EXCEPT ![i] = "reading"]
  /\ UNCHANGED <<limits, connVars, answer, reply, requestLeft, fetchLeft, wireLeft, trouble>>

\* The body ended, or was cut off at MAX_BODY.
ReadBody(i) == stage[i] = "reading" /\ \E status \in LocalStatuses : Send(i, status)

\* Fault: the failure of the fetch is only logged.
FetchFails_Logged(i) ==
  /\ stage[i] = "fetching"
  /\ stage' = [stage EXCEPT ![i] = "over"]
  /\ fetchLeft' = [fetchLeft EXCEPT ![i] = Off]
  /\ UNCHANGED <<limits, connVars, answer, reply, requestLeft, wireLeft, trouble>>

\* The fetch rejects: refused connection, reset, or the signal's timeout.
FetchFails(i) == stage[i] = "fetching" /\ Send(i, "502")

\* The body breaks off, or is still being read when the signal times out:
\* dispatchRequest rejects, handleFrame logs it and sends nothing.
BodyFails(i) ==
  /\ stage[i] = "reading"
  /\ stage' = [stage EXCEPT ![i] = "over"]
  /\ trouble' = [trouble EXCEPT ![i] = IF @ = "lost" THEN @ ELSE "body"]
  /\ fetchLeft' = [fetchLeft EXCEPT ![i] = Off]
  /\ UNCHANGED <<limits, connVars, answer, reply, requestLeft, wireLeft>>

-----------------------------------------------------------------------------
(* Time *)

OnWire(i) == stage[i] \in {"sent", "replied"} /\ Reachable

\* Something has to happen before time passes: a timer is due, a frame has
\* been on the wire for as long as it may, a continuation is ready.
Due ==
  \/ Registered /\ (pingLeft = 0 \/ 0 \in PongTimers)
  \/ pings = limits.trip
  \/ \E i \in Calls :
       \/ requestLeft[i] = 0 \/ fetchLeft[i] = 0
       \/ stage[i] = "arrived"
       \/ OnWire(i) /\ wireLeft[i] = 0

Down(n) == IF n = Off THEN Off ELSE n - 1

Tick ==
  /\ ~Due
  /\ pings' = IF pings = Off THEN Off ELSE pings + 1
  /\ IF Registered
     THEN pingLeft' = pingLeft - 1 /\ pongLeft' = Down(pongLeft)
     ELSE UNCHANGED <<pingLeft, pongLeft>>
  /\ lostPongs' = {n - 1 : n \in lostPongs}
  /\ silentFor' = IF conn \in {"cut", "closing"} THEN silentFor + 1 ELSE silentFor
  /\ requestLeft' = [i \in Calls |-> Down(requestLeft[i])]
  /\ fetchLeft' = [i \in Calls |-> Down(fetchLeft[i])]
  /\ wireLeft' = [i \in Calls |-> IF OnWire(i) THEN wireLeft[i] - 1 ELSE wireLeft[i]]
  /\ UNCHANGED <<limits, conn, stage, answer, reply, trouble>>

Next ==
  \/ Register \/ StartServing \/ SocketClosing \/ SocketClosed \/ Vanish
  \/ PingTick \/ Pong \/ PongTimeout
  \/ \E i \in Calls, congested \in BOOLEAN : Refuse(i, congested)
  \/ \E i \in Calls : Forward(i)
  \/ \E i \in Calls : RequestTimeout(i)
  \/ \E i \in Calls : ReadResponse(i)
  \/ \E i \in Calls : ReadRequest(i)
  \/ \E i \in Calls : ReplayLate(i)
  \/ \E i \in Calls : RefuseLocally(i)
  \/ \E i \in Calls : Fetch(i)
  \/ \E i \in Calls : ReadHeaders(i)
  \/ \E i \in Calls : ReadBody(i)
  \/ \E i \in Calls : FetchFails(i)
  \/ \E i \in Calls : BodyFails(i)
  \/ Tick

Spec == Init /\ [][Next]_vars

-----------------------------------------------------------------------------
(* Properties *)

\* What the HTTP caller is told of a call that was forwarded is true: it is the
\* status of the daemon's response, unless the call ran into one of Troubles on
\* its way.  So a local failure, which the daemon answers with a 502, never
\* reaches the caller as the 504 of a timeout, as long as the fetch and a round
\* trip fit into the request timeout.
StatusTellsTheTruth ==
  FetchTimeout + limits.trip < limits.request =>
    \A i \in Calls :
      stage[i] # "idle" /\ reply[i] # "none" /\ trouble[i] = "none" => reply[i] = answer[i]

\* The keepalive never terminates a daemon that is there, if a round trip is
\* shorter than both the pong timeout and the ping interval.
HealthyIsKept ==
  Reachable /\ limits.trip < limits.pong /\ limits.trip < limits.ping =>
    0 \notin PongTimers

\* A connection that is gone is out of the registry, so that callers get a 502
\* at once and not a 504, within a ping interval and a pong timeout.
DeadIsEvictedInTime == silentFor <= limits.ping + limits.pong

=============================================================================
