---------------------------- MODULE RelaySystem ----------------------------
(***************************************************************************)
(* A broker and one daemon together: RelayServer (src/relay/server.ts),    *)
(* which this module extends, and an instance of Connection                *)
(* (src/client/connection.ts), joined by what the TCP connections between  *)
(* them carry.                                                             *)
(*                                                                         *)
(* Each attempt of the daemon is a connection, `link`, with one queue of   *)
(* frames per direction.  Both ends of a connection close on their own and *)
(* learn of the other's closing later; frames written before a close may   *)
(* still arrive, also those of a connection the daemon has given up.  The  *)
(* network may cut a connection, which neither end is told.                *)
(*                                                                         *)
(* RelayServer and Connection each assume something of their peer;         *)
(* ComponentsBehave checks that the other module provides it.              *)
(*                                                                         *)
(* Definitions with an underscore in their name are seeded faults, as in   *)
(* RelayServer.                                                            *)
(***************************************************************************)
EXTENDS RelayServer, Sequences

CONSTANTS
  Uuid,                              \* the daemon
  InitialWait, MaxWait, MaxAttempts  \* of Connection

ASSUME SystemAssumption ==
  /\ Uuids = {Uuid}
  /\ InitialWait \in Nat \ {0}
  /\ MaxWait \in Nat /\ InitialWait <= MaxWait
  /\ MaxAttempts \in Nat
  /\ \A i \in Calls : i \notin {"hello", "welcome", "welcomeNoKey", "refused", "none"}

VARIABLES
  \* of Connection; daemonWs is its ws
  pc, aborted, heardIn, daemonWs, first, inbox, failure, received, dispatched,
  status, cur,
  \* between them
  link,       \* the connection of the current attempt, NoSocket before one
  down,       \* frames on their way to the daemon, per connection
  up,         \* frames on their way to the broker
  \* in the daemon's handleFrame
  answering,  \* <<connection, call>> pairs dispatched and not yet answered
  handled,    \* how often each call was dispatched to the local daemon
  answered    \* calls whose response was written to a socket

Daemon == INSTANCE Connection WITH Requests <- Calls, ws <- daemonWs

daemonVars == <<pc, aborted, heardIn, daemonWs, first, inbox, failure, received,
                dispatched, status, cur>>
frameVars == <<down, up>>
localVars == <<answering, handled, answered>>
systemVars == <<vars, daemonVars, link, frameVars, localVars>>

SystemTypeOK ==
  /\ TypeOK
  /\ Daemon!TypeOK
  /\ link \in Sockets \cup {NoSocket}
  /\ down \in [Sockets -> Seq(Daemon!Welcomes \cup Calls)]
  /\ up \in [Sockets -> Seq({"hello"} \cup Calls)]
  /\ answering \subseteq Sockets \X Calls
  /\ handled \in [Calls -> Nat]
  /\ answered \subseteq Calls

SystemInit ==
  /\ Init
  /\ Daemon!Init
  /\ link = NoSocket
  /\ down = [s \in Sockets |-> <<>>]
  /\ up = [s \in Sockets |-> <<>>]
  /\ answering = {}
  /\ handled = [i \in Calls |-> 0]
  /\ answered = {}

-----------------------------------------------------------------------------
(* Connections *)

\* The upgrade of the current attempt completes at the broker ...
BrokerAccepts(s) ==
  /\ pc = "dial" /\ link = NoSocket
  /\ Connect(s, Uuid)
  /\ link' = s
  /\ UNCHANGED <<daemonVars, frameVars, localVars>>

\* ... and at the daemon.
DaemonOpens ==
  /\ link # NoSocket /\ alive[link]
  /\ Daemon!Opened
  /\ UNCHANGED <<vars, link, frameVars, localVars>>

\* The loop dials again: whatever its last connection was, it is given up.
DaemonRedials ==
  /\ Daemon!NextAttempt
  /\ link' = IF pc' = "dial" THEN NoSocket ELSE link
  /\ UNCHANGED <<vars, frameVars, localVars>>

\* The daemon's end of s is closing or closed.
GivenUp(s) == link # s \/ daemonWs \in {"CLOSING", "CLOSED"}

BrokerHearsClose(s) ==
  /\ GivenUp(s)
  /\ PeerCloses(s)
  /\ UNCHANGED <<daemonVars, link, frameVars, localVars>>

DaemonHearsClose ==
  /\ link # NoSocket /\ alive[link] /\ ws[link] # "OPEN"
  /\ Daemon!SocketClosing
  /\ UNCHANGED <<vars, link, frameVars, localVars>>

-----------------------------------------------------------------------------
(* Frames *)

SendHello ==
  /\ Daemon!SendHello
  /\ up' = [up EXCEPT ![link] = Append(@, "hello")]
  /\ UNCHANGED <<vars, link, down, localVars>>

\* The hello is accepted, also one of a connection the daemon has given up.
ReadHello(s) ==
  /\ up[s] # <<>> /\ Head(up[s]) = "hello"
  /\ RecvHello(s)
  /\ up' = [up EXCEPT ![s] = Tail(@)]
  /\ IF ws[s] = "OPEN"
     THEN \E f \in Daemon!Welcomes : down' = [down EXCEPT ![s] = Append(@, f)]
     ELSE UNCHANGED down
  /\ UNCHANGED <<daemonVars, link, localVars>>

\* Fault: the welcome waits for another turn of the event loop, and a request
\* for the daemon that is registered already goes ahead of it.
WriteRequest_Overtakes(i) ==
  /\ Forward(i, Uuid)
  /\ down' = [s \in Sockets |-> IF deliveredOn'[i] = s THEN <<i>> \o down[s] ELSE down[s]]
  /\ UNCHANGED <<daemonVars, link, up, localVars>>

\* forward() writes the request to the registered socket, if it is open.
WriteRequest(i) ==
  /\ Forward(i, Uuid)
  /\ down' = [s \in Sockets |-> IF deliveredOn'[i] = s THEN Append(down[s], i) ELSE down[s]]
  /\ UNCHANGED <<daemonVars, link, up, localVars>>

\* handleFrame is called for the frames that `dispatched` gains, and takes up
\* the requests among them.
Dispatches ==
  LET new == {dispatched'[n] : n \in (Len(dispatched) + 1)..Len(dispatched')} \cap Calls IN
  /\ answering' = answering \cup {<<link, i>> : i \in new}
  /\ handled' = [i \in Calls |-> IF i \in new THEN handled[i] + 1 ELSE handled[i]]
  /\ UNCHANGED answered

ReadFrame ==
  /\ link # NoSocket /\ alive[link]
  /\ down[link] # <<>>
  /\ Daemon!Deliver(Head(down[link]))
  /\ down' = [down EXCEPT ![link] = Tail(@)]
  /\ Dispatches
  /\ UNCHANGED <<vars, link, up>>

StartServing ==
  /\ Daemon!StartServing
  /\ Dispatches
  /\ UNCHANGED <<vars, link, frameVars>>

\* Fault: a request whose connection is gone when its answer is ready is
\* dispatched once more.
Answer_Redo(s, i) ==
  /\ <<s, i>> \in answering
  /\ answering' = answering \ {<<s, i>>}
  /\ IF s = link /\ daemonWs = "OPEN"
     THEN /\ up' = [up EXCEPT ![s] = Append(@, i)]
          /\ answered' = answered \cup {i}
          /\ UNCHANGED handled
     ELSE /\ handled' = [handled EXCEPT ![i] = @ + 1]
          /\ UNCHANGED <<up, answered>>
  /\ UNCHANGED <<vars, daemonVars, link, down>>

\* The local daemon answered: the response goes to the socket the request came
\* on, and is lost when that is no longer open.
Answer(s, i) ==
  /\ <<s, i>> \in answering
  /\ answering' = answering \ {<<s, i>>}
  /\ IF s = link /\ daemonWs = "OPEN"
     THEN /\ up' = [up EXCEPT ![s] = Append(@, i)]
          /\ answered' = answered \cup {i}
     ELSE UNCHANGED <<up, answered>>
  /\ UNCHANGED <<vars, daemonVars, link, down, handled>>

\* dispatchRequest rejected: nothing is sent.
NoAnswer(s, i) ==
  /\ <<s, i>> \in answering
  /\ answering' = answering \ {<<s, i>>}
  /\ UNCHANGED <<vars, daemonVars, link, frameVars, handled, answered>>

\* A response settles its call, is too late, or reaches a connection that was
\* cleaned up before, which takes it for a bad hello.
ReadResponse(s) ==
  /\ up[s] # <<>> /\ Head(up[s]) # "hello"
  /\ Delivers(s)
  /\ \/ RecvResponse(s, Head(up[s]))
     \/ registeredUuid[s] # NoUuid /\ pending[Head(up[s])] = NoUuid /\ UNCHANGED vars
     \/ RecvBadHello(s)
  /\ up' = [up EXCEPT ![s] = Tail(@)]
  /\ UNCHANGED <<daemonVars, link, down, localVars>>

-----------------------------------------------------------------------------
(* Steps of one side alone.  The shutdown of either side is left to its    *)
(* own module.                                                             *)

BrokerAlone ==
  /\ \/ \E i \in Calls : Refuse(i, Uuid, FALSE)
     \/ \E i \in Calls : ForwardTimeout(i)
     \/ \E s \in Sockets : PingTick(s)
     \/ \E s \in Sockets : ~GivenUp(s) /\ Pong(s)
     \/ \E s \in Sockets : PongTimeout(s)
     \/ \E s \in Sockets : SocketError(s)
     \/ \E s \in Sockets : SocketClosed(s)
     \/ \E s \in Sockets : PeerVanishes(s)
  /\ UNCHANGED <<daemonVars, link, frameVars, localVars>>

\* 'close' at the daemon, or serve() finding that it has been.
DaemonSeesClosed ==
  /\ Daemon!SocketClosed \/ Daemon!ServeFindsClosed
  /\ UNCHANGED <<vars, link, frameVars, localVars>>

DaemonAlone ==
  /\ \/ Daemon!DialFails
     \/ Daemon!HandshakeRefused
     \/ Daemon!HandshakeTimeout
     \/ Daemon!AwaitPubkey
     \/ Daemon!PubkeyRejected
     \/ Daemon!SocketErrors
  /\ UNCHANGED <<vars, link, frameVars, localVars>>

SystemNext ==
  \/ \E s \in Sockets : BrokerAccepts(s)
  \/ DaemonOpens
  \/ DaemonRedials
  \/ \E s \in Sockets : BrokerHearsClose(s)
  \/ DaemonHearsClose
  \/ SendHello
  \/ \E s \in Sockets : ReadHello(s)
  \/ \E i \in Calls : WriteRequest(i)
  \/ ReadFrame
  \/ StartServing
  \/ \E s \in Sockets, i \in Calls : Answer(s, i)
  \/ \E s \in Sockets, i \in Calls : NoAnswer(s, i)
  \/ \E s \in Sockets : ReadResponse(s)
  \/ BrokerAlone
  \/ DaemonSeesClosed
  \/ DaemonAlone

SystemSpec == SystemInit /\ [][SystemNext]_systemVars

\* A close that the network carries is heard, at the daemon's end too.
SystemFairSpec ==
  /\ SystemSpec
  /\ WF_systemVars(DaemonHearsClose)
  /\ WF_systemVars(DaemonSeesClosed)

-----------------------------------------------------------------------------
(* Properties *)

\* Each side keeps to its specification when its environment is the other:
\* what RelayServer and Connection let their peers do covers what the other
\* one does, in whatever order frames and closes arrive.
ComponentsBehave == Spec /\ Daemon!Spec

\* A request runs at most once at the daemon, across reconnects, replays and
\* late frames; a caller is given a response only if its own request ran and
\* was answered; and a daemon that reports "connected" over a connection that
\* is open at both ends is the one forward() routes to.
RunsOnceAndRouted ==
  /\ \A i \in Calls :
       /\ handled[i] <= 1
       /\ outcome[i] = "response" => i \in answered /\ handled[i] = 1
  /\ status.connected /\ daemonWs = "OPEN" /\ ws[link] = "OPEN" => clients[Uuid] = link

\* A daemon that reports "connected" over a connection the broker no longer
\* routes to (superseded, late hello of an older one, error, pong timeout)
\* finds out, unless the network has cut the connection.
DaemonNoticesLoss ==
  status.connected /\ clients[Uuid] # link ~> ~status.connected \/ ~alive[link]

=============================================================================
