------------------------- MODULE RelaySystemProofs -------------------------
(***************************************************************************)
(* Proofs about RelaySystem for every number of connections and calls.     *)
(*                                                                         *)
(* The argument is assume-guarantee, with the assumptions discharged:      *)
(*   1. every step of the system is a step of RelayServer, so all that     *)
(*      RelayServerProofs proves holds of the broker's part;               *)
(*   2. what is on its way over the current connection (HandshakeInv,      *)
(*      StreamInv) is then what Connection expects of its broker, so every *)
(*      step of the system is a step of Connection, too;                   *)
(*   3. a call is in one place at a time (OnceInv, AnswerInv), so it runs  *)
(*      at most once, and only that run answers it.                        *)
(***************************************************************************)
EXTENDS RelaySystem, RelayServerProofs, SequenceTheorems

DownFrames == Daemon!Welcomes \cup Calls
UpFrames == {"hello"} \cup Calls

QueueTypes ==
  /\ link \in Sockets \cup {NoSocket}
  /\ down \in [Sockets -> Seq(DownFrames)]
  /\ up \in [Sockets -> Seq(UpFrames)]
  /\ inbox \in Seq(DownFrames)
  /\ received \in Seq(DownFrames)
  /\ dispatched \in Seq(DownFrames)
  /\ answering \subseteq Sockets \X Calls
  /\ handled \in [Calls -> Nat]

\* How far the handshake is: the hello is sent before a broker welcomes, and
\* what the daemon took for the welcome is one.
HandshakeInv ==
  /\ pc \in {"dial", "opened"} => first = "none"
  /\ pc \in {"dial", "opened"} /\ link # NoSocket => up[link] = <<>> /\ ~welcomed[link]
  /\ pc \in {"persist", "serve"} => first # "none"
  /\ first = "none" => inbox = <<>> /\ received = <<>>
  /\ first # "none" => first \in Daemon!Welcomes /\ link # NoSocket /\ welcomed[link]
  /\ \A s \in Sockets, i \in Calls : <<s, i>> \in answering => welcomed[s]

\* Nothing has happened on a connection that has not been made.
FreshInv ==
  \A s \in Sockets : ws[s] = "NEW" =>
    up[s] = <<>> /\ down[s] = <<>> /\ link # s /\ ~welcomed[s]

\* What is on its way to the daemon: nothing before the welcome, which is the
\* first frame of a connection, and requests behind it.
StreamInv ==
  /\ \A s \in Sockets : ~welcomed[s] => down[s] = <<>>
  /\ link # NoSocket =>
       /\ first = "none" /\ welcomed[link] =>
            down[link] # <<>> /\ Head(down[link]) \in Daemon!Welcomes
       /\ \A n \in 1..Len(down[link]) : n > 1 \/ first # "none" => down[link][n] \in Calls

\* e is somewhere in the queue q; no element is there twice.
Holds(q, e) == \E n \in 1..Len(q) : q[n] = e
NoRepeat(q) == \A m, n \in 1..Len(q) : q[m] = q[n] => m = n

\* A call is in one place at a time: not made, on its way over the connection
\* its request was written to, buffered, or handed to the local daemon.
OnceInv ==
  /\ \A s \in Sockets : NoRepeat(down[s])
  /\ \A i \in Calls :
       /\ handled[i] <= 1
       /\ outcome[i] = "idle" =>
            /\ handled[i] = 0 /\ ~Holds(inbox, i) /\ ~Holds(received, i)
            /\ \A s \in Sockets : ~Holds(down[s], i)
       /\ Holds(inbox, i) => handled[i] = 0
       /\ \A s \in Sockets : Holds(down[s], i) =>
            /\ deliveredOn[i] = s /\ handled[i] = 0 /\ ~Holds(inbox, i)
            /\ s = link => ~Holds(received, i)

\* An answer is of a run, and a response is an answer.
AnswerInv ==
  \A i \in Calls :
    /\ \A s \in Sockets : <<s, i>> \in answering => handled[i] = 1
    /\ \A s \in Sockets : Holds(up[s], i) => i \in answered
    /\ i \in answered => handled[i] = 1
    /\ outcome[i] = "response" => i \in answered

-----------------------------------------------------------------------------
(* Queues *)

\* Append adds its element, and nothing else.
LEMMA AppendHolds ==
  ASSUME NEW S, NEW q \in Seq(S), NEW x \in S
  PROVE  /\ Append(q, x) \in Seq(S)
         /\ \A e : Holds(Append(q, x), e) <=> Holds(q, e) \/ e = x
         /\ NoRepeat(q) /\ ~Holds(q, x) => NoRepeat(Append(q, x))
<1>1. /\ Append(q, x) \in Seq(S) /\ Len(Append(q, x)) = Len(q) + 1 /\ Len(q) \in Nat
      /\ \A n \in 1..Len(q) : Append(q, x)[n] = q[n]
      /\ Append(q, x)[Len(q) + 1] = x
  BY AppendProperties, LenProperties
<1>2. \A e : Holds(Append(q, x), e) <=> Holds(q, e) \/ e = x
  BY <1>1 DEF Holds
<1>3. NoRepeat(q) /\ ~Holds(q, x) => NoRepeat(Append(q, x))
  BY <1>1 DEF Holds, NoRepeat
<1> QED
  BY <1>1, <1>2, <1>3

\* Tail takes the head out, and nothing else.
LEMMA TailHolds ==
  ASSUME NEW S, NEW q \in Seq(S), q # <<>>
  PROVE  /\ Head(q) \in S /\ Tail(q) \in Seq(S)
         /\ Head(q) = q[1] /\ Len(q) \in Nat \ {0} /\ Len(Tail(q)) = Len(q) - 1
         /\ \A n \in 1..Len(Tail(q)) : Tail(q)[n] = q[n + 1]
         /\ Holds(q, Head(q))
         /\ \A e : Holds(Tail(q), e) => Holds(q, e)
         /\ NoRepeat(q) => NoRepeat(Tail(q)) /\ ~Holds(Tail(q), Head(q))
<1>1. /\ Head(q) \in S /\ Tail(q) \in Seq(S) /\ Len(Tail(q)) = Len(q) - 1
      /\ \A n \in 1..Len(Tail(q)) : Tail(q)[n] = q[n + 1]
  BY HeadTailProperties
<1>2. Head(q) = q[1] /\ Len(q) \in Nat \ {0}
  BY EmptySeq
<1>3. Holds(q, Head(q))
  BY <1>2 DEF Holds
<1>4. \A e : Holds(Tail(q), e) => Holds(q, e)
  BY <1>1, <1>2 DEF Holds
<1>5. NoRepeat(q) => NoRepeat(Tail(q)) /\ ~Holds(Tail(q), Head(q))
  BY <1>1, <1>2 DEF Holds, NoRepeat
<1> QED
  BY <1>1, <1>2, <1>3, <1>4, <1>5

\* Nothing is in the empty queue.
LEMMA EmptyHolds == NoRepeat(<<>>) /\ \A e : ~Holds(<<>>, e)
BY EmptySeq DEF Holds, NoRepeat

\* What a queue gains, as Dispatches says it.
Gained(p, q) == {q[n] : n \in (Len(p) + 1)..Len(q)}

LEMMA ConcatGains ==
  ASSUME NEW S, NEW p \in Seq(S), NEW q \in Seq(S)
  PROVE  /\ p \o q \in Seq(S)
         /\ \A e : e \in Gained(p, p \o q) <=> Holds(q, e)
<1>1. /\ p \o q \in Seq(S) /\ Len(p \o q) = Len(p) + Len(q)
      /\ Len(p) \in Nat /\ Len(q) \in Nat
      /\ \A n \in 1..(Len(p) + Len(q)) :
           (p \o q)[n] = IF n <= Len(p) THEN p[n] ELSE q[n - Len(p)]
  BY ConcatProperties, LenProperties
<1>2. ASSUME NEW n \in (Len(p) + 1)..Len(p \o q)
      PROVE  (p \o q)[n] = q[n - Len(p)] /\ n - Len(p) \in 1..Len(q)
  BY <1>1
<1>3. ASSUME NEW n \in 1..Len(q)
      PROVE  n + Len(p) \in (Len(p) + 1)..Len(p \o q) /\ (p \o q)[n + Len(p)] = q[n]
  BY <1>1
<1>4. ASSUME NEW e, e \in Gained(p, p \o q) PROVE Holds(q, e)
  BY <1>2, <1>4 DEF Gained, Holds
<1>5. ASSUME NEW e, Holds(q, e) PROVE e \in Gained(p, p \o q)
  BY <1>3, <1>5 DEF Gained, Holds
<1> QED
  BY <1>1, <1>4, <1>5

LEMMA AppendGains ==
  ASSUME NEW S, NEW p \in Seq(S), NEW x \in S
  PROVE  Gained(p, Append(p, x)) = {x}
<1>1. /\ Len(Append(p, x)) = Len(p) + 1 /\ Len(p) \in Nat
      /\ Append(p, x)[Len(p) + 1] = x
  BY AppendProperties, LenProperties
<1>2. (Len(p) + 1)..Len(Append(p, x)) = {Len(p) + 1}
  BY <1>1
<1> QED
  BY <1>1, <1>2 DEF Gained

LEMMA NothingGained == \A S : \A p \in Seq(S) : Gained(p, p) = {}
<1> SUFFICES ASSUME NEW S, NEW p \in Seq(S) PROVE (Len(p) + 1)..Len(p) = {}
  BY DEF Gained
<1> QED
  BY LenProperties

-----------------------------------------------------------------------------
(* Steps that move no frame and answer no call *)

BrokerQuiet ==
  /\ UNCHANGED <<welcomed, deliveredOn>>
  /\ \A s \in Sockets : ws'[s] = "NEW" => ws[s] = "NEW"
  /\ \A i \in Calls : outcome'[i] \in {"idle", "response"} => outcome'[i] = outcome[i]

DaemonQuiet ==
  /\ UNCHANGED <<first, inbox, received, dispatched>>
  /\ pc' \in {"dial", "opened"} => pc \in {"dial", "opened"}
  /\ pc' \in {"persist", "serve"} => pc \in {"persist", "serve"} \/ first = "welcome"

QuietStep ==
  /\ BrokerQuiet
  /\ DaemonQuiet
  /\ UNCHANGED <<link, frameVars, localVars>>

\* Steps of the broker that neither register, forward nor settle by a response.
LEMMA BrokerStepsQuiet ==
  ASSUME TypeOK,
         \/ \E s \in Sockets :
              \/ RecvBadHello(s) \/ PingTick(s) \/ Pong(s) \/ PongTimeout(s)
              \/ SocketError(s) \/ SocketClosed(s) \/ PeerCloses(s) \/ PeerVanishes(s)
         \/ \E i \in Calls : Refuse(i, Uuid, FALSE) \/ ForwardTimeout(i)
         \/ UNCHANGED vars
  PROVE  BrokerQuiet
<1> USE DEF BrokerQuiet, registryVars, pendingVars, aliveVars, socketVars, closeVars
<1>1. ASSUME NEW s \in Sockets,
             \/ RecvBadHello(s) \/ PongTimeout(s) \/ SocketError(s)
             \/ SocketClosed(s) \/ PeerCloses(s)
      PROVE  BrokerQuiet
  <2>1. UNCHANGED <<welcomed, deliveredOn, outcome>>
    BY <1>1 DEF RecvBadHello, PongTimeout, SocketError, SocketClosed, PeerCloses
  <2>2. \E x \in {Shut(s), "CLOSING", "CLOSED"} : ws' = [ws EXCEPT ![s] = x]
    BY <1>1 DEF RecvBadHello, PongTimeout, SocketError, SocketClosed, PeerCloses
  <2>3. \A t \in Sockets : ws'[t] = "NEW" => ws[t] = "NEW"
    BY <2>2 DEF TypeOK, Shut
  <2> QED
    BY <2>1, <2>3
<1>2. ASSUME NEW s \in Sockets, PingTick(s) \/ Pong(s) \/ PeerVanishes(s)
      PROVE  BrokerQuiet
  BY <1>2 DEF PingTick, Pong, PeerVanishes
<1>3. ASSUME NEW i \in Calls, Refuse(i, Uuid, FALSE) PROVE BrokerQuiet
  <2>1. UNCHANGED <<welcomed, deliveredOn, ws>>
    BY <1>3 DEF Refuse
  <2>2. Admission(Uuid, FALSE) \in {"notConnected", "capExceeded"}
    BY <1>3 DEF Refuse, Admission
  <2>3. outcome' = [outcome EXCEPT ![i] = Admission(Uuid, FALSE)]
    BY <1>3 DEF Refuse
  <2> QED
    BY <2>1, <2>2, <2>3 DEF TypeOK
<1>4. ASSUME NEW i \in Calls, ForwardTimeout(i) PROVE BrokerQuiet
  BY <1>4 DEF ForwardTimeout, TypeOK
<1>5. CASE UNCHANGED vars
  BY <1>5 DEF vars
<1> QED
  BY <1>1, <1>2, <1>3, <1>4, <1>5

\* Steps of the daemon that handle no frame.
LEMMA DaemonStepsQuiet ==
  ASSUME \/ Daemon!Opened \/ Daemon!SocketClosing \/ Daemon!SocketClosed
         \/ Daemon!ServeFindsClosed \/ Daemon!DialFails \/ Daemon!HandshakeRefused
         \/ Daemon!HandshakeTimeout \/ Daemon!AwaitPubkey \/ Daemon!PubkeyRejected
         \/ Daemon!SocketErrors \/ UNCHANGED daemonVars
  PROVE  DaemonQuiet
<1> USE DEF DaemonQuiet, Daemon!AttemptFails, Daemon!SessionEnds, Daemon!Buffering
<1>1. CASE Daemon!Opened \/ Daemon!SocketClosing \/ Daemon!AwaitPubkey \/ UNCHANGED daemonVars
  BY <1>1 DEF Daemon!Opened, Daemon!SocketClosing, Daemon!AwaitPubkey, Daemon!socketVars,
              daemonVars
<1>2. CASE Daemon!SocketClosed \/ Daemon!SocketErrors \/ Daemon!ServeFindsClosed
  BY <1>2 DEF Daemon!SocketClosed, Daemon!SocketErrors, Daemon!ServeFindsClosed
<1>3. CASE \/ Daemon!DialFails \/ Daemon!HandshakeRefused \/ Daemon!HandshakeTimeout
           \/ Daemon!PubkeyRejected
  BY <1>3 DEF Daemon!DialFails, Daemon!HandshakeRefused, Daemon!HandshakeTimeout,
              Daemon!PubkeyRejected
<1> QED
  BY <1>1, <1>2, <1>3

\* The other steps.
MovesFrames ==
  \/ \E s \in Sockets : BrokerAccepts(s) \/ ReadHello(s) \/ ReadResponse(s)
  \/ DaemonRedials \/ SendHello \/ ReadFrame \/ StartServing
  \/ \E i \in Calls : WriteRequest(i)
  \/ \E s \in Sockets, i \in Calls : Answer(s, i) \/ NoAnswer(s, i)

LEMMA StepsSplit ==
  ASSUME TypeOK, [SystemNext]_systemVars
  PROVE  QuietStep \/ MovesFrames
<1>1. CASE DaemonOpens \/ DaemonHearsClose \/ DaemonSeesClosed \/ DaemonAlone
  BY <1>1, BrokerStepsQuiet, DaemonStepsQuiet
     DEF DaemonOpens, DaemonHearsClose, DaemonSeesClosed, DaemonAlone, QuietStep
<1>2. CASE BrokerAlone \/ (\E s \in Sockets : BrokerHearsClose(s))
  BY <1>2, BrokerStepsQuiet, DaemonStepsQuiet DEF BrokerAlone, BrokerHearsClose, QuietStep
<1>3. CASE UNCHANGED systemVars
  BY <1>3, BrokerStepsQuiet, DaemonStepsQuiet DEF systemVars, QuietStep
<1> QED
  BY <1>1, <1>2, <1>3 DEF SystemNext, MovesFrames

-----------------------------------------------------------------------------
(* The types of the queues *)

LEMMA InitQueueTypes == SystemInit => QueueTypes
<1> SUFFICES ASSUME SystemInit PROVE QueueTypes
  OBVIOUS
<1>1. <<>> \in Seq(DownFrames) /\ <<>> \in Seq(UpFrames)
  OBVIOUS
<1> QED
  BY <1>1 DEF SystemInit, Daemon!Init, QueueTypes

\* Delivery puts the frame into queues of frames.
LEMMA DeliverQueues ==
  ASSUME QueueTypes, NEW f \in DownFrames, Daemon!Deliver(f)
  PROVE  inbox' \in Seq(DownFrames) /\ received' \in Seq(DownFrames)
         /\ dispatched' \in Seq(DownFrames)
<1>1. /\ Append(inbox, f) \in Seq(DownFrames) /\ Append(received, f) \in Seq(DownFrames)
      /\ Append(dispatched, f) \in Seq(DownFrames)
  BY AppendHolds DEF QueueTypes
<1>2. /\ inbox' \in {inbox, Append(inbox, f)} /\ received' = Append(received, f)
      /\ dispatched' \in {dispatched, Append(dispatched, f)}
  BY DEF Daemon!Deliver
<1> QED
  BY <1>1, <1>2 DEF QueueTypes

\* Calls are counted as they are dispatched, on the current connection.
LEMMA DispatchTypes ==
  ASSUME QueueTypes, link # NoSocket, Dispatches
  PROVE  answering' \subseteq Sockets \X Calls /\ handled' \in [Calls -> Nat]
BY DEF QueueTypes, Dispatches

LEMMA NextQueueTypes ==
  ASSUME TypeOK, QueueTypes, HandshakeInv, [SystemNext]_systemVars
  PROVE  QueueTypes'
<1> USE DEF frameVars, localVars
<1>1. CASE QuietStep
  BY <1>1 DEF QuietStep, DaemonQuiet, QueueTypes
<1>2. ASSUME NEW s \in Sockets, BrokerAccepts(s) PROVE QueueTypes'
  BY <1>2 DEF BrokerAccepts, daemonVars, QueueTypes
<1>3. CASE DaemonRedials
  <2>1. \/ UNCHANGED <<inbox, received, dispatched>>
        \/ inbox' = <<>> /\ received' = <<>> /\ dispatched' = <<>>
    BY <1>3 DEF DaemonRedials, Daemon!NextAttempt, Daemon!NewSocket, Daemon!socketVars
  <2>2. <<>> \in Seq(DownFrames)
    OBVIOUS
  <2>3. inbox' \in Seq(DownFrames) /\ received' \in Seq(DownFrames)
        /\ dispatched' \in Seq(DownFrames)
    BY <2>1, <2>2 DEF QueueTypes
  <2>4. link' \in Sockets \cup {NoSocket} /\ UNCHANGED <<down, up, answering, handled>>
    BY <1>3 DEF DaemonRedials, QueueTypes
  <2> QED
    BY <2>3, <2>4 DEF QueueTypes
<1>4. CASE SendHello
  <2>1. UNCHANGED <<inbox, received, dispatched>>
    BY <1>4 DEF SendHello, Daemon!SendHello, HandshakeInv
  <2>2. \A s \in Sockets : Append(up[s], "hello") \in Seq(UpFrames)
    BY AppendHolds DEF QueueTypes, UpFrames
  <2>3. up' \in [Sockets -> Seq(UpFrames)]
    BY <1>4, <2>2 DEF SendHello, QueueTypes
  <2> QED
    BY <1>4, <2>1, <2>3 DEF SendHello, QueueTypes
<1>5. ASSUME NEW s \in Sockets, ReadHello(s) PROVE QueueTypes'
  <2>1. Tail(up[s]) \in Seq(UpFrames)
    BY <1>5, TailHolds DEF ReadHello, QueueTypes
  <2>2. \A f \in Daemon!Welcomes : Append(down[s], f) \in Seq(DownFrames)
    BY AppendHolds DEF QueueTypes, DownFrames
  <2>3. up' \in [Sockets -> Seq(UpFrames)] /\ down' \in [Sockets -> Seq(DownFrames)]
    BY <1>5, <2>1, <2>2 DEF ReadHello, QueueTypes
  <2> QED
    BY <1>5, <2>3 DEF ReadHello, daemonVars, QueueTypes
<1>6. ASSUME NEW i \in Calls, WriteRequest(i) PROVE QueueTypes'
  <2>1. \A s \in Sockets : Append(down[s], i) \in Seq(DownFrames)
    BY AppendHolds DEF QueueTypes, DownFrames
  <2>2. down' \in [Sockets -> Seq(DownFrames)]
    BY <1>6, <2>1 DEF WriteRequest, QueueTypes
  <2> QED
    BY <1>6, <2>2 DEF WriteRequest, daemonVars, QueueTypes
<1>7. CASE ReadFrame
  <2>1. link \in Sockets /\ down[link] \in Seq(DownFrames) /\ down[link] # <<>>
    BY <1>7 DEF ReadFrame, QueueTypes
  <2>2. Head(down[link]) \in DownFrames /\ Tail(down[link]) \in Seq(DownFrames)
    BY <2>1, TailHolds
  <2>3. inbox' \in Seq(DownFrames) /\ received' \in Seq(DownFrames)
        /\ dispatched' \in Seq(DownFrames)
    BY <1>7, <2>2, DeliverQueues DEF ReadFrame
  <2>4. down' \in [Sockets -> Seq(DownFrames)]
    BY <1>7, <2>2 DEF ReadFrame, QueueTypes
  <2> QED
    BY <1>7, <2>3, <2>4, DispatchTypes DEF ReadFrame, QueueTypes
<1>8. CASE StartServing
  <2>1. dispatched' \in Seq(DownFrames) /\ inbox' \in Seq(DownFrames) /\ UNCHANGED received
    BY <1>8, ConcatGains DEF StartServing, Daemon!StartServing, QueueTypes
  <2>2. link # NoSocket
    BY <1>8 DEF StartServing, Daemon!StartServing, HandshakeInv
  <2> QED
    BY <1>8, <2>1, <2>2, DispatchTypes DEF StartServing, QueueTypes
<1>9. ASSUME NEW s \in Sockets, NEW i \in Calls, Answer(s, i) \/ NoAnswer(s, i)
      PROVE  QueueTypes'
  <2>1. Append(up[s], i) \in Seq(UpFrames)
    BY AppendHolds DEF QueueTypes, UpFrames
  <2>2. up' \in [Sockets -> Seq(UpFrames)]
    BY <1>9, <2>1 DEF Answer, NoAnswer, QueueTypes
  <2> QED
    BY <1>9, <2>2 DEF Answer, NoAnswer, daemonVars, QueueTypes
<1>10. ASSUME NEW s \in Sockets, ReadResponse(s) PROVE QueueTypes'
  <2>1. Tail(up[s]) \in Seq(UpFrames)
    BY <1>10, TailHolds DEF ReadResponse, QueueTypes
  <2>2. up' \in [Sockets -> Seq(UpFrames)]
    BY <1>10, <2>1 DEF ReadResponse, QueueTypes
  <2> QED
    BY <1>10, <2>2 DEF ReadResponse, daemonVars, QueueTypes
<1> QED
  BY <1>1, <1>2, <1>3, <1>4, <1>5, <1>6, <1>7, <1>8, <1>9, <1>10, StepsSplit DEF MovesFrames

-----------------------------------------------------------------------------
(* The broker's part *)

\* Every step of the system is one of RelayServer, or leaves it alone: what a
\* daemon that is Connection sends is what RelayServer lets a peer send.
LEMMA BrokerSteps ==
  ASSUME QueueTypes, [SystemNext]_systemVars
  PROVE  [Next]_vars
<1>0. Uuid \in Uuids
  BY SystemAssumption
<1>1. ASSUME NEW s \in Sockets, BrokerAccepts(s) PROVE Next
  BY <1>0, <1>1 DEF BrokerAccepts, Next
<1>2. ASSUME NEW s \in Sockets, BrokerHearsClose(s) \/ ReadHello(s) PROVE Next
  BY <1>2 DEF BrokerHearsClose, ReadHello, Next
<1>3. ASSUME NEW i \in Calls, WriteRequest(i) PROVE Next
  BY <1>0, <1>3 DEF WriteRequest, Next
<1>4. ASSUME NEW s \in Sockets, ReadResponse(s) PROVE [Next]_vars
  <2>1. up[s] \in Seq(UpFrames) /\ up[s] # <<>> /\ Head(up[s]) # "hello"
    BY <1>4 DEF ReadResponse, QueueTypes
  <2>2. Head(up[s]) \in Calls
    BY <2>1, TailHolds DEF UpFrames
  <2>3. RecvResponse(s, Head(up[s])) \/ UNCHANGED vars \/ RecvBadHello(s)
    BY <1>4 DEF ReadResponse
  <2> QED
    BY <2>2, <2>3 DEF Next
<1>5. CASE BrokerAlone
  BY <1>0, <1>5 DEF BrokerAlone, Next
<1>6. CASE \/ DaemonOpens \/ DaemonRedials \/ DaemonHearsClose \/ SendHello \/ ReadFrame
           \/ StartServing \/ DaemonSeesClosed \/ DaemonAlone \/ UNCHANGED systemVars
           \/ \E s \in Sockets, i \in Calls : Answer(s, i) \/ NoAnswer(s, i)
  BY <1>6 DEF DaemonOpens, DaemonRedials, DaemonHearsClose, SendHello, ReadFrame, StartServing,
              DaemonSeesClosed, DaemonAlone, systemVars, Answer, NoAnswer
<1> QED
  BY <1>1, <1>2, <1>3, <1>4, <1>5, <1>6 DEF SystemNext

-----------------------------------------------------------------------------
(* The handshake *)

LEMMA InitHandshake == SystemInit => HandshakeInv /\ FreshInv
<1> SUFFICES ASSUME SystemInit PROVE HandshakeInv /\ FreshInv
  OBVIOUS
<1>1. HandshakeInv
  BY DEF SystemInit, Daemon!Init, HandshakeInv
<1>2. FreshInv
  BY RelayAssumption DEF SystemInit, Init, FreshInv
<1> QED
  BY <1>1, <1>2

\* A welcome is never taken back.
LEMMA ReadHelloWelcomes ==
  ASSUME TypeOK, NEW s \in Sockets, ReadHello(s)
  PROVE  /\ welcomed' = [welcomed EXCEPT ![s] = @ \/ ws[s] = "OPEN"]
         /\ \A t \in Sockets : welcomed[t] => welcomed'[t]
         /\ \A t \in Sockets : t # s => welcomed'[t] = welcomed[t]
         /\ ws[s] \in {"OPEN", "CLOSING"}
         /\ \A t \in Sockets : ws'[t] = "NEW" => ws[t] = "NEW"
<1>1. welcomed' = [welcomed EXCEPT ![s] = @ \/ ws[s] = "OPEN"]
  BY DEF ReadHello, RecvHello, Register
<1>2. \A t \in Sockets : welcomed[t] => welcomed'[t]
  BY <1>1 DEF TypeOK
<1>3. \A t \in Sockets : t # s => welcomed'[t] = welcomed[t]
  BY <1>1 DEF TypeOK
<1>4. ws[s] \in {"OPEN", "CLOSING"}
  BY DEF ReadHello, RecvHello, Register, Delivers
<1>5. \A t \in Sockets : ws'[t] = "NEW" => ws[t] = "NEW"
  BY DEF ReadHello, RecvHello, Register, Shut, TypeOK
<1> QED
  BY <1>1, <1>2, <1>3, <1>4, <1>5

\* What delivery does to the handshake: the first frame is what recv() waits
\* for, later ones do not reach it.
LEMMA DeliverFirst ==
  ASSUME HandshakeInv, NEW f \in DownFrames, Daemon!Deliver(f)
  PROVE  /\ pc' = pc
         /\ first # "none" => first' = first
         /\ first = "none" => UNCHANGED dispatched
         /\ first = "none" => pc \notin {"persist", "serve"}
BY DEF HandshakeInv, Daemon!Deliver, Daemon!Buffering

LEMMA QuietKeepsHandshake ==
  ASSUME QuietStep, HandshakeInv, FreshInv
  PROVE  HandshakeInv' /\ FreshInv'
<1>1. HandshakeInv'
  BY DEF QuietStep, BrokerQuiet, DaemonQuiet, HandshakeInv, frameVars, localVars
<1>2. FreshInv'
  BY DEF QuietStep, BrokerQuiet, FreshInv, frameVars
<1> QED
  BY <1>1, <1>2

\* Steps at the daemon's end: no socket of the broker changes.
LEMMA DaemonKeepsHandshake ==
  ASSUME TypeOK, QueueTypes, HandshakeInv, FreshInv,
         DaemonRedials \/ SendHello \/ StartServing
  PROVE  HandshakeInv' /\ FreshInv'
<1> USE DEF frameVars, localVars
<1>0. UNCHANGED <<ws, welcomed>>
  BY DEF DaemonRedials, SendHello, StartServing, vars, socketVars
<1>1. CASE DaemonRedials
  <2>1. CASE aborted
    BY <1>0, <1>1, <2>1
       DEF DaemonRedials, Daemon!NextAttempt, Daemon!socketVars, HandshakeInv, FreshInv
  <2>2. CASE ~aborted
    <3>1. /\ pc' = "dial" /\ link' = NoSocket /\ first' = "none" /\ inbox' = <<>>
          /\ received' = <<>> /\ UNCHANGED <<up, down, answering>>
      BY <1>1, <2>2 DEF DaemonRedials, Daemon!NextAttempt, Daemon!NewSocket
    <3>2. HandshakeInv'
      BY <1>0, <3>1 DEF HandshakeInv
    <3>3. FreshInv'
      BY <1>0, <3>1, RelayAssumption DEF FreshInv
    <3> QED
      BY <3>2, <3>3
  <2> QED
    BY <2>1, <2>2
<1>2. CASE SendHello
  <2>1. /\ pc = "opened" /\ pc' = "handshake" /\ first = "none"
        /\ UNCHANGED <<first, inbox, received, link, down, answering>>
    BY <1>2 DEF SendHello, Daemon!SendHello, HandshakeInv
  <2>2. up' = [up EXCEPT ![link] = Append(@, "hello")]
    BY <1>2 DEF SendHello
  <2>3. HandshakeInv'
    BY <1>0, <2>1 DEF HandshakeInv
  <2>4. \A s \in Sockets : ws[s] = "NEW" => up'[s] = up[s]
    BY <2>2 DEF FreshInv, QueueTypes
  <2>5. FreshInv'
    BY <1>0, <2>1, <2>4 DEF FreshInv
  <2> QED
    BY <2>3, <2>5
<1>3. CASE StartServing
  <2>1. first # "none" /\ pc' = "serve" /\ UNCHANGED <<first, link, up, down>>
    BY <1>3 DEF StartServing, Daemon!StartServing, HandshakeInv
  <2>2. \A s \in Sockets, i \in Calls :
          <<s, i>> \in answering' => <<s, i>> \in answering \/ s = link
    BY <1>3 DEF StartServing, Dispatches
  <2>3. HandshakeInv'
    BY <1>0, <2>1, <2>2 DEF HandshakeInv
  <2>4. FreshInv'
    BY <1>0, <2>1 DEF FreshInv
  <2> QED
    BY <2>3, <2>4
<1> QED
  BY <1>1, <1>2, <1>3

\* The frame that ReadFrame delivers: the welcome that recv() waits for, or a
\* request after it.
LEMMA ReadFrameDelivers ==
  ASSUME QueueTypes, HandshakeInv, StreamInv, ReadFrame
  PROVE  /\ link \in Sockets /\ link # NoSocket
         /\ down[link] \in Seq(DownFrames) /\ down[link] # <<>>
         /\ down' = [down EXCEPT ![link] = Tail(@)]
         /\ Daemon!Deliver(Head(down[link]))
         /\ \/ /\ first = "none" /\ pc = "handshake" /\ Head(down[link]) \in Daemon!Welcomes
               /\ first' = Head(down[link]) /\ UNCHANGED <<inbox, dispatched>>
            \/ first \in Daemon!Welcomes /\ first' = first /\ Head(down[link]) \in Calls
<1>1. /\ link \in Sockets /\ link # NoSocket
      /\ down[link] \in Seq(DownFrames) /\ down[link] # <<>>
      /\ down' = [down EXCEPT ![link] = Tail(@)]
      /\ Daemon!Deliver(Head(down[link]))
  BY DEF ReadFrame, QueueTypes
<1>2. Head(down[link]) = down[link][1] /\ 1 \in 1..Len(down[link]) /\ welcomed[link]
  BY <1>1, TailHolds DEF StreamInv
<1>3. CASE first = "none"
  <2>1. Head(down[link]) \in Daemon!Welcomes /\ pc \notin {"dial", "opened", "persist", "serve"}
    BY <1>1, <1>2, <1>3 DEF StreamInv, HandshakeInv
  <2>2. pc = "handshake" /\ first' = Head(down[link]) /\ UNCHANGED <<inbox, dispatched>>
    BY <1>1, <1>3, <2>1 DEF Daemon!Deliver, Daemon!Buffering
  <2> QED
    BY <1>1, <1>3, <2>1, <2>2
<1>4. CASE first # "none"
  <2>1. first \in Daemon!Welcomes /\ first' = first
    BY <1>1, <1>4 DEF HandshakeInv, Daemon!Deliver
  <2>2. Head(down[link]) \in Calls
    BY <1>1, <1>2, <1>4 DEF StreamInv
  <2> QED
    BY <1>1, <2>1, <2>2
<1> QED
  BY <1>3, <1>4

LEMMA ReadFrameKeepsHandshake ==
  ASSUME TypeOK, QueueTypes, HandshakeInv, FreshInv, StreamInv, ReadFrame
  PROVE  HandshakeInv' /\ FreshInv'
<1>1. UNCHANGED <<ws, welcomed, pc, link, up>>
  BY DEF ReadFrame, Daemon!Deliver, vars, socketVars
<1>2. link \in Sockets /\ down[link] # <<>> /\ down' = [down EXCEPT ![link] = Tail(@)]
  BY ReadFrameDelivers
<1>3. FreshInv'
  BY <1>1, <1>2 DEF FreshInv, QueueTypes
<1>4. welcomed[link] /\ pc \notin {"dial", "opened"}
  BY <1>2, RelayAssumption DEF StreamInv, HandshakeInv
<1>5. first' \in Daemon!Welcomes /\ first' # "none"
  BY ReadFrameDelivers DEF Daemon!Welcomes
<1>6. \A s \in Sockets, i \in Calls : <<s, i>> \in answering' => <<s, i>> \in answering \/ s = link
  BY DEF ReadFrame, Dispatches
<1>7. HandshakeInv'
  BY <1>1, <1>2, <1>4, <1>5, <1>6, RelayAssumption DEF HandshakeInv
<1> QED
  BY <1>3, <1>7

\* A request is written to the open connection of the registry, or nowhere.
LEMMA RequestWritten ==
  ASSUME TypeOK, QueueTypes, NEW i \in Calls, WriteRequest(i)
  PROVE  \E t \in Sockets \cup {NoSocket} :
           /\ t # NoSocket => t = clients[Uuid] /\ ws[t] = "OPEN"
           /\ deliveredOn' = [deliveredOn EXCEPT ![i] = t]
           /\ \A s \in Sockets : down'[s] = IF s = t THEN Append(down[s], i) ELSE down[s]
<1> DEFINE t == WrittenTo(Uuid)
<1>1. clients[Uuid] \in Sockets \cup {NoSocket}
  BY SystemAssumption DEF TypeOK
<1>2. t \in Sockets \cup {NoSocket} /\ (t # NoSocket => t = clients[Uuid] /\ ws[t] = "OPEN")
  BY <1>1 DEF WrittenTo
<1>3. deliveredOn' = [deliveredOn EXCEPT ![i] = t] /\ deliveredOn'[i] = t
  BY DEF WriteRequest, Forward, TypeOK
<1>4. \A s \in Sockets : down'[s] = IF s = t THEN Append(down[s], i) ELSE down[s]
  BY <1>3 DEF WriteRequest
<1> QED
  BY <1>2, <1>3, <1>4

\* Steps at the broker's end, and the answers.
LEMMA BrokerKeepsHandshake ==
  ASSUME TypeOK, QueueTypes, HandshakeInv, FreshInv,
         \/ \E s \in Sockets : BrokerAccepts(s) \/ ReadHello(s) \/ ReadResponse(s)
         \/ \E i \in Calls : WriteRequest(i)
         \/ \E s \in Sockets, i \in Calls : Answer(s, i) \/ NoAnswer(s, i)
  PROVE  HandshakeInv' /\ FreshInv'
<1> USE DEF localVars, frameVars, daemonVars
<1>1. ASSUME NEW s \in Sockets, BrokerAccepts(s) PROVE HandshakeInv' /\ FreshInv'
  <2>1. /\ ws[s] = "NEW" /\ ws' = [ws EXCEPT ![s] = "OPEN"] /\ link' = s /\ link = NoSocket
        /\ UNCHANGED <<welcomed, pc, first, inbox, received, up, down, answering>>
    BY <1>1 DEF BrokerAccepts, Connect
  <2>2. up[s] = <<>> /\ ~welcomed[s]
    BY <2>1 DEF FreshInv
  <2>3. HandshakeInv'
    BY <2>1, <2>2 DEF HandshakeInv
  <2>4. FreshInv'
    BY <2>1 DEF FreshInv, TypeOK
  <2> QED
    BY <2>3, <2>4
<1>2. ASSUME NEW s \in Sockets, ReadHello(s) PROVE HandshakeInv' /\ FreshInv'
  <2>1. /\ up' = [up EXCEPT ![s] = Tail(@)] /\ up[s] # <<>>
        /\ UNCHANGED <<pc, first, inbox, received, link, answering>>
    BY <1>2 DEF ReadHello
  <2>2. \A t \in Sockets : t # s => up'[t] = up[t] /\ down'[t] = down[t]
    BY <1>2, <2>1 DEF ReadHello, QueueTypes
  <2>3. HandshakeInv'
    <3>1. pc \in {"dial", "opened"} /\ link # NoSocket =>
            link # s /\ up'[link] = <<>> /\ ~welcomed'[link]
      BY <1>2, <2>1, <2>2, ReadHelloWelcomes DEF HandshakeInv, QueueTypes
    <3>2. link # NoSocket /\ welcomed[link] => welcomed'[link]
      BY <1>2, ReadHelloWelcomes DEF QueueTypes
    <3> QED
      BY <1>2, <2>1, <3>1, <3>2, ReadHelloWelcomes DEF HandshakeInv
  <2>4. FreshInv'
    BY <1>2, <2>1, <2>2, ReadHelloWelcomes DEF FreshInv
  <2> QED
    BY <2>3, <2>4
<1>3. ASSUME NEW s \in Sockets, ReadResponse(s) PROVE HandshakeInv' /\ FreshInv'
  <2>1. /\ up' = [up EXCEPT ![s] = Tail(@)] /\ up[s] # <<>>
        /\ UNCHANGED <<pc, first, inbox, received, link, down, answering>>
    BY <1>3 DEF ReadResponse
  <2>2. UNCHANGED welcomed /\ \A t \in Sockets : ws'[t] = "NEW" => ws[t] = "NEW"
    BY <1>3 DEF ReadResponse, RecvResponse, RecvBadHello, Delivers, Shut, vars, socketVars, TypeOK
  <2>3. \A t \in Sockets : up[t] = <<>> => up'[t] = <<>>
    BY <2>1 DEF QueueTypes
  <2>4. HandshakeInv'
    BY <2>1, <2>2, <2>3 DEF HandshakeInv, QueueTypes
  <2>5. FreshInv'
    BY <2>1, <2>2, <2>3 DEF FreshInv
  <2> QED
    BY <2>4, <2>5
<1>4. ASSUME NEW i \in Calls, WriteRequest(i) PROVE HandshakeInv' /\ FreshInv'
  <2>1. UNCHANGED <<ws, welcomed, pc, first, inbox, received, link, up, answering>>
    BY <1>4 DEF WriteRequest, Forward, socketVars
  <2>2. \A s \in Sockets : ws[s] = "NEW" => down'[s] = down[s]
    BY <1>4, RequestWritten, RelayAssumption
  <2> QED
    BY <2>1, <2>2 DEF HandshakeInv, FreshInv
<1>5. ASSUME NEW s \in Sockets, NEW i \in Calls, Answer(s, i) \/ NoAnswer(s, i)
      PROVE  HandshakeInv' /\ FreshInv'
  <2>1. /\ <<s, i>> \in answering /\ answering' = answering \ {<<s, i>>}
        /\ UNCHANGED <<ws, welcomed, pc, first, inbox, received, link, down>>
    BY <1>5 DEF Answer, NoAnswer, vars, socketVars
  <2>2. welcomed[s] /\ ws[s] # "NEW"
    BY <2>1 DEF HandshakeInv, FreshInv
  <2>3. \A t \in Sockets : t # s => up'[t] = up[t]
    BY <1>5 DEF Answer, NoAnswer, QueueTypes
  <2>4. pc \in {"dial", "opened"} => link # s
    BY <2>2, RelayAssumption DEF HandshakeInv
  <2>5. HandshakeInv'
    BY <2>1, <2>3, <2>4 DEF HandshakeInv, QueueTypes
  <2>6. FreshInv'
    BY <2>1, <2>2, <2>3 DEF FreshInv
  <2> QED
    BY <2>5, <2>6
<1> QED
  BY <1>1, <1>2, <1>3, <1>4, <1>5

-----------------------------------------------------------------------------
(* What is on its way to the daemon *)

\* Of what RelayServerProofs proves: the open connection that was welcomed is
\* the one requests are routed to, and the other way round.
LEMMA RoutedIsWelcomed ==
  ASSUME IInv
  PROVE  /\ \A s \in Sockets : welcomed[s] /\ ws[s] = "OPEN" =>
              clients[Uuid] = s /\ registeredUuid[s] # NoUuid
         /\ clients[Uuid] # NoSocket /\ ws[clients[Uuid]] = "OPEN" => welcomed[clients[Uuid]]
<1>0. Uuids = {Uuid} /\ NoUuid # Uuid /\ NoSocket \notin Sockets
  BY SystemAssumption, RelayAssumption
<1>1. ASSUME NEW s \in Sockets, welcomed[s], ws[s] = "OPEN"
      PROVE  clients[Uuid] = s /\ registeredUuid[s] # NoUuid
  <2>1. peer[s] = Uuid
    BY <1>0, <1>1 DEF IInv, SocketInv, WelcomeMatchesRegistration
  <2>2. clients[Uuid] = s
    BY <1>1, <2>1 DEF IInv, SocketInv, WelcomedIsRouted
  <2>3. registeredUuid[s] = Uuid
    BY <1>0, <2>2 DEF IInv, SocketInv, RegistryBacked
  <2> QED
    BY <1>0, <2>2, <2>3
<1>2. ASSUME clients[Uuid] # NoSocket, ws[clients[Uuid]] = "OPEN"
      PROVE  welcomed[clients[Uuid]]
  <2>1. clients[Uuid] \in Sockets /\ registeredUuid[clients[Uuid]] = Uuid
    BY <1>0, <1>2 DEF IInv, TypeOK, SocketInv, RegistryBacked
  <2> QED
    BY <1>0, <1>2, <2>1 DEF IInv, SocketInv, WelcomeMatchesRegistration
<1> QED
  BY <1>1, <1>2

\* Steps that write nothing to the daemon and read nothing there.
LEMMA StreamFrame ==
  ASSUME StreamInv, UNCHANGED <<down, first, link, welcomed>>
  PROVE  StreamInv'
BY DEF StreamInv

LEMMA NextStreamInv ==
  ASSUME IInv, QueueTypes, HandshakeInv, FreshInv, StreamInv, [SystemNext]_systemVars
  PROVE  StreamInv'
<1> USE DEF localVars, frameVars
<1>0. TypeOK
  BY DEF IInv
<1>1. CASE QuietStep
  BY <1>1, StreamFrame DEF QuietStep, BrokerQuiet, DaemonQuiet
<1>2. ASSUME NEW s \in Sockets, BrokerAccepts(s) PROVE StreamInv'
  <2>1. /\ ws[s] = "NEW" /\ link' = s /\ link = NoSocket
        /\ UNCHANGED <<welcomed, first, down>>
    BY <1>2 DEF BrokerAccepts, Connect, daemonVars
  <2>2. down[s] = <<>> /\ ~welcomed[s] /\ first = "none"
    BY <2>1 DEF FreshInv, HandshakeInv
  <2>3. 1..Len(down[s]) = {}
    BY <2>2, EmptySeq
  <2> QED
    BY <2>1, <2>2, <2>3 DEF StreamInv
<1>3. CASE DaemonRedials
  <2>1. UNCHANGED <<welcomed, down>> /\ (link' = NoSocket \/ UNCHANGED <<link, first>>)
    BY <1>3 DEF DaemonRedials, Daemon!NextAttempt, Daemon!socketVars, vars, socketVars
  <2> QED
    BY <2>1 DEF StreamInv
<1>4. CASE SendHello \/ StartServing
  BY <1>4, StreamFrame
     DEF SendHello, Daemon!SendHello, StartServing, Daemon!StartServing, HandshakeInv, vars,
         socketVars
<1>5. ASSUME NEW s \in Sockets, ReadHello(s) PROVE StreamInv'
  <2>1. UNCHANGED <<link, first>> /\ up[s] # <<>> /\ registeredUuid[s] = NoUuid
    BY <1>5 DEF ReadHello, RecvHello, Register, daemonVars
  <2>2. \A t \in Sockets : t # s => down'[t] = down[t] /\ welcomed'[t] = welcomed[t]
    BY <1>0, <1>5, ReadHelloWelcomes DEF ReadHello, QueueTypes
  <2>3. CASE ws[s] = "OPEN"
    <3>0. ~welcomed[s]
      BY <2>1, <2>3, RoutedIsWelcomed
    <3>1. ~welcomed[s] /\ down[s] = <<>> /\ welcomed'[s]
      <4>1. welcomed'[s]
        BY <1>0, <1>5, <2>3, ReadHelloWelcomes DEF TypeOK
      <4> QED
        BY <3>0, <4>1 DEF StreamInv
    <3>2. PICK f \in Daemon!Welcomes : down' = [down EXCEPT ![s] = Append(@, f)]
      BY <1>5, <2>3 DEF ReadHello
    <3>3. down'[s] = <<f>>
      BY <3>1, <3>2 DEF QueueTypes
    <3>4. /\ down'[s] # <<>> /\ Head(down'[s]) \in Daemon!Welcomes
          /\ \A n \in 1..Len(down'[s]) : ~(n > 1)
      BY <3>3
    <3>5. link = s => first = "none"
      BY <3>1 DEF HandshakeInv
    <3> QED
      BY <2>1, <2>2, <3>1, <3>4, <3>5 DEF StreamInv, QueueTypes
  <2>4. CASE ws[s] # "OPEN"
    <3>1. UNCHANGED down /\ (welcomed'[s] <=> welcomed[s])
      BY <1>0, <1>5, <2>4, ReadHelloWelcomes DEF ReadHello, TypeOK
    <3> QED
      BY <2>1, <2>2, <3>1 DEF StreamInv, QueueTypes
  <2> QED
    BY <2>3, <2>4
<1>6. ASSUME NEW i \in Calls, WriteRequest(i) PROVE StreamInv'
  <2>1. UNCHANGED <<link, first, welcomed>>
    BY <1>6 DEF WriteRequest, Forward, daemonVars, socketVars
  <2>2. PICK t \in Sockets \cup {NoSocket} :
          /\ t # NoSocket => t = clients[Uuid] /\ ws[t] = "OPEN"
          /\ \A s \in Sockets : down'[s] = IF s = t THEN Append(down[s], i) ELSE down[s]
    BY <1>0, <1>6, RequestWritten
  <2>3. t # NoSocket => welcomed[t]
    BY <2>2, RoutedIsWelcomed
  <2>4. \A s \in Sockets : ~welcomed'[s] => down'[s] = <<>>
    BY <2>1, <2>2, <2>3, RelayAssumption DEF StreamInv
  <2>5. ASSUME link # NoSocket, link = t
        PROVE  /\ first = "none" => down'[link] # <<>> /\ Head(down'[link]) \in Daemon!Welcomes
               /\ \A n \in 1..Len(down'[link]) : n > 1 \/ first # "none" => down'[link][n] \in Calls
    <3>1. /\ link \in Sockets /\ down[link] \in Seq(DownFrames) /\ i \in DownFrames
          /\ down'[link] = Append(down[link], i)
      BY <2>2, <2>5 DEF QueueTypes, DownFrames
    <3>2. /\ Len(down'[link]) = Len(down[link]) + 1 /\ Len(down[link]) \in Nat
          /\ \A n \in 1..Len(down[link]) : down'[link][n] = down[link][n]
          /\ down'[link][Len(down[link]) + 1] = i
      BY <3>1, AppendProperties, LenProperties
    <3>3. down'[link] # <<>>
          /\ (down[link] # <<>> => Head(down'[link]) = Head(down[link]))
      BY <3>1, HeadTailAppend, AppendProperties
    <3>4. \A n \in 1..Len(down'[link]) : n > 1 \/ first # "none" => down'[link][n] \in Calls
      BY <2>5, <3>2 DEF StreamInv
    <3> QED
      BY <2>3, <2>5, <3>3, <3>4 DEF StreamInv
  <2>6. CASE link # NoSocket /\ link # t
    <3>1. down'[link] = down[link]
      BY <2>2, <2>6 DEF QueueTypes
    <3> QED
      BY <2>1, <2>4, <2>6, <3>1 DEF StreamInv
  <2> QED
    BY <2>1, <2>3, <2>4, <2>5, <2>6 DEF StreamInv
<1>7. CASE ReadFrame
  <2>1. /\ link \in Sockets /\ link # NoSocket /\ down[link] \in Seq(DownFrames)
        /\ down[link] # <<>> /\ down' = [down EXCEPT ![link] = Tail(@)]
        /\ first' \in Daemon!Welcomes /\ first' # "none"
    BY <1>7, ReadFrameDelivers DEF Daemon!Welcomes
  <2>2. UNCHANGED <<link, welcomed>>
    BY <1>7 DEF ReadFrame, vars, socketVars
  <2>3. welcomed[link]
    BY <2>1 DEF StreamInv
  <2>4. \A n \in 1..Len(Tail(down[link])) : Tail(down[link])[n] \in Calls
    BY <2>1, TailHolds DEF StreamInv
  <2>5. down'[link] = Tail(down[link]) /\ \A s \in Sockets : s # link => down'[s] = down[s]
    BY <2>1 DEF QueueTypes
  <2> QED
    BY <2>1, <2>2, <2>3, <2>4, <2>5 DEF StreamInv
<1>8. ASSUME NEW s \in Sockets, ReadResponse(s) PROVE StreamInv'
  BY <1>8, StreamFrame
     DEF ReadResponse, RecvResponse, RecvBadHello, vars, socketVars, daemonVars
<1>9. ASSUME NEW s \in Sockets, NEW i \in Calls, Answer(s, i) \/ NoAnswer(s, i)
      PROVE  StreamInv'
  BY <1>9, StreamFrame DEF Answer, NoAnswer, vars, socketVars, daemonVars
<1> QED
  BY <1>0, <1>1, <1>2, <1>3, <1>4, <1>5, <1>6, <1>7, <1>8, <1>9, StepsSplit DEF MovesFrames

-----------------------------------------------------------------------------
(* Where a call is *)

\* The names of the other frames are not those of calls.
LEMMA CallsAreCalls ==
  \A i \in Calls : i \notin Daemon!Welcomes /\ i # "hello"
BY SystemAssumption DEF Daemon!Welcomes

LEMMA InitOnce == SystemInit => OnceInv /\ AnswerInv
<1> SUFFICES ASSUME SystemInit PROVE OnceInv /\ AnswerInv
  OBVIOUS
<1>1. OnceInv
  BY EmptyHolds DEF SystemInit, Daemon!Init, OnceInv
<1>2. AnswerInv
  BY EmptyHolds DEF SystemInit, Init, AnswerInv
<1> QED
  BY <1>1, <1>2

LEMMA QuietKeepsOnce ==
  ASSUME QuietStep, OnceInv, AnswerInv
  PROVE  OnceInv' /\ AnswerInv'
<1> USE DEF QuietStep, BrokerQuiet, DaemonQuiet, frameVars, localVars
<1>1. OnceInv'
  BY DEF OnceInv
<1>2. AnswerInv'
  BY DEF AnswerInv
<1> QED
  BY <1>1, <1>2

\* What Dispatches does to the counts.
LEMMA DispatchCounts ==
  ASSUME QueueTypes, Dispatches
  PROVE  /\ \A i \in Calls :
              handled'[i] = IF i \in Gained(dispatched, dispatched') THEN handled[i] + 1
                            ELSE handled[i]
         /\ \A s \in Sockets, i \in Calls : <<s, i>> \in answering' =>
              <<s, i>> \in answering \/ i \in Gained(dispatched, dispatched')
         /\ answered' = answered
BY DEF Dispatches, Gained, QueueTypes

LEMMA AcceptKeepsOnce ==
  ASSUME FreshInv, OnceInv, AnswerInv, NEW s \in Sockets, BrokerAccepts(s)
  PROVE  OnceInv' /\ AnswerInv'
<1>1. /\ ws[s] = "NEW" /\ link' = s
      /\ UNCHANGED <<deliveredOn, outcome, inbox, received, down, up, answering, handled, answered>>
  BY DEF BrokerAccepts, Connect, daemonVars, frameVars, localVars, pendingVars
<1>2. \A i : ~Holds(down[s], i)
  BY <1>1, EmptyHolds DEF FreshInv
<1>3. OnceInv'
  BY <1>1, <1>2 DEF OnceInv
<1>4. AnswerInv'
  BY <1>1 DEF AnswerInv
<1> QED
  BY <1>3, <1>4

LEMMA RedialKeepsOnce ==
  ASSUME OnceInv, AnswerInv, DaemonRedials
  PROVE  OnceInv' /\ AnswerInv'
<1>1. UNCHANGED <<deliveredOn, outcome, down, up, answering, handled, answered>>
  BY DEF DaemonRedials, vars, pendingVars, frameVars, localVars
<1>2. \/ UNCHANGED <<link, inbox, received>>
      \/ link' = NoSocket /\ inbox' = <<>> /\ received' = <<>>
  BY DEF DaemonRedials, Daemon!NextAttempt, Daemon!NewSocket, Daemon!socketVars
<1>3. OnceInv'
  BY <1>1, <1>2, EmptyHolds, RelayAssumption DEF OnceInv
<1>4. AnswerInv'
  BY <1>1 DEF AnswerInv
<1> QED
  BY <1>3, <1>4

LEMMA SendHelloKeepsOnce ==
  ASSUME QueueTypes, HandshakeInv, OnceInv, AnswerInv, SendHello
  PROVE  OnceInv' /\ AnswerInv'
<1>1. UNCHANGED <<deliveredOn, outcome, inbox, received, link, down, answering, handled, answered>>
  BY DEF SendHello, Daemon!SendHello, HandshakeInv, vars, pendingVars, localVars
<1>2. OnceInv'
  BY <1>1 DEF OnceInv
<1>3. \A s \in Sockets, i \in Calls : Holds(up'[s], i) => Holds(up[s], i)
  <2> SUFFICES ASSUME NEW s \in Sockets, NEW i \in Calls, Holds(up'[s], i) PROVE Holds(up[s], i)
    OBVIOUS
  <2>1. up'[s] = up[s] \/ up'[s] = Append(up[s], "hello")
    BY DEF SendHello, QueueTypes
  <2>2. up[s] \in Seq(UpFrames) /\ "hello" \in UpFrames
    BY DEF QueueTypes, UpFrames
  <2> QED
    BY <2>1, <2>2, AppendHolds, CallsAreCalls
<1>4. AnswerInv'
  BY <1>1, <1>3 DEF AnswerInv
<1> QED
  BY <1>2, <1>4

LEMMA StartServingKeepsOnce ==
  ASSUME QueueTypes, OnceInv, AnswerInv, StartServing
  PROVE  OnceInv' /\ AnswerInv'
<1>1. UNCHANGED <<deliveredOn, outcome, received, link, down, up>> /\ inbox' = <<>>
  BY DEF StartServing, Daemon!StartServing, vars, pendingVars, frameVars
<1>2. \A i : i \in Gained(dispatched, dispatched') <=> Holds(inbox, i)
  BY ConcatGains DEF StartServing, Daemon!StartServing, QueueTypes
<1>3. /\ \A i \in Calls : handled'[i] = IF Holds(inbox, i) THEN handled[i] + 1 ELSE handled[i]
      /\ \A s \in Sockets, i \in Calls : <<s, i>> \in answering' =>
           <<s, i>> \in answering \/ Holds(inbox, i)
      /\ answered' = answered
  BY <1>2, DispatchCounts DEF StartServing
<1>4. OnceInv'
  BY <1>1, <1>3, EmptyHolds DEF OnceInv
<1>5. \A i \in Calls : Holds(inbox, i) => handled[i] = 0
  BY DEF OnceInv
<1>6. AnswerInv'
  BY <1>1, <1>3, <1>5 DEF AnswerInv
<1> QED
  BY <1>4, <1>6

LEMMA ReadHelloKeepsOnce ==
  ASSUME IInv, QueueTypes, StreamInv, OnceInv, AnswerInv, NEW s \in Sockets, ReadHello(s)
  PROVE  OnceInv' /\ AnswerInv'
<1>0. TypeOK
  BY DEF IInv
<1>1. /\ UNCHANGED <<deliveredOn, outcome, inbox, received, link, answering, handled, answered>>
      /\ up[s] # <<>> /\ registeredUuid[s] = NoUuid
  BY DEF ReadHello, RecvHello, Register, pendingVars, localVars, daemonVars
<1>2. \A t \in Sockets, i \in Calls : Holds(up'[t], i) => Holds(up[t], i)
  <2> SUFFICES ASSUME NEW t \in Sockets, NEW i \in Calls, Holds(up'[t], i) PROVE Holds(up[t], i)
    OBVIOUS
  <2>0. up' = [up EXCEPT ![s] = Tail(@)] /\ up \in [Sockets -> Seq(UpFrames)]
    BY DEF ReadHello, QueueTypes
  <2>1. up'[t] = up[t] \/ (t = s /\ up'[t] = Tail(up[t]))
    BY <2>0
  <2>2. up[t] \in Seq(UpFrames)
    BY DEF QueueTypes
  <2> QED
    BY <1>1, <2>1, <2>2, TailHolds
<1>3. AnswerInv'
  BY <1>1, <1>2 DEF AnswerInv
<1>4. ASSUME NEW t \in Sockets
      PROVE  NoRepeat(down'[t]) /\ \A i \in Calls : Holds(down'[t], i) => Holds(down[t], i)
  <2>1. CASE down'[t] = down[t]
    BY <2>1 DEF OnceInv
  <2>2. CASE down'[t] # down[t]
    <3>1. t = s /\ ws[s] = "OPEN"
      BY <2>2 DEF ReadHello, QueueTypes
    <3>2. down[s] = <<>>
      BY <1>1, <3>1, RoutedIsWelcomed DEF StreamInv
    <3>3. PICK f \in Daemon!Welcomes : down' = [down EXCEPT ![s] = Append(@, f)]
      BY <3>1 DEF ReadHello
    <3>4. down'[t] = Append(<<>>, f) /\ f \in DownFrames /\ <<>> \in Seq(DownFrames)
      BY <3>1, <3>2, <3>3 DEF QueueTypes, DownFrames
    <3>5. /\ \A e : Holds(Append(<<>>, f), e) <=> Holds(<<>>, e) \/ e = f
          /\ NoRepeat(<<>>) /\ ~Holds(<<>>, f) => NoRepeat(Append(<<>>, f))
      BY <3>4, AppendHolds
    <3>6. NoRepeat(down'[t]) /\ \A e : Holds(down'[t], e) => e = f
      BY <3>4, <3>5, EmptyHolds
    <3> QED
      BY <3>6, CallsAreCalls
  <2> QED
    BY <2>1, <2>2
<1>5. OnceInv'
  BY <1>1, <1>4 DEF OnceInv
<1> QED
  BY <1>3, <1>5

LEMMA WriteRequestKeepsOnce ==
  ASSUME TypeOK, QueueTypes, OnceInv, AnswerInv, NEW i \in Calls, WriteRequest(i)
  PROVE  OnceInv' /\ AnswerInv'
<1>1. /\ outcome[i] = "idle" /\ outcome' = [outcome EXCEPT ![i] = "waiting"]
      /\ UNCHANGED <<inbox, received, link, up, answering, handled, answered>>
  BY DEF WriteRequest, Forward, daemonVars, localVars
<1>2. PICK t \in Sockets \cup {NoSocket} :
        /\ deliveredOn' = [deliveredOn EXCEPT ![i] = t]
        /\ \A s \in Sockets : down'[s] = IF s = t THEN Append(down[s], i) ELSE down[s]
  BY RequestWritten
<1>3. /\ handled[i] = 0 /\ ~Holds(inbox, i) /\ ~Holds(received, i)
      /\ \A s \in Sockets : ~Holds(down[s], i)
  BY <1>1 DEF OnceInv
<1>4. ASSUME NEW s \in Sockets
      PROVE  /\ NoRepeat(down'[s])
             /\ \A j : Holds(down'[s], j) => Holds(down[s], j) \/ (j = i /\ s = t)
  <2>1. down[s] \in Seq(DownFrames) /\ i \in DownFrames /\ NoRepeat(down[s])
    BY DEF QueueTypes, DownFrames, OnceInv
  <2> QED
    BY <1>2, <1>3, <2>1, AppendHolds
<1>5. \A j \in Calls : j # i => deliveredOn'[j] = deliveredOn[j] /\ outcome'[j] = outcome[j]
  BY <1>1, <1>2 DEF TypeOK
<1>6. deliveredOn'[i] = t /\ outcome'[i] = "waiting"
  BY <1>1, <1>2 DEF TypeOK
<1>7. OnceInv'
  BY <1>1, <1>3, <1>4, <1>5, <1>6 DEF OnceInv
<1>8. AnswerInv'
  BY <1>1, <1>5, <1>6 DEF AnswerInv
<1> QED
  BY <1>7, <1>8

\* A request is buffered or dispatched, and no longer on its way.
LEMMA ReadFrameKeepsOnce ==
  ASSUME QueueTypes, HandshakeInv, StreamInv, OnceInv, AnswerInv, ReadFrame
  PROVE  OnceInv' /\ AnswerInv'
<1> DEFINE f == Head(down[link])
<1>1. /\ link \in Sockets /\ down[link] \in Seq(DownFrames) /\ down[link] # <<>>
      /\ down' = [down EXCEPT ![link] = Tail(@)] /\ Daemon!Deliver(f) /\ f \in DownFrames
  BY ReadFrameDelivers, TailHolds
<1>2. UNCHANGED <<deliveredOn, outcome, link, up>> /\ received' = Append(received, f)
  BY DEF ReadFrame, Daemon!Deliver, vars, pendingVars
<1>3. /\ NoRepeat(down'[link]) /\ ~Holds(down'[link], f) /\ Holds(down[link], f)
      /\ \A e : Holds(down'[link], e) => Holds(down[link], e)
      /\ \A s \in Sockets : s # link => down'[s] = down[s]
  BY <1>1, TailHolds DEF QueueTypes, OnceInv
<1>4. \A e : Holds(received', e) <=> Holds(received, e) \/ e = f
  BY <1>1, <1>2, AppendHolds DEF QueueTypes
<1>5. CASE f \notin Calls \/ first = "none"
  <2>1. UNCHANGED <<inbox, dispatched>> /\ f \notin Calls
    BY <1>5, ReadFrameDelivers, CallsAreCalls DEF Daemon!Welcomes
  <2>2. \A e : e \notin Gained(dispatched, dispatched')
    BY <2>1, NothingGained DEF QueueTypes
  <2>3. /\ \A i \in Calls : handled'[i] = handled[i]
        /\ \A s \in Sockets, i \in Calls : <<s, i>> \in answering' => <<s, i>> \in answering
        /\ answered' = answered
    BY <2>2, DispatchCounts DEF ReadFrame
  <2>4. OnceInv'
    BY <1>2, <1>3, <1>4, <2>1, <2>3 DEF OnceInv
  <2>5. AnswerInv'
    BY <1>2, <2>3 DEF AnswerInv
  <2> QED
    BY <2>4, <2>5
<1>6. CASE f \in Calls /\ first # "none"
  <2>1. /\ deliveredOn[f] = link /\ handled[f] = 0 /\ ~Holds(inbox, f) /\ outcome[f] # "idle"
        /\ \A s \in Sockets : ~Holds(down'[s], f)
    BY <1>1, <1>3, <1>6 DEF OnceInv
  <2>2. CASE inbox' = Append(inbox, f) /\ UNCHANGED dispatched
    <3>1. \A e : e \notin Gained(dispatched, dispatched')
      BY <2>2, NothingGained DEF QueueTypes
    <3>2. /\ \A i \in Calls : handled'[i] = handled[i]
          /\ \A s \in Sockets, i \in Calls : <<s, i>> \in answering' => <<s, i>> \in answering
          /\ answered' = answered
      BY <3>1, DispatchCounts DEF ReadFrame
    <3>3. \A e : Holds(inbox', e) <=> Holds(inbox, e) \/ e = f
      BY <1>1, <2>2, AppendHolds DEF QueueTypes
    <3>4. OnceInv'
      BY <1>2, <1>3, <1>4, <2>1, <3>2, <3>3 DEF OnceInv
    <3>5. AnswerInv'
      BY <1>2, <3>2 DEF AnswerInv
    <3> QED
      BY <3>4, <3>5
  <2>3. CASE dispatched' = Append(dispatched, f) /\ UNCHANGED inbox
    <3>1. \A e : e \in Gained(dispatched, dispatched') <=> e = f
      BY <1>1, <2>3, AppendGains DEF QueueTypes
    <3>2. /\ \A i \in Calls : handled'[i] = IF i = f THEN handled[i] + 1 ELSE handled[i]
          /\ \A s \in Sockets, i \in Calls : <<s, i>> \in answering' =>
               <<s, i>> \in answering \/ i = f
          /\ answered' = answered
      BY <3>1, DispatchCounts DEF ReadFrame
    <3>3. OnceInv'
      BY <1>2, <1>3, <1>4, <2>1, <2>3, <3>2 DEF OnceInv
    <3>4. AnswerInv'
      BY <1>2, <2>1, <3>2 DEF AnswerInv
    <3> QED
      BY <3>3, <3>4
  <2>4. \/ inbox' = Append(inbox, f) /\ UNCHANGED dispatched
        \/ dispatched' = Append(dispatched, f) /\ UNCHANGED inbox
    BY <1>1, <1>6 DEF Daemon!Deliver
  <2> QED
    BY <2>2, <2>3, <2>4
<1> QED
  BY <1>5, <1>6

LEMMA AnswerKeepsOnce ==
  ASSUME QueueTypes, OnceInv, AnswerInv, NEW s \in Sockets, NEW i \in Calls,
         Answer(s, i) \/ NoAnswer(s, i)
  PROVE  OnceInv' /\ AnswerInv'
<1>1. /\ <<s, i>> \in answering /\ answering' = answering \ {<<s, i>>}
      /\ UNCHANGED <<deliveredOn, outcome, inbox, received, link, down, handled>>
  BY DEF Answer, NoAnswer, vars, pendingVars, daemonVars, frameVars
<1>2. \/ UNCHANGED <<up, answered>>
      \/ up' = [up EXCEPT ![s] = Append(@, i)] /\ answered' = answered \cup {i}
  BY DEF Answer, NoAnswer, frameVars
<1>3. OnceInv'
  BY <1>1 DEF OnceInv
<1>4. handled[i] = 1
  BY <1>1 DEF AnswerInv
<1>5. \A t \in Sockets, j \in Calls : Holds(up'[t], j) => Holds(up[t], j) \/ j \in answered'
  <2> SUFFICES ASSUME up' = [up EXCEPT ![s] = Append(@, i)], answered' = answered \cup {i},
                      NEW t \in Sockets, NEW j \in Calls, Holds(up'[t], j)
               PROVE  Holds(up[t], j) \/ j = i
    BY <1>2
  <2>1. up'[t] = up[t] \/ up'[t] = Append(up[t], i)
    BY DEF QueueTypes
  <2>2. up[t] \in Seq(UpFrames) /\ i \in UpFrames
    BY DEF QueueTypes, UpFrames
  <2> QED
    BY <2>1, <2>2, AppendHolds
<1>6. answered \subseteq answered' /\ \A j \in answered' : j \in answered \/ j = i
  BY <1>2
<1>7. AnswerInv'
  BY <1>1, <1>4, <1>5, <1>6 DEF AnswerInv
<1> QED
  BY <1>3, <1>7

LEMMA ReadResponseKeepsOnce ==
  ASSUME TypeOK, QueueTypes, OnceInv, AnswerInv, NEW s \in Sockets, ReadResponse(s)
  PROVE  OnceInv' /\ AnswerInv'
<1> DEFINE h == Head(up[s])
<1>1. /\ up[s] # <<>> /\ up' = [up EXCEPT ![s] = Tail(@)] /\ h # "hello"
      /\ UNCHANGED <<inbox, received, link, down, answering, handled, answered>>
  BY DEF ReadResponse, daemonVars, localVars
<1>2. h \in Calls /\ Holds(up[s], h)
  BY <1>1, TailHolds DEF QueueTypes, UpFrames
<1>3. /\ UNCHANGED deliveredOn
      /\ UNCHANGED outcome \/ outcome' = [outcome EXCEPT ![h] = "response"]
  BY DEF ReadResponse, RecvResponse, RecvBadHello, vars, pendingVars
<1>4. \A j \in Calls : /\ outcome'[j] = "idle" => outcome[j] = "idle"
                       /\ outcome'[j] = "response" => outcome[j] = "response" \/ j = h
  BY <1>3 DEF TypeOK
<1>5. h \in answered
  BY <1>2 DEF AnswerInv
<1>6. \A t \in Sockets, j \in Calls : Holds(up'[t], j) => Holds(up[t], j)
  BY <1>1, TailHolds DEF QueueTypes
<1>7. OnceInv'
  BY <1>1, <1>3, <1>4 DEF OnceInv
<1>8. AnswerInv'
  BY <1>1, <1>4, <1>5, <1>6 DEF AnswerInv
<1> QED
  BY <1>7, <1>8

-----------------------------------------------------------------------------
(* The invariant *)

LEMMA InitStream == SystemInit => StreamInv
<1> SUFFICES ASSUME SystemInit PROVE StreamInv
  OBVIOUS
<1> QED
  BY RelayAssumption DEF SystemInit, StreamInv

LEMMA NextHandshake ==
  ASSUME TypeOK, QueueTypes, HandshakeInv, FreshInv, StreamInv, [SystemNext]_systemVars
  PROVE  HandshakeInv' /\ FreshInv'
<1>1. CASE QuietStep
  BY <1>1, QuietKeepsHandshake
<1>2. CASE MovesFrames
  BY <1>2, DaemonKeepsHandshake, ReadFrameKeepsHandshake, BrokerKeepsHandshake DEF MovesFrames
<1> QED
  BY <1>1, <1>2, StepsSplit

LEMMA NextOnce ==
  ASSUME IInv, QueueTypes, HandshakeInv, FreshInv, StreamInv, OnceInv, AnswerInv,
         [SystemNext]_systemVars
  PROVE  OnceInv' /\ AnswerInv'
<1>0. TypeOK
  BY DEF IInv
<1>1. CASE QuietStep
  BY <1>1, QuietKeepsOnce
<1>2. ASSUME NEW s \in Sockets, BrokerAccepts(s) PROVE OnceInv' /\ AnswerInv'
  BY <1>2, AcceptKeepsOnce
<1>3. ASSUME NEW s \in Sockets, ReadHello(s) PROVE OnceInv' /\ AnswerInv'
  BY <1>3, ReadHelloKeepsOnce
<1>4. ASSUME NEW s \in Sockets, ReadResponse(s) PROVE OnceInv' /\ AnswerInv'
  BY <1>0, <1>4, ReadResponseKeepsOnce
<1>5. CASE DaemonRedials
  BY <1>5, RedialKeepsOnce
<1>6. CASE SendHello
  BY <1>6, SendHelloKeepsOnce
<1>7. CASE ReadFrame
  BY <1>7, ReadFrameKeepsOnce
<1>8. CASE StartServing
  BY <1>8, StartServingKeepsOnce
<1>9. ASSUME NEW i \in Calls, WriteRequest(i) PROVE OnceInv' /\ AnswerInv'
  BY <1>0, <1>9, WriteRequestKeepsOnce
<1>10. ASSUME NEW s \in Sockets, NEW i \in Calls, Answer(s, i) \/ NoAnswer(s, i)
       PROVE  OnceInv' /\ AnswerInv'
  BY <1>10, AnswerKeepsOnce
<1> QED
  BY <1>0, <1>1, <1>2, <1>3, <1>4, <1>5, <1>6, <1>7, <1>8, <1>9, <1>10, StepsSplit
     DEF MovesFrames

\* Every step of the system is one of Connection, or leaves it alone: what a
\* broker that is RelayServer sends is what Connection lets a broker send.
LEMMA DaemonSteps ==
  ASSUME QueueTypes, HandshakeInv, StreamInv, OnceInv, [SystemNext]_systemVars
  PROVE  [Daemon!Next]_(Daemon!vars)
<1> USE DEF Daemon!Next
<1>1. CASE ReadFrame
  <2> DEFINE f == Head(down[link])
  <2>1. link \in Sockets /\ down[link] \in Seq(DownFrames) /\ down[link] # <<>> /\ Daemon!Deliver(f)
    BY <1>1, ReadFrameDelivers
  <2>2. CASE first = "none"
    <3>1. pc = "handshake" /\ f \in Daemon!Welcomes /\ inbox = <<>>
      BY <1>1, <2>2, ReadFrameDelivers DEF Daemon!Welcomes, HandshakeInv
    <3> QED
      BY <2>1, <2>2, <3>1 DEF Daemon!BrokerWelcomes
  <2>3. CASE first # "none"
    <3>1. first \in Daemon!Welcomes /\ f \in Calls
      BY <1>1, <2>3, ReadFrameDelivers
    <3>2. Holds(down[link], f)
      BY <2>1, TailHolds
    <3>3. ~Daemon!Contains(received, f)
      BY <2>1, <3>1, <3>2 DEF OnceInv, Holds, Daemon!Contains
    <3>4. Daemon!BrokerRequests(f)
      BY <2>1, <3>1, <3>3 DEF Daemon!BrokerRequests
    <3> QED
      BY <3>1, <3>4
  <2> QED
    BY <2>2, <2>3
<1>2. CASE DaemonOpens \/ DaemonHearsClose \/ DaemonSeesClosed \/ DaemonAlone
  BY <1>2 DEF DaemonOpens, DaemonHearsClose, DaemonSeesClosed, DaemonAlone
<1>3. CASE DaemonRedials \/ SendHello \/ StartServing
  BY <1>3 DEF DaemonRedials, SendHello, StartServing
<1>4. CASE \/ BrokerAlone \/ UNCHANGED systemVars
           \/ \E s \in Sockets : \/ BrokerAccepts(s) \/ BrokerHearsClose(s) \/ ReadHello(s)
                                 \/ ReadResponse(s)
           \/ \E i \in Calls : WriteRequest(i)
           \/ \E s \in Sockets, i \in Calls : Answer(s, i) \/ NoAnswer(s, i)
  <2>1. UNCHANGED daemonVars
    BY <1>4 DEF BrokerAlone, systemVars, BrokerAccepts, BrokerHearsClose, ReadHello,
                ReadResponse, WriteRequest, Answer, NoAnswer
  <2> QED
    BY <2>1 DEF daemonVars, Daemon!vars, Daemon!socketVars
<1> QED
  BY <1>1, <1>2, <1>3, <1>4 DEF SystemNext

\* What the daemon reports: connected only while it serves.
StatusInv ==
  /\ status \in [connected : BOOLEAN, last_error : BOOLEAN, reconnect_attempts : 0..MaxAttempts]
  /\ status.connected => pc = "serve"

LEMMA NextStatusInv ==
  ASSUME StatusInv, [Daemon!Next]_(Daemon!vars)
  PROVE  StatusInv'
<1>0. MaxAttempts \in Nat
  BY SystemAssumption
<1>1. CASE Daemon!AttemptFails
  <2> DEFINE a == status.reconnect_attempts
  <2>1. (IF a < MaxAttempts THEN a + 1 ELSE a) \in 0..MaxAttempts
    BY <1>0 DEF StatusInv
  <2>2. status' = [connected |-> FALSE, last_error |-> TRUE,
                   reconnect_attempts |-> IF a < MaxAttempts THEN a + 1 ELSE a]
    BY <1>1 DEF StatusInv, Daemon!AttemptFails
  <2> QED
    BY <2>1, <2>2 DEF StatusInv
<1>2. CASE \E stable \in BOOLEAN : Daemon!SessionEnds(stable)
  <2>1. status' = [status EXCEPT !.connected = FALSE]
    BY <1>2 DEF Daemon!SessionEnds
  <2> QED
    BY <2>1 DEF StatusInv
<1>3. CASE Daemon!StartServing
  BY <1>3 DEF StatusInv, Daemon!StartServing
<1>4. CASE UNCHANGED status /\ (pc = "serve" => pc' = "serve")
  BY <1>4 DEF StatusInv
<1>5. \/ Daemon!AttemptFails \/ \E stable \in BOOLEAN : Daemon!SessionEnds(stable)
      \/ Daemon!StartServing
      \/ UNCHANGED status /\ (pc = "serve" => pc' = "serve")
  BY DEF Daemon!Next, Daemon!vars, Daemon!NextAttempt, Daemon!DialFails, Daemon!Opened,
         Daemon!SendHello, Daemon!HandshakeRefused, Daemon!HandshakeTimeout,
         Daemon!AwaitPubkey, Daemon!PubkeyRejected, Daemon!ServeFindsClosed,
         Daemon!BrokerWelcomes, Daemon!BrokerRefuses, Daemon!BrokerRequests, Daemon!Deliver,
         Daemon!SocketClosing, Daemon!SocketClosed, Daemon!SocketErrors, Daemon!Abort,
         Daemon!Buffering
<1> QED
  BY <1>1, <1>2, <1>3, <1>4, <1>5

SystemInv ==
  /\ IInv /\ QueueTypes /\ HandshakeInv /\ FreshInv /\ StreamInv
  /\ OnceInv /\ AnswerInv /\ StatusInv

\* The inductive invariant holds in every reachable state.
THEOREM SystemInvHolds == SystemSpec => []SystemInv
<1>1. SystemInit => SystemInv
  <2> SUFFICES ASSUME SystemInit PROVE SystemInv
    OBVIOUS
  <2>1. Init => IdleIsUnsent
    BY DEF Init, IdleIsUnsent
  <2>2. IInv
    BY <2>1, InitTypeOK, InitCallInv, InitSocketInv DEF SystemInit, IInv
  <2>3. StatusInv
    BY SystemAssumption DEF SystemInit, Daemon!Init, StatusInv
  <2> QED
    BY <2>2, <2>3, InitQueueTypes, InitHandshake, InitStream, InitOnce DEF SystemInv
<1>2. SystemInv /\ [SystemNext]_systemVars => SystemInv'
  <2> SUFFICES ASSUME SystemInv, [SystemNext]_systemVars PROVE SystemInv'
    OBVIOUS
  <2> USE DEF SystemInv
  <2>0. TypeOK
    BY DEF IInv
  <2>1. IInv'
    BY BrokerSteps, NextTypeOK, NextCallInv, NextIdleIsUnsent, NextSocketInv DEF IInv
  <2>2. QueueTypes'
    BY <2>0, NextQueueTypes
  <2>3. HandshakeInv' /\ FreshInv'
    BY <2>0, NextHandshake
  <2>4. StreamInv'
    BY NextStreamInv
  <2>5. OnceInv' /\ AnswerInv'
    BY NextOnce
  <2>6. StatusInv'
    BY DaemonSteps, NextStatusInv
  <2> QED
    BY <2>1, <2>2, <2>3, <2>4, <2>5, <2>6
<1> QED
  BY <1>1, <1>2, PTL DEF SystemSpec

-----------------------------------------------------------------------------
(* The theorems *)

\* The broker and the daemon, joined, behave as their own modules say: each is
\* the environment the other one assumes.
THEOREM ComponentsAgree == SystemSpec => ComponentsBehave
<1>1. SystemInit => Init /\ Daemon!Init
  BY DEF SystemInit
<1>2. SystemInv /\ [SystemNext]_systemVars => [Next]_vars /\ [Daemon!Next]_(Daemon!vars)
  BY BrokerSteps, DaemonSteps DEF SystemInv
<1> QED
  BY <1>1, <1>2, SystemInvHolds, PTL DEF SystemSpec, ComponentsBehave, Spec, Daemon!Spec

\* However often the daemon reconnects, a request runs once at most, a caller's
\* response is of that run, and a connected daemon is the one routed to.
THEOREM CallsRunOnce == SystemSpec => []RunsOnceAndRouted
<1>1. SystemInv => RunsOnceAndRouted
  <2> SUFFICES ASSUME SystemInv PROVE RunsOnceAndRouted
    OBVIOUS
  <2> USE DEF SystemInv
  <2>1. \A i \in Calls :
          /\ handled[i] <= 1
          /\ outcome[i] = "response" => i \in answered /\ handled[i] = 1
    BY DEF OnceInv, AnswerInv
  <2>2. ASSUME status.connected, daemonWs = "OPEN", ws[link] = "OPEN"
        PROVE  clients[Uuid] = link
    <3>1. link \in Sockets /\ welcomed[link]
      BY <2>2 DEF StatusInv, HandshakeInv, QueueTypes
    <3> QED
      BY <2>2, <3>1, RoutedIsWelcomed
  <2> QED
    BY <2>1, <2>2 DEF RunsOnceAndRouted
<1> QED
  BY <1>1, SystemInvHolds, PTL

-----------------------------------------------------------------------------
(* The types *)

\* The daemon's own variables that carry no frame.
DaemonTypes ==
  /\ pc \in Daemon!Phases
  /\ aborted \in BOOLEAN
  /\ heardIn \in Daemon!Phases \cup {"never"}
  /\ daemonWs \in {"CONNECTING", "OPEN", "CLOSING", "CLOSED"}
  /\ first \in Daemon!Frames \cup {"none"}
  /\ failure \in BOOLEAN
  /\ cur \in InitialWait..MaxWait

LEMMA WaitsInRange ==
  /\ InitialWait \in InitialWait..MaxWait
  /\ \A w \in InitialWait..MaxWait : Daemon!Double(w) \in InitialWait..MaxWait
BY SystemAssumption DEF Daemon!Double

\* The end of an attempt keeps them.
LEMMA EndingKeepsDaemonTypes ==
  ASSUME DaemonTypes, aborted' \in BOOLEAN, heardIn' \in Daemon!Phases \cup {"never"},
         Daemon!AttemptFails \/ \E stable \in BOOLEAN : Daemon!SessionEnds(stable)
  PROVE  DaemonTypes'
<1>1. pc' = "backoff" /\ daemonWs' = "CLOSED" /\ UNCHANGED <<first, failure>>
  BY DEF Daemon!AttemptFails, Daemon!SessionEnds
<1>2. cur' \in InitialWait..MaxWait
  BY WaitsInRange DEF DaemonTypes, Daemon!AttemptFails, Daemon!SessionEnds
<1> QED
  BY <1>1, <1>2 DEF DaemonTypes, Daemon!Phases

LEMMA NextDaemonTypes ==
  ASSUME QueueTypes, DaemonTypes, [Daemon!Next]_(Daemon!vars)
  PROVE  DaemonTypes'
<1> USE DEF DaemonTypes
<1>1. CASE Daemon!NextAttempt
  BY <1>1 DEF Daemon!NextAttempt, Daemon!NewSocket, Daemon!socketVars, Daemon!Phases
<1>2. CASE \/ Daemon!DialFails \/ Daemon!HandshakeRefused \/ Daemon!HandshakeTimeout
           \/ Daemon!PubkeyRejected
  BY <1>2, EndingKeepsDaemonTypes
     DEF Daemon!DialFails, Daemon!HandshakeRefused, Daemon!HandshakeTimeout,
         Daemon!PubkeyRejected
<1>3. CASE Daemon!Opened \/ Daemon!AwaitPubkey \/ Daemon!StartServing
  BY <1>3 DEF Daemon!Opened, Daemon!AwaitPubkey, Daemon!StartServing, Daemon!socketVars,
              Daemon!Phases
<1>4. CASE Daemon!SendHello
  <2>1. inbox # <<>> => Head(inbox) \in Daemon!Frames
    BY HeadTailProperties DEF QueueTypes, DownFrames, Daemon!Frames
  <2> QED
    BY <1>4, <2>1 DEF Daemon!SendHello, Daemon!Phases
<1>5. CASE Daemon!BrokerWelcomes \/ Daemon!BrokerRefuses
           \/ \E r \in Calls : Daemon!BrokerRequests(r)
  <2>1. \E f \in Daemon!Frames : Daemon!Deliver(f)
    BY <1>5 DEF Daemon!BrokerWelcomes, Daemon!BrokerRefuses, Daemon!BrokerRequests,
                Daemon!Frames
  <2> QED
    BY <2>1 DEF Daemon!Deliver
<1>6. CASE Daemon!SocketClosing
  BY <1>6 DEF Daemon!SocketClosing
<1>7. CASE Daemon!SocketClosed \/ Daemon!SocketErrors \/ Daemon!ServeFindsClosed
  <2>1. UNCHANGED <<aborted, heardIn>>
    BY <1>7 DEF Daemon!SocketClosed, Daemon!SocketErrors, Daemon!ServeFindsClosed
  <2>2. CASE /\ daemonWs' \in {"CLOSING", "CLOSED"} /\ failure' = TRUE
             /\ UNCHANGED <<pc, first, cur>>
    BY <2>1, <2>2
  <2>3. CASE Daemon!AttemptFails \/ \E stable \in BOOLEAN : Daemon!SessionEnds(stable)
    BY <2>1, <2>3, EndingKeepsDaemonTypes
  <2> QED
    BY <1>7, <2>2, <2>3
       DEF Daemon!SocketClosed, Daemon!SocketErrors, Daemon!ServeFindsClosed
<1>8. CASE Daemon!Abort
  <2>1. aborted' = TRUE /\ heardIn' = pc
    BY <1>8 DEF Daemon!Abort
  <2>2. CASE Daemon!AttemptFails
    BY <2>1, <2>2, EndingKeepsDaemonTypes
  <2>3. CASE /\ daemonWs' = IF pc = "serve" /\ daemonWs = "OPEN" THEN "CLOSING" ELSE daemonWs
             /\ UNCHANGED <<pc, first, failure, cur>>
    BY <2>1, <2>3
  <2> QED
    BY <1>8, <2>2, <2>3 DEF Daemon!Abort
<1>9. CASE UNCHANGED Daemon!vars
  BY <1>9 DEF Daemon!vars, Daemon!socketVars
<1> QED
  BY <1>1, <1>2, <1>3, <1>4, <1>5, <1>6, <1>7, <1>8, <1>9 DEF Daemon!Next

\* Only a call that was dispatched is answered.
LEMMA NextAnswered ==
  ASSUME QueueTypes, answered \subseteq Calls, [SystemNext]_systemVars
  PROVE  answered' \subseteq Calls
<1>1. CASE \E s \in Sockets, i \in Calls : Answer(s, i)
  BY <1>1 DEF Answer
<1>2. CASE ~\E s \in Sockets, i \in Calls : Answer(s, i)
  <2>1. answered' = answered
    BY <1>2 DEF SystemNext, systemVars, localVars, BrokerAccepts, DaemonOpens, DaemonRedials,
                BrokerHearsClose, DaemonHearsClose, SendHello, ReadHello, WriteRequest,
                ReadFrame, StartServing, Dispatches, NoAnswer, ReadResponse, BrokerAlone,
                DaemonSeesClosed, DaemonAlone
  <2> QED
    BY <2>1
<1> QED
  BY <1>1, <1>2

\* The types of the joined system: of the broker's state, the daemon's, and of
\* what is on its way between them.
THEOREM SystemTypes == SystemSpec => []SystemTypeOK
<1> DEFINE TypesInv == DaemonTypes /\ answered \subseteq Calls
<1>1. SystemInit => TypesInv
  BY WaitsInRange DEF SystemInit, Daemon!Init, DaemonTypes, Daemon!Phases
<1>2. SystemInv /\ TypesInv /\ [SystemNext]_systemVars => TypesInv'
  <2> SUFFICES ASSUME SystemInv, TypesInv, [SystemNext]_systemVars PROVE TypesInv'
    OBVIOUS
  <2>1. [Daemon!Next]_(Daemon!vars)
    BY DaemonSteps DEF SystemInv
  <2> QED
    BY <2>1, NextDaemonTypes, NextAnswered DEF SystemInv
<1>3. SystemInv /\ TypesInv => SystemTypeOK
  <2> SUFFICES ASSUME SystemInv, TypesInv PROVE SystemTypeOK
    OBVIOUS
  <2>1. TypeOK
    BY DEF SystemInv, IInv
  <2>2. QueueTypes /\ StatusInv
    BY DEF SystemInv
  <2>3. \A q \in Seq(DownFrames) : q \in Seq(Daemon!Frames)
    BY DEF DownFrames, Daemon!Frames
  <2>4. Daemon!TypeOK
    BY <2>2, <2>3 DEF DaemonTypes, Daemon!TypeOK, QueueTypes, StatusInv
  <2> QED
    BY <2>1, <2>2, <2>4 DEF SystemTypeOK, QueueTypes, DownFrames, UpFrames
<1> QED
  BY <1>1, <1>2, <1>3, SystemInvHolds, PTL DEF SystemSpec

=============================================================================
