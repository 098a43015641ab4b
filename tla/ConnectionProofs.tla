-------------------------- MODULE ConnectionProofs --------------------------
(***************************************************************************)
(* Proofs about Connection for every set of requests, every pair of waits  *)
(* and every bound on the counted attempts: a connection tells its owner   *)
(* what Endpoint says, the loop of run() ends with an abort, and no frame  *)
(* is lost between the welcome and serve().                                *)
(***************************************************************************)
EXTENDS Connection, SequenceTheorems, TLAPS

\* "connected" is reported exactly while a session is served, without an error.
HonestStatus ==
  /\ status.connected <=> pc = "serve"
  /\ status.connected => ~status.last_error

StatusType == [connected : BOOLEAN, last_error : BOOLEAN, reconnect_attempts : Nat]

\* The steps in which an attempt ends.
AttemptEnds ==
  \/ AttemptFails
  \/ pc = "serve" /\ \E stable \in BOOLEAN : SessionEnds(stable)

\* The steps that report nothing.
Quiet == (pc' = "serve" <=> pc = "serve") /\ UNCHANGED status

\* Every step ends an attempt, starts a session or reports nothing.
LEMMA StepsReport == [Next]_vars => AttemptEnds \/ StartServing \/ Quiet
<1> SUFFICES ASSUME [Next]_vars PROVE AttemptEnds \/ StartServing \/ Quiet
  OBVIOUS
<1>1. CASE NextAttempt \/ Opened \/ SendHello \/ AwaitPubkey
  BY <1>1 DEF NextAttempt, Opened, SendHello, AwaitPubkey, Quiet
<1>2. CASE DialFails \/ HandshakeRefused \/ HandshakeTimeout \/ PubkeyRejected
  BY <1>2 DEF DialFails, HandshakeRefused, HandshakeTimeout, PubkeyRejected, AttemptEnds
<1>3. CASE ServeFindsClosed \/ SocketClosed \/ SocketErrors
  BY <1>3 DEF ServeFindsClosed, SocketClosed, SocketErrors, AttemptEnds, Quiet
<1>4. CASE BrokerWelcomes \/ BrokerRefuses \/ (\E r \in Requests : BrokerRequests(r))
  BY <1>4 DEF BrokerWelcomes, BrokerRefuses, BrokerRequests, Deliver, Quiet
<1>5. CASE SocketClosing
  BY <1>5 DEF SocketClosing, Quiet
<1>6. CASE Abort
  BY <1>6 DEF Abort, AttemptEnds, Quiet
<1>7. CASE UNCHANGED vars
  BY <1>7 DEF vars, Quiet
<1> QED
  BY <1>1, <1>2, <1>3, <1>4, <1>5, <1>6, <1>7 DEF Next

\* Connection implements Endpoint: its owner sees sessions begin and end, and
\* attempts fail, and nothing else.
THEOREM ImplementsEndpoint == Spec => ReportsLikeEndpoint
<1>1. Init => Reports!Init
  BY DEF Init, Reports!Init, Reports!Initial
<1>2. [Next]_vars => [Reports!Next]_(Reports!vars)
  <2> SUFFICES ASSUME [Next]_vars PROVE [Reports!Next]_(Reports!vars)
    OBVIOUS
  <2>1. CASE AttemptFails
    <3>1. Reports!AttemptFails
      BY <2>1 DEF AttemptFails, Reports!AttemptFails, Reports!Failed
    <3> QED
      BY <3>1 DEF Reports!Next
  <2>2. ASSUME pc = "serve", NEW stable \in BOOLEAN, SessionEnds(stable)
        PROVE  Reports!Next
    <3>1. Reports!SessionEnds
      BY <2>2 DEF SessionEnds, Reports!SessionEnds, Reports!Ended
    <3> QED
      BY <3>1 DEF Reports!Next
  <2>3. CASE StartServing
    <3>1. Reports!Connects
      BY <2>3 DEF StartServing, Reports!Connects, Reports!Up
    <3> QED
      BY <3>1 DEF Reports!Next
  <2>4. CASE Quiet
    <3>1. UNCHANGED (Reports!vars)
      BY <2>4 DEF Quiet, Reports!vars
    <3> QED
      BY <3>1
  <2> QED
    BY <2>1, <2>2, <2>3, <2>4, StepsReport DEF AttemptEnds
<1> QED
  BY <1>1, <1>2, PTL DEF Spec, ReportsLikeEndpoint, Reports!Spec

\* What the owner was last told is true of the connection now.
THEOREM StatusIsHonest == Spec => []HonestStatus
<1> DEFINE HInv == status \in StatusType /\ HonestStatus
<1>1. Init => HInv
  BY DEF Init, HonestStatus, StatusType
<1>2. HInv /\ [Next]_vars => HInv'
  <2> SUFFICES ASSUME HInv, [Next]_vars PROVE HInv'
    OBVIOUS
  <2> USE ConnectionAssumption DEF StatusType, HonestStatus
  <2>1. CASE AttemptFails
    <3> DEFINE n == IF status.reconnect_attempts < MaxAttempts
                    THEN status.reconnect_attempts + 1 ELSE status.reconnect_attempts
    <3>1. status' = [status EXCEPT !.connected = FALSE, !.last_error = TRUE,
                                   !.reconnect_attempts = n]
      BY <2>1 DEF AttemptFails
    <3>2. n \in Nat
      OBVIOUS
    <3> HIDE DEF n
    <3>3. status' \in StatusType /\ status'.connected = FALSE
      BY <3>1, <3>2
    <3> QED
      BY <2>1, <3>3 DEF AttemptFails
  <2>2. ASSUME NEW stable \in BOOLEAN, SessionEnds(stable) PROVE HInv'
    BY <2>2 DEF SessionEnds
  <2>3. CASE StartServing
    BY <2>3 DEF StartServing
  <2>4. CASE Quiet
    BY <2>4 DEF Quiet
  <2> QED
    BY <2>1, <2>2, <2>3, <2>4, StepsReport DEF AttemptEnds
<1> QED
  BY <1>1, <1>2, PTL DEF Spec

\* The abort is final: run() does not dial after it.
THEOREM NoDialAfterAbort == Spec => [][aborted => ~(pc # "dial" /\ pc' = "dial")]_vars
<1>1. [Next]_vars => [aborted => ~(pc # "dial" /\ pc' = "dial")]_vars
  <2> SUFFICES ASSUME Next, aborted, pc # "dial" PROVE pc' # "dial"
    OBVIOUS
  <2>1. CASE NextAttempt
    BY <2>1 DEF NextAttempt
  <2>2. CASE Abort
    BY <2>2 DEF Abort
  <2>3. CASE DialFails \/ HandshakeRefused \/ HandshakeTimeout \/ PubkeyRejected
    BY <2>3 DEF DialFails, HandshakeRefused, HandshakeTimeout, PubkeyRejected, AttemptFails
  <2>4. CASE Opened \/ SendHello \/ AwaitPubkey \/ StartServing \/ SocketClosing
    BY <2>4 DEF Opened, SendHello, AwaitPubkey, StartServing, SocketClosing
  <2>5. CASE ServeFindsClosed \/ SocketClosed \/ SocketErrors
    BY <2>5 DEF ServeFindsClosed, SocketClosed, SocketErrors, AttemptFails, SessionEnds
  <2>6. CASE BrokerWelcomes \/ BrokerRefuses \/ (\E r \in Requests : BrokerRequests(r))
    BY <2>6 DEF BrokerWelcomes, BrokerRefuses, BrokerRequests, Deliver
  <2> QED
    BY <2>1, <2>2, <2>3, <2>4, <2>5, <2>6 DEF Next
<1> QED
  BY <1>1, PTL DEF Spec

-----------------------------------------------------------------------------
(* Types, and the frames between the welcome and serve() *)

\* The doubled wait keeps its bounds.
LEMMA DoubleInRange == \A w \in InitialWait..MaxWait : Double(w) \in InitialWait..MaxWait
BY ConnectionAssumption DEF Double

\* What the end of an attempt does to the types.
LEMMA EndingKeepsTypes ==
  ASSUME TypeOK, AttemptEnds, aborted' \in BOOLEAN, heardIn' \in Phases \cup {"never"}
  PROVE  TypeOK'
<1> USE ConnectionAssumption DEF TypeOK
<1>1. UNCHANGED <<first, inbox, failure, received, dispatched>> /\ pc' = "backoff" /\ ws' = "CLOSED"
  BY DEF AttemptEnds, AttemptFails, SessionEnds
<1>2. cur' \in InitialWait..MaxWait
  BY DoubleInRange DEF AttemptEnds, AttemptFails, SessionEnds
<1>3. status' \in [connected : BOOLEAN, last_error : BOOLEAN, reconnect_attempts : 0..MaxAttempts]
  <2>1. CASE AttemptFails
    <3> DEFINE n == IF status.reconnect_attempts < MaxAttempts
                    THEN status.reconnect_attempts + 1 ELSE status.reconnect_attempts
    <3>1. status' = [status EXCEPT !.connected = FALSE, !.last_error = TRUE,
                                   !.reconnect_attempts = n]
      BY <2>1 DEF AttemptFails
    <3>2. n \in 0..MaxAttempts
      OBVIOUS
    <3> HIDE DEF n
    <3> QED
      BY <3>1, <3>2
  <2>2. ASSUME NEW stable \in BOOLEAN, SessionEnds(stable)
        PROVE  status' = [status EXCEPT !.connected = FALSE]
    BY <2>2 DEF SessionEnds
  <2> QED
    BY <2>1, <2>2 DEF AttemptEnds
<1> QED
  BY <1>1, <1>2, <1>3 DEF Phases

\* Frames that are added to a queue of frames, and taken from it.
LEMMA FrameQueues ==
  ASSUME NEW q \in Seq(Frames)
  PROVE  /\ \A f \in Frames : Append(q, f) \in Seq(Frames)
         /\ q # <<>> => Head(q) \in Frames /\ Tail(q) \in Seq(Frames)
BY AppendProperties, HeadTailProperties

\* A frame that is delivered ends up in one of the three places it can go to.
LEMMA DeliverKeepsTypes ==
  ASSUME TypeOK, NEW f \in Frames, Deliver(f)
  PROVE  TypeOK'
<1> USE DEF TypeOK
<1>1. UNCHANGED <<pc, aborted, heardIn, ws, failure, status, cur>>
  BY DEF Deliver
<1>2. received' \in Seq(Frames)
  BY DEF Deliver
<1>3. first' \in Frames \cup {"none"}
  BY DEF Deliver
<1>4. inbox' = inbox \/ inbox' = Append(inbox, f)
  BY DEF Deliver
<1>5. dispatched' = dispatched \/ dispatched' = Append(dispatched, f)
  BY DEF Deliver
<1>6. inbox' \in Seq(Frames) /\ dispatched' \in Seq(Frames)
  <2>1. inbox \in Seq(Frames) /\ dispatched \in Seq(Frames)
    OBVIOUS
  <2>2. Append(inbox, f) \in Seq(Frames) /\ Append(dispatched, f) \in Seq(Frames)
    BY <2>1, FrameQueues
  <2> QED
    BY <1>4, <1>5, <2>1, <2>2
<1> QED
  BY <1>1, <1>2, <1>3, <1>6

\* Every action keeps the types.
LEMMA NextTypeOK == TypeOK /\ [Next]_vars => TypeOK'
<1> SUFFICES ASSUME TypeOK, [Next]_vars PROVE TypeOK'
  OBVIOUS
<1>1. CASE NextAttempt
  <2>1. CASE aborted
    BY <1>1, <2>1 DEF NextAttempt, TypeOK, socketVars, Phases
  <2>2. CASE ~aborted
    <3>1. /\ pc' = "dial" /\ ws' = "CONNECTING" /\ first' = "none" /\ failure' = FALSE
          /\ UNCHANGED <<aborted, heardIn, status, cur>>
      BY <1>1, <2>2 DEF NextAttempt, NewSocket
    <3>2. inbox' \in Seq(Frames) /\ received' \in Seq(Frames) /\ dispatched' \in Seq(Frames)
      BY <1>1, <2>2 DEF NextAttempt, NewSocket
    <3> QED
      BY <3>1, <3>2 DEF TypeOK, Phases
  <2> QED
    BY <2>1, <2>2
<1>2. CASE DialFails \/ HandshakeRefused \/ HandshakeTimeout \/ PubkeyRejected
  BY <1>2, EndingKeepsTypes
     DEF TypeOK, DialFails, HandshakeRefused, HandshakeTimeout, PubkeyRejected, AttemptEnds
<1>3. CASE Opened
  BY <1>3 DEF Opened, TypeOK, Phases
<1>4. CASE SendHello
  <2>1. CASE inbox # <<>> /\ ~failure
    <3>1. first' \in Frames /\ inbox' \in Seq(Frames)
      <4>1. first' = Head(inbox) /\ inbox' = Tail(inbox) /\ inbox # <<>>
        BY <1>4, <2>1 DEF SendHello
      <4>2. inbox \in Seq(Frames)
        BY DEF TypeOK
      <4> QED
        BY <4>1, <4>2, FrameQueues
    <3> QED
      BY <1>4, <3>1 DEF SendHello, TypeOK, Phases
  <2>2. CASE ~(inbox # <<>> /\ ~failure)
    BY <1>4, <2>2 DEF SendHello, TypeOK, Phases
  <2> QED
    BY <2>1, <2>2
<1>5. CASE AwaitPubkey
  BY <1>5 DEF AwaitPubkey, socketVars, TypeOK, Phases
<1>6. CASE StartServing
  <2>1. dispatched' \in Seq(Frames) /\ inbox' \in Seq(Frames)
    BY <1>6 DEF StartServing, TypeOK
  <2>2. status' \in [connected : BOOLEAN, last_error : BOOLEAN, reconnect_attempts : 0..MaxAttempts]
    BY <1>6 DEF StartServing, TypeOK
  <2> QED
    BY <1>6, <2>1, <2>2 DEF StartServing, TypeOK, Phases
<1>7. CASE ServeFindsClosed
  BY <1>7, EndingKeepsTypes DEF ServeFindsClosed, AttemptEnds, TypeOK
<1>8. CASE BrokerWelcomes \/ BrokerRefuses \/ (\E r \in Requests : BrokerRequests(r))
  BY <1>8, DeliverKeepsTypes DEF BrokerWelcomes, BrokerRefuses, BrokerRequests, Frames
<1>9. CASE SocketClosing
  BY <1>9 DEF SocketClosing, TypeOK
<1>10. CASE SocketClosed
  <2>1. CASE Buffering
    BY <1>10, <2>1 DEF SocketClosed, Buffering, TypeOK
  <2>2. CASE pc = "serve"
    BY <1>10, <2>2, EndingKeepsTypes DEF SocketClosed, Buffering, AttemptEnds, TypeOK
  <2> QED
    BY <1>10, <2>1, <2>2 DEF SocketClosed
<1>11. CASE SocketErrors
  <2>1. CASE Buffering
    BY <1>11, <2>1 DEF SocketErrors, Buffering, TypeOK
  <2>2. CASE pc = "serve"
    BY <1>11, <2>2, EndingKeepsTypes DEF SocketErrors, Buffering, AttemptEnds, TypeOK
  <2> QED
    BY <1>11, <2>1, <2>2 DEF SocketErrors
<1>12. CASE Abort
  <2>1. aborted' = TRUE /\ heardIn' = pc
    BY <1>12 DEF Abort
  <2>2. CASE pc = "dial"
    BY <1>12, <2>1, <2>2, EndingKeepsTypes DEF Abort, AttemptEnds, TypeOK
  <2>3. CASE pc # "dial"
    BY <1>12, <2>3 DEF Abort, TypeOK
  <2> QED
    BY <2>2, <2>3
<1>13. CASE UNCHANGED vars
  BY <1>13 DEF vars, socketVars, TypeOK
<1> QED
  BY <1>1, <1>2, <1>3, <1>4, <1>5, <1>6, <1>7, <1>8, <1>9, <1>10, <1>11, <1>12, <1>13 DEF Next

\* Every reachable state is well typed: the counters and the wait in bounds.
THEOREM TypeCorrect == Spec => []TypeOK
<1>1. Init => TypeOK
  <2> SUFFICES ASSUME Init PROVE TypeOK
    OBVIOUS
  <2>1. inbox \in Seq(Frames) /\ received \in Seq(Frames) /\ dispatched \in Seq(Frames)
    BY DEF Init
  <2>2. cur \in InitialWait..MaxWait /\ 0 \in 0..MaxAttempts
    BY ConnectionAssumption DEF Init
  <2> QED
    BY <2>1, <2>2 DEF Init, TypeOK, Phases
<1> QED
  BY <1>1, NextTypeOK, PTL DEF Spec

\* What makes NoRequestLost inductive.  Before the welcome is taken, the only
\* frame that can be waiting is one that refuses the handshake.
FramesInv ==
  /\ pc \in {"dial", "opened"} => first = "none"
  /\ pc = "dial" => received = <<>> /\ inbox = <<>>
  /\ pc = "opened" => (inbox = <<>> /\ received = <<>>) \/ inbox = <<"refused">>
  /\ pc \in {"dial", "opened", "handshake", "persist"} => dispatched = <<>>
  /\ pc = "handshake" /\ first = "none" /\ inbox = <<>> => received = <<>>
  /\ pc \in {"persist", "serve"} => first \in Welcomes
  /\ NoRequestLost

FramesFacts == TypeOK /\ FramesInv

\* A frame behind the first is behind it in the record, too.
LEMMA AppendBehindFirst ==
  ASSUME NEW a \in Frames, NEW q \in Seq(Frames), NEW f \in Frames
  PROVE  Append(<<a>> \o q, f) = <<a>> \o Append(q, f)
<1>1. <<a>> \in Seq(Frames) /\ <<f>> \in Seq(Frames)
  OBVIOUS
<1>2. <<a>> \o q \in Seq(Frames)
  BY <1>1, ConcatProperties
<1>3. Append(<<a>> \o q, f) = (<<a>> \o q) \o <<f>>
  BY <1>2, AppendIsConcat
<1>4. Append(q, f) = q \o <<f>>
  BY AppendIsConcat
<1> QED
  BY <1>1, <1>3, <1>4, ConcatAssociative

\* An attempt that is over has lost nothing: nothing is said of it.
LEMMA EndedKeepsFrames == pc' \in {"backoff", "stopped"} => FramesInv'
BY DEF FramesInv, NoRequestLost

\* Steps that move no frame.
LEMMA QuietKeepsFrames ==
  ASSUME FramesInv, UNCHANGED <<pc, first, inbox, received, dispatched>>
  PROVE  FramesInv'
BY DEF FramesInv, NoRequestLost

\* The welcome that recv() waited for.
LEMMA WelcomeKeepsFrames == FramesFacts /\ BrokerWelcomes => FramesInv'
<1> SUFFICES ASSUME FramesFacts, NEW f \in Welcomes, Deliver(f),
                    pc = "handshake", first = "none", inbox = <<>>
             PROVE  FramesInv'
  BY DEF BrokerWelcomes
<1>1. pc' = "handshake" /\ first' = f /\ UNCHANGED <<inbox, dispatched>>
  BY DEF Deliver, Buffering
<1>2. received' = Append(<<>>, f)
  BY DEF Deliver, FramesFacts, FramesInv
<1>3. received' = <<f>> /\ <<f>> = <<f>> \o <<>>
  BY <1>2
<1>4. f # "none" /\ dispatched = <<>>
  BY DEF Welcomes, FramesFacts, FramesInv
<1> QED
  BY <1>1, <1>3, <1>4 DEF FramesInv, NoRequestLost

\* A refusal, before or after the hello.
LEMMA RefusalKeepsFrames == FramesFacts /\ BrokerRefuses => FramesInv'
<1> SUFFICES ASSUME FramesFacts, Deliver("refused"), pc \in {"opened", "handshake"},
                    first = "none", inbox = <<>>
             PROVE  FramesInv'
  BY DEF BrokerRefuses
<1>1. dispatched = <<>> /\ "refused" \notin Welcomes
  BY DEF FramesFacts, FramesInv, Welcomes
<1>2. CASE pc = "handshake"
  <2>1. pc' = "handshake" /\ first' = "refused" /\ UNCHANGED <<inbox, dispatched>>
    BY <1>2 DEF Deliver, Buffering
  <2> QED
    BY <1>1, <2>1 DEF FramesInv, NoRequestLost
<1>3. CASE pc = "opened"
  <2>1. pc' = "opened" /\ inbox' = Append(<<>>, "refused") /\ UNCHANGED <<first, dispatched>>
    BY <1>3 DEF Deliver, Buffering
  <2>2. inbox' = <<"refused">>
    BY <2>1
  <2> QED
    BY <1>1, <2>1, <2>2 DEF FramesInv, NoRequestLost
<1> QED
  BY <1>2, <1>3

\* A request is buffered until serve() listens, and dispatched from then on.
LEMMA RequestKeepsFrames ==
  ASSUME FramesFacts, NEW r \in Requests, BrokerRequests(r)
  PROVE  FramesInv'
<1>1. first \in Welcomes /\ first # "none" /\ first \in Frames /\ r \in Frames
  BY DEF BrokerRequests, Welcomes, Frames
<1>2. received' = Append(received, r) /\ UNCHANGED <<pc, first>>
  BY <1>1 DEF BrokerRequests, Deliver
<1>3. inbox \in Seq(Frames) /\ dispatched \in Seq(Frames)
  BY DEF FramesFacts, TypeOK
<1>4. CASE Buffering
  <2>1. inbox' = Append(inbox, r) /\ UNCHANGED dispatched
    BY <1>1, <1>4 DEF BrokerRequests, Deliver, Buffering
  <2>2. pc \in {"handshake", "persist"} /\ dispatched = <<>>
    BY <1>1, <1>4 DEF Buffering, FramesFacts, FramesInv
  <2>3. received = <<first>> \o inbox
    BY <1>1, <2>2 DEF FramesFacts, FramesInv, NoRequestLost
  <2>4. received' = <<first>> \o inbox'
    BY <1>1, <1>2, <1>3, <2>1, <2>3, AppendBehindFirst
  <2> QED
    BY <1>1, <1>2, <2>1, <2>2, <2>4 DEF FramesInv, NoRequestLost
<1>5. CASE pc = "serve"
  <2>1. dispatched' = Append(dispatched, r) /\ UNCHANGED inbox
    BY <1>1, <1>5 DEF BrokerRequests, Deliver, Buffering
  <2>2. received = <<first>> \o dispatched
    BY <1>5 DEF FramesFacts, FramesInv, NoRequestLost
  <2>3. received' = <<first>> \o dispatched'
    BY <1>1, <1>2, <1>3, <2>1, <2>2, AppendBehindFirst
  <2> QED
    BY <1>1, <1>2, <1>5, <2>1, <2>3 DEF FramesInv, NoRequestLost
<1> QED
  BY <1>4, <1>5 DEF BrokerRequests, Deliver, Buffering

\* The replay: everything buffered behind the welcome is dispatched.
LEMMA ReplayKeepsFrames == FramesFacts /\ StartServing => FramesInv'
<1> SUFFICES ASSUME FramesFacts, StartServing PROVE FramesInv'
  OBVIOUS
<1>1. first \in Welcomes /\ pc \in {"handshake", "persist"}
  BY DEF StartServing, FramesFacts, FramesInv, Welcomes
<1>2. dispatched = <<>> /\ received = <<first>> \o inbox /\ inbox \in Seq(Frames)
  BY <1>1 DEF FramesFacts, FramesInv, NoRequestLost, TypeOK
<1>3. dispatched' = inbox
  BY <1>2, ConcatEmptySeq DEF StartServing
<1>4. pc' = "serve" /\ UNCHANGED <<first, received>>
  BY DEF StartServing
<1> QED
  BY <1>1, <1>2, <1>3, <1>4 DEF FramesInv, NoRequestLost

\* recv() takes a frame that was there before it was called: a refusal.
LEMMA HelloKeepsFrames == FramesFacts /\ SendHello => FramesInv'
<1> SUFFICES ASSUME FramesFacts, SendHello PROVE FramesInv'
  OBVIOUS
<1>1. /\ pc = "opened" /\ pc' = "handshake" /\ first = "none" /\ dispatched = <<>>
      /\ UNCHANGED <<received, dispatched>>
      /\ (inbox = <<>> /\ received = <<>>) \/ inbox = <<"refused">>
  BY DEF SendHello, FramesFacts, FramesInv
<1>2. CASE inbox = <<"refused">> /\ ~failure
  <2>1. first' = "refused"
    BY <1>2 DEF SendHello
  <2> QED
    BY <1>1, <2>1 DEF FramesInv, NoRequestLost, Welcomes
<1>3. CASE inbox = <<>> \/ failure
  <2>1. UNCHANGED <<first, inbox>>
    BY <1>3 DEF SendHello
  <2> QED
    BY <1>1, <2>1 DEF FramesInv, NoRequestLost, Welcomes
<1> QED
  BY <1>1, <1>2, <1>3

\* Every action keeps the frames in place.
LEMMA NextFramesInv == FramesFacts /\ [Next]_vars => FramesInv'
<1> SUFFICES ASSUME FramesFacts, [Next]_vars PROVE FramesInv'
  OBVIOUS
<1> USE DEF FramesFacts
<1>1. CASE NextAttempt
  <2>1. CASE aborted
    BY <1>1, <2>1, EndedKeepsFrames DEF NextAttempt
  <2>2. CASE ~aborted
    BY <1>1, <2>2 DEF NextAttempt, NewSocket, FramesInv, NoRequestLost
  <2> QED
    BY <2>1, <2>2
<1>2. CASE DialFails \/ HandshakeRefused \/ HandshakeTimeout \/ PubkeyRejected
  BY <1>2, EndedKeepsFrames
     DEF DialFails, HandshakeRefused, HandshakeTimeout, PubkeyRejected, AttemptFails
<1>3. CASE Opened
  BY <1>3 DEF Opened, FramesInv, NoRequestLost
<1>4. CASE SendHello
  BY <1>4, HelloKeepsFrames
<1>5. CASE AwaitPubkey
  BY <1>5 DEF AwaitPubkey, socketVars, FramesInv, NoRequestLost, Welcomes
<1>6. CASE StartServing
  BY <1>6, ReplayKeepsFrames
<1>7. CASE ServeFindsClosed
  BY <1>7, EndedKeepsFrames DEF ServeFindsClosed, SessionEnds
<1>8. CASE BrokerWelcomes \/ BrokerRefuses \/ (\E r \in Requests : BrokerRequests(r))
  BY <1>8, WelcomeKeepsFrames, RefusalKeepsFrames, RequestKeepsFrames
<1>9. CASE SocketClosing
  BY <1>9, QuietKeepsFrames DEF SocketClosing
<1>10. CASE SocketClosed \/ SocketErrors
  BY <1>10, QuietKeepsFrames, EndedKeepsFrames
     DEF SocketClosed, SocketErrors, SessionEnds, AttemptFails
<1>11. CASE Abort
  BY <1>11, QuietKeepsFrames, EndedKeepsFrames DEF Abort, AttemptFails
<1>12. CASE UNCHANGED vars
  BY <1>12, QuietKeepsFrames DEF vars, socketVars
<1> QED
  BY <1>1, <1>2, <1>3, <1>4, <1>5, <1>6, <1>7, <1>8, <1>9, <1>10, <1>11, <1>12 DEF Next

\* No request is lost, doubled or overtaken between the welcome and serve(),
\* whatever the broker pipelines and however long onBrokerPubkey takes.
THEOREM FramesAreKept == Spec => []NoRequestLost
<1>1. Init => FramesInv
  BY DEF Init, FramesInv, NoRequestLost
<1>2. TypeOK /\ FramesInv /\ [Next]_vars => FramesInv'
  BY NextFramesInv DEF FramesFacts
<1>3. FramesInv => NoRequestLost
  BY DEF FramesInv
<1> QED
  BY <1>1, <1>2, <1>3, TypeCorrect, PTL DEF Spec

=============================================================================
