----------------------------- MODULE Connection -----------------------------
(***************************************************************************)
(* One control connection of the daemon's client to one broker: class      *)
(* Connection of src/client/connection.ts, with the handshake of           *)
(* src/client/handshake.ts and the waits of src/client/backoff.ts.         *)
(*                                                                         *)
(* run() is one asynchronous loop: `pc` is the await it is suspended at,   *)
(* and between two awaits nothing else runs.  Socket events, the abort     *)
(* signal and timers interleave at the awaits.  Each attempt has a socket  *)
(* of its own; what happens to a socket after its attempt ended reaches    *)
(* nobody.                                                                 *)
(*                                                                         *)
(* Definitions with an underscore in their name are seeded faults, as in   *)
(* RelayServer.                                                            *)
(***************************************************************************)
EXTENDS Naturals, Sequences, FiniteSets, SequencesExt

CONSTANTS
  Requests,     \* request frames a broker may send on one connection
  InitialWait,  \* INITIAL_MS
  MaxWait,      \* MAX_MS
  MaxAttempts   \* reconnect_attempts is not counted past this (bounds the model)

ASSUME ConnectionAssumption ==
  /\ InitialWait \in Nat \ {0}
  /\ MaxWait \in Nat /\ InitialWait <= MaxWait
  /\ MaxAttempts \in Nat

VARIABLES
  pc,        \* where run() is suspended
  aborted,   \* signal.aborted
  heardIn,   \* the pc at which the abort event was dispatched
  ws,        \* readyState of the current attempt's socket
  first,     \* the frame recv() was resolved with, "none" before
  inbox,     \* frames buffered by adaptWs
  failure,   \* the socket errored or closed under adaptWs
  received,  \* frames the current socket delivered, in order
  dispatched,\* frames given to handleFrame on this attempt, in order
  status,    \* RelayEndpointStatus, as last reported
  cur        \* the backoff's next wait

socketVars == <<ws, first, inbox, failure, received, dispatched>>
vars == <<pc, aborted, heardIn, socketVars, status, cur>>

Phases == {"dial", "opened", "handshake", "persist", "serve", "backoff", "stopped"}

\* The first frame a broker sends: a welcome that announces a signing key, one
\* that does not, or one the handshake refuses (an error, an old protocol, a
\* URL without our uuid).
Welcomes == {"welcome", "welcomeNoKey"}
Frames == Requests \cup Welcomes \cup {"refused"}

TypeOK ==
  /\ pc \in Phases
  /\ aborted \in BOOLEAN
  /\ heardIn \in Phases \cup {"never"}
  /\ ws \in {"CONNECTING", "OPEN", "CLOSING", "CLOSED"}
  /\ first \in Frames \cup {"none"}
  /\ inbox \in Seq(Frames)
  /\ failure \in BOOLEAN
  /\ received \in Seq(Frames)
  /\ dispatched \in Seq(Frames)
  /\ status \in [connected : BOOLEAN, last_error : BOOLEAN,
                 reconnect_attempts : 0..MaxAttempts]
  /\ cur \in InitialWait..MaxWait

Init ==
  /\ aborted \in BOOLEAN
  /\ heardIn = IF aborted THEN "stopped" ELSE "never"
  /\ pc = IF aborted THEN "stopped" ELSE "dial"
  /\ ws = "CONNECTING"
  /\ first = "none" /\ inbox = <<>> /\ failure = FALSE
  /\ received = <<>> /\ dispatched = <<>>
  /\ status = [connected |-> FALSE, last_error |-> FALSE, reconnect_attempts |-> 0]
  /\ cur = InitialWait

-----------------------------------------------------------------------------
(* The end of an attempt, and the loop of run() *)

\* Fault: the wait grows without its cap.
Double_NoCap(w) == 2 * w

\* The wait after next(): doubled, at most MaxWait.  The jitter is left out.
Double(w) == IF 2 * w < MaxWait THEN 2 * w ELSE MaxWait

\* runOnce rejected: its socket is terminated, the error is reported.
AttemptFails ==
  /\ pc' = "backoff"
  /\ ws' = "CLOSED"
  /\ status' = [status EXCEPT !.connected = FALSE, !.last_error = TRUE,
                  !.reconnect_attempts = IF @ < MaxAttempts THEN @ + 1 ELSE @]
  /\ cur' = Double(cur)
  /\ UNCHANGED <<first, inbox, failure, received, dispatched>>

\* Fault: the status keeps saying connected during the wait.
SessionEnds_StaysConnected(stable) ==
  /\ pc' = "backoff"
  /\ ws' = "CLOSED"
  /\ cur' = Double(IF stable THEN InitialWait ELSE cur)
  /\ UNCHANGED <<first, inbox, failure, received, dispatched, status>>

\* runOnce resolved: the session closed cleanly.  `stable` says that the
\* attempt, its dial included, lasted STABLE_MS.
SessionEnds(stable) ==
  /\ pc' = "backoff"
  /\ ws' = "CLOSED"
  /\ status' = [status EXCEPT !.connected = FALSE]
  /\ cur' = Double(IF stable THEN InitialWait ELSE cur)
  /\ UNCHANGED <<first, inbox, failure, received, dispatched>>

NewSocket ==
  /\ ws' = "CONNECTING"
  /\ first' = "none" /\ inbox' = <<>> /\ failure' = FALSE
  /\ received' = <<>> /\ dispatched' = <<>>

\* Fault: the loop does not look at the signal again.
NextAttempt_IgnoresAbort ==
  /\ pc = "backoff"
  /\ pc' = "dial" /\ NewSocket
  /\ UNCHANGED <<aborted, heardIn, status, cur>>

\* The wait ended, by its timer or by the abort, and the loop tests the signal.
NextAttempt ==
  /\ pc = "backoff"
  /\ IF aborted
     THEN pc' = "stopped" /\ UNCHANGED socketVars
     ELSE pc' = "dial" /\ NewSocket
  /\ UNCHANGED <<aborted, heardIn, status, cur>>

-----------------------------------------------------------------------------
(* runOnce: dial, handshake, serve *)

\* The dial timer fired, or the socket errored or closed before it opened.
DialFails ==
  /\ pc = "dial"
  /\ AttemptFails
  /\ UNCHANGED <<aborted, heardIn>>

\* 'open': the dial's listeners, the one for abort included, are removed.
Opened ==
  /\ pc = "dial"
  /\ pc' = "opened"
  /\ ws' = "OPEN"
  /\ UNCHANGED <<aborted, heardIn, first, inbox, failure, received, dispatched, status, cur>>

\* runHandshake sends hello and calls recv(), which takes a buffered frame
\* when there is one and the socket has not failed.
SendHello ==
  /\ pc = "opened"
  /\ pc' = "handshake"
  /\ IF inbox # <<>> /\ ~failure
     THEN first' = Head(inbox) /\ inbox' = Tail(inbox)
     ELSE UNCHANGED <<first, inbox>>
  /\ UNCHANGED <<aborted, heardIn, ws, failure, received, dispatched, status, cur>>

\* recv() rejected, its frame was refused, or an unexpected one.
HandshakeRefused ==
  /\ pc = "handshake"
  /\ first \notin Welcomes
  /\ first # "none" \/ failure
  /\ AttemptFails
  /\ UNCHANGED <<aborted, heardIn>>

\* Fault: only a socket that fails ends the handshake (before issue #92).
HandshakeTimeout_Never == FALSE /\ UNCHANGED vars

\* The timer of the race.  A frame that recv() was resolved with is handled
\* before any timer runs.
HandshakeTimeout ==
  /\ pc = "handshake"
  /\ first = "none"
  /\ AttemptFails
  /\ UNCHANGED <<aborted, heardIn>>

\* A welcome with a key: onBrokerPubkey is awaited, frames are still buffered.
AwaitPubkey ==
  /\ pc = "handshake"
  /\ first = "welcome"
  /\ pc' = "persist"
  /\ UNCHANGED <<aborted, heardIn, socketVars, status, cur>>

PubkeyRejected ==
  /\ pc = "persist"
  /\ AttemptFails
  /\ UNCHANGED <<aborted, heardIn>>

\* Fault: what the adapter buffered is not replayed.
StartServing_NoReplay ==
  /\ \/ pc = "handshake" /\ first = "welcomeNoKey"
     \/ pc = "persist"
  /\ pc' = "serve"
  /\ inbox' = <<>>
  /\ status' = [status EXCEPT !.connected = TRUE, !.last_error = FALSE]
  /\ UNCHANGED <<aborted, heardIn, ws, first, failure, received, dispatched, cur>>

\* No key to persist, or it has been: detach, replay the buffered frames,
\* report connected and attach serve()'s listeners, with no await between.
\* A signal that is aborted already never fires the new listener.
StartServing ==
  /\ \/ pc = "handshake" /\ first = "welcomeNoKey"
     \/ pc = "persist"
  /\ pc' = "serve"
  /\ dispatched' = dispatched \o inbox
  /\ inbox' = <<>>
  /\ status' = [status EXCEPT !.connected = TRUE, !.last_error = FALSE]
  /\ UNCHANGED <<aborted, heardIn, ws, first, failure, received, cur>>

\* Fault: serve() waits for a 'close' that has already fired.
ServeFindsClosed_Missed == FALSE /\ UNCHANGED vars

\* serve() found the socket closed: its 'close' fired during onBrokerPubkey.
ServeFindsClosed ==
  /\ pc = "serve"
  /\ ws = "CLOSED"
  /\ \E stable \in BOOLEAN : SessionEnds(stable)
  /\ UNCHANGED <<aborted, heardIn>>

-----------------------------------------------------------------------------
(* Socket events, the broker, and the abort signal *)

Buffering == pc \in {"opened", "handshake", "persist"}

\* A 'message' event.  The frame goes to a waiting recv(), to the adapter's
\* buffer, or to handleFrame, which ignores what is not a request.
Deliver(f) ==
  /\ ws \in {"OPEN", "CLOSING"}
  /\ received' = Append(received, f)
  /\ \/ /\ pc = "handshake" /\ first = "none"
        /\ first' = f
        /\ UNCHANGED <<inbox, dispatched>>
     \/ /\ Buffering
        /\ ~(pc = "handshake" /\ first = "none")
        /\ inbox' = Append(inbox, f)
        /\ UNCHANGED <<first, dispatched>>
     \/ /\ pc = "serve"
        /\ dispatched' = Append(dispatched, f)
        /\ UNCHANGED <<first, inbox>>
  /\ UNCHANGED <<pc, aborted, heardIn, ws, failure, status, cur>>

\* A broker that is RelayServer: one welcome, after the hello and before the
\* first request.  It may refuse the connection even before the hello.
BrokerWelcomes ==
  /\ pc = "handshake" /\ first = "none" /\ inbox = <<>>
  /\ \E f \in Welcomes : Deliver(f)

BrokerRefuses ==
  /\ pc \in {"opened", "handshake"}
  /\ first = "none" /\ inbox = <<>>
  /\ Deliver("refused")

BrokerRequests(r) ==
  /\ first \in Welcomes
  /\ ~Contains(received, r)
  /\ Deliver(r)

\* The socket starts to close: a close frame, or the end of the stream.
SocketClosing ==
  /\ ws = "OPEN"
  /\ pc \in {"opened", "handshake", "persist", "serve"}
  /\ ws' = "CLOSING"
  /\ UNCHANGED <<pc, aborted, heardIn, first, inbox, failure, received, dispatched, status, cur>>

\* 'close', heard by the adapter or by serve().
SocketClosed ==
  /\ ws = "CLOSING"
  /\ \/ /\ Buffering
        /\ ws' = "CLOSED"
        /\ failure' = TRUE
        /\ UNCHANGED <<pc, first, inbox, received, dispatched, status, cur>>
     \/ /\ pc = "serve"
        /\ \E stable \in BOOLEAN : SessionEnds(stable)
  /\ UNCHANGED <<aborted, heardIn>>

\* 'error', heard by the adapter or by serve(), which rejects.
SocketErrors ==
  /\ ws \in {"OPEN", "CLOSING"}
  /\ \/ /\ Buffering
        /\ ws' = "CLOSING"
        /\ failure' = TRUE
        /\ UNCHANGED <<pc, first, inbox, received, dispatched, status, cur>>
     \/ /\ pc = "serve"
        /\ AttemptFails
  /\ UNCHANGED <<aborted, heardIn>>

\* The caller aborts.  The dial's listener rejects it, serve()'s terminates
\* the socket, the backoff's ends the wait; the other awaits have none.
Abort ==
  /\ ~aborted
  /\ aborted' = TRUE
  /\ heardIn' = pc
  /\ IF pc = "dial"
     THEN AttemptFails
     ELSE /\ ws' = IF pc = "serve" /\ ws = "OPEN" THEN "CLOSING" ELSE ws
          /\ UNCHANGED <<pc, first, inbox, failure, received, dispatched, status, cur>>

-----------------------------------------------------------------------------

Next ==
  \/ NextAttempt
  \/ DialFails
  \/ Opened
  \/ SendHello
  \/ HandshakeRefused
  \/ HandshakeTimeout
  \/ AwaitPubkey
  \/ PubkeyRejected
  \/ StartServing
  \/ ServeFindsClosed
  \/ BrokerWelcomes
  \/ BrokerRefuses
  \/ \E r \in Requests : BrokerRequests(r)
  \/ SocketClosing
  \/ SocketClosed
  \/ SocketErrors
  \/ Abort

Spec == Init /\ [][Next]_vars

\* Timers fire (dial, handshake, backoff), continuations run, a closing socket
\* ends, and the consumer's onBrokerPubkey settles, which the code relies on:
\* no timeout guards that await.  The broker and the caller owe nothing.
FairSpec ==
  /\ Spec
  /\ WF_vars(NextAttempt)
  /\ WF_vars(DialFails)
  /\ WF_vars(SendHello)
  /\ WF_vars(HandshakeRefused)
  /\ WF_vars(HandshakeTimeout)
  /\ WF_vars(AwaitPubkey)
  /\ WF_vars(StartServing)
  /\ WF_vars(ServeFindsClosed)
  /\ WF_vars(SocketClosed)

-----------------------------------------------------------------------------
(* Properties *)

\* Every frame the socket delivered after the welcome is given to handleFrame
\* once, in order, as soon as the session serves: none is lost, doubled or
\* overtaken between the welcome and serve(), however long onBrokerPubkey takes.
NoRequestLost ==
  /\ pc = "serve" => received = <<first>> \o dispatched
  /\ pc \in {"handshake", "persist"} /\ first \in Welcomes =>
       received = <<first>> \o inbox

\* What the owner of the connection is told is the protocol of Endpoint, with
\* "serving" being what serve() really does: "connected" is reported exactly
\* while a session is served, never beside an error, and each failed attempt
\* is counted once.
Reports == INSTANCE Endpoint WITH
  serving <- (pc = "serve"), status <- status, MaxAttempts <- MaxAttempts
ReportsLikeEndpoint == Reports!Spec

\* No await but serve() can last for ever: not the dial, not a handshake with
\* a broker that accepts and keeps silent, not the wait.
EveryPhaseEnds ==
  \A p \in {"dial", "opened", "handshake", "persist", "backoff"} : pc = p ~> pc # p

\* A lost connection is always dialled again.
KeepsTrying == ws = "CLOSED" /\ ~aborted ~> pc = "dial" \/ aborted

\* Once aborted, run() never dials again; and it ends, if some listener heard
\* the abort: while it was dialling, serving or waiting.
AbortIsFinal ==
  /\ [][aborted => ~(pc # "dial" /\ pc' = "dial")]_vars
  /\ heardIn \in {"dial", "serve", "backoff"} ~> pc = "stopped"

\* "Run until `signal` is aborted" (run's comment).  Fails when the signal is
\* aborted between 'open' and serve(): no listener is attached there, and
\* serve() adds its own to a signal that will not fire again.
AbortStops == aborted ~> pc = "stopped"

=============================================================================
