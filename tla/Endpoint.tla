------------------------------ MODULE Endpoint ------------------------------
(***************************************************************************)
(* What a Connection tells its owner: the sequence of RelayEndpointStatus  *)
(* snapshots of one broker URL, with no sockets, frames or timers.         *)
(*                                                                         *)
(*   - "connected" is reported when a session starts and taken back when   *)
(*     it ends, in the same step: the owner is never told of a session     *)
(*     that is over;                                                       *)
(*   - a session that ends cleanly leaves no error and counts no attempt;  *)
(*   - an attempt that fails leaves its error, until the next session.     *)
(*                                                                         *)
(* Connection implements it (ReportsLikeEndpoint), and RelayClient, which  *)
(* owns several, is built on it.                                           *)
(***************************************************************************)
EXTENDS Naturals

CONSTANT MaxAttempts  \* reconnect_attempts is not counted past this

VARIABLES
  serving,  \* a session is being served
  status    \* the last snapshot

vars == <<serving, status>>

Initial == [connected |-> FALSE, last_error |-> FALSE, reconnect_attempts |-> 0]

\* The snapshots that follow st.
Up(st) == [st EXCEPT !.connected = TRUE, !.last_error = FALSE]

Ended(st) == [st EXCEPT !.connected = FALSE]

Failed(st) ==
  [st EXCEPT !.connected = FALSE, !.last_error = TRUE,
             !.reconnect_attempts = IF @ < MaxAttempts THEN @ + 1 ELSE @]

Init == serving = FALSE /\ status = Initial

Connects ==
  /\ ~serving
  /\ serving' = TRUE
  /\ status' = Up(status)

SessionEnds ==
  /\ serving
  /\ serving' = FALSE
  /\ status' = Ended(status)

AttemptFails ==
  /\ serving' = FALSE
  /\ status' = Failed(status)

Next == Connects \/ SessionEnds \/ AttemptFails

Spec == Init /\ [][Next]_vars

=============================================================================
