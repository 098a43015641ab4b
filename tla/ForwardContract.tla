-------------------------- MODULE ForwardContract --------------------------
(***************************************************************************)
(* What RelayServer.forward() promises its callers (the public HTTP        *)
(* listener and the OAuth broker), with no sockets, timers or maps:        *)
(*                                                                         *)
(*   - a call is refused at once, or accepted and left waiting;            *)
(*   - it is accepted only while its daemon has fewer than MaxPending      *)
(*     calls waiting, and refused for the cap only when it has that many;  *)
(*   - a waiting call settles once: with the daemon's response, with a     *)
(*     timeout, or with every other waiting call when the server closes.   *)
(***************************************************************************)
EXTENDS Naturals, FiniteSets

CONSTANTS
  Calls,       \* identities of forward() calls (the uuidv4 request ids)
  Uuids,       \* daemons a call may name
  NoUuid,      \* target of a call not made yet
  MaxPending   \* maxPendingPerClient

VARIABLES
  target,      \* the daemon each call names
  outcome      \* what the caller has been told

vars == <<target, outcome>>

Refusals == {"notConnected", "backpressure", "capExceeded"}

\* The calls of daemon u that hold a slot under the cap.
Outstanding(u) == {i \in Calls : target[i] = u /\ outcome[i] = "waiting"}

Init ==
  /\ target = [i \in Calls |-> NoUuid]
  /\ outcome = [i \in Calls |-> "idle"]

Accept(i, u) ==
  /\ outcome[i] = "idle"
  /\ Cardinality(Outstanding(u)) < MaxPending
  /\ target' = [target EXCEPT ![i] = u]
  /\ outcome' = [outcome EXCEPT ![i] = "waiting"]

Refuse(i, u, reason) ==
  /\ outcome[i] = "idle"
  /\ reason = "capExceeded" => Cardinality(Outstanding(u)) >= MaxPending
  /\ target' = [target EXCEPT ![i] = u]
  /\ outcome' = [outcome EXCEPT ![i] = reason]

Settle(i, result) ==
  /\ outcome[i] = "waiting"
  /\ outcome' = [outcome EXCEPT ![i] = result]
  /\ UNCHANGED target

Close ==
  /\ outcome' = [i \in Calls |->
                   IF outcome[i] = "waiting" THEN "serverClosing" ELSE outcome[i]]
  /\ UNCHANGED target

Next ==
  \/ \E i \in Calls, u \in Uuids : Accept(i, u)
  \/ \E i \in Calls, u \in Uuids, reason \in Refusals : Refuse(i, u, reason)
  \/ \E i \in Calls, result \in {"response", "timeout"} : Settle(i, result)
  \/ Close

Spec == Init /\ [][Next]_vars

\* No caller is left waiting: the promise the request timer is there to keep.
FairSpec == Spec /\ \A i \in Calls : WF_vars(Settle(i, "response") \/ Settle(i, "timeout"))

=============================================================================
