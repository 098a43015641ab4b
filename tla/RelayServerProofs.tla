------------------------- MODULE RelayServerProofs -------------------------
(***************************************************************************)
(* Proofs about RelayServer for every number of daemons, connections and   *)
(* calls, every cap and every pair of keepalive times.                     *)
(*                                                                         *)
(* The inductive invariant is TypeOK /\ CallInv /\ SocketInv:              *)
(*   CallInv    ties the pending map, the counts, the timers and what the  *)
(*              callers were told to each other;                           *)
(*   SocketInv  ties the registry to the connections' own view of it.      *)
(***************************************************************************)
EXTENDS RelayServer, FiniteSetTheorems, TLAPS

CallInv == CountsInLockstep /\ CapRespected /\ WaitersArePending

\* A connection that has not been made is unknown to the server.
FreshIsUnknown ==
  \A s \in Sockets : ws[s] = "NEW" => registeredUuid[s] = NoUuid /\ ~welcomed[s]

\* Only an admitted connection is welcomed, and a registered one that is
\* still open has been.
WelcomeMatchesRegistration ==
  \A s \in Sockets :
    /\ welcomed[s] => peer[s] \in Uuids
    /\ registeredUuid[s] # NoUuid /\ ws[s] = "OPEN" => welcomed[s]

SocketInv ==
  /\ FreshIsUnknown
  /\ WelcomeMatchesRegistration
  /\ RegistryBacked
  /\ WelcomedIsRouted
  /\ MetricsInSync
  /\ RequestsReachTheirTarget
  /\ WelcomePrecedesRequests

-----------------------------------------------------------------------------
(* Type correctness *)

\* TypeOK holds initially.
LEMMA InitTypeOK == Init => TypeOK
<1> SUFFICES ASSUME Init PROVE TypeOK
  OBVIOUS
<1>1. /\ clients \in [Uuids -> Sockets \cup {NoSocket}]
      /\ pending \in [Calls -> Uuids \cup {NoUuid}]
      /\ pendingByClient \in [Uuids -> Nat]
      /\ registeredUuid \in [Sockets -> Uuids \cup {NoUuid}]
      /\ target \in [Calls -> Uuids \cup {NoUuid}]
      /\ outcome \in [Calls -> Outcomes]
  BY DEF Init, Outcomes
<1>2. /\ pingTimer \in [Sockets -> BOOLEAN]
      /\ pongTimer \in [Sockets -> BOOLEAN]
      /\ lostPongTimer \in [Sockets -> BOOLEAN]
      /\ timer \in [Calls -> BOOLEAN]
  BY DEF Init
<1>3. /\ ws \in [Sockets -> {"NEW", "OPEN", "CLOSING", "CLOSED"}]
      /\ peer \in [Sockets -> Uuids \cup {NoUuid}]
      /\ alive \in [Sockets -> BOOLEAN]
      /\ welcomed \in [Sockets -> BOOLEAN]
      /\ deliveredOn \in [Calls -> Sockets \cup {NoSocket}]
      /\ online \in SUBSET Uuids
      /\ closing \in BOOLEAN
      /\ closeDone \in BOOLEAN
  BY DEF Init
<1> QED
  BY <1>1, <1>2, <1>3 DEF TypeOK

\* Every action keeps the types.
LEMMA NextTypeOK == TypeOK /\ [Next]_vars => TypeOK'
<1> SUFFICES ASSUME TypeOK, [Next]_vars PROVE TypeOK'
  OBVIOUS
<1> USE RelayAssumption DEF TypeOK, registryVars, pendingVars, aliveVars, socketVars, closeVars
<1>1. ASSUME NEW s \in Sockets, NEW u \in Uuids, Connect(s, u) PROVE TypeOK'
  BY <1>1 DEF Connect
<1>2. ASSUME NEW s \in Sockets, RejectConnection(s) PROVE TypeOK'
  BY <1>2 DEF RejectConnection
<1>3. ASSUME NEW s \in Sockets, RecvInvalidJson(s) PROVE TypeOK'
  BY <1>3 DEF RecvInvalidJson, Shut
<1>4. ASSUME NEW s \in Sockets, RecvBadHello(s) PROVE TypeOK'
  BY <1>4 DEF RecvBadHello, Shut
<1>5. ASSUME NEW s \in Sockets, RecvHello(s) PROVE TypeOK'
  BY <1>5 DEF RecvHello, Register, Delivers, Shut
<1>6. ASSUME NEW s \in Sockets, NEW i \in Calls, RecvResponse(s, i) PROVE TypeOK'
  BY <1>6 DEF RecvResponse, RemovePending, Outcomes
<1>7. ASSUME NEW s \in Sockets, PingTick(s) PROVE TypeOK'
  <2>1. CASE ws[s] # "OPEN"
    <3>1. Cleanup(s) /\ UNCHANGED <<lostPongTimer, pendingVars, socketVars, closeVars>>
      BY <1>7, <2>1 DEF PingTick
    <3> QED
      BY <3>1 DEF Cleanup, OwnsEntry
  <2>2. CASE ws[s] = "OPEN"
    <3>1. UNCHANGED <<registryVars, pendingVars, pingTimer, socketVars, closeVars>>
      BY <1>7, <2>2 DEF PingTick
    <3>2. pongTimer' \in [Sockets -> BOOLEAN]
      BY <1>7, <2>2 DEF PingTick
    <3>3. (lostPongTimer[s] \/ pongTimer[s]) \in BOOLEAN
      OBVIOUS
    <3>4. lostPongTimer' \in [Sockets -> BOOLEAN]
      BY <1>7, <2>2, <3>3 DEF PingTick
    <3> QED
      BY <3>1, <3>2, <3>4
  <2> QED
    BY <2>1, <2>2
<1>8. ASSUME NEW s \in Sockets, Pong(s) PROVE TypeOK'
  BY <1>8 DEF Pong
<1>9. ASSUME NEW s \in Sockets, PongTimeout(s) PROVE TypeOK'
  BY <1>9 DEF PongTimeout, Cleanup, OwnsEntry, Shut
<1>10. ASSUME NEW s \in Sockets, SocketError(s) PROVE TypeOK'
  BY <1>10 DEF SocketError, Cleanup, OwnsEntry, Shut
<1>11. ASSUME NEW s \in Sockets, SocketClosed(s) PROVE TypeOK'
  BY <1>11 DEF SocketClosed, Cleanup, OwnsEntry
<1>12. ASSUME NEW s \in Sockets, PeerCloses(s) PROVE TypeOK'
  BY <1>12 DEF PeerCloses
<1>13. ASSUME NEW s \in Sockets, PeerVanishes(s) PROVE TypeOK'
  BY <1>13 DEF PeerVanishes
<1>14. ASSUME NEW i \in Calls, NEW u \in Uuids, NEW congested \in BOOLEAN,
              Refuse(i, u, congested)
       PROVE TypeOK'
  BY <1>14 DEF Refuse, Admission, Outcomes
<1>15. ASSUME NEW i \in Calls, NEW u \in Uuids, Forward(i, u) PROVE TypeOK'
  BY <1>15 DEF Forward, AddPending, WrittenTo, Outcomes
<1>16. ASSUME NEW i \in Calls, ForwardTimeout(i) PROVE TypeOK'
  BY <1>16 DEF ForwardTimeout, RemovePending, Outcomes
<1>17. CASE Close
  BY <1>17 DEF Close, Shut, Outcomes
<1>18. CASE CloseCallback
  BY <1>18 DEF CloseCallback
<1>19. CASE UNCHANGED vars
  BY <1>19 DEF vars
<1> QED
  BY <1>1, <1>2, <1>3, <1>4, <1>5, <1>6, <1>7, <1>8, <1>9, <1>10, <1>11, <1>12,
     <1>13, <1>14, <1>15, <1>16, <1>17, <1>18, <1>19 DEF Next

\* Every reachable state is well typed.
THEOREM TypeCorrect == Spec => []TypeOK
BY InitTypeOK, NextTypeOK, PTL DEF Spec

-----------------------------------------------------------------------------
(* The pending map, the counts and the callers *)

\* Outstanding(u) is a finite set, so its cardinality is a number.
LEMMA OutstandingFinite ==
  ASSUME NEW u \in Uuids
  PROVE  IsFiniteSet(Outstanding(u)) /\ Cardinality(Outstanding(u)) \in Nat
<1>1. Outstanding(u) \subseteq Calls
  BY DEF Outstanding
<1> QED
  BY <1>1, RelayAssumption, FS_Subset, FS_CardinalityType

\* addPending of a fresh call adds it to its own daemon's outstanding calls
\* and to no other's.
LEMMA AddPendingAddsOne ==
  ASSUME TypeOK, NEW i \in Calls, NEW u \in Uuids, pending[i] = NoUuid, AddPending(i, u),
         NEW v \in Uuids
  PROVE  Cardinality(Outstanding(v)') = Cardinality(Outstanding(v)) + IF v = u THEN 1 ELSE 0
<1>1. CASE v = u
  <2>1. Outstanding(v)' = Outstanding(v) \cup {i}
    BY <1>1, RelayAssumption DEF TypeOK, AddPending, Outstanding
  <2>2. i \notin Outstanding(v)
    BY RelayAssumption DEF Outstanding
  <2> QED
    BY <1>1, <2>1, <2>2, OutstandingFinite, FS_AddElement
<1>2. CASE v # u
  <2>1. Outstanding(v)' = Outstanding(v)
    BY <1>2, RelayAssumption DEF TypeOK, AddPending, Outstanding
  <2> QED
    BY <1>2, <2>1, OutstandingFinite
<1> QED
  BY <1>1, <1>2

\* removePending of a pending call takes it from its own daemon's outstanding
\* calls and from no other's.
LEMMA RemovePendingRemovesOne ==
  ASSUME TypeOK, NEW i \in Calls, pending[i] # NoUuid, RemovePending(i), NEW v \in Uuids
  PROVE  Cardinality(Outstanding(v)') =
           Cardinality(Outstanding(v)) - IF v = pending[i] THEN 1 ELSE 0
<1>1. CASE v = pending[i]
  <2>1. Outstanding(v)' = Outstanding(v) \ {i}
    BY <1>1, RelayAssumption DEF TypeOK, RemovePending, Outstanding
  <2>2. i \in Outstanding(v)
    BY <1>1 DEF Outstanding
  <2> QED
    BY <1>1, <2>1, <2>2, OutstandingFinite, FS_RemoveElement
<1>2. CASE v # pending[i]
  <2>1. Outstanding(v)' = Outstanding(v)
    BY <1>2, RelayAssumption DEF TypeOK, RemovePending, Outstanding
  <2> QED
    BY <1>2, <2>1, OutstandingFinite
<1> QED
  BY <1>1, <1>2

\* A call that leaves the map by removePending, with its timer cleared and its
\* caller told, keeps the invariant: the exit by response and by timeout.
LEMMA SettlingKeepsCallInv ==
  ASSUME TypeOK, CallInv, NEW i \in Calls, pending[i] # NoUuid, RemovePending(i),
         NEW result \in {"response", "timeout"},
         timer' = [timer EXCEPT ![i] = FALSE],
         outcome' = [outcome EXCEPT ![i] = result],
         UNCHANGED target
  PROVE  CallInv'
<1>1. CountsInLockstep'
  <2>1. ASSUME NEW v \in Uuids
        PROVE  pendingByClient'[v] = Cardinality(Outstanding(v)')
    <3>1. Cardinality(Outstanding(v)') =
            pendingByClient[v] - IF v = pending[i] THEN 1 ELSE 0
      BY RemovePendingRemovesOne DEF CallInv, CountsInLockstep
    <3>2. Cardinality(Outstanding(v)') \in Nat
      <4>1. Outstanding(v)' \subseteq Calls
        BY DEF Outstanding
      <4> QED
        BY <4>1, RelayAssumption, FS_Subset, FS_CardinalityType
    <3>3. pendingByClient'[v] =
            IF v = pending[i] THEN IF pendingByClient[v] <= 1 THEN 0 ELSE pendingByClient[v] - 1
            ELSE pendingByClient[v]
      BY DEF RemovePending, TypeOK
    <3>4. pendingByClient[v] \in Nat
      BY DEF TypeOK
    <3> QED
      BY <3>1, <3>2, <3>3, <3>4
  <2> QED
    BY <2>1 DEF CountsInLockstep
<1>2. CapRespected'
  <2>1. ASSUME NEW v \in Uuids
        PROVE  Cardinality(Outstanding(v)') <= MaxPending
    BY RemovePendingRemovesOne, OutstandingFinite, RelayAssumption DEF CallInv, CapRespected
  <2> QED
    BY <2>1 DEF CapRespected
<1>3. WaitersArePending'
  BY DEF CallInv, WaitersArePending, RemovePending, TypeOK
<1> QED
  BY <1>1, <1>2, <1>3 DEF CallInv

\* No call is pending, and nothing is counted, at the start.
LEMMA InitCallInv == Init => CallInv
<1> SUFFICES ASSUME Init PROVE CallInv
  OBVIOUS
<1>1. ASSUME NEW u \in Uuids PROVE Outstanding(u) = {}
  BY RelayAssumption DEF Init, Outstanding
<1>2. CountsInLockstep /\ CapRespected
  <2>1. Cardinality({}) = 0
    BY FS_EmptySet
  <2>2. ASSUME NEW u \in Uuids PROVE Cardinality(Outstanding(u)) = 0
    BY <1>1, <2>1
  <2> QED
    BY <2>2, RelayAssumption DEF Init, CountsInLockstep, CapRespected
<1>3. WaitersArePending
  BY RelayAssumption DEF Init, WaitersArePending
<1> QED
  BY <1>2, <1>3 DEF CallInv

\* Steps that leave the calls alone keep the invariant.
LEMMA CallInvFrame ==
  CallInv /\ UNCHANGED <<pending, pendingByClient, timer, target, outcome>> => CallInv'
BY DEF CallInv, CountsInLockstep, CapRespected, WaitersArePending, Outstanding

\* An accepted call takes a slot that was free.
LEMMA ForwardKeepsCallInv ==
  ASSUME TypeOK, CallInv, NEW i \in Calls, NEW u \in Uuids, Forward(i, u)
  PROVE  CallInv'
<1>1. pending[i] = NoUuid
  BY DEF Forward, CallInv, WaitersArePending
<1>2. pendingByClient[u] < MaxPending
  BY RelayAssumption DEF Forward, Admission, TypeOK
<1>3. AddPending(i, u)
  BY DEF Forward
<1>4. ASSUME NEW v \in Uuids
      PROVE  /\ pendingByClient'[v] = Cardinality(Outstanding(v)')
             /\ Cardinality(Outstanding(v)') <= MaxPending
  <2>1. Cardinality(Outstanding(v)') = pendingByClient[v] + IF v = u THEN 1 ELSE 0
    BY <1>1, <1>3, AddPendingAddsOne DEF CallInv, CountsInLockstep
  <2>2. pendingByClient'[v] = pendingByClient[v] + IF v = u THEN 1 ELSE 0
    BY <1>3 DEF AddPending, TypeOK
  <2>3. pendingByClient[v] <= MaxPending
    BY DEF CallInv, CountsInLockstep, CapRespected
  <2> QED
    BY <1>2, <2>1, <2>2, <2>3, RelayAssumption DEF TypeOK
<1>5. WaitersArePending'
  BY RelayAssumption DEF Forward, AddPending, CallInv, WaitersArePending, TypeOK
<1> QED
  BY <1>4, <1>5 DEF CallInv, CountsInLockstep, CapRespected

\* close() empties the map and the counts together and tells every waiter.
LEMMA CloseKeepsCallInv ==
  ASSUME TypeOK, CallInv, Close
  PROVE  CallInv'
<1>1. ASSUME NEW u \in Uuids PROVE Outstanding(u)' = {}
  BY RelayAssumption DEF Close, Outstanding
<1>2. CountsInLockstep' /\ CapRespected'
  <2>1. Cardinality({}) = 0
    BY FS_EmptySet
  <2>2. ASSUME NEW u \in Uuids PROVE Cardinality(Outstanding(u)') = 0
    BY <1>1, <2>1
  <2> QED
    BY <2>2, RelayAssumption DEF Close, CountsInLockstep, CapRespected
<1>3. ASSUME NEW i \in Calls
      PROVE  /\ (outcome'[i] = "waiting") <=> (pending'[i] # NoUuid)
             /\ timer'[i] <=> (pending'[i] # NoUuid)
             /\ pending'[i] # NoUuid => pending'[i] = target'[i]
  <2>1. pending'[i] = NoUuid /\ outcome'[i] # "waiting"
    BY DEF Close, CallInv, WaitersArePending
  <2>2. ~timer'[i]
    BY DEF Close, CallInv, WaitersArePending
  <2> QED
    BY <2>1, <2>2
<1>4. WaitersArePending'
  BY <1>3 DEF WaitersArePending
<1> QED
  BY <1>2, <1>4 DEF CallInv

\* Every action keeps the invariant of the calls.
LEMMA NextCallInv == TypeOK /\ CallInv /\ [Next]_vars => CallInv'
<1> SUFFICES ASSUME TypeOK, CallInv, [Next]_vars PROVE CallInv'
  OBVIOUS
<1> USE DEF pendingVars
<1>1. ASSUME NEW s \in Sockets, NEW u \in Uuids, Connect(s, u) PROVE CallInv'
  BY <1>1, CallInvFrame DEF Connect
<1>2. ASSUME NEW s \in Sockets, RejectConnection(s) PROVE CallInv'
  BY <1>2, CallInvFrame DEF RejectConnection
<1>3. ASSUME NEW s \in Sockets, RecvInvalidJson(s) \/ RecvBadHello(s) PROVE CallInv'
  BY <1>3, CallInvFrame DEF RecvInvalidJson, RecvBadHello
<1>4. ASSUME NEW s \in Sockets, RecvHello(s) PROVE CallInv'
  BY <1>4, CallInvFrame DEF RecvHello, Register
<1>5. ASSUME NEW s \in Sockets, NEW i \in Calls, RecvResponse(s, i) PROVE CallInv'
  BY <1>5, SettlingKeepsCallInv DEF RecvResponse
<1>6. ASSUME NEW s \in Sockets, PingTick(s) \/ Pong(s) \/ PongTimeout(s) PROVE CallInv'
  BY <1>6, CallInvFrame DEF PingTick, Pong, PongTimeout
<1>7. ASSUME NEW s \in Sockets,
             SocketError(s) \/ SocketClosed(s) \/ PeerCloses(s) \/ PeerVanishes(s)
      PROVE  CallInv'
  BY <1>7, CallInvFrame DEF SocketError, SocketClosed, PeerCloses, PeerVanishes
<1>8. ASSUME NEW i \in Calls, NEW u \in Uuids, NEW congested \in BOOLEAN,
             Refuse(i, u, congested)
      PROVE  CallInv'
  <2>1. Admission(u, congested) # "waiting" /\ outcome[i] = "idle"
    BY <1>8 DEF Refuse
  <2>2. pending[i] = NoUuid /\ ~timer[i]
    BY <2>1 DEF CallInv, WaitersArePending
  <2>3. CountsInLockstep' /\ CapRespected'
    BY <1>8 DEF Refuse, CallInv, CountsInLockstep, CapRespected, Outstanding
  <2>4. WaitersArePending'
    BY <1>8, <2>1, <2>2 DEF Refuse, CallInv, WaitersArePending, TypeOK
  <2> QED
    BY <2>3, <2>4 DEF CallInv
<1>9. ASSUME NEW i \in Calls, NEW u \in Uuids, Forward(i, u) PROVE CallInv'
  BY <1>9, ForwardKeepsCallInv
<1>10. ASSUME NEW i \in Calls, ForwardTimeout(i) PROVE CallInv'
  <2>1. pending[i] # NoUuid
    BY <1>10 DEF ForwardTimeout, CallInv, WaitersArePending
  <2> QED
    BY <1>10, <2>1, SettlingKeepsCallInv DEF ForwardTimeout
<1>11. CASE Close
  BY <1>11, CloseKeepsCallInv
<1>12. CASE CloseCallback
  BY <1>12, CallInvFrame DEF CloseCallback
<1>13. CASE UNCHANGED vars
  BY <1>13, CallInvFrame DEF vars
<1> QED
  BY <1>1, <1>2, <1>3, <1>4, <1>5, <1>6, <1>7, <1>8, <1>9, <1>10, <1>11, <1>12, <1>13
     DEF Next

-----------------------------------------------------------------------------
(* The registry and the connections *)

\* Nothing was written for a call that has not been made.
IdleIsUnsent == \A i \in Calls : outcome[i] = "idle" => deliveredOn[i] = NoSocket

\* No step makes a call idle again, and only forward() writes a request.
LEMMA NextIdleIsUnsent == TypeOK /\ CallInv /\ IdleIsUnsent /\ [Next]_vars => IdleIsUnsent'
<1> SUFFICES ASSUME TypeOK, CallInv, IdleIsUnsent, [Next]_vars PROVE IdleIsUnsent'
  OBVIOUS
<1>1. CASE UNCHANGED <<outcome, deliveredOn>>
  BY <1>1 DEF IdleIsUnsent
<1>2. ASSUME NEW s \in Sockets, NEW i \in Calls, RecvResponse(s, i) PROVE IdleIsUnsent'
  BY <1>2 DEF RecvResponse, IdleIsUnsent, TypeOK
<1>3. ASSUME NEW i \in Calls, NEW u \in Uuids, NEW congested \in BOOLEAN,
             Refuse(i, u, congested)
      PROVE  IdleIsUnsent'
  BY <1>3 DEF Refuse, IdleIsUnsent, TypeOK
<1>4. ASSUME NEW i \in Calls, NEW u \in Uuids, Forward(i, u) PROVE IdleIsUnsent'
  BY <1>4 DEF Forward, IdleIsUnsent, TypeOK
<1>5. ASSUME NEW i \in Calls, ForwardTimeout(i) PROVE IdleIsUnsent'
  BY <1>5 DEF ForwardTimeout, IdleIsUnsent, TypeOK
<1>6. CASE Close
  BY <1>6 DEF Close, IdleIsUnsent
<1>7. ASSUME NEW s \in Sockets, NEW u \in Uuids, Connect(s, u) \/ RecvHello(s)
      PROVE  UNCHANGED <<outcome, deliveredOn>>
  BY <1>7 DEF Connect, RecvHello, Register, pendingVars
<1>8. ASSUME NEW s \in Sockets,
             \/ RejectConnection(s) \/ RecvInvalidJson(s) \/ RecvBadHello(s)
             \/ PeerCloses(s) \/ PeerVanishes(s)
      PROVE  UNCHANGED <<outcome, deliveredOn>>
  BY <1>8 DEF RejectConnection, RecvInvalidJson, RecvBadHello, PeerCloses, PeerVanishes,
              pendingVars
<1>9. ASSUME NEW s \in Sockets,
             \/ RecvHello(s) \/ PingTick(s) \/ Pong(s) \/ PongTimeout(s)
             \/ SocketError(s) \/ SocketClosed(s)
      PROVE  UNCHANGED <<outcome, deliveredOn>>
  BY <1>9 DEF RecvHello, Register, PingTick, Pong, PongTimeout, SocketError, SocketClosed,
              pendingVars
<1>10. CASE CloseCallback \/ UNCHANGED vars
  BY <1>1, <1>10 DEF CloseCallback, vars, pendingVars
<1> QED
  BY <1>1, <1>2, <1>3, <1>4, <1>5, <1>6, <1>7, <1>8, <1>9, <1>10 DEF Next

\* No connection is known at the start.
LEMMA InitSocketInv == Init => SocketInv
<1> SUFFICES ASSUME Init PROVE SocketInv
  OBVIOUS
<1>1. FreshIsUnknown /\ WelcomeMatchesRegistration
  BY DEF Init, FreshIsUnknown, WelcomeMatchesRegistration
<1>2. RegistryBacked /\ WelcomedIsRouted /\ MetricsInSync
  BY RelayAssumption DEF Init, RegistryBacked, WelcomedIsRouted, MetricsInSync
<1>3. RequestsReachTheirTarget /\ WelcomePrecedesRequests
  BY DEF Init, RequestsReachTheirTarget, WelcomePrecedesRequests
<1> QED
  BY <1>1, <1>2, <1>3 DEF SocketInv

\* Steps that leave the registry, the connections and the frames alone.
LEMMA SocketInvFrame ==
  /\ SocketInv
  /\ UNCHANGED <<registryVars, pingTimer, ws, peer, welcomed, target, deliveredOn, closing>>
  => SocketInv'
BY DEF registryVars, SocketInv, FreshIsUnknown, WelcomeMatchesRegistration, RegistryBacked,
       WelcomedIsRouted, MetricsInSync, RequestsReachTheirTarget, WelcomePrecedesRequests

\* A socket that leaves OPEN, or NEW, for CLOSING keeps its entry; one that
\* was rejected has none.
LEMMA LeavingOpenKeepsSocketInv ==
  ASSUME TypeOK, SocketInv, NEW s \in Sockets, NEW state \in {"CLOSING", "CLOSED"},
         state = "CLOSED" => peer[s] = NoUuid,
         ws' = [ws EXCEPT ![s] = state],
         UNCHANGED <<registryVars, pingTimer, peer, welcomed, target, deliveredOn, closing>>
  PROVE  SocketInv'
<1> USE DEF registryVars
<1>1. FreshIsUnknown' /\ WelcomeMatchesRegistration'
  BY DEF SocketInv, FreshIsUnknown, WelcomeMatchesRegistration, TypeOK
<1>2. RegistryBacked'
  BY RelayAssumption DEF SocketInv, RegistryBacked, TypeOK
<1>3. WelcomedIsRouted' /\ MetricsInSync'
  BY DEF SocketInv, WelcomedIsRouted, MetricsInSync, TypeOK
<1>4. RequestsReachTheirTarget' /\ WelcomePrecedesRequests'
  BY DEF SocketInv, RequestsReachTheirTarget, WelcomePrecedesRequests
<1> QED
  BY <1>1, <1>2, <1>3, <1>4 DEF SocketInv

\* cleanup() of a socket that is not open takes exactly its own entry out of
\* the registry and of the metrics.
LEMMA CleanupTakesOwnEntry ==
  ASSUME TypeOK, RegistryBacked, NEW s \in Sockets, Cleanup(s)
  PROVE  /\ \A u \in Uuids : clients'[u] = IF clients[u] = s THEN NoSocket ELSE clients[u]
         /\ online' = online \ {u \in Uuids : clients[u] = s}
<1>1. \A u \in Uuids : clients[u] = s => registeredUuid[s] = u
  BY RelayAssumption DEF RegistryBacked, TypeOK
<1>2. CASE OwnsEntry(s)
  <2>1. registeredUuid[s] \in Uuids /\ clients[registeredUuid[s]] = s
    BY <1>2, RelayAssumption DEF OwnsEntry, TypeOK
  <2>2. clients' = [clients EXCEPT ![registeredUuid[s]] = NoSocket]
    BY <1>2 DEF Cleanup
  <2>3. online' = online \ {registeredUuid[s]}
    BY <1>2 DEF Cleanup
  <2> QED
    BY <1>1, <2>1, <2>2, <2>3 DEF TypeOK
<1>3. CASE ~OwnsEntry(s)
  <2>1. \A u \in Uuids : clients[u] # s
    BY <1>1, <1>3, RelayAssumption DEF OwnsEntry
  <2>2. clients' = clients /\ online' = online
    BY <1>3 DEF Cleanup
  <2> QED
    BY <2>1, <2>2
<1> QED
  BY <1>2, <1>3

\* cleanup() keeps the invariant when the socket is, or is made, not open.
LEMMA CleanupKeepsSocketInv ==
  ASSUME TypeOK, SocketInv, NEW s \in Sockets, Cleanup(s),
         NEW state \in {"NEW", "CLOSING", "CLOSED"},
         state = "NEW" => ws[s] = "NEW",
         ws' = [ws EXCEPT ![s] = state],
         UNCHANGED <<peer, welcomed, target, deliveredOn, closing>>
  PROVE  SocketInv'
<1>1. \A u \in Uuids : clients'[u] = IF clients[u] = s THEN NoSocket ELSE clients[u]
  BY CleanupTakesOwnEntry DEF SocketInv
<1>2. online' = online \ {u \in Uuids : clients[u] = s}
  BY CleanupTakesOwnEntry DEF SocketInv
<1>3. /\ registeredUuid' = [registeredUuid EXCEPT ![s] = NoUuid]
      /\ pingTimer' = [pingTimer EXCEPT ![s] = FALSE]
  BY DEF Cleanup
<1>4. FreshIsUnknown' /\ WelcomeMatchesRegistration'
  BY <1>3 DEF SocketInv, FreshIsUnknown, WelcomeMatchesRegistration, TypeOK
<1>5. RegistryBacked'
  BY <1>1, <1>3, RelayAssumption DEF SocketInv, RegistryBacked, TypeOK
<1>6. WelcomedIsRouted'
  BY <1>1, RelayAssumption DEF SocketInv, WelcomedIsRouted, WelcomeMatchesRegistration, TypeOK
<1>7. MetricsInSync'
  BY <1>1, <1>2, RelayAssumption DEF SocketInv, MetricsInSync, TypeOK
<1>8. RequestsReachTheirTarget' /\ WelcomePrecedesRequests'
  BY DEF SocketInv, RequestsReachTheirTarget, WelcomePrecedesRequests
<1> QED
  BY <1>4, <1>5, <1>6, <1>7, <1>8 DEF SocketInv

\* A new connection is in nobody's entry and has been sent nothing.
LEMMA ConnectKeepsSocketInv ==
  ASSUME TypeOK, SocketInv, NEW s \in Sockets, NEW u \in Uuids, Connect(s, u)
  PROVE  SocketInv'
<1> USE DEF registryVars, pendingVars, aliveVars, closeVars
<1>1. registeredUuid[s] = NoUuid /\ ~welcomed[s] /\ ws[s] = "NEW"
  BY DEF Connect, SocketInv, FreshIsUnknown
<1>2. /\ ws' = [ws EXCEPT ![s] = "OPEN"] /\ peer' = [peer EXCEPT ![s] = u]
      /\ UNCHANGED <<clients, registeredUuid, online, pingTimer, welcomed, target,
                     deliveredOn, closing>>
  BY DEF Connect
<1>3. FreshIsUnknown' /\ WelcomeMatchesRegistration'
  BY <1>1, <1>2 DEF SocketInv, FreshIsUnknown, WelcomeMatchesRegistration, TypeOK
<1>4. RegistryBacked'
  BY <1>1, <1>2, RelayAssumption DEF SocketInv, RegistryBacked, TypeOK
<1>5. WelcomedIsRouted' /\ MetricsInSync'
  BY <1>1, <1>2 DEF SocketInv, WelcomedIsRouted, MetricsInSync, TypeOK
<1>6. RequestsReachTheirTarget' /\ WelcomePrecedesRequests'
  BY <1>1, <1>2
     DEF SocketInv, RequestsReachTheirTarget, WelcomePrecedesRequests, TypeOK
<1> QED
  BY <1>3, <1>4, <1>5, <1>6 DEF SocketInv

\* A hello moves the uuid's entry to its own connection and leaves no open
\* connection that was welcomed before for the same uuid.
LEMMA RecvHelloKeepsSocketInv ==
  ASSUME TypeOK, SocketInv, NEW s \in Sockets, RecvHello(s)
  PROVE  SocketInv'
<1> DEFINE u == peer[s]
           previous == clients[u]
<1> USE DEF pendingVars, closeVars
<1>1. /\ u \in Uuids
      /\ registeredUuid[s] = NoUuid
      /\ ws[s] \in {"OPEN", "CLOSING"}
  BY DEF RecvHello, Register, Delivers, TypeOK
<1>2. /\ clients' = [clients EXCEPT ![u] = s]
      /\ registeredUuid' = [registeredUuid EXCEPT ![s] = u]
      /\ online' = online \cup {u}
      /\ welcomed' = [welcomed EXCEPT ![s] = @ \/ ws[s] = "OPEN"]
      /\ pingTimer' = [pingTimer EXCEPT ![s] = TRUE]
      /\ UNCHANGED <<target, deliveredOn, peer, closing>>
  BY DEF RecvHello, Register
<1>3. \A v \in Uuids : clients[v] # s
  BY <1>1, RelayAssumption DEF SocketInv, RegistryBacked
<1>4. /\ \A t \in Sockets : t # previous => ws'[t] = ws[t]
      /\ previous # NoSocket => previous \in Sockets /\ ws'[previous] = "CLOSING"
  <2>1. CASE previous = NoSocket
    BY <1>1, <2>1 DEF RecvHello, Register
  <2>2. CASE previous # NoSocket
    <3>1. previous \in Sockets /\ ws[previous] \in {"OPEN", "CLOSING"}
      BY <1>1, <2>2 DEF SocketInv, RegistryBacked, TypeOK
    <3>2. ws' = [ws EXCEPT ![previous] = Shut(previous)]
      BY <1>1, <2>2 DEF RecvHello, Register
    <3> QED
      BY <3>1, <3>2 DEF Shut, TypeOK
  <2> QED
    BY <2>1, <2>2
<1>5. ws'[s] = ws[s]
  BY <1>1, <1>3, <1>4
<1>6. \A t \in Sockets : t # s => welcomed'[t] = welcomed[t]
  BY <1>2 DEF TypeOK
<1>7. ws[s] = "OPEN" => welcomed'[s]
  BY <1>2 DEF TypeOK
<1>8. FreshIsUnknown'
  <2>1. ASSUME NEW t \in Sockets, ws'[t] = "NEW"
        PROVE  registeredUuid'[t] = NoUuid /\ ~welcomed'[t]
    <3>1. t # s /\ t # previous
      BY <1>1, <1>4, <1>5, <2>1, RelayAssumption
    <3> QED
      BY <1>2, <1>4, <1>6, <2>1, <3>1 DEF SocketInv, FreshIsUnknown, TypeOK
  <2> QED
    BY <2>1 DEF FreshIsUnknown
<1>9. WelcomeMatchesRegistration'
  <2>1. ASSUME NEW t \in Sockets
        PROVE  /\ welcomed'[t] => peer'[t] \in Uuids
               /\ registeredUuid'[t] # NoUuid /\ ws'[t] = "OPEN" => welcomed'[t]
    <3>1. CASE t = s
      BY <1>1, <1>2, <1>5, <1>7, <3>1
    <3>2. CASE t # s
      <4>1. ws'[t] = "OPEN" => ws[t] = "OPEN"
        BY <1>4, RelayAssumption
      <4>2. registeredUuid'[t] = registeredUuid[t]
        BY <1>2, <3>2 DEF TypeOK
      <4> QED
        BY <1>2, <1>6, <3>2, <4>1, <4>2 DEF SocketInv, WelcomeMatchesRegistration
    <3> QED
      BY <3>1, <3>2
  <2> QED
    BY <2>1 DEF WelcomeMatchesRegistration
<1>10. RegistryBacked'
  <2>1. ASSUME NEW v \in Uuids, clients'[v] # NoSocket
        PROVE  /\ registeredUuid'[clients'[v]] = v /\ peer'[clients'[v]] = v
               /\ ws'[clients'[v]] \in {"OPEN", "CLOSING"}
               /\ pingTimer'[clients'[v]]
    <3>1. CASE v = u
      BY <1>1, <1>2, <1>5, <3>1 DEF TypeOK
    <3>2. CASE v # u
      <4>1. clients'[v] = clients[v] /\ clients[v] \in Sockets /\ clients[v] # s
        BY <1>2, <1>3, <2>1, <3>2 DEF TypeOK
      <4> QED
        BY <1>2, <1>4, <2>1, <4>1 DEF SocketInv, RegistryBacked, TypeOK
    <3> QED
      BY <3>1, <3>2
  <2> QED
    BY <2>1 DEF RegistryBacked
<1>11. WelcomedIsRouted'
  <2>1. ASSUME NEW t \in Sockets, welcomed'[t], ws'[t] = "OPEN"
        PROVE  clients'[peer'[t]] = t
    <3>1. CASE t = s
      BY <1>1, <1>2, <3>1 DEF TypeOK
    <3>2. CASE t # s
      <4>1. t # previous /\ ws[t] = "OPEN" /\ welcomed[t]
        BY <1>4, <1>6, <2>1, <3>2, RelayAssumption
      <4>2. clients[peer[t]] = t /\ peer[t] \in Uuids
        BY <4>1 DEF SocketInv, WelcomedIsRouted, WelcomeMatchesRegistration
      <4> QED
        BY <1>1, <1>2, <4>1, <4>2 DEF TypeOK
    <3> QED
      BY <3>1, <3>2
  <2> QED
    BY <2>1 DEF WelcomedIsRouted
<1>12. MetricsInSync'
  BY <1>1, <1>2, RelayAssumption DEF SocketInv, MetricsInSync, TypeOK
<1>13. RequestsReachTheirTarget' /\ WelcomePrecedesRequests'
  BY <1>2, <1>6, <1>7 DEF SocketInv, RequestsReachTheirTarget, WelcomePrecedesRequests, TypeOK
<1> QED
  BY <1>8, <1>9, <1>10, <1>11, <1>12, <1>13 DEF SocketInv

\* A request is written to the registered connection of the uuid, and only if
\* it is open, in which case it has been welcomed.
LEMMA ForwardKeepsSocketInv ==
  ASSUME TypeOK, SocketInv, NEW i \in Calls, NEW u \in Uuids, Forward(i, u)
  PROVE  SocketInv'
<1> USE DEF registryVars, aliveVars, socketVars, closeVars
<1>1. /\ UNCHANGED <<clients, registeredUuid, online, pingTimer, ws, peer, welcomed, closing>>
      /\ target' = [target EXCEPT ![i] = u]
      /\ deliveredOn' = [deliveredOn EXCEPT ![i] = WrittenTo(u)]
      /\ clients[u] # NoSocket
  BY DEF Forward, Admission
<1>2. /\ FreshIsUnknown' /\ WelcomeMatchesRegistration'
      /\ RegistryBacked' /\ WelcomedIsRouted' /\ MetricsInSync'
  BY <1>1 DEF SocketInv, FreshIsUnknown, WelcomeMatchesRegistration, RegistryBacked,
              WelcomedIsRouted, MetricsInSync
<1>3. WrittenTo(u) # NoSocket => WrittenTo(u) \in Sockets /\ peer[WrittenTo(u)] = u
                                 /\ welcomed[WrittenTo(u)]
  BY <1>1, RelayAssumption
     DEF WrittenTo, SocketInv, RegistryBacked, WelcomeMatchesRegistration, TypeOK
<1>4. RequestsReachTheirTarget' /\ WelcomePrecedesRequests'
  BY <1>1, <1>3 DEF SocketInv, RequestsReachTheirTarget, WelcomePrecedesRequests, TypeOK
<1> QED
  BY <1>2, <1>4 DEF SocketInv

\* A refused call has written nothing.
LEMMA RefuseKeepsSocketInv ==
  ASSUME TypeOK, IdleIsUnsent, SocketInv, NEW i \in Calls, NEW u \in Uuids,
         NEW congested \in BOOLEAN, Refuse(i, u, congested)
  PROVE  SocketInv'
<1> USE DEF registryVars, aliveVars, socketVars, closeVars
<1>1. /\ UNCHANGED <<clients, registeredUuid, online, pingTimer, ws, peer, welcomed, closing,
                     deliveredOn>>
      /\ target' = [target EXCEPT ![i] = u]
      /\ deliveredOn[i] = NoSocket
  BY DEF Refuse, IdleIsUnsent
<1>2. /\ FreshIsUnknown' /\ WelcomeMatchesRegistration'
      /\ RegistryBacked' /\ WelcomedIsRouted' /\ MetricsInSync'
  BY <1>1 DEF SocketInv, FreshIsUnknown, WelcomeMatchesRegistration, RegistryBacked,
              WelcomedIsRouted, MetricsInSync
<1>3. RequestsReachTheirTarget' /\ WelcomePrecedesRequests'
  BY <1>1 DEF SocketInv, RequestsReachTheirTarget, WelcomePrecedesRequests, TypeOK
<1> QED
  BY <1>2, <1>3 DEF SocketInv

\* close() shuts every socket the registry knows before it forgets them.
LEMMA CloseKeepsSocketInv ==
  ASSUME TypeOK, SocketInv, Close
  PROVE  SocketInv'
<1> USE DEF aliveVars
<1>1. /\ UNCHANGED <<registeredUuid, online, pingTimer, peer, welcomed, target, deliveredOn>>
      /\ clients' = [u \in Uuids |-> NoSocket]
      /\ ws' = [s \in Sockets |-> IF \E u \in Uuids : clients[u] = s THEN Shut(s) ELSE ws[s]]
      /\ closing'
  BY DEF Close
<1>2. \A s \in Sockets : /\ ws'[s] = "NEW" <=> ws[s] = "NEW"
                         /\ ws'[s] = "OPEN" => ws[s] = "OPEN"
  BY <1>1 DEF Shut
<1>3. FreshIsUnknown' /\ WelcomeMatchesRegistration'
  BY <1>1, <1>2 DEF SocketInv, FreshIsUnknown, WelcomeMatchesRegistration
<1>4. RegistryBacked' /\ MetricsInSync'
  BY <1>1 DEF RegistryBacked, MetricsInSync
<1>5. ASSUME NEW s \in Sockets, welcomed'[s], ws'[s] = "OPEN" PROVE FALSE
  <2>1. peer[s] \in Uuids /\ clients[peer[s]] = s
    BY <1>1, <1>2, <1>5 DEF SocketInv, WelcomedIsRouted, WelcomeMatchesRegistration
  <2> QED
    BY <1>1, <1>5, <2>1 DEF Shut
<1>6. WelcomedIsRouted'
  BY <1>5 DEF WelcomedIsRouted
<1>7. RequestsReachTheirTarget' /\ WelcomePrecedesRequests'
  BY <1>1 DEF SocketInv, RequestsReachTheirTarget, WelcomePrecedesRequests
<1> QED
  BY <1>3, <1>4, <1>6, <1>7 DEF SocketInv

\* Every action keeps the invariant of the connections.
LEMMA NextSocketInv ==
  TypeOK /\ CallInv /\ IdleIsUnsent /\ SocketInv /\ [Next]_vars => SocketInv'
<1> SUFFICES ASSUME TypeOK, IdleIsUnsent, SocketInv, [Next]_vars PROVE SocketInv'
  OBVIOUS
<1> USE DEF pendingVars, aliveVars, closeVars
<1>1. ASSUME NEW s \in Sockets, NEW u \in Uuids, Connect(s, u) PROVE SocketInv'
  BY <1>1, ConnectKeepsSocketInv
<1>2. ASSUME NEW s \in Sockets, RejectConnection(s) PROVE SocketInv'
  BY <1>2, LeavingOpenKeepsSocketInv DEF RejectConnection
<1>3. ASSUME NEW s \in Sockets, RecvInvalidJson(s) \/ RecvBadHello(s) PROVE SocketInv'
  <2>1. Shut(s) = "CLOSING" /\ ws' = [ws EXCEPT ![s] = "CLOSING"]
    BY <1>3 DEF RecvInvalidJson, RecvBadHello, Delivers, Shut
  <2> QED
    BY <1>3, <2>1, LeavingOpenKeepsSocketInv DEF RecvInvalidJson, RecvBadHello
<1>4. ASSUME NEW s \in Sockets, RecvHello(s) PROVE SocketInv'
  BY <1>4, RecvHelloKeepsSocketInv
<1>5. ASSUME NEW s \in Sockets, NEW i \in Calls, RecvResponse(s, i) PROVE SocketInv'
  BY <1>5, SocketInvFrame DEF RecvResponse, socketVars
<1>6. ASSUME NEW s \in Sockets, PingTick(s) PROVE SocketInv'
  <2>1. CASE ws[s] = "OPEN"
    BY <1>6, <2>1, SocketInvFrame DEF PingTick, socketVars
  <2>2. CASE ws[s] # "OPEN"
    <3>1. /\ Cleanup(s)
          /\ UNCHANGED <<ws, peer, welcomed, target, deliveredOn, closing>>
      BY <1>6, <2>2 DEF PingTick, socketVars
    <3>2. ws' = [ws EXCEPT ![s] = ws[s]] /\ ws[s] \in {"NEW", "CLOSING", "CLOSED"}
      BY <2>2, <3>1 DEF TypeOK
    <3> QED
      BY <3>1, <3>2, CleanupKeepsSocketInv
  <2> QED
    BY <2>1, <2>2
<1>7. ASSUME NEW s \in Sockets, Pong(s) PROVE SocketInv'
  BY <1>7, SocketInvFrame DEF Pong, socketVars
<1>8. ASSUME NEW s \in Sockets, PongTimeout(s) PROVE SocketInv'
  <2>1. /\ Cleanup(s)
        /\ ws' = [ws EXCEPT ![s] = Shut(s)]
        /\ UNCHANGED <<peer, welcomed, target, deliveredOn, closing>>
    BY <1>8 DEF PongTimeout
  <2>2. Shut(s) \in {"NEW", "CLOSING", "CLOSED"} /\ (Shut(s) = "NEW" => ws[s] = "NEW")
    BY DEF Shut, TypeOK
  <2> QED
    BY <2>1, <2>2, CleanupKeepsSocketInv
<1>9. ASSUME NEW s \in Sockets, SocketError(s) PROVE SocketInv'
  <2>1. /\ ws' = [ws EXCEPT ![s] = "CLOSING"]
        /\ UNCHANGED <<peer, welcomed, target, deliveredOn, closing>>
    BY <1>9 DEF SocketError, Shut
  <2>2. CASE peer[s] = NoUuid
    BY <1>9, <2>1, <2>2, LeavingOpenKeepsSocketInv DEF SocketError
  <2>3. CASE peer[s] # NoUuid
    BY <1>9, <2>1, <2>3, CleanupKeepsSocketInv DEF SocketError
  <2> QED
    BY <2>2, <2>3
<1>10. ASSUME NEW s \in Sockets, SocketClosed(s) PROVE SocketInv'
  <2>1. /\ ws' = [ws EXCEPT ![s] = "CLOSED"]
        /\ UNCHANGED <<peer, welcomed, target, deliveredOn, closing>>
    BY <1>10 DEF SocketClosed
  <2>2. CASE peer[s] = NoUuid
    BY <1>10, <2>1, <2>2, LeavingOpenKeepsSocketInv DEF SocketClosed
  <2>3. CASE peer[s] # NoUuid
    BY <1>10, <2>1, <2>3, CleanupKeepsSocketInv DEF SocketClosed
  <2> QED
    BY <2>2, <2>3
<1>11. ASSUME NEW s \in Sockets, PeerCloses(s) PROVE SocketInv'
  BY <1>11, LeavingOpenKeepsSocketInv DEF PeerCloses
<1>12. ASSUME NEW s \in Sockets, PeerVanishes(s) PROVE SocketInv'
  BY <1>12, SocketInvFrame DEF PeerVanishes
<1>13. ASSUME NEW i \in Calls, NEW u \in Uuids, NEW congested \in BOOLEAN,
              Refuse(i, u, congested)
       PROVE SocketInv'
  BY <1>13, RefuseKeepsSocketInv
<1>14. ASSUME NEW i \in Calls, NEW u \in Uuids, Forward(i, u) PROVE SocketInv'
  BY <1>14, ForwardKeepsSocketInv
<1>15. ASSUME NEW i \in Calls, ForwardTimeout(i) PROVE SocketInv'
  BY <1>15, SocketInvFrame DEF ForwardTimeout, socketVars
<1>16. CASE Close
  BY <1>16, CloseKeepsSocketInv
<1>17. CASE CloseCallback
  BY <1>17, SocketInvFrame DEF CloseCallback, socketVars
<1>18. CASE UNCHANGED vars
  BY <1>18, SocketInvFrame DEF vars, socketVars
<1> QED
  BY <1>1, <1>2, <1>3, <1>4, <1>5, <1>6, <1>7, <1>8, <1>9, <1>10, <1>11, <1>12, <1>13,
     <1>14, <1>15, <1>16, <1>17, <1>18 DEF Next

-----------------------------------------------------------------------------
(* The invariants as theorems of the specification *)

IInv == TypeOK /\ CallInv /\ IdleIsUnsent /\ SocketInv

\* The inductive invariant holds in every reachable state.
THEOREM IInvHolds == Spec => []IInv
<1>1. Init => IInv
  <2>1. Init => IdleIsUnsent
    BY DEF Init, IdleIsUnsent
  <2> QED
    BY <2>1, InitTypeOK, InitCallInv, InitSocketInv DEF IInv
<1>2. IInv /\ [Next]_vars => IInv'
  BY NextTypeOK, NextCallInv, NextIdleIsUnsent, NextSocketInv DEF IInv
<1> QED
  BY <1>1, <1>2, PTL DEF Spec

\* The outstanding count of every daemon is exact, and the cap holds of the
\* map itself, whatever mix of responses, timeouts and shutdown emptied it.
THEOREM CapIsExact == Spec => []CapBookkeeping
<1>1. IInv => CapBookkeeping
  BY DEF IInv, CallInv, CapBookkeeping
<1> QED
  BY <1>1, IInvHolds, PTL

\* A caller waits exactly while its entry and its timer exist.
THEOREM NoCallLeaks == Spec => []WaitersArePending
<1>1. IInv => WaitersArePending
  BY DEF IInv, CallInv
<1> QED
  BY <1>1, IInvHolds, PTL

\* Every registry entry names a connection that will take it out again.
THEOREM RegistryIsBacked == Spec => []RegistryBacked
<1>1. IInv => RegistryBacked
  BY DEF IInv, SocketInv
<1> QED
  BY <1>1, IInvHolds, PTL

\* No order of hellos, stale closes, errors, timers and close() leaves an open,
\* welcomed connection out of the registry.
THEOREM NoConnectionForgotten == Spec => []WelcomedIsRouted
<1>1. IInv => WelcomedIsRouted
  BY DEF IInv, SocketInv
<1> QED
  BY <1>1, IInvHolds, PTL

\* The metrics list the registered daemons until close().
THEOREM MetricsFollowRegistry == Spec => []MetricsInSync
<1>1. IInv => MetricsInSync
  BY DEF IInv, SocketInv
<1> QED
  BY <1>1, IInvHolds, PTL

\* Requests go to the daemon the caller named, after its welcome.
THEOREM RequestsAreRouted == Spec => []RequestsWellRouted
<1>1. IInv => RequestsWellRouted
  BY DEF IInv, SocketInv, RequestsWellRouted
<1> QED
  BY <1>1, IInvHolds, PTL

-----------------------------------------------------------------------------
(* Refinement: forward() keeps ForwardContract *)

\* Initial states map to initial states.
LEMMA InitContract == Init => Contract!Init
BY DEF Init, Contract!Init

\* The instance's cardinality is the usual one.
LEMMA ContractCardinality == \A S : Contract!Cardinality(S) = Cardinality(S)
BY DEF Contract!Cardinality, Cardinality

\* Every step maps to a step of the contract or to a stutter.
LEMMA StepContract == TypeOK /\ CallInv /\ [Next]_vars => [Contract!Next]_(Contract!vars)
<1> SUFFICES ASSUME TypeOK, CallInv, [Next]_vars PROVE [Contract!Next]_(Contract!vars)
  OBVIOUS
<1> USE DEF Contract!vars
<1>1. ASSUME NEW u \in Uuids PROVE Contract!Outstanding(u) = Outstanding(u)
  BY <1>1, RelayAssumption
     DEF Contract!Outstanding, Outstanding, CallInv, WaitersArePending, TypeOK
<1>2. ASSUME NEW i \in Calls, NEW result \in {"response", "timeout"}, pending[i] # NoUuid,
             outcome' = [outcome EXCEPT ![i] = result], UNCHANGED target
      PROVE  Contract!Next
  <2>1. Contract!Settle(i, result)
    BY <1>2 DEF Contract!Settle, CallInv, WaitersArePending
  <2> QED
    BY <2>1 DEF Contract!Next
<1>3. ASSUME NEW s \in Sockets, NEW i \in Calls, RecvResponse(s, i) PROVE Contract!Next
  BY <1>2, <1>3 DEF RecvResponse
<1>4. ASSUME NEW i \in Calls, ForwardTimeout(i) PROVE Contract!Next
  BY <1>2, <1>4 DEF ForwardTimeout, CallInv, WaitersArePending
<1>5. ASSUME NEW i \in Calls, NEW u \in Uuids, Forward(i, u) PROVE Contract!Next
  <2>1. Cardinality(Outstanding(u)) < MaxPending
    BY <1>5, RelayAssumption DEF Forward, Admission, CallInv, CountsInLockstep, TypeOK
  <2>2. Contract!Cardinality(Contract!Outstanding(u)) < MaxPending
    BY <1>1, <2>1, ContractCardinality
  <2>3. Contract!Accept(i, u)
    BY <1>5, <2>2 DEF Contract!Accept, Forward
  <2> QED
    BY <2>3 DEF Contract!Next
<1>6. ASSUME NEW i \in Calls, NEW u \in Uuids, NEW congested \in BOOLEAN,
             Refuse(i, u, congested)
      PROVE  Contract!Next
  <2>1. Admission(u, congested) \in Contract!Refusals
    BY <1>6 DEF Refuse, Admission, Contract!Refusals
  <2>2. Admission(u, congested) = "capExceeded" => pendingByClient[u] >= MaxPending
    BY DEF Admission
  <2>3. Contract!Cardinality(Contract!Outstanding(u)) = pendingByClient[u]
    BY <1>1, ContractCardinality DEF CallInv, CountsInLockstep
  <2>4. Contract!Refuse(i, u, Admission(u, congested))
    BY <1>6, <2>2, <2>3 DEF Contract!Refuse, Refuse
  <2> QED
    BY <2>1, <2>4 DEF Contract!Next
<1>7. CASE Close
  <2>1. \A i \in Calls : pending[i] = NoUuid <=> outcome[i] # "waiting"
    BY DEF CallInv, WaitersArePending
  <2>2. Contract!Close
    BY <1>7, <2>1 DEF Close, Contract!Close
  <2> QED
    BY <2>2 DEF Contract!Next
<1>8. CASE UNCHANGED pendingVars
  BY <1>8 DEF pendingVars
<1>9. ASSUME NEW s \in Sockets, NEW u \in Uuids, Connect(s, u) PROVE UNCHANGED pendingVars
  BY <1>9 DEF Connect
<1>10. ASSUME NEW s \in Sockets,
              \/ RejectConnection(s) \/ RecvInvalidJson(s) \/ RecvBadHello(s)
              \/ RecvHello(s) \/ PeerCloses(s) \/ PeerVanishes(s)
       PROVE  UNCHANGED pendingVars
  BY <1>10 DEF RejectConnection, RecvInvalidJson, RecvBadHello, RecvHello, Register,
               PeerCloses, PeerVanishes
<1>11. ASSUME NEW s \in Sockets,
              PingTick(s) \/ Pong(s) \/ PongTimeout(s) \/ SocketError(s) \/ SocketClosed(s)
       PROVE  UNCHANGED pendingVars
  BY <1>11 DEF PingTick, Pong, PongTimeout, SocketError, SocketClosed
<1>12. CASE CloseCallback \/ UNCHANGED vars
  BY <1>8, <1>12 DEF CloseCallback, vars
<1> QED
  BY <1>3, <1>4, <1>5, <1>6, <1>7, <1>8, <1>9, <1>10, <1>11, <1>12 DEF Next

\* RelayServer implements ForwardContract.
THEOREM ImplementsContract == Spec => ForwardKeepsContract
<1>1. IInv => TypeOK /\ CallInv
  BY DEF IInv
<1>2. Spec => [](TypeOK /\ CallInv)
  BY <1>1, IInvHolds, PTL
<1> QED
  BY <1>2, InitContract, StepContract, PTL DEF Spec, ForwardKeepsContract, Contract!Spec

=============================================================================
