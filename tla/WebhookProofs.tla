--------------------------- MODULE WebhookProofs ---------------------------
(***************************************************************************)
(* Proofs about Webhook for every set of calls, every cap, every fetch     *)
(* timeout and every choice of the four limits.                            *)
(*                                                                         *)
(* The inductive invariant IInv adds to TypeOK what the clock arithmetic   *)
(* rests on:                                                               *)
(*   TimersInv  the timers of no connection, and what is on the wire       *)
(*              without one;                                               *)
(*   KeptInv    how far the keepalive of a connection with a fast peer can *)
(*              have got;                                                  *)
(*   EvictInv   the time a dead connection has left;                       *)
(*   CallInv    what a call's stage says of its troubles and its timers;   *)
(*   BudgetInv  what a call without trouble has spent of its timeout;      *)
(*   ReplyInv   a call is told its status only when it has one: no reply   *)
(*              while it waits, and it waits while it is under way.        *)
(***************************************************************************)
EXTENDS Webhook, TLAPS

TimersInv ==
  /\ ~Registered => pongLeft = Off /\ lostPongs = {}
  /\ conn \notin {"cut", "closing"} => silentFor = 0
  /\ \A i \in Calls : UnderWay(i) /\ ~Reachable => trouble[i] = "lost"

\* The pong of a ping is read before the next ping and before its timer.
KeptInv ==
  Reachable /\ limits.trip < limits.pong /\ limits.trip < limits.ping =>
    /\ lostPongs = {}
    /\ pongLeft # Off => pings # Off /\ pongLeft + pings = limits.pong
    /\ pings # Off => pings + pingLeft = limits.ping

\* A timer that is armed, or that the next ping arms, ends it in time.
EvictInv ==
  /\ conn = "closing" => silentFor + pingLeft <= limits.ping
  /\ conn = "cut" =>
       \E n \in PongTimers \cup {pingLeft + limits.pong} :
         silentFor + n <= limits.ping + limits.pong

CallInv ==
  \A i \in Calls :
    /\ stage[i] = "idle" => requestLeft[i] = Off /\ trouble[i] = "none"
    /\ stage[i] \in {"sent", "replied"} => trouble[i] # "lost"
    /\ stage[i] = "buffered" => trouble[i] # "none"
    /\ stage[i] \in {"fetching", "reading"} => fetchLeft[i] # Off

\* What the daemon has spent on the call.
Spent(i) ==
  IF stage[i] \in {"fetching", "reading"} THEN FetchTimeout - fetchLeft[i]
  ELSE IF stage[i] = "replied" THEN FetchTimeout ELSE 0

BudgetInv ==
  \A i \in Calls : Waiting(i) /\ trouble[i] = "none" =>
    /\ stage[i] \notin {"idle", "buffered", "over"}
    /\ limits.request <= requestLeft[i] + (limits.trip - wireLeft[i]) + Spent(i)

\* The fetch and a round trip fit into the request timeout.
Fits == FetchTimeout + limits.trip < limits.request

ReplyInv ==
  \A i \in Calls :
    /\ Waiting(i) => reply[i] = "none"
    /\ Fits /\ UnderWay(i) /\ trouble[i] = "none" => Waiting(i)

IInv ==
  /\ TypeOK /\ TimersInv /\ KeptInv /\ EvictInv
  /\ CallInv /\ BudgetInv /\ ReplyInv /\ StatusTellsTheTruth

\* The actions on the connection, and those on one call.
ConnStep ==
  \/ Register \/ StartServing \/ SocketClosing \/ SocketClosed \/ Vanish
  \/ PingTick \/ Pong \/ PongTimeout

CallStep(i) ==
  \/ \E congested \in BOOLEAN : Refuse(i, congested)
  \/ Forward(i) \/ RequestTimeout(i) \/ ReadResponse(i)
  \/ ReadRequest(i) \/ ReplayLate(i) \/ RefuseLocally(i) \/ Fetch(i)
  \/ ReadHeaders(i) \/ ReadBody(i) \/ FetchFails(i) \/ BodyFails(i)

LEMMA NextSplits == Next <=> ConnStep \/ (\E i \in Calls : CallStep(i)) \/ Tick
BY DEF Next, ConnStep, CallStep

\* The limits are numbers, and no step changes them.
LEMMA LimitsAreNumbers ==
  TypeOK => /\ limits.request \in Nat /\ limits.ping \in Nat
            /\ limits.pong \in Nat /\ limits.trip \in Nat
BY WebhookAssumption DEF TypeOK

\* Nothing about the connection changes in a step of a call, and at the broker
\* its answer is among the replies.
LEMMA CallStepKeepsConn ==
  ASSUME NEW i \in Calls, CallStep(i) PROVE UNCHANGED <<limits, connVars>>
BY DEF CallStep, Refuse, Forward, RequestTimeout, ReadResponse, ReadRequest, ReplayLate,
       RefuseLocally, Fetch, ReadHeaders, ReadBody, FetchFails, BodyFails, Send, connVars

-----------------------------------------------------------------------------
(* Initially *)

LEMMA InitTypeOK == Init => TypeOK
<1> SUFFICES ASSUME Init PROVE TypeOK
  OBVIOUS
<1>1. /\ limits \in [request : RequestTimeouts, ping : PingIntervals,
                     pong : PongTimeouts, trip : Trips]
      /\ limits.ping \in Nat /\ limits.trip \in Nat
  BY WebhookAssumption DEF Init
<1>2. conn \in Conns /\ pingLeft \in 0..limits.ping /\ pongLeft = Off /\ lostPongs = {}
      /\ pings = Off /\ silentFor \in Nat
  BY <1>1 DEF Init, Conns
<1>3. /\ stage \in [Calls -> Stages]
      /\ answer \in [Calls -> {"none"} \cup Statuses]
      /\ reply \in [Calls -> {"none"} \cup Statuses]
      /\ requestLeft \in [Calls -> {Off}]
      /\ fetchLeft \in [Calls -> {Off}]
      /\ wireLeft \in [Calls -> 0..limits.trip]
      /\ trouble \in [Calls -> Troubles]
  BY <1>1 DEF Init, Stages, Troubles
<1> QED
  BY <1>1, <1>2, <1>3 DEF TypeOK

LEMMA InitIInv == Init => IInv
<1> SUFFICES ASSUME Init PROVE IInv
  OBVIOUS
<1>1. TypeOK
  BY InitTypeOK
<1>2. TimersInv /\ KeptInv /\ EvictInv
  BY DEF Init, TimersInv, KeptInv, EvictInv, UnderWay, Registered, Reachable
<1>3. CallInv /\ BudgetInv /\ ReplyInv /\ StatusTellsTheTruth
  BY DEF Init, CallInv, BudgetInv, ReplyInv, StatusTellsTheTruth, Waiting, UnderWay
<1> QED
  BY <1>1, <1>2, <1>3 DEF IInv

-----------------------------------------------------------------------------
(* Type correctness *)

LEMMA ConnTypeOK == TypeOK /\ ConnStep => TypeOK'
<1> SUFFICES ASSUME TypeOK, ConnStep PROVE TypeOK'
  OBVIOUS
<1> USE LimitsAreNumbers DEF TypeOK, callVars, Conns, Off
<1>1. CASE Register
  BY <1>1 DEF Register
<1>2. CASE StartServing
  BY <1>2 DEF StartServing, Stages
<1>3. CASE SocketClosing \/ Vanish
  BY <1>3 DEF SocketClosing, Vanish, LoseCalls, Stages, Troubles
<1>4. CASE SocketClosed
  BY <1>4 DEF SocketClosed, Unregister
<1>5. CASE PingTick
  <2>1. CASE conn = "closing"
    BY <1>5, <2>1 DEF PingTick, Unregister
  <2>2. CASE conn # "closing"
    <3>1. lostPongs' \subseteq 0..limits.pong
      BY <1>5, <2>2 DEF PingTick
    <3>2. pings' \in {Off} \cup 0..limits.trip
      BY <1>5, <2>2 DEF PingTick
    <3> QED
      BY <1>5, <2>2, <3>1, <3>2 DEF PingTick
  <2> QED
    BY <2>1, <2>2
<1>6. CASE Pong
  BY <1>6 DEF Pong
<1>7. CASE PongTimeout
  BY <1>7 DEF PongTimeout, Unregister, LoseCalls, Stages, Troubles
<1> QED
  BY <1>1, <1>2, <1>3, <1>4, <1>5, <1>6, <1>7 DEF ConnStep

LEMMA CallTypeOK == TypeOK /\ (\E i \in Calls : CallStep(i)) => TypeOK'
<1> SUFFICES ASSUME TypeOK, NEW i \in Calls, CallStep(i) PROVE TypeOK'
  OBVIOUS
<1> USE LimitsAreNumbers, WebhookAssumption DEF TypeOK, connVars, Off
<1>1. ASSUME NEW congested \in BOOLEAN, Refuse(i, congested) PROVE TypeOK'
  <2>1. Refusal(congested) \in {"none"} \cup Statuses
    BY DEF Refusal, Statuses
  <2> QED
    BY <1>1, <2>1 DEF Refuse
<1>2. CASE Forward(i)
  BY <1>2 DEF Forward, Stages, Troubles
<1>3. CASE RequestTimeout(i)
  BY <1>3 DEF RequestTimeout, Statuses
<1>4. CASE ReadResponse(i)
  BY <1>4 DEF ReadResponse, Statuses, Stages, Troubles
<1>5. CASE ReadRequest(i) \/ ReplayLate(i)
  BY <1>5 DEF ReadRequest, ReplayLate, Stages, Troubles
<1>6. ASSUME NEW status \in Statuses, Send(i, status)
      PROVE  TypeOK'
  <2>1. stage' \in [Calls -> Stages]
    BY <1>6 DEF Send, Stages
  <2> QED
    BY <1>6, <2>1 DEF Send
<1>7. CASE Fetch(i)
  <2>1. fetchLeft' \in [Calls -> {Off} \cup 0..FetchTimeout]
    BY <1>7 DEF Fetch
  <2>2. stage' \in [Calls -> Stages]
    BY <1>7 DEF Fetch, Stages
  <2> QED
    BY <1>7, <2>1, <2>2 DEF Fetch
<1>8. CASE ReadHeaders(i) \/ BodyFails(i)
  BY <1>8 DEF ReadHeaders, BodyFails, Stages, Troubles
<1> QED
  BY <1>1, <1>2, <1>3, <1>4, <1>5, <1>6, <1>7, <1>8
     DEF CallStep, RefuseLocally, ReadBody, FetchFails, Statuses

LEMMA TickTypeOK == TypeOK /\ TimersInv /\ Tick => TypeOK'
<1> SUFFICES ASSUME TypeOK, TimersInv, Tick PROVE TypeOK'
  OBVIOUS
<1> USE LimitsAreNumbers, WebhookAssumption DEF TypeOK, Off
<1>1. pings' \in {Off} \cup 0..limits.trip
  BY DEF Tick, Due
<1>2. pingLeft' \in 0..limits.ping
  BY DEF Tick, Due
<1>3. pongLeft' \in {Off} \cup 0..limits.pong
  BY DEF Tick, Due, PongTimers, Down
<1>4. lostPongs' \subseteq 0..limits.pong
  <2>1. 0 \notin lostPongs
    BY DEF Tick, Due, PongTimers, TimersInv
  <2> QED
    BY <2>1 DEF Tick
<1>5. silentFor' \in Nat
  BY DEF Tick
<1>6. requestLeft' \in [Calls -> {Off} \cup 0..limits.request]
  BY DEF Tick, Due, Down
<1>7. fetchLeft' \in [Calls -> {Off} \cup 0..FetchTimeout]
  BY DEF Tick, Due, Down
<1>8. wireLeft' \in [Calls -> 0..limits.trip]
  BY DEF Tick, Due
<1> QED
  BY <1>1, <1>2, <1>3, <1>4, <1>5, <1>6, <1>7, <1>8 DEF Tick

-----------------------------------------------------------------------------
(* The keepalive *)

LEMMA NextTimersInv == TypeOK /\ TimersInv /\ CallInv /\ [Next]_vars => TimersInv'
<1> SUFFICES ASSUME TypeOK, TimersInv, CallInv, [Next]_vars PROVE TimersInv'
  OBVIOUS
<1> USE DEF TypeOK, TimersInv, CallInv, UnderWay, Registered, Reachable, Conns, Off
<1>1. CASE Register \/ StartServing
  BY <1>1 DEF Register, StartServing, callVars
<1>2. CASE SocketClosing \/ Vanish
  BY <1>2 DEF SocketClosing, Vanish, LoseCalls
<1>3. CASE SocketClosed \/ Pong
  BY <1>3 DEF SocketClosed, Pong, Unregister, callVars
<1>4. CASE PingTick
  BY <1>4 DEF PingTick, Unregister, callVars
<1>5. CASE PongTimeout
  BY <1>5 DEF PongTimeout, Unregister, LoseCalls
<1>6. ASSUME NEW i \in Calls, CallStep(i) PROVE TimersInv'
  <2>1. UNCHANGED <<limits, connVars>>
    BY <1>6, CallStepKeepsConn
  <2>2. ASSUME ~Reachable, NEW j \in Calls, UnderWay(j)' PROVE trouble'[j] = "lost"
    <3>1. CASE UNCHANGED <<stage, trouble>>
      BY <2>2, <3>1
    <3>2. CASE Forward(i) \/ ReadResponse(i) \/ ReadRequest(i)
      BY <2>2, <3>2 DEF Forward, ReadResponse, ReadRequest
    <3>3. CASE ReplayLate(i) \/ Fetch(i) \/ ReadHeaders(i) \/ BodyFails(i)
      BY <2>2, <3>3 DEF ReplayLate, Fetch, ReadHeaders, BodyFails
    <3>4. CASE RefuseLocally(i) \/ ReadBody(i) \/ FetchFails(i)
      BY <2>2, <3>4 DEF RefuseLocally, ReadBody, FetchFails, Send
    <3> QED
      BY <1>6, <3>1, <3>2, <3>3, <3>4 DEF CallStep, Refuse, RequestTimeout
  <2> QED
    BY <2>1, <2>2 DEF connVars
<1>7. CASE Tick
  BY <1>7 DEF Tick
<1>8. CASE UNCHANGED vars
  BY <1>8 DEF vars, connVars, callVars
<1> QED
  BY <1>1, <1>2, <1>3, <1>4, <1>5, <1>6, <1>7, <1>8, NextSplits DEF ConnStep

LEMMA NextKeptInv == TypeOK /\ TimersInv /\ KeptInv /\ [Next]_vars => KeptInv'
<1> SUFFICES ASSUME TypeOK, TimersInv, KeptInv, [Next]_vars,
                    Reachable', (limits.trip < limits.pong /\ limits.trip < limits.ping)'
             PROVE  KeptInv'
  BY DEF KeptInv
<1> USE LimitsAreNumbers DEF TypeOK, TimersInv, KeptInv, Registered, Reachable, Conns, Off
<1>1. CASE Register \/ SocketClosing \/ SocketClosed \/ Vanish \/ PongTimeout
  BY <1>1 DEF Register, SocketClosing, SocketClosed, Vanish, PongTimeout, Unregister
<1>2. CASE StartServing \/ Pong
  BY <1>2 DEF StartServing, Pong
<1>3. CASE PingTick
  <2>1. Reachable /\ pings = Off /\ pongLeft = Off
    BY <1>3 DEF PingTick, Unregister
  <2>2. lostPongs = {} /\ UNCHANGED limits
    BY <1>3, <2>1 DEF PingTick
  <2>3. /\ lostPongs' = {} /\ pongLeft' = limits.pong
        /\ pings' = 0 /\ pingLeft' = limits.ping
    BY <1>3, <2>1, <2>2 DEF PingTick
  <2> QED
    BY <2>2, <2>3
<1>4. CASE Tick
  <2>1. pongLeft # 0 /\ pongLeft' = Down(pongLeft) /\ lostPongs' = {}
    BY <1>4 DEF Tick, Due, PongTimers
  <2> QED
    BY <1>4, <2>1 DEF Tick, Down
<1>5. CASE UNCHANGED <<limits, connVars>>
  BY <1>5 DEF connVars
<1> QED
  BY <1>1, <1>2, <1>3, <1>4, <1>5, NextSplits, CallStepKeepsConn DEF ConnStep, vars

LEMMA NextEvictInv == TypeOK /\ TimersInv /\ EvictInv /\ [Next]_vars => EvictInv'
<1> SUFFICES ASSUME TypeOK, TimersInv, EvictInv, [Next]_vars PROVE EvictInv'
  OBVIOUS
<1> USE LimitsAreNumbers DEF TypeOK, TimersInv, EvictInv, Registered, Reachable, Conns, Off
<1>1. CASE Register \/ StartServing \/ SocketClosed \/ Pong \/ PongTimeout
  BY <1>1 DEF Register, StartServing, SocketClosed, Pong, PongTimeout, Unregister
<1>2. CASE SocketClosing \/ Vanish
  <2>1. silentFor' = 0 /\ pingLeft' \in 0..limits.ping /\ UNCHANGED limits
    BY <1>2 DEF SocketClosing, Vanish
  <2>2. silentFor' + (pingLeft' + limits'.pong) <= limits'.ping + limits'.pong
    BY <2>1
  <2> QED
    BY <2>1, <2>2
<1>3. CASE PingTick
  <2>1. CASE conn = "cut"
    <3>1. PongTimers' = PongTimers \cup {limits.pong}
      BY <1>3, <2>1 DEF PingTick, PongTimers
    <3> QED
      BY <1>3, <2>1, <3>1 DEF PingTick
  <2> QED
    BY <1>3, <2>1 DEF PingTick, Unregister
<1>4. CASE Tick
  <2>1. CASE conn = "cut"
    <3>1. PICK n \in PongTimers \cup {pingLeft + limits.pong} :
            silentFor + n <= limits.ping + limits.pong
      BY <2>1
    <3>2. n \in Nat /\ n - 1 \in (PongTimers \cup {pingLeft + limits.pong})'
      BY <1>4, <2>1, <3>1 DEF Tick, Due, PongTimers, Down
    <3>3. silentFor' + (n - 1) <= limits'.ping + limits'.pong
      BY <1>4, <2>1, <3>1, <3>2 DEF Tick
    <3> QED
      BY <1>4, <2>1, <3>2, <3>3 DEF Tick
  <2> QED
    BY <1>4, <2>1 DEF Tick
<1>5. CASE UNCHANGED <<limits, connVars>>
  BY <1>5 DEF connVars, PongTimers
<1> QED
  BY <1>1, <1>2, <1>3, <1>4, <1>5, NextSplits, CallStepKeepsConn DEF ConnStep, vars

-----------------------------------------------------------------------------
(* The calls *)

LEMMA NextCallInv == TypeOK /\ TimersInv /\ CallInv /\ [Next]_vars => CallInv'
<1> SUFFICES ASSUME TypeOK, TimersInv, CallInv, [Next]_vars PROVE CallInv'
  OBVIOUS
<1> USE LimitsAreNumbers, WebhookAssumption DEF TypeOK, CallInv, Off
<1>1. CASE UNCHANGED callVars
  BY <1>1 DEF callVars
<1>2. CASE StartServing
  BY <1>2 DEF StartServing
<1>3. CASE SocketClosing \/ Vanish \/ PongTimeout
  <2>1. CASE LoseCalls /\ UNCHANGED <<requestLeft, fetchLeft>>
    BY <2>1 DEF LoseCalls, UnderWay
  <2> QED
    BY <1>1, <1>3, <2>1 DEF SocketClosing, Vanish, PongTimeout, callVars
<1>4. ASSUME NEW i \in Calls, CallStep(i) PROVE CallInv'
  <2>1. CASE Forward(i)
    <3>1. CASE Reachable
      BY <2>1, <3>1 DEF Forward
    <3>2. CASE ~Reachable
      BY <2>1, <3>2 DEF Forward
    <3> QED
      BY <3>1, <3>2
  <2>7. CASE ReadResponse(i)
    BY <2>7 DEF ReadResponse
  <2>2. CASE RequestTimeout(i) \/ (\E congested \in BOOLEAN : Refuse(i, congested))
    BY <2>2 DEF RequestTimeout, Refuse
  <2>3. CASE ReadRequest(i) \/ ReplayLate(i) \/ ReadHeaders(i)
    BY <2>3 DEF ReadRequest, ReplayLate, ReadHeaders
  <2>4. CASE Fetch(i)
    BY <2>4 DEF Fetch
  <2>5. CASE RefuseLocally(i) \/ ReadBody(i) \/ FetchFails(i)
    BY <2>5 DEF RefuseLocally, ReadBody, FetchFails, Send
  <2>6. CASE BodyFails(i)
    BY <2>6 DEF BodyFails
  <2> QED
    BY <1>4, <2>1, <2>2, <2>3, <2>4, <2>5, <2>6, <2>7 DEF CallStep
<1>5. CASE Tick
  BY <1>5 DEF Tick, Due, Down
<1> QED
  BY <1>1, <1>2, <1>3, <1>4, <1>5, NextSplits
     DEF ConnStep, Register, SocketClosed, PingTick, Pong, vars

\* Time that passes for a call without trouble is paid for: on the wire, or
\* with the fetch.
LEMMA TickBudgetInv ==
  TypeOK /\ TimersInv /\ CallInv /\ BudgetInv /\ Tick => BudgetInv'
<1> SUFFICES ASSUME TypeOK, TimersInv, CallInv, BudgetInv, Tick,
                    NEW i \in Calls, Waiting(i)', trouble[i] = "none"
             PROVE  /\ stage[i] \notin {"idle", "buffered", "over"}
                    /\ limits.request <= requestLeft'[i] + (limits.trip - wireLeft'[i]) + Spent(i)'
  BY DEF Tick, BudgetInv
<1> USE LimitsAreNumbers, WebhookAssumption DEF TypeOK, Off, Down
<1>1. /\ Waiting(i)
      /\ requestLeft'[i] = requestLeft[i] - 1 /\ requestLeft[i] \in Nat
  BY DEF Tick, Waiting
<1>2. /\ stage[i] \notin {"idle", "buffered", "over"}
      /\ limits.request <= requestLeft[i] + (limits.trip - wireLeft[i]) + Spent(i)
  BY <1>1 DEF BudgetInv
<1>3. stage[i] # "arrived"
  BY DEF Tick, Due
<1>4. CASE stage[i] \in {"sent", "replied"}
  <2>1. OnWire(i)
    BY <1>4 DEF OnWire, TimersInv, UnderWay
  <2>2. wireLeft'[i] = wireLeft[i] - 1 /\ wireLeft[i] \in Nat
    BY <2>1 DEF Tick
  <2>3. Spent(i)' = Spent(i) /\ Spent(i) \in Nat
    BY <1>4 DEF Spent, Tick
  <2> QED
    BY <1>1, <1>2, <2>2, <2>3
<1>5. CASE stage[i] \in {"fetching", "reading"}
  <2>1. wireLeft'[i] = wireLeft[i] /\ wireLeft[i] \in Nat
    BY <1>5 DEF Tick, OnWire
  <2>2. fetchLeft[i] \in Nat /\ fetchLeft'[i] = fetchLeft[i] - 1
    BY <1>5 DEF CallInv, Tick
  <2>3. Spent(i)' = Spent(i) + 1 /\ Spent(i) \in Int
    BY <1>5, <2>2 DEF Spent, Tick
  <2> QED
    BY <1>1, <1>2, <2>1, <2>3
<1> QED
  BY <1>2, <1>3, <1>4, <1>5 DEF Stages

\* Every other step leaves the call's spending alone, or ends it.
LEMMA StepBudgetInv ==
  TypeOK /\ CallInv /\ BudgetInv /\ (ConnStep \/ \E i \in Calls : CallStep(i)) => BudgetInv'
<1> SUFFICES ASSUME TypeOK, CallInv, BudgetInv, ConnStep \/ \E i \in Calls : CallStep(i)
             PROVE  BudgetInv'
  OBVIOUS
<1> USE LimitsAreNumbers, WebhookAssumption DEF TypeOK, CallInv, BudgetInv, Spent, Waiting, Off
<1>1. CASE UNCHANGED callVars /\ UNCHANGED limits
  BY <1>1 DEF callVars
<1>2. CASE StartServing
  BY <1>2 DEF StartServing
<1>3. CASE SocketClosing \/ Vanish \/ PongTimeout
  <2>1. CASE LoseCalls /\ UNCHANGED <<limits, requestLeft, fetchLeft, wireLeft>>
    BY <2>1 DEF LoseCalls, UnderWay
  <2> QED
    BY <1>1, <1>3, <2>1 DEF SocketClosing, Vanish, PongTimeout, callVars
<1>4. ASSUME NEW i \in Calls, CallStep(i) PROVE BudgetInv'
  <2>0. wireLeft[i] \in 0..limits.trip
    OBVIOUS
  <2>1. CASE Forward(i)
    BY <2>0, <2>1 DEF Forward
  <2>2. CASE ReadResponse(i) \/ RequestTimeout(i)
    BY <2>2 DEF ReadResponse, RequestTimeout
  <2>3. CASE \E congested \in BOOLEAN : Refuse(i, congested)
    BY <2>3 DEF Refuse
  <2>4. CASE ReadRequest(i) \/ ReplayLate(i) \/ ReadHeaders(i)
    BY <2>4 DEF ReadRequest, ReplayLate, ReadHeaders
  <2>5. CASE Fetch(i)
    BY <2>5 DEF Fetch
  <2>6. CASE RefuseLocally(i)
    BY <2>6 DEF RefuseLocally, Send
  <2>7. CASE ReadBody(i) \/ FetchFails(i)
    BY <2>7 DEF ReadBody, FetchFails, Send
  <2>8. CASE BodyFails(i)
    BY <2>8 DEF BodyFails
  <2> QED
    BY <1>4, <2>1, <2>2, <2>3, <2>4, <2>5, <2>6, <2>7, <2>8 DEF CallStep
<1> QED
  BY <1>1, <1>2, <1>3, <1>4 DEF ConnStep, Register, SocketClosed, PingTick, Pong

\* The timer of a call without trouble does not run out, if the limits fit.
LEMMA NoEarlyTimeout ==
  ASSUME TypeOK, CallInv, BudgetInv, Fits, NEW i \in Calls, requestLeft[i] = 0, trouble[i] = "none"
  PROVE  FALSE
<1> USE LimitsAreNumbers, WebhookAssumption DEF TypeOK, Off
<1>1. /\ stage[i] \notin {"idle", "buffered", "over"}
      /\ limits.request <= limits.trip - wireLeft[i] + Spent(i)
  BY DEF BudgetInv, Waiting, Spent
<1>2. Spent(i) \in Int /\ Spent(i) <= FetchTimeout
  BY DEF Spent, CallInv
<1> QED
  BY <1>1, <1>2 DEF Fits

LEMMA NextReplyInv ==
  TypeOK /\ CallInv /\ BudgetInv /\ ReplyInv /\ [Next]_vars => ReplyInv'
<1> SUFFICES ASSUME TypeOK, CallInv, BudgetInv, ReplyInv, [Next]_vars PROVE ReplyInv'
  OBVIOUS
<1> USE LimitsAreNumbers, WebhookAssumption
    DEF TypeOK, CallInv, ReplyInv, Fits, Waiting, UnderWay, Off
<1>1. CASE UNCHANGED callVars /\ UNCHANGED limits
  BY <1>1 DEF callVars
<1>2. CASE StartServing
  BY <1>2 DEF StartServing
<1>3. CASE SocketClosing \/ Vanish \/ PongTimeout
  <2>1. CASE LoseCalls /\ UNCHANGED <<limits, reply, requestLeft>>
    BY <2>1 DEF LoseCalls
  <2> QED
    BY <1>1, <1>3, <2>1 DEF SocketClosing, Vanish, PongTimeout, callVars
<1>4. ASSUME NEW i \in Calls, CallStep(i) PROVE ReplyInv'
  <2>1. ASSUME NEW congested \in BOOLEAN, Refuse(i, congested) PROVE ReplyInv'
    BY <2>1 DEF Refuse
  <2>2. CASE Forward(i)
    BY <2>2 DEF Forward
  <2>3. CASE ReadResponse(i)
    BY <2>3 DEF ReadResponse
  <2>4. CASE RequestTimeout(i)
    BY <2>4, NoEarlyTimeout DEF RequestTimeout
  <2>5. CASE ReadRequest(i) \/ ReplayLate(i) \/ Fetch(i) \/ ReadHeaders(i)
    BY <2>5 DEF ReadRequest, ReplayLate, Fetch, ReadHeaders
  <2>6. CASE RefuseLocally(i) \/ ReadBody(i) \/ FetchFails(i)
    BY <2>6 DEF RefuseLocally, ReadBody, FetchFails, Send
  <2>7. CASE BodyFails(i)
    BY <2>7 DEF BodyFails
  <2> QED
    BY <1>4, <2>1, <2>2, <2>3, <2>4, <2>5, <2>6, <2>7 DEF CallStep
<1>5. CASE Tick
  <2>1. \A j \in Calls : requestLeft[j] # 0 /\ requestLeft'[j] = Down(requestLeft[j])
    BY <1>5 DEF Tick, Due
  <2>2. \A j \in Calls : Waiting(j)' <=> Waiting(j)
    BY <2>1 DEF Down
  <2> QED
    BY <1>5, <2>2 DEF Tick
<1> QED
  BY <1>1, <1>2, <1>3, <1>4, <1>5, NextSplits
     DEF ConnStep, Register, SocketClosed, PingTick, Pong, vars

LEMMA NextStatus ==
  TypeOK /\ CallInv /\ BudgetInv /\ ReplyInv /\ StatusTellsTheTruth /\ [Next]_vars
    => StatusTellsTheTruth'
<1> SUFFICES ASSUME TypeOK, CallInv, BudgetInv, ReplyInv, StatusTellsTheTruth, [Next]_vars
             PROVE  StatusTellsTheTruth'
  OBVIOUS
<1> USE LimitsAreNumbers, WebhookAssumption
    DEF TypeOK, CallInv, StatusTellsTheTruth, Waiting, Off
<1>1. CASE UNCHANGED callVars /\ UNCHANGED limits
  BY <1>1 DEF callVars
<1>2. CASE StartServing
  BY <1>2 DEF StartServing
<1>3. CASE SocketClosing \/ Vanish \/ PongTimeout
  <2>1. CASE LoseCalls /\ UNCHANGED <<limits, answer, reply, requestLeft>>
    BY <2>1 DEF LoseCalls, UnderWay
  <2> QED
    BY <1>1, <1>3, <2>1 DEF SocketClosing, Vanish, PongTimeout, callVars
<1>4. ASSUME NEW i \in Calls, CallStep(i) PROVE StatusTellsTheTruth'
  <2>1. ASSUME NEW congested \in BOOLEAN, Refuse(i, congested) PROVE StatusTellsTheTruth'
    BY <2>1 DEF Refuse
  <2>2. CASE Forward(i)
    BY <2>2 DEF Forward
  <2>3. CASE ReadResponse(i)
    BY <2>3 DEF ReadResponse
  <2>4. CASE RequestTimeout(i)
    BY <2>4, NoEarlyTimeout DEF RequestTimeout, Fits
  <2>5. CASE ReadRequest(i) \/ ReplayLate(i) \/ Fetch(i) \/ ReadHeaders(i)
    BY <2>5 DEF ReadRequest, ReplayLate, Fetch, ReadHeaders
  \* The caller has no reply yet when the daemon makes its answer.
  <2>6. CASE RefuseLocally(i) \/ ReadBody(i) \/ FetchFails(i)
    <3>1. stage[i] \in {"arrived", "fetching", "reading"}
      BY <2>6 DEF RefuseLocally, ReadBody, FetchFails
    <3>2. Fits /\ trouble[i] = "none" => reply[i] = "none"
      BY <3>1 DEF ReplyInv, UnderWay
    <3> QED
      BY <2>6, <3>1, <3>2 DEF RefuseLocally, ReadBody, FetchFails, Send, Fits
  <2>7. CASE BodyFails(i)
    BY <2>7 DEF BodyFails
  <2> QED
    BY <1>4, <2>1, <2>2, <2>3, <2>4, <2>5, <2>6, <2>7 DEF CallStep
<1>5. CASE Tick
  BY <1>5 DEF Tick, Down
<1> QED
  BY <1>1, <1>2, <1>3, <1>4, <1>5, NextSplits
     DEF ConnStep, Register, SocketClosed, PingTick, Pong, vars

-----------------------------------------------------------------------------
(* The theorems *)

LEMMA NextIInv == IInv /\ [Next]_vars => IInv'
<1> SUFFICES ASSUME IInv, [Next]_vars PROVE IInv'
  OBVIOUS
<1> USE DEF IInv
<1>1. TypeOK'
  <2>1. CASE UNCHANGED vars
    BY <2>1 DEF TypeOK, vars, connVars, callVars
  <2> QED
    BY <2>1, NextSplits, ConnTypeOK, CallTypeOK, TickTypeOK
<1>2. BudgetInv'
  <2>1. CASE UNCHANGED vars
    BY <2>1 DEF BudgetInv, Waiting, Spent, vars, connVars, callVars
  <2> QED
    BY <2>1, NextSplits, StepBudgetInv, TickBudgetInv
<1> QED
  BY <1>1, <1>2, NextTimersInv, NextKeptInv, NextEvictInv, NextCallInv, NextReplyInv,
     NextStatus

\* What is left of a call's timeout covers what the daemon and the wire may
\* still take, so a call without trouble is answered while it waits; and the
\* pong timers of a connection are never later than its keepalive promises.
THEOREM IInvHolds == Spec => []IInv
BY InitIInv, NextIInv, PTL DEF Spec

\* The state keeps its types: no countdown runs past zero.
THEOREM TypesHold == Spec => []TypeOK
<1>1. IInv => TypeOK
  BY DEF IInv
<1> QED
  BY <1>1, IInvHolds, PTL

\* A call that was forwarded and ran into no trouble is told the status the
\* daemon answered with, for all limits in which the fetch and a round trip fit
\* into the request timeout.
THEOREM StatusIsTrue == Spec => []StatusTellsTheTruth
<1>1. IInv => StatusTellsTheTruth
  BY DEF IInv
<1> QED
  BY <1>1, IInvHolds, PTL

\* With round trips shorter than the ping interval and the pong timeout, a
\* daemon that is there is never terminated by the keepalive.
THEOREM KeepaliveKeepsHealthy == Spec => []HealthyIsKept
<1>1. IInv => HealthyIsKept
  BY LimitsAreNumbers DEF IInv, KeptInv, HealthyIsKept, TypeOK, PongTimers, Off
<1> QED
  BY <1>1, IInvHolds, PTL

\* A connection that is gone is evicted within a ping interval and a pong
\* timeout, also when pong timers were overwritten while armed.
THEOREM KeepaliveEvictsDead == Spec => []DeadIsEvictedInTime
<1>1. IInv => DeadIsEvictedInTime
  <2> SUFFICES ASSUME IInv PROVE DeadIsEvictedInTime
    OBVIOUS
  <2> USE LimitsAreNumbers DEF IInv, TypeOK, EvictInv, TimersInv, DeadIsEvictedInTime
  <2>1. \A n \in PongTimers \cup {pingLeft + limits.pong} : n \in Nat
    BY DEF PongTimers, Off
  <2>2. CASE conn = "cut"
    <3>1. PICK n \in PongTimers \cup {pingLeft + limits.pong} :
            silentFor + n <= limits.ping + limits.pong
      BY <2>2
    <3> QED
      BY <2>1, <3>1
  <2> QED
    BY <2>2
<1> QED
  BY <1>1, IInvHolds, PTL

=============================================================================
