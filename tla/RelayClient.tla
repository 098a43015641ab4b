---------------------------- MODULE RelayClient ----------------------------
(***************************************************************************)
(* The daemon's client as a whole: class RelayClient of                    *)
(* src/client/client.ts, which checks its list of broker URLs, runs one    *)
(* Connection to each of them and folds their reports into the one status  *)
(* its consumer sees.                                                      *)
(*                                                                         *)
(* The connections are independent: each reports the steps of Endpoint,    *)
(* at any time, and stamps its sessions with the wall clock, whose seconds *)
(* may repeat and may step back.                                           *)
(*                                                                         *)
(* Definitions with an underscore in their name are seeded faults, as in   *)
(* RelayServer.                                                            *)
(***************************************************************************)
EXTENDS Integers, Sequences, FiniteSets, SequencesExt

CONSTANTS
  Urls,         \* broker URLs
  EmptyUrl,     \* ""
  Absent,       \* an option that is undefined
  MaxUrls,      \* longest serverURLs list (bounds the model)
  MaxAttempts,  \* reconnect_attempts of a connection is not counted past this
  MaxSecond     \* wall clock readings are 0..MaxSecond (bounds the model)

ASSUME ClientAssumption ==
  /\ EmptyUrl \notin Urls /\ Absent \notin Urls /\ Absent # EmptyUrl
  /\ MaxUrls \in Nat /\ MaxAttempts \in Nat /\ MaxSecond \in Nat

VARIABLES
  opts,       \* serverURL and serverURLs as given
  phase,      \* of the client: new, rejected (its constructor threw), running, resolved
  urls,       \* this.urls
  aborted,    \* signal.aborted
  \* per connection, by its place in urls
  serving,
  status,     \* its own RelayEndpointStatus
  stopped,    \* its run() has returned
  \* locals of run()
  endpoints,  \* the Map from url to the last report
  told        \* what onStatus was last called with, Absent before

connVars == <<serving, status, stopped>>
vars == <<opts, phase, urls, aborted, connVars, endpoints, told>>

Lists == UNION {[1..n -> Urls \cup {EmptyUrl}] : n \in 0..MaxUrls}

\* What one connection tells: only the functions on snapshots are used, each
\* connection has a `serving` and a `status` of its own.
Reports == INSTANCE Endpoint WITH serving <- serving, status <- status

\* last_connected_at before the first session.
Never == -1

NewStatus(url) ==
  [server_url |-> url, connected |-> FALSE, last_error |-> FALSE,
   reconnect_attempts |-> 0, last_connected_at |-> Never]

Statuses == [server_url : Urls, last_connected_at : {Never} \cup 0..MaxSecond,
             connected : BOOLEAN, last_error : BOOLEAN, reconnect_attempts : 0..MaxAttempts]

TypeOK ==
  /\ phase \in {"new", "rejected", "running", "resolved"}
  /\ urls \in Seq(Urls)
  /\ aborted \in BOOLEAN
  /\ serving \in [1..Len(urls) -> BOOLEAN]
  /\ status \in [1..Len(urls) -> Statuses]
  /\ stopped \in [1..Len(urls) -> BOOLEAN]
  /\ \A url \in DOMAIN endpoints : endpoints[url] \in Statuses
  /\ told # Absent =>
       /\ told.connected \in BOOLEAN
       /\ told.last_error \in BOOLEAN
       /\ told.reconnect_attempts \in Nat
       /\ told.hook_base_url \in Urls \cup {Absent}
       /\ told.last_connected_at \in {Never} \cup 0..MaxSecond
       /\ told.endpoints \in Seq(Statuses)

Init ==
  /\ opts \in [serverURL : Urls \cup {EmptyUrl, Absent}, serverURLs : Lists \cup {Absent}]
  /\ phase = "new"
  /\ urls = <<>>
  /\ aborted = FALSE
  /\ serving = <<>> /\ status = <<>> /\ stopped = <<>>
  /\ endpoints = <<>>
  /\ told = Absent

-----------------------------------------------------------------------------
(* resolveServerURLs and the constructor *)

GivenUrls == IF opts.serverURLs # Absent THEN opts.serverURLs ELSE <<opts.serverURL>>

\* Fault: the entries are not looked at.
OptionsAreValid_EmptyEntry ==
  /\ (opts.serverURL = Absent) # (opts.serverURLs = Absent)
  /\ GivenUrls # <<>>
  /\ IsInjective(GivenUrls)

\* Exactly one of the options, no empty list, no empty string, no duplicate:
\* a second connection under one identity would replace the first one.
OptionsAreValid ==
  /\ (opts.serverURL = Absent) # (opts.serverURLs = Absent)
  /\ GivenUrls # <<>>
  /\ ~Contains(GivenUrls, EmptyUrl)
  /\ IsInjective(GivenUrls)

Reject ==
  /\ phase = "new" /\ ~OptionsAreValid
  /\ phase' = "rejected"
  /\ UNCHANGED <<opts, urls, aborted, connVars, endpoints, told>>

\* The client is built and run() starts its connections.
Run ==
  /\ phase = "new" /\ OptionsAreValid
  /\ phase' = "running"
  /\ urls' = GivenUrls
  /\ serving' = [k \in DOMAIN GivenUrls |-> FALSE]
  /\ status' = [k \in DOMAIN GivenUrls |-> NewStatus(GivenUrls[k])]
  /\ stopped' = [k \in DOMAIN GivenUrls |-> FALSE]
  /\ endpoints' = [url \in ToSet(GivenUrls) |-> NewStatus(url)]
  /\ UNCHANGED <<opts, aborted, told>>

-----------------------------------------------------------------------------
(* aggregateStatus *)

MostRecentlyConnected(list) ==
  FoldLeft(LAMBDA best, e :
             IF e.last_connected_at # Never /\ e.last_connected_at >= best.last_connected_at
             THEN e ELSE best,
           Head(list), Tail(list))

MaxLastConnectedAt(list) ==
  FoldLeft(LAMBDA max, e : IF e.last_connected_at > max THEN e.last_connected_at ELSE max,
           Never, list)

\* Fault: the first endpoint represents the others, up or down.
Representative_First(list) == list[1]

\* The first endpoint that is up, else the one that was up last.
Representative(list) ==
  LET up == {k \in DOMAIN list : list[k].connected}
  IN  IF up # {} THEN list[Min(up)] ELSE MostRecentlyConnected(list)

\* hook_base_url stands for it and for broker_pubkey, which come with the
\* welcome of one broker.
AggregateStatus(list) ==
  LET rep == Representative(list) IN
  [connected          |-> \E k \in DOMAIN list : list[k].connected,
   reconnect_attempts |-> FoldLeft(LAMBDA n, e : n + e.reconnect_attempts, 0, list),
   hook_base_url      |-> IF rep.last_connected_at = Never THEN Absent ELSE rep.server_url,
   last_error         |-> ~rep.connected /\ rep.last_error,
   last_connected_at  |-> MaxLastConnectedAt(list),
   endpoints          |-> IF Len(list) > 1 THEN list ELSE <<>>]

-----------------------------------------------------------------------------
(* The connections: each goes on until its own run() returns *)

\* report(): the snapshot is stored under its URL, and the consumer is called.
\* The Map keeps the order of the list.
Report(k, st) ==
  /\ status' = [status EXCEPT ![k] = st]
  /\ endpoints' = [endpoints EXCEPT ![st.server_url] = st]
  /\ told' = AggregateStatus([j \in DOMAIN urls |-> endpoints'[urls[j]]])

Connects(k, now) ==
  /\ ~stopped[k] /\ ~serving[k]
  /\ serving' = [serving EXCEPT ![k] = TRUE]
  /\ Report(k, [Reports!Up(status[k]) EXCEPT !.last_connected_at = now])
  /\ UNCHANGED <<opts, phase, urls, aborted, stopped>>

SessionEnds(k) ==
  /\ ~stopped[k] /\ serving[k]
  /\ serving' = [serving EXCEPT ![k] = FALSE]
  /\ Report(k, Reports!Ended(status[k]))
  /\ UNCHANGED <<opts, phase, urls, aborted, stopped>>

AttemptFails(k) ==
  /\ ~stopped[k]
  /\ serving' = [serving EXCEPT ![k] = FALSE]
  /\ Report(k, Reports!Failed(status[k]))
  /\ UNCHANGED <<opts, phase, urls, aborted, stopped>>

Abort ==
  /\ phase = "running" /\ ~aborted
  /\ aborted' = TRUE
  /\ UNCHANGED <<opts, phase, urls, connVars, endpoints, told>>

\* The run() of a connection returns: its loop saw the abort.
Stops(k) ==
  /\ aborted /\ ~stopped[k] /\ ~serving[k]
  /\ stopped' = [stopped EXCEPT ![k] = TRUE]
  /\ UNCHANGED <<opts, phase, urls, aborted, serving, status, endpoints, told>>

\* Fault: the first connection to stop resolves run().
AllStopped_Any == \E k \in DOMAIN urls : stopped[k]

AllStopped == \A k \in DOMAIN urls : stopped[k]

Resolve ==
  /\ phase = "running" /\ AllStopped
  /\ phase' = "resolved"
  /\ UNCHANGED <<opts, urls, aborted, connVars, endpoints, told>>

Next ==
  \/ Reject \/ Run \/ Abort \/ Resolve
  \/ \E k \in DOMAIN urls, now \in 0..MaxSecond : Connects(k, now)
  \/ \E k \in DOMAIN urls : SessionEnds(k)
  \/ \E k \in DOMAIN urls : AttemptFails(k)
  \/ \E k \in DOMAIN urls : Stops(k)

Spec == Init /\ [][Next]_vars

-----------------------------------------------------------------------------
(* Properties *)

\* What the consumer was last told describes all the connections as they are
\* now, whichever of them reported last and however the clock moved: up when
\* one of them is; a hook URL of a broker that forwards if there is one, else
\* of one that did most recently; no error unless that one is down.
ToldTheTruth ==
  told # Absent =>
    LET up == {k \in DOMAIN status : serving[k]}
        latest == {k \in DOMAIN status : \A j \in DOMAIN status :
                     status[j].last_connected_at <= status[k].last_connected_at}
        shown == IF up # {} THEN up ELSE latest
    IN
    /\ told.connected <=> up # {}
    /\ IF told.last_connected_at = Never
       THEN told.hook_base_url = Absent
       ELSE told.hook_base_url \in {urls[k] : k \in shown}
    /\ told.last_connected_at = status[CHOOSE k \in latest : TRUE].last_connected_at
    /\ told.last_error => up = {} /\ \E k \in latest : status[k].last_error
    /\ Len(urls) > 1 => told.endpoints = status

\* run() resolves after the last report, and only when no session is served:
\* a consumer that tears itself down then is not called again.
NoReportAfterRun ==
  [][phase = "resolved" => UNCHANGED <<told, serving, status>>]_vars

=============================================================================
