----------------------------- MODULE OAuthFlow -----------------------------
(***************************************************************************)
(* The browser side of the OAuth broker: a daemon signs an /auth URL, the  *)
(* user's browser opens it, the broker seals the flow into the browser's   *)
(* cookie (flow-session.ts, flow-state.ts), Grant and the provider obtain  *)
(* consent, and /callback delivers the token to the daemon through         *)
(* RelayServer.forward (router.ts).  Several broker instances share the    *)
(* sealing key and nothing else: each has its own SeenSet (sessions.ts).   *)
(*                                                                         *)
(* One browser runs all the flows, one tab each, so they share a cookie.   *)
(* A request carries the cookie as it was when it was sent, the network    *)
(* may deliver it more than once and to any instance, and the cookie its   *)
(* response sets replaces whatever the browser holds by then.  Daemons     *)
(* connect and disconnect freely (RelayServer), so a step that needs a     *)
(* connected daemon simply may be refused.                                 *)
(*                                                                         *)
(* The broker's clock counts milliseconds, and everything that expires is  *)
(* measured by it; the timestamp a daemon signs, and the tolerance it is   *)
(* compared within, are whole seconds (Math.floor(Date.now() / 1000)).  A  *)
(* tick of the model stands for a unit of the clock, Second of them for a  *)
(* second.                                                                 *)
(*                                                                         *)
(* Definitions with an underscore in their name are seeded faults, as in   *)
(* RelayServer.                                                            *)
(***************************************************************************)
EXTENDS Integers, FiniteSets

CONSTANTS
  Instances,  \* broker processes behind the load balancer
  Daemons,
  Sessions,   \* session ids, one per signed URL
  DaemonOf,   \* session -> the daemon that signed it
  Mock,       \* the sessions of the mock provider (DICODE_E2E_MOCK_PROVIDER)
  NoSession,
  Second,     \* ticks in a second
  FlowTtl,    \* FLOW_TTL_MS, in ticks
  SeenTtl,    \* session_ttl_ms, in ticks
  MaxSeen,    \* MAX_SEEN
  Tolerance,  \* timestamp_tolerance_s, in seconds
  Skew,       \* how far the daemons' clocks are ahead of the broker's, in ticks
  MaxRequests,\* callback requests in the network (bounds the model)
  MaxTime     \* where the clock stops (bounds the model)

ASSUME FlowAssumption ==
  /\ DaemonOf \in [Sessions -> Daemons]
  /\ Mock \subseteq Sessions
  /\ NoSession \notin Sessions
  /\ Second \in Nat \ {0}
  /\ FlowTtl \in Nat /\ SeenTtl \in Nat
  /\ MaxSeen \in Nat \ {0}
  /\ Tolerance \in Nat /\ Skew \in Int
  /\ MaxRequests \in Nat /\ MaxTime \in Nat

VARIABLES
  now,        \* Date.now() in ticks, the same on every instance
  signedAt,   \* session -> timestamp in its URL in seconds, once it is signed
  tab,        \* session -> the page its tab is at
  cookie,     \* the sealed token in the browser's dicode.oauth cookie
  requests,   \* callback requests in the network
  seen,       \* instance -> session -> time of the SeenSet entry, -1 for none
  jobs,       \* handleCallback calls past their checks
  \* what happened, for the properties
  used,       \* instance -> sealed tokens it accepted
  reused,     \* instance -> those it accepted again
  evicted     \* instance -> sessions its SeenSet dropped to make room

browserVars == <<signedAt, tab, requests>>
historyVars == <<used, reused, evicted>>
vars == <<now, browserVars, cookie, seen, jobs, historyVars>>

\* What sealFlowState seals, as far as the checks go: the daemon, its key and
\* the provider are functions of the session.  A token opens on every instance.
Tokens == [session : Sessions, expiresAt : Nat]
NoToken == [session |-> NoSession, expiresAt |-> 0]

\* A callback carries the access token of the flow `state`, for which the
\* provider redirected, and the cookie's sealed token.
CallbackRequests == [state : Sessions, token : Tokens \cup {NoToken}]

\* The state keeps its types; a SeenSet entry was made at a time that has been.
TypeOK ==
  /\ now \in Nat
  /\ signedAt \in [Sessions -> Int]
  /\ tab \in [Sessions -> {"none", "signed", "consent", "callback"}]
  /\ cookie \in Tokens \cup {NoToken}
  /\ requests \subseteq CallbackRequests
  /\ seen \in [Instances -> [Sessions -> -1 .. now]]
  /\ jobs \subseteq [at : Instances, request : CallbackRequests,
                     phase : {"encrypting", "forwarding"}]
  /\ used \in [Instances -> SUBSET Tokens]
  /\ reused \in [Instances -> SUBSET Tokens]
  /\ evicted \in [Instances -> SUBSET Sessions]

Init ==
  /\ now = 0
  /\ signedAt = [s \in Sessions |-> 0]
  /\ tab = [s \in Sessions |-> "none"]
  /\ cookie = NoToken
  /\ requests = {}
  /\ seen = [i \in Instances |-> [s \in Sessions |-> -1]]
  /\ jobs = {}
  /\ used = [i \in Instances |-> {}]
  /\ reused = [i \in Instances |-> {}]
  /\ evicted = [i \in Instances |-> {}]

-----------------------------------------------------------------------------
(* Seconds and ticks *)

\* Math.floor(t / 1000).
InSeconds(t) == t \div Second

Ticks(n) == n * Second

-----------------------------------------------------------------------------
(* SeenSet *)

\* has(): the ids recorded and not stale.  An entry is stale once more than
\* its ttl has passed.
Remembered(i) == {s \in Sessions : seen[i][s] # -1 /\ now - seen[i][s] <= SeenTtl}

\* The ids a full cache may drop: has() does not refresh an entry, so the
\* least recently used is the one recorded first.
Oldest(i) == {s \in Remembered(i) : \A r \in Remembered(i) : seen[i][s] <= seen[i][r]}

\* Fault: the id is only looked up.
Remember_NotAdded(i, s) == UNCHANGED <<seen, evicted>>

\* Fault: the entry holds the time it ends, and is aged like one that holds
\* the time it was made.
Remember_EndTime(i, s) ==
  seen' = [seen EXCEPT ![i][s] = now + SeenTtl] /\ UNCHANGED evicted

\* add() of an id that is not there.
Remember(i, s) ==
  \/ /\ Cardinality(Remembered(i)) < MaxSeen
     /\ seen' = [seen EXCEPT ![i][s] = now]
     /\ UNCHANGED evicted
  \/ /\ Cardinality(Remembered(i)) >= MaxSeen
     /\ \E old \in Oldest(i) :
          /\ seen' = [seen EXCEPT ![i] = [@ EXCEPT ![old] = -1, ![s] = now]]
          /\ evicted' = [evicted EXCEPT ![i] = @ \cup {old}]

-----------------------------------------------------------------------------
(* From the signed URL to the callback *)

\* A daemon builds and signs the URL of a new session, with its clock's second.
BuildAuthURL(s) ==
  /\ tab[s] = "none"
  /\ tab' = [tab EXCEPT ![s] = "signed"]
  /\ signedAt' = [signedAt EXCEPT ![s] = InSeconds(now + Skew)]
  /\ UNCHANGED <<now, cookie, requests, seen, jobs, historyVars>>

\* Fault: the difference has no absolute value, so a signature never expires.
Fresh_Unsigned(s) == signedAt[s] - InSeconds(now) <= Tolerance

\* The timestamp is within the tolerance of the clock's second, in either
\* direction: to the end of that second, so to just under a second more.
Fresh(s) == InSeconds(now) - signedAt[s] \in -Tolerance .. Tolerance

\* GET /auth/:provider, on any instance the daemon is connected to, with its
\* valid signature and every parameter.  The same URL may be opened again, also
\* after its flow has ended.  A refused request changes nothing.
Auth(s) ==
  /\ tab[s] # "none"
  /\ Fresh(s)
  /\ cookie' = [session |-> s, expiresAt |-> now + FlowTtl]
  /\ tab' = [tab EXCEPT ![s] = "consent"]
  /\ UNCHANGED <<now, signedAt, requests, seen, jobs, historyVars>>

\* Grant and the provider: /connect, the user's consent, the code exchange and
\* Grant's redirect to /callback.  Grant's own check of its state only makes
\* callbacks rarer.
Consent(s) ==
  /\ s \notin Mock
  /\ tab[s] = "consent"
  /\ tab' = [tab EXCEPT ![s] = "callback"]
  /\ UNCHANGED <<now, signedAt, cookie, requests, seen, jobs, historyVars>>

\* GET /connect/mock takes the place of both: it redirects to the callback of
\* the flow in the cookie, and clears the cookie of one that has expired.
\* Without a token, or with another flow's, it refuses and changes nothing.
ConnectMock(s) ==
  /\ s \in Mock
  /\ tab[s] = "consent"
  /\ cookie.session = s
  /\ IF now < cookie.expiresAt
     THEN tab' = [tab EXCEPT ![s] = "callback"] /\ UNCHANGED cookie
     ELSE cookie' = NoToken /\ UNCHANGED tab
  /\ UNCHANGED <<now, signedAt, requests, seen, jobs, historyVars>>

\* The browser requests /callback, or reloads it.
SendCallback(s) ==
  /\ tab[s] = "callback"
  /\ Cardinality(requests) < MaxRequests
  /\ requests' = requests \cup {[state |-> s, token |-> cookie]}
  /\ UNCHANGED <<now, signedAt, tab, cookie, seen, jobs, historyVars>>

\* The network will not deliver the request (again).
RequestGone(r) ==
  /\ requests' = requests \ {r}
  /\ UNCHANGED <<now, signedAt, tab, cookie, seen, jobs, historyVars>>

\* The cookie expires (maxAge) or the user clears it.
CookieGone ==
  /\ cookie' = NoToken
  /\ UNCHANGED <<now, browserVars, seen, jobs, historyVars>>

-----------------------------------------------------------------------------
(* GET /callback/:provider *)

\* Fault: the cookie is not bound to the state.
Matches_AnyFlow(r) == r.token # NoToken

\* The cookie belongs to the flow the provider redirected for.
Matches(r) == r.token.session = r.state

Valid(r) == now < r.token.expiresAt

\* handleCallback rejects another flow's cookie, an expired flow, or a session
\* this instance has seen, and clears the cookie.  A request without a token is
\* refused and changes nothing.
RejectCallback(r, i) ==
  /\ r.token # NoToken
  /\ Matches(r) /\ Valid(r) => r.token.session \in Remembered(i)
  /\ cookie' = NoToken
  /\ UNCHANGED <<now, browserVars, seen, jobs, historyVars>>

\* The checks pass, up to the await of eciesEncrypt.
AcceptCallback(r, i) ==
  /\ r.token # NoToken /\ Matches(r) /\ Valid(r)
  /\ r.token.session \notin Remembered(i)
  /\ Remember(i, r.token.session)
  /\ jobs' = jobs \cup {[at |-> i, request |-> r, phase |-> "encrypting"]}
  /\ used' = [used EXCEPT ![i] = @ \cup {r.token}]
  /\ reused' = [reused EXCEPT ![i] = IF r.token \in used[i] THEN @ \cup {r.token} ELSE @]
  /\ UNCHANGED <<now, browserVars, cookie>>

\* The encrypted token is given to forward(), for the daemon the cookie names.
Deliver(j) ==
  /\ j.phase = "encrypting"
  /\ jobs' = (jobs \ {j}) \cup {[j EXCEPT !.phase = "forwarding"]}
  /\ UNCHANGED <<now, browserVars, cookie, seen, historyVars>>

\* The response: 500 when the encryption failed, 503 when forward() refused
\* the call or gave up, 200 for whatever the daemon answered.  It clears the
\* token of the cookie its request carried, and the browser stores the result
\* over its own.
Respond(j) ==
  /\ jobs' = jobs \ {j}
  /\ cookie' = NoToken
  /\ UNCHANGED <<now, browserVars, seen, historyVars>>

Tick ==
  /\ now < MaxTime
  /\ now' = now + 1
  /\ UNCHANGED <<browserVars, cookie, seen, jobs, historyVars>>

Next ==
  \/ \E s \in Sessions : BuildAuthURL(s)
  \/ \E s \in Sessions : Auth(s)
  \/ \E s \in Sessions : Consent(s)
  \/ \E s \in Sessions : ConnectMock(s)
  \/ \E s \in Sessions : SendCallback(s)
  \/ \E r \in requests : RequestGone(r)
  \/ CookieGone
  \/ \E r \in requests, i \in Instances : RejectCallback(r, i)
  \/ \E r \in requests, i \in Instances : AcceptCallback(r, i)
  \/ \E j \in jobs : Deliver(j)
  \/ \E j \in jobs : Respond(j)
  \/ Tick

Spec == Init /\ [][Next]_vars

-----------------------------------------------------------------------------
(* Properties *)

\* "a consumed id is remembered just long enough to reject a replay within the
\* window where the sealed token is still valid" (SeenSet), so an instance
\* accepts a sealed token once: whichever instance sealed it, however often the
\* request is delivered, and in whatever order the entries age.  It takes a ttl
\* no shorter than the flow's, and a cache that did not overflow.
TokenUsedOnce ==
  SeenTtl >= FlowTtl =>
    \A i \in Instances :
      /\ \A t \in used[i] :
           now < t.expiresAt => t.session \in Remembered(i) \cup evicted[i]
      /\ \A t \in reused[i] : t.session \in evicted[i]

\* A callback that the provider redirected for one daemon's flow sends nothing
\* to another daemon, although all flows of the browser share one cookie.
TokenReachesItsDaemon ==
  \A j \in jobs : DaemonOf[j.request.token.session] = DaemonOf[j.request.state]

\* Wherever and however often a callback is delivered, no instance accepts it
\* FlowTtl or more after the last second in which its /auth URL may be opened,
\* the Tolerance-th after the one the daemon signed, which is what bounds a
\* replay against another instance (sessions.ts).  The second is counted whole:
\* Tolerance + FlowTtl after the signature is not a bound.
FlowWindow ==
  [][\A j \in jobs' \ jobs :
       j.phase = "encrypting" =>
         LET s == j.request.token.session
         IN  tab[s] # "none" /\ now < Ticks(signedAt[s] + Tolerance + 1) + FlowTtl]_vars

\* "a session id consumed on one instance cannot be replayed against that same
\* instance" (sessions.ts).  Fails when the /auth URL is opened again while its
\* timestamp is fresh: the new token outlives the id in the SeenSet.
SessionUsedOnce ==
  \A i \in Instances : \A t, u \in used[i] : t.session = u.session => t = u

=============================================================================
