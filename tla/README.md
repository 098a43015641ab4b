# dicode-relay, specified

TLA+ specifications of [dicode-relay](../src/README.md), the broker that lets
webhooks and OAuth callbacks reach daemons behind NAT, and of the daemon's
client library in the same repository. TLC checks the models on small
instances; the TLA+ proof system proves theorems about eight of the modules for
every value of their constants, among them all the safety properties that TLC
checks.

Paths such as `server.ts:365` are below `src/src/`.

## 1. The system

    browser / webhook sender                        daemon's local HTTP server
          |                                                   ^
          v  public listener                                  | fetch
    start.ts, broker/router.ts                       client/forwarder.ts
          |  forward()                                        ^
          v                 WebSocket over mTLS               |
    relay/server.ts  <=============================>  client/connection.ts
     registry, pending map, keepalive                 dial, handshake, serve, backoff

| Component | State | Operations | Modelled in |
|---|---|---|---|
| Relay server, `relay/server.ts` | registry uuid → socket, pending map and per-daemon counts, per connection: registered uuid, ping interval, pong timer | connection, hello, response, ping/pong, error/close events, `forward`, its timer, `close` | `RelayServer` (detailed), `ForwardContract` (abstract); its keepalive in time in `Webhook` |
| One control connection of the daemon, `client/connection.ts`, `handshake.ts`, `backoff.ts` | where `run()` is suspended, its socket and buffered frames, abort signal, reported status, backoff | dial, hello, welcome, persist the key, serve, fail, wait, abort | `Connection` (detailed), `Endpoint` (abstract) |
| Broker and daemon together | frames on their way over each connection, requests at the local daemon | what both do, joined | `RelaySystem` |
| Client fan-out, `client/client.ts` | the list of URLs, the latest status of each, the aggregate last told | constructor, `run`, status fold, abort | `RelayClient`, over `Endpoint` |
| Daemon-side dispatch, `client/forwarder.ts`, and the public routes, `start.ts` | none of their own | `dispatchRequest`, `forwardToClient` | `Webhook` |
| OAuth broker flow, `broker/router.ts`, `sessions.ts`, `flow-session.ts`, `flow-state.ts` | the browser's sealed cookie, a SeenSet per instance, callbacks in progress | `/auth`, `/connect/mock`, `/callback` with its awaits, the SeenSet | `OAuthFlow` |
| Metrics, `status/metrics.ts` | two ring buffers, total and peaks per daemon, peaks of the total | register, remove, record, snapshot | `Metrics` |
| Provisioning, `start.ts`, `shared/signing.ts` | three files in the working directory, what the process loaded | resolve certificate, load key, write, listen, `--check` | `Startup` |
| Config, Grant and provider tables, crypto, certificates, identity, status page, wire protocol | tables and pure functions | — | not modelled (section 8) |

How they interact: the public routes and the OAuth callback call
`RelayServer.forward`, a promise; the relay server emits `client:connected` and
`client:disconnected`, which drive the metrics; the two ends of a control
connection exchange hello, welcome, error, request and response frames; broker
instances share key material and nothing else.

What is hard here:

* **Callback interleavings.** Node runs one callback at a time, but a daemon's
  reconnect, the old socket's late `close`, its armed pong timer, responses,
  request timers and shutdown come in any order.
* **Awaits in the client.** Frames, a closing socket or an abort can arrive
  while `run()` is suspended somewhere that does not listen for them.
* **Frames in flight.** A hello of a connection the daemon has given up may be
  read after the hello of its next one; a request may reach a daemon that has
  already redialled.
* **Time windows that must fit together.** Ping and pong; the fetch, the round
  trip and the request timeout; the flow's lifetime, the SeenSet's and the
  signature's tolerance.
* **Duplicates and instances.** A callback may be delivered twice, and to an
  instance that has seen nothing.
* **Crashes between writes**, and ring buffers that nobody touched for hours.

`PROJECT.json` lists these as hazards with their lines and properties.

## 2. Conventions

* One action is one callback of the event loop run to completion, or one
  stretch of an async function between two awaits. Names are the source's where
  there is one; `PROJECT.json` ("map") ties every definition to its lines.
* The `ws` library, the browser, Grant, lru-cache and the network are modelled
  from how the code uses them and marked external in the map.
* A definition with an underscore in its name (`Cleanup_KeepsEntry`) is a
  **seeded fault**: what the definition after it would be with a plausible bug.
  No specification uses it. For every property of a passing run, one fault is
  substituted for the right definition and TLC must find the property violated.
* Properties are stated at the end of each module with the behaviour they are
  about; `MC...` modules hold only what TLC needs.

## 3. Modules and the code

**`ForwardContract`** says what `forward()` owes a caller, with no sockets,
timers or maps: a call is refused or accepted at once, within the cap; an
accepted call settles once.

**`RelayServer`** has the class's three maps (`clients`, `pending`,
`pendingByClient`), the closure variables of `handleConnection` per socket
(`registeredUuid`, `pingTimer`, `pongTimer`), those of `forward` per call, and
the library's `readyState` (`ws`). Two things are easy to miss in the code and
are in the model: frames received before a close frame are still delivered
while a socket is CLOSING, so a hello may register such a socket; and a pong
timer that is overwritten while armed (`pong_timeout_ms >= ping_interval_ms`)
stays armed as `lostPongTimer`, out of `cleanup()`'s reach. A peer may vanish
without a word. `Close` and `CloseCallback` are the two halves of `close()`.

**`Endpoint`** is what a connection tells its owner, without sockets or frames:
"connected" from the start to the end of a session, an error after a failed
attempt. `Connection` implements it, `serving` being `pc = "serve"`.

**`Connection`** is `run()` of one URL. `pc` is its await: `dial`, `opened`
(listeners changed hands, hello not sent), `handshake`, `persist`
(`onBrokerPubkey`), `serve`, `backoff`. Frames go to a waiting `recv()`, to the
adapter's `inbox` or to `handleFrame`, depending on who listens. `heardIn`
records where an abort was dispatched; `received` and `dispatched` are the
frames the current socket delivered and those `handleFrame` was called with.

**`RelaySystem`** extends `RelayServer` and instantiates `Connection`; each
connection has a queue of frames per direction (`down`, `up`), and `link` is the
one of the daemon's current attempt. Every action is an action of one side, or
of both where one writes what the other will read: `WriteRequest` is `Forward`
and an append to `down`, `ReadFrame` takes the head and is `Deliver` of
`Connection`. Either end may close or fail by itself; the other hears of it
later or, where the network was cut, never. A dispatched request is answered
over the socket it came on (`Answer`), or not at all (`NoAnswer`). Shutting
down either side stays in the module of that side.

**`RelayClient`** is the whole of `client.ts`: the option checks decide which
lists run at all, each connection takes the steps of `Endpoint` with clock
readings that may repeat and step back, and every report is folded into the
aggregate (`AggregateStatus`, with the code's tie-breaks).

**`Webhook`** follows HTTP requests for one daemon in time: front end,
`forward()`, the wire, the local `fetch`, and back; beside it the keepalive of
the daemon's connection. Every timer is a countdown, `limits` is the
configuration chosen at the start, and `Tick` lets a unit of time pass when no
timer is due and no frame has been on the wire for the longest round trip
(`Trips`). The race of two timers due at once is left open. Replies are HTTP
statuses and nothing else: the caller cannot tell the broker's 502, 503 and 429
from the same status of the daemon's local server, which is passed through, or
from the 502 of a failed fetch. A 504 is the broker's timeout, the `.catch` of an
answer that cannot be written (a header Node refuses), or a local server's own.

**`OAuthFlow`**: a daemon signs a URL, the one browser opens it (`Auth` seals
the flow into the shared cookie), Grant and the provider send the browser to
`/callback`, and a request carries the cookie as it was when sent. It may be
delivered repeatedly and to any instance. `AcceptCallback` runs up to the first
await, `Deliver` to the second, `Respond` from there; a response clears the
cookie whatever the browser holds by then. `ConnectMock` is the e2e mock
provider, which goes to `/callback` at once. Whether `forward` succeeds is
`RelayServer`'s business; here both outcomes lead to `Respond`. The clock runs in
ticks, of which a second has `Second`: expiry times and the SeenSet use the clock
itself (`Date.now()`), the signed timestamp and its comparison whole seconds
(`InSeconds`, `router.ts:155`). One clock is shared by the instances and is not
set back; the two readings of it in one run of `/auth` are taken as one. A
callback is assumed to come from a redirect of the provider, carrying whatever
cookie the browser holds; forged ones are left out.

**`Metrics`** has the rings as arrays with index and epoch, advanced lazily by
`Advance`, and a log of what was really recorded for the properties to compare
with. The clock may jump and step back.

**`Startup`**: each instance's three files, the steps of `startServer` between
which a crash can happen, and the refusals of `resolveMtlsCert` and
`loadBrokerSigningKey` as `CertRefused` and `KeyRefused`. `--check` evaluates
the same refusals and writes nothing. The two listeners are bound one after the
other, and either may be refused its port (`Listen`, `ListenMtls`,
`start.ts:380`), which ends the process. That `startServer` leaves the public
listener bound when the second one is refused matters only to a program that
calls it as a library and goes on; that is not modelled.

## 4. Runs

| Run | Question | Bounds | Distinct states |
|---|---|---|---|
| `relay_safety` | Do the maps, the registry and `forward`'s contract stay consistent? | 2 daemons, 2 connections, 3 calls, cap 2, symmetry | 150,513 |
| `relay_live` | Does every call settle, does a dead daemon leave? | 1 daemon, 2 connections that may vanish, 1 call, pong timeout longer than the ping interval | 27,534 |
| `relay_close` | Does `close()` always return? **No** (finding 1) | 1 connection, 1 call | |
| `connection` | Is any request lost, is the status true, does it keep trying and stop when told? | 3 requests, waits 1..3, attempts counted to 2 | 17,360 |
| `connection_abort` | Does an abort always stop `run()`? **No** (finding 2) | as above | |
| `relay_system` | Do the two ends fit, does a request run once, does a daemon that lost its place find out? | 1 daemon, 2 connections, one of which may be cut, 1 call | 324,040 |
| `client` | Does the aggregate describe all the connections? | every option object with lists up to 3 URLs, attempts to 2, seconds 0..2 | 120,092 |
| `webhook` | Is a caller told the daemon's status, does the keepalive kill only the dead, in time? | 2 calls, cap 1, local statuses 200, 503 and 504, fetch 2, request timeout 2 or 4, ping interval 2, pong timeout 1 or 3, round trips up to 0, 1 or 2 | 5,673,617 |
| `oauth_flow` | Does a token reach only the daemon that asked, within the flow's window, and is it accepted once? | 2 flows of 2 daemons, one of them the mock's, a SeenSet of 1, 2 ticks to a second, lifetimes of 2 ticks, tolerance 0, 1 callback in the network | 2,627,662 |
| `oauth_reuse` | Is a session accepted once per instance? **No** (finding 3) | 1 flow, 2 ticks to a second, tolerance 1 second, lifetimes 3 ticks | |
| `metrics` | Do the rings, and every snapshot, show the true sliding windows? | 2 daemons, 2 seconds to an hour, 2 hours to a day, 5 seconds, 2 requests | 389,010 |
| `startup` | Is the identity stable through crashes, one per fleet, does `--check` predict the start, does a start reach its ports? | 2 instances, 19 configurations each, 2 crashes | 337,153 |

What the properties say, beside one type invariant per run:

* `relay_safety`: `CapBookkeeping` (the counter is the number of entries and
  within the cap), `WaitersArePending`, `RegistryBacked`, `WelcomedIsRouted`,
  `MetricsInSync`, `RequestsWellRouted` (after the welcome, to the daemon named),
  and `ForwardContract` as `ForwardKeepsContract`.
* `connection`: `NoRequestLost` (what the socket delivered is the first frame and
  then exactly what was dispatched, in order), `Endpoint` as
  `ReportsLikeEndpoint`, `EveryPhaseEnds`, `KeepsTrying`, `AbortIsFinal`.
* `relay_system`: `ComponentsBehave` (both components' specifications hold of
  the composition), `RunsOnceAndRouted`, `DaemonNoticesLoss`.
* `client`: `ToldTheTruth`, `NoReportAfterRun`.
* `webhook`: `StatusTellsTheTruth` (a call that was forwarded is told the status
  the daemon answered with, unless it ran into one of the model's `Troubles`,
  when fetch and round trip fit into the request timeout; so a local failure,
  answered with 502, does not become a 504), `HealthyIsKept` (when a round trip
  is shorter than ping interval and pong timeout), `DeadIsEvictedInTime`.
* `oauth_flow`: `TokenUsedOnce`, `TokenReachesItsDaemon`, `FlowWindow`. The bound
  of `FlowWindow` counts the last second of the tolerance whole: with the
  defaults a flow is accepted less than 31 s + 300 s after the start of the
  second that was signed, and 30 s + 300 s would not be true.
* `metrics`: `RatesAreTrue` (what the rings hold, advanced to any time),
  `ShownIsTrue` (what a snapshot reads from them), `PeaksAreSound`.
* `startup`: `IdentityIsStable`, `FleetPresentsOneIdentity`, `CheckPredictsStart`
  (a start fails at most at a port), `ComesUp` (one that begins from startable
  files reaches its ports, or crashes).

What they leave out: `MetricsInSync` says nothing once `close()` has begun, which
empties the registry without events; `HealthyIsKept` excludes the overwritten
pong timer; in `ComponentsBehave` the broker's half holds by construction,
every action of `RelaySystem` on the broker being one of `RelayServer`, and the
daemon's half is what is checked.

Why the bounds are enough. *Relay*: every interleaving hazard needs two
connections of one daemon or two daemons with one each, and the cap binds with
three calls against two. *Connection*: a session's requests can be split between
the handshake's `recv`, the adapter's buffer and `serve` with three of them; an
attempt carries nothing to the next but the wait and the status. *RelaySystem*:
a late hello, a superseded connection and an answer for a lost one need two
connections. *RelayClient*: three connections are the fewest for which "one of
those that are up" and "the latest of those that are down" can be confused with
first and last. *Webhook*: each pair of timeouts occurs in both orders, and the
second call meets the cap. *OAuthFlow*: two flows are enough to confuse cookies
and, with a SeenSet of one, to evict; the clock reaches past a flow's end and an
entry's end, and an `/auth` URL can be opened at the second tick of its last
second. Several instances, larger windows and a clock skew are covered by the
theorems. *Metrics*: the clock can move by less than a lap, exactly one and
more than one of the second ring, and by a lap of the hour ring. *Startup*: two
crashes hit two different writes, or the write and its repetition. The theorems
of section 6 remove these bounds for the safety properties.

Deadlock is checked in `webhook`, where time must always be able to pass. It is
not in the other runs: those systems may really come to rest (after `close`,
after an abort, at the clock's bound), and what must not rest for ever is stated
as liveness.

## 5. Fairness

* `RelayServer!FairSpec`: timers fire (`ForwardTimeout`, `PingTick`,
  `PongTimeout`), the library reports the end of a closing socket (it destroys
  one whose peer does not answer), and `wss.close` calls back. No peer is
  obliged to send anything and no caller to call.
* `Connection!FairSpec`: dial, handshake and backoff timers fire, continuations
  run, a closing socket ends, and the consumer's `onBrokerPubkey` settles. The
  last is a real dependence: no timer guards that await (`connection.ts:217`).
  `serve()` is exempt: a session may last.
* `RelaySystem!SystemFairSpec`: a close that the network carries is heard at the
  daemon (`DaemonHearsClose`), and a socket that is closing there ends
  (`DaemonSeesClosed`). Nothing is asked of the broker, of a cut connection or of
  frames.
* `Startup!FairSpec`: `startServer` runs on, its steps being continuations. That
  anybody starts a broker again is not assumed: `ComesUp` is about each start
  that was made.
* `OAuthFlow`, `Metrics`, `RelayClient` and `Webhook` have safety properties only;
  `Webhook`'s urgency of timers is in the guard of `Tick`.

## 6. What is proved

Each proof module extends the module it is about; its theorems hold for every
value of the constants that satisfies the named assumption.

| Module | From | Theorems (property) |
|---|---|---|
| `RelayServerProofs` | `RelayAssumption`: finitely many calls, numbers are numbers | `TypeCorrect`, `CapIsExact` (`CapBookkeeping`), `NoCallLeaks` (`WaitersArePending`), `RegistryIsBacked`, `NoConnectionForgotten` (`WelcomedIsRouted`), `MetricsFollowRegistry` (`MetricsInSync`), `RequestsAreRouted` (`RequestsWellRouted`), `ImplementsContract` (`ForwardKeepsContract`) |
| `ConnectionProofs` | `ConnectionAssumption`: the first wait is positive and at most the last | `TypeCorrect`, `FramesAreKept` (`NoRequestLost`), `ImplementsEndpoint` (`ReportsLikeEndpoint`), `StatusIsHonest`, `NoDialAfterAbort` (the first half of `AbortIsFinal`) |
| `RelaySystemProofs` | both of these and `SystemAssumption`: one daemon, calls are not named like other frames | `ComponentsAgree` (`ComponentsBehave`), `CallsRunOnce` (`RunsOnceAndRouted`), `SystemTypes` (`SystemTypeOK`) |
| `RelayClientProofs` | `ClientAssumption`: an absent option is no URL, bounds are numbers; any number of brokers | `NothingAfterRun` (`NoReportAfterRun`), `TypesHold`, `ToldTheTruthHolds` |
| `MetricsProofs` | `MetricsAssumption`: finitely many daemons, the rings have a slot at least; any sizes and clock | `TypesHold`, `RatesHold` (`RatesAreTrue`), `SnapshotsAreTrue` (`ShownIsTrue`), `PeaksHold` (`PeaksAreSound`) |
| `WebhookProofs` | `WebhookAssumption`: timeouts are positive; none is assumed shorter than another | `TypesHold`, `StatusIsTrue` (`StatusTellsTheTruth`), `KeepaliveKeepsHealthy` (`HealthyIsKept`), `KeepaliveEvictsDead` (`DeadIsEvictedInTime`) |
| `OAuthFlowProofs` | `FlowAssumption`: a second has a tick at least; any instances, windows, clock skew and length of a second | `TypesHold`, `ReplayIsRefused` (`TokenUsedOnce`), `NoTokenGoesAstray` (`TokenReachesItsDaemon`), `WindowIsKept` (`FlowWindow`), `LongMemoryUsesOnce` |
| `StartupProofs` | `StartupAssumption`; any instances, configurations and number of crashes | `TypesHold`, `IdentityStays` (`IdentityIsStable`), `FleetIsOne` (`FleetPresentsOneIdentity`), `ChecksPredictStarts` (`CheckPredictsStart`), `StartsUnlessRefused` (the safety half of `ComesUp`) |

**RelayServer.** `IInv == TypeOK /\ CallInv /\ IdleIsUnsent /\ SocketInv`.
`CallInv` is the lockstep of map and counter, the cap and "waiting ⇔ entry ⇔
timer" together: removing an entry lowers the counter by one only because the
counter is at least one, which is the lockstep itself. `IdleIsUnsent` says that
a call not yet made has no frame, without which `Forward` could overwrite the
record of where one was written. `SocketInv` adds to the registry properties
what the flags of a socket imply of each other: a `NEW` socket is unknown to the
server (otherwise `Connect` could open one that counts as welcomed and is
nobody's entry), and only an admitted socket is welcomed
(`WelcomeMatchesRegistration`), so the socket an open owner hands over to is
covered by `WelcomedIsRouted`. `CleanupTakesOwnEntry` is the heart: `Cleanup`
removes exactly the entry the socket owns.

**Connection.** For `FramesAreKept` the invariant `FramesInv` says where the
frames are in each phase: nothing before the socket opens, at most a refusal
before the hello, nothing dispatched before `serve`, and a welcome taken in
`persist`. The refinement needs only that `status.connected` and `pc = "serve"`
agree (`HonestStatus`).

**RelaySystem.** The argument is assume-guarantee with the assumptions
discharged. Every step is one of `RelayServer` (`BrokerSteps`), so `IInv` holds
of the broker's part. From it follows what is on its way to the daemon: nothing
before the welcome, the welcome first, only requests behind it (`HandshakeInv`,
`StreamInv`); hence every step is one of `Connection` too (`DaemonSteps`), whose
`BrokerWelcomes` and `BrokerRequests` state these expectations. That a call runs
once is `OnceInv`: a call is in one place at a time — not made, on its way over
the connection its request was written to, buffered, or handed to the local
daemon — and `AnswerInv` ties answers to that run. The broker's registry and the
daemon's status meet in `RoutedIsWelcomed`: an open, welcomed connection is the
one routed to.

**RelayClient.** `ReportsInv`: each connection has a URL of its own, the Map and
the connections hold the same snapshots (`UrlsInv`, where the check for
duplicate URLs is needed: with two equal ones a report would overwrite the
other's entry), and what was told is their aggregate (`ToldInv`). What is left
is pure: `AggregateTrue` says what `aggregateStatus` computes of any list, from
`BestIs` and `MaxIs`, the loops that find the endpoint connected last and its
time. A connection that is up has a `last_connected_at`, which makes a live
representative's hook URL known.

**Metrics.** `RingInv`: bucket j of a ring holds what was recorded in the one
second (or hour) of the window whose slot is j, and nothing if no such second
was in the window. `AdvanceKeepsRing` is the heart: the slots `Advance` zeroes
are exactly those whose second leaves the window (`PassedSlots`), for less than
a lap, one lap and many. The rates are then sums over the window, because
different seconds of a window have different slots (`RingCounts`). `ClientInv`
adds that a peak was a rate, and the total's peak covers it: the sum of natural
numbers is no lower than any of them (`SumCovers`).

**Induction over data.** `RelayClient`'s aggregate and `Metrics`' sums are folds.
The library's induction theorems take a predicate, which the provers cannot
instantiate. `SubsetInduction` states induction over finite sets for a *set*
instead, and is proved from two theorems of the library without such a
parameter (strict inclusion of finite sets is well-founded, and a well-founded
order has minimal elements). From it follow that the recursion which defines a
fold has a solution (`FoldsExist`, `SumsExist`), and what holds of a fold at the
end of a list (`PrefixInduction`) or of a sum over a set.

**Webhook.** `KeptInv` relates an armed pong timer, the age of its ping and the
ping interval's countdown: on a reachable connection `pongLeft + pings` is the
pong timeout, so the timer cannot be due while the pong is within the round
trip. `EvictInv` gives for a connection that is gone a countdown that bounds the
rest of its stay. `BudgetInv` adds up, for a call without trouble, what the wire
and the fetch have spent of the request timeout, so its timer cannot run out
(`NoEarlyTimeout`). `ReplyInv` follows: such a call waits, without a reply, while
it is under way, so that the answer it is given is the one the daemon made.

**OAuthFlow.** `FreshTimes` turns the comparison of seconds into ticks: a URL is
open from `Tolerance` seconds before the second that was signed to the end of the
`Tolerance`-th after it. `TokensInv`: every token sealed anywhere is of a signed
flow, and expires within `FlowTtl` of now and of that end. `SeenInv`: a used token expires no later than its
session's SeenSet entry, unless that was evicted; `ReusedInv` and
`TokenUsedOnce` follow. `LongMemoryUsesOnce` answers finding 3: when
`session_ttl_ms` is at least the flow's lifetime, the tolerance and one second
more, and `Lead` together (`SeenOutlivesSession`; the defaults, 300 s against
300 s and 31 s, are below it), an instance accepts one token of a session unless
it dropped the session. `Lead` is how long before the second that was signed a
URL can be opened: the daemon's clock skew, at most the tolerance.
All tokens of a session are accepted
in a span of that length (`BegunInv` and `TokensInv`), and its first entry is
made in it (`UseInv`).

**Startup.** `AnnouncedInv`: what was announced is shared material or what is on
disk, complete. `ProcessInv` says what the process holds at each await, so that
a write completes what it started; `CheckInv` that a start in progress and a
check judge the same files alike. `StartsUnlessRefused` adds `FailInv`: a start
that failed before it listened was not `Startable`, and a private key on disk is
whole and fits its certificate, or is torn.

## 7. Findings

1. **`close()` may never settle** (`relay_close`). It terminates the sockets in
   the registry (`server.ts:297`), and `wss.close` then waits for all sockets. A
   connection that has not said hello yet keeps it waiting; one that says hello
   afterwards registers and is pinged for ever. `index.ts:11`: "SIGTERM/SIGINT
   trigger a graceful `handle.close()` and exit 0".
2. **An abort during the handshake is not heard** (`connection_abort`). Between
   `open` and `serve()` nothing listens, and `serve()` subscribes to a signal
   that has already fired (`connection.ts:287`). `connection.ts:58`: "Run until
   `signal` is aborted".
3. **One instance can accept a session twice** (`oauth_reuse`). The id is
   forgotten `session_ttl_ms` after its use; the same signed URL, opened again
   within its tolerance but after that use, has sealed a token that is valid
   longer. `sessions.ts:7`: "a session id consumed on one instance cannot be
   replayed against that same instance". A longer `session_ttl_ms` closes the gap
   (`LongMemoryUsesOnce`, section 6).

Observed and left as notes:

* `--check` cannot see a working directory that is not writable, nor a port that
  another process holds or the system forbids: it neither writes nor listens. The
  start then fails although the check passed. `CheckPredictsStart` is about
  writable directories and about what comes before the ports.
* `/auth` is open until the end of the last second of its tolerance, so up to just
  under a second longer than `timestamp_tolerance_s`.
* `buildAuthURL` writes `session_id` and `ts`, the router reads `session` and
  `timestamp`: the library's own URL is always refused.
* A daemon whose network is cut without a close keeps reporting "connected":
  `serve()` has no keepalive of its own. `DaemonNoticesLoss` excepts it.
* A 504 also stands for a local response that breaks off while it is read, for a
  request that waited while the daemon persisted the broker's key, and for an
  answer with a header that Node does not write.
* The caller cannot tell the broker's refusals (502, 503, 429) from the same
  statuses of the daemon's side, so they do not say that nothing has run.
* A pong timer that is overwritten while armed terminates a healthy connection
  when the round trip is at least the ping interval and below the pong timeout;
  `HealthyIsKept` needs both conditions.
* Two flows in one browser make each other fail (each clears the shared cookie);
  any answer of the daemon is shown as "Authorization complete".
* A request forwarded to a registered socket that is already CLOSING is dropped
  silently and ends in the caller's timeout.
* A crash inside the write of a private key leaves a file with which no later
  start succeeds; after an `error` the backoff is not reset, however long the
  session was.

## 8. Only model-checked, and not modelled

Only model-checked:

* liveness (`relay_live`, `EveryPhaseEnds`, `KeepsTrying`, the second half of
  `AbortIsFinal`, `DaemonNoticesLoss`, `ComesUp`): the provers have neither
  fairness nor ENABLED;
* the three findings of section 7, which are counterexamples on an instance.

Every other property of the passing runs is a theorem of section 6. The prover
cannot cite a theorem through a named instance, which is why `RelaySystem`
extends `RelayServer` instead of instantiating it, and why `RelaySystemProofs`
proves `Daemon!TypeOK` step by step again.

Abstracted inside the models: frame encoding, header flattening, status ranges,
path and size rules (their outcome is a choice), jitter, log lines, the bytes of
keys and tokens. A signature or a seal is taken to verify exactly when it is
genuine.

Not modelled: `config.ts`, `grant.ts`, `providers.ts` (tables evaluated once at
start); the mock's `/_test/deliver` (a test hook that forwards what it is
given); `crypto.ts`, `certs.ts` and the key handling of `identity.ts` (primitives
and encodings without control); `page.ts`, `status/auth.ts` (rendering, one
comparison); the declarations of routes and middleware in `start.ts`; generated
protobuf classes.

## 9. Plan

Done: the modules of section 1, their runs, and the theorems of section 6.

Left, in this order:

1. Several daemons and the broker's shutdown in `RelaySystem`, with `WebhookProofs`'
   and `RelayServerProofs`' arguments joined: a webhook's status in time over
   frames that are really queued.
2. The condition under which findings 1 and 2 cannot occur, stated and proved as
   `LongMemoryUsesOnce` does for finding 3.
