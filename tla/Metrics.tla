------------------------------ MODULE Metrics ------------------------------
(***************************************************************************)
(* The status page's counters: class MetricsCollector of                   *)
(* src/status/metrics.ts.  Each connected daemon has two ring buffers, the *)
(* requests of the last hour by second and of the last day by hour, that   *)
(* are advanced lazily, when a request is recorded or the page is shown.   *)
(*                                                                         *)
(* The wall clock may jump forward by any amount, and step back.  A ring   *)
(* never moves back: what is recorded while the clock is behind counts for *)
(* the latest second the entry has seen.  Buckets are Uint32 and no second *)
(* or hour counts that far, so their width is left out, and so are the     *)
(* process's own figures (CPU, memory) and the formatting.                 *)
(*                                                                         *)
(* Definitions with an underscore in their name are seeded faults, as in   *)
(* RelayServer.                                                            *)
(***************************************************************************)
EXTENDS Integers, FiniteSets, FiniteSetsExt, Functions

CONSTANTS
  Uuids,
  SecondsPerHour,  \* slots of a second ring, and seconds in an hour
  HoursPerDay,     \* slots of an hour ring
  MaxTime,         \* the clock's range is 0 .. MaxTime seconds (bounds the model)
  MaxRequests      \* requests recorded in all (bounds the model)

ASSUME MetricsAssumption ==
  /\ IsFiniteSet(Uuids)
  /\ SecondsPerHour \in Nat \ {0}
  /\ HoursPerDay \in Nat \ {0}
  /\ MaxTime \in Nat /\ MaxRequests \in Nat

VARIABLES
  now,      \* nowSec
  entries,  \* uuid -> its ClientMetricsEntry, or None
  peak,     \* the collector's own peaks
  log       \* uuid -> second -> requests recorded then, for the properties

vars == <<now, entries, peak, log>>

Clock == 0 .. MaxTime
HourOf(second) == second \div SecondsPerHour

Rings(slots) == [buckets : [0 .. slots - 1 -> Nat], index : 0 .. slots - 1, epoch : Nat]
Rates == [perSec : Nat, perHour : Nat, perDay : Nat]
NoRate == [perSec |-> 0, perHour |-> 0, perDay |-> 0]
Entries == [seconds : Rings(SecondsPerHour), hours : Rings(HoursPerDay),
            totalRequests : Nat, peak : Rates]
None == [totalRequests |-> -1]

Connected == {u \in Uuids : entries[u] # None}

\* The state keeps its types; the hour ring is at the hour of the second ring.
TypeOK ==
  /\ now \in Clock
  /\ \A u \in Connected :
       LET e == entries[u] IN
       /\ DOMAIN e = {"seconds", "hours", "totalRequests", "peak"}
       /\ e.seconds.buckets \in [0 .. SecondsPerHour - 1 -> Nat]
       /\ e.seconds.index \in 0 .. SecondsPerHour - 1
       /\ e.hours.buckets \in [0 .. HoursPerDay - 1 -> Nat]
       /\ e.hours.index \in 0 .. HoursPerDay - 1
       /\ e.seconds.epoch \in Clock /\ e.hours.epoch = HourOf(e.seconds.epoch)
       /\ e.totalRequests \in Nat
       /\ e.peak \in Rates
  /\ peak \in [clients : Nat, rates : Rates]
  /\ log \in [Uuids -> [Clock -> Nat]]

-----------------------------------------------------------------------------
(* Ring buffers *)

NewRing(slots, epoch) ==
  [buckets |-> [j \in 0 .. slots - 1 |-> 0], index |-> 0, epoch |-> epoch]

\* Index i of a ring, round its end.
Wrap(i, slots) == i % slots

\* The slots passed on the way from r to epoch `to`: at most one lap.
Passed(r, slots, to) ==
  {Wrap(r.index + k, slots) : k \in 1 .. Min({to - r.epoch, slots})}

\* Fault: only the slot it arrives at is zeroed.
Advance_KeepsSkipped(r, slots, to) ==
  IF to <= r.epoch THEN r
  ELSE LET index == Wrap(r.index + to - r.epoch, slots)
       IN  [buckets |-> [r.buckets EXCEPT ![index] = 0], index |-> index, epoch |-> to]

\* advanceSecondBuckets and advanceHourBuckets: the passed slots are zeroed.
\* Nothing changes when the clock has not moved on.
Advance(r, slots, to) ==
  IF to <= r.epoch THEN r
  ELSE [buckets |-> [j \in 0 .. slots - 1 |->
                       IF j \in Passed(r, slots, to) THEN 0 ELSE r.buckets[j]],
        index |-> Wrap(r.index + to - r.epoch, slots),
        epoch |-> to]

\* Fault: the hour ring is advanced by seconds.
AdvanceTo_Seconds(e, t) ==
  [e EXCEPT !.seconds = Advance(@, SecondsPerHour, t),
            !.hours = Advance(@, HoursPerDay, t)]

\* Both rings of an entry at second t.
AdvanceTo(e, t) ==
  [e EXCEPT !.seconds = Advance(@, SecondsPerHour, t),
            !.hours = Advance(@, HoursPerDay, HourOf(t))]

Count(r) == [r EXCEPT !.buckets[r.index] = @ + 1]

\* What the page shows of an entry.
RatesOf(e) == [perSec |-> e.seconds.buckets[e.seconds.index],
               perHour |-> SumFunction(e.seconds.buckets),
               perDay |-> SumFunction(e.hours.buckets)]

-----------------------------------------------------------------------------
(* The collector *)

Init ==
  /\ now \in Clock
  /\ entries = [u \in Uuids |-> None]
  /\ peak = [clients |-> 0, rates |-> NoRate]
  /\ log = [u \in Uuids |-> [t \in Clock |-> 0]]

\* client:connected, also of a daemon that has an entry.
RegisterClient(u) ==
  /\ entries' = [entries EXCEPT ![u] =
       [seconds |-> NewRing(SecondsPerHour, now), hours |-> NewRing(HoursPerDay, HourOf(now)),
        totalRequests |-> 0, peak |-> NoRate]]
  /\ log' = [log EXCEPT ![u] = [t \in Clock |-> 0]]
  /\ UNCHANGED <<now, peak>>

\* client:disconnected.
RemoveClient(u) ==
  /\ entries' = [entries EXCEPT ![u] = None]
  /\ UNCHANGED <<now, peak, log>>

\* A request for a connected daemon; others are not counted.
Record(u) ==
  /\ u \in Connected
  /\ LET e == AdvanceTo(entries[u], now) IN
     /\ entries' = [entries EXCEPT ![u] =
          [e EXCEPT !.seconds = Count(@), !.hours = Count(@), !.totalRequests = @ + 1]]
     /\ log' = [log EXCEPT ![u][e.seconds.epoch] = @ + 1]
  /\ UNCHANGED <<now, peak>>

Higher(a, b) == Pointwise(a, b, LAMBDA x, y : Max({x, y}))

\* Fault: the collector's peaks follow the last client alone.
TotalRates_OneClient(es) ==
  IF Connected = {} THEN NoRate ELSE RatesOf(es[CHOOSE u \in Connected : TRUE])

\* The rates of all entries together.
TotalRates(es) ==
  [f \in DOMAIN NoRate |-> SumFunction([u \in Connected |-> RatesOf(es[u])[f]])]

\* Fault: the page is shown from rings that were not advanced.
Snapshot_Stale ==
  /\ UNCHANGED <<now, log>>
  /\ entries' = [u \in Uuids |->
       IF u \in Connected THEN [entries[u] EXCEPT !.peak = Higher(@, RatesOf(entries[u]))]
       ELSE None]
  /\ peak' = [clients |-> Max({peak.clients, Cardinality(Connected)}),
              rates |-> Higher(peak.rates, TotalRates(entries))]

\* The page is shown: every entry is advanced, then the peaks are raised.
Snapshot ==
  LET es == [u \in Uuids |-> IF u \in Connected THEN AdvanceTo(entries[u], now) ELSE None] IN
  /\ UNCHANGED <<now, log>>
  /\ entries' = [u \in Uuids |->
       IF u \in Connected THEN [es[u] EXCEPT !.peak = Higher(@, RatesOf(es[u]))] ELSE None]
  /\ peak' = [clients |-> Max({peak.clients, Cardinality(Connected)}),
              rates |-> Higher(peak.rates, TotalRates(es))]

\* The clock moves on, jumps, or is set back.
ClockMoves ==
  /\ now' \in Clock \ {now}
  /\ UNCHANGED <<entries, peak, log>>

Recorded == MapThenSumSet(LAMBDA u : SumFunction(log[u]), Uuids)

Next ==
  \/ \E u \in Uuids : RegisterClient(u)
  \/ \E u \in Uuids : RemoveClient(u)
  \/ \E u \in Uuids : Recorded < MaxRequests /\ Record(u)
  \/ Snapshot
  \/ ClockMoves

Spec == Init /\ [][Next]_vars

-----------------------------------------------------------------------------
(* Properties *)

InWindow(u, seconds) == SumFunctionOnSet(log[u], seconds \cap Clock)

\* The rates by their definition: the requests of the second t, of the
\* SecondsPerHour seconds that end with it, and of the HoursPerDay hours that
\* end with its hour.
TrueRates(u, t) ==
  [perSec |-> InWindow(u, {t}),
   perHour |-> InWindow(u, t - SecondsPerHour + 1 .. t),
   perDay |-> InWindow(u, {s \in Clock :
                             HourOf(s) \in HourOf(t) - HoursPerDay + 1 .. HourOf(t)})]

\* Whenever the page is next shown, it shows the true sliding-window rates,
\* however long the rings were not advanced and by however many laps ("zero
\* out skipped buckets").  When the clock was set back it shows those of the
\* latest second it has seen.
RatesAreTrue ==
  \A u \in Connected, t \in Clock :
    RatesOf(AdvanceTo(entries[u], t)) = TrueRates(u, Max({t, entries[u].seconds.epoch}))

\* What a snapshot shows of a client are its true rates, as of the clock: the
\* rings were advanced before they were read.
ShownIsTrue ==
  [][Snapshot =>
       \A u \in Connected :
         RatesOf(entries'[u]) = TrueRates(u, Max({now, entries[u].seconds.epoch}))]_vars

\* Every peak of a client was really its rate at some time of this connection,
\* although the rings have long forgotten that time.
PeaksWereReached ==
  \A u \in Connected : \A f \in DOMAIN NoRate :
    entries[u].peak[f] = 0 \/ \E t \in Clock : TrueRates(u, t)[f] >= entries[u].peak[f]

\* The total's peaks cover every client's, which come from the same snapshots.
TotalPeakCoversClients ==
  \A u \in Connected : \A f \in DOMAIN NoRate : entries[u].peak[f] <= peak.rates[f]

\* The page's peaks are neither made up nor too low.
PeaksAreSound == PeaksWereReached /\ TotalPeakCoversClients

=============================================================================
