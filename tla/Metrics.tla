------------------------------- MODULE Metrics -------------------------------
(***************************************************************************)
(* The metrics registry (core/src/metrics.rs) for one route prefix, and    *)
(* the scrape handler (router.rs, metrics_endpoint): requests that finish  *)
(* or are rejected while scrapes render.                                   *)
(*                                                                         *)
(* Four mutexes guard four maps, but the values in them are atomics behind *)
(* Arcs: finish locks one map at a time, for as long as it takes to get at *)
(* the atomic, and counts after the unlock (status_totals excepted).       *)
(* render takes all four locks, in one order, and holds them while it      *)
(* loads the atomics one by one.                                           *)
(*                                                                         *)
(* Loads and additions are interleaved one at a time.  On x86-64 relaxed   *)
(* additions and loads execute in program order; on weaker machines the    *)
(* properties that hold still hold, as they rest on the mutexes.           *)
(***************************************************************************)
EXTENDS Integers, Sequences, FiniteSets, Functions

CONSTANTS
    Requests,   \* requests that finish or are rejected
    Scrapers,   \* concurrent GET /metrics
    Classes,    \* status classes
    Buckets,    \* number of finite latency buckets
    None

Rejections == {"rate_limited_total", "circuit_open_total"}

\* What happens to a request: rejected by the gateway, or finished with a
\* status class and a latency, given as the first bucket it falls in
\* (Buckets + 1: only +Inf).
Jobs == (Rejections \X {0}) \cup (Classes \X (1 .. Buckets + 1))

ASSUME MetricsAssumption ==
    /\ Buckets \in Nat \ {0}
    /\ IsFiniteSet(Requests) /\ IsFiniteSet(Classes)
    /\ Classes \cap Rejections = {}
    /\ None \notin Scrapers \cup Jobs

BreakerStates == {"Closed", "HalfOpen", "Open"}

\* Mutant: render locks the maps of the counters only.
LocksOfCounters == <<"per_prefix">>

\* The mutexes, in the order in which render takes them.
Locks == <<"per_prefix", "latencies", "status_totals", "breaker_state">>

LockNames == {"per_prefix", "latencies", "status_totals", "breaker_state"}

VARIABLES
    per_prefix,     \* PrefixCounters
    status_totals,  \* responses per class
    counts,         \* Histogram: per bucket
    count,          \* Histogram
    sum,            \* Histogram: sum of the observed latencies
    breaker_state,  \* the gauge
    breaker,        \* the state of the circuit breaker itself
    holder,         \* which scrape holds each mutex
    pc, job, next,  \* per request: where it is, its job, the next bucket
    at, idx,        \* per scrape: where it is, the next lock or bucket
    page            \* per scrape: the breaker state it is to publish, the
                    \* values it has rendered so far and, as history, the
                    \* states that it and the scrapes beside it publish and
                    \* the requests it found in the middle of observe

registry == <<per_prefix, status_totals, counts, count, sum>>
request == <<pc, job, next>>
scrape == <<holder, at, idx, page>>
vars == <<registry, breaker_state, breaker, request, scrape>>

Page == [published : BreakerStates, requests : Nat, responses : [Classes -> Nat],
         buckets : [1 .. Buckets -> Nat], inf : Nat, count : Nat,
         recent : SUBSET BreakerStates, unfinished : SUBSET Requests]

BlankPage ==
    [published |-> "Closed", requests |-> 0, responses |-> [c \in Classes |-> 0],
     buckets |-> [i \in 1 .. Buckets |-> 0], inf |-> 0, count |-> 0,
     recent |-> {}, unfinished |-> {}]

TypeOK ==
    /\ per_prefix \in [Rejections \cup {"requests_total"} -> Nat]
    /\ status_totals \in [Classes -> Nat]
    /\ counts \in [1 .. Buckets -> Nat]
    /\ count \in Nat
    /\ sum \in Nat
    /\ breaker_state \in BreakerStates
    /\ breaker \in BreakerStates
    /\ holder \in [LockNames -> Scrapers \cup {None}]
    /\ pc \in [Requests -> {"new", "add", "status", "latency", "observe", "count", "sum", "done"}]
    /\ job \in [Requests -> Jobs \cup {None}]
    /\ next \in [Requests -> 1 .. Buckets + 1]
    /\ at \in [Scrapers -> {"idle", "publish", "lock", "totals", "status", "buckets",
                            "inf", "count", "gauge"}]
    /\ idx \in [Scrapers -> Nat]
    /\ page \in [Scrapers -> Page]
    /\ \A l \in LockNames :
         holder[l] # None => at[holder[l]] \notin {"idle", "publish"}

Init ==
    /\ per_prefix = [c \in Rejections \cup {"requests_total"} |-> 0]
    /\ status_totals = [c \in Classes |-> 0]
    /\ counts = [i \in 1 .. Buckets |-> 0]
    /\ count = 0
    /\ sum = 0
    /\ breaker_state = "Closed"
    /\ breaker = "Closed"
    /\ holder = [l \in LockNames |-> None]
    /\ pc = [r \in Requests |-> "new"]
    /\ job = [r \in Requests |-> None]
    /\ next = [r \in Requests |-> 1]
    /\ at = [s \in Scrapers |-> "idle"]
    /\ idx = [s \in Scrapers |-> 1]
    /\ page = [s \in Scrapers |-> BlankPage]

-------------------------------------------------------------------------------
(***************************************************************************)
(* RequestTimer::finish, inc_rate_limited and inc_circuit_open.            *)
(***************************************************************************)
Free(l) == holder[l] = None

Go(r, place) == pc' = [pc EXCEPT ![r] = place]

\* counters_for: lock the map, clone the Arc of the prefix, unlock.
CountersFor(r, j) ==
    /\ pc[r] = "new"
    /\ Free("per_prefix")
    /\ job' = [job EXCEPT ![r] = j]
    /\ Go(r, "add")
    /\ UNCHANGED <<registry, breaker_state, breaker, next, scrape>>

\* fetch_add on a counter of the prefix, outside of the lock.  This is all
\* there is to a rejection.
Add(r) ==
    LET rejected == job[r][1] \in Rejections
        counter == IF rejected THEN job[r][1] ELSE "requests_total"
    IN  /\ pc[r] = "add"
        /\ per_prefix' = [per_prefix EXCEPT ![counter] = @ + 1]
        /\ Go(r, IF rejected THEN "done" ELSE "status")
        /\ UNCHANGED <<status_totals, counts, count, sum, breaker_state, breaker,
                       job, next, scrape>>

\* The class is counted while the map is locked.
AddStatus(r) ==
    /\ pc[r] = "status"
    /\ Free("status_totals")
    /\ status_totals' = [status_totals EXCEPT ![job[r][1]] = @ + 1]
    /\ Go(r, "latency")
    /\ UNCHANGED <<per_prefix, counts, count, sum, breaker_state, breaker, job, next, scrape>>

\* latency_for: lock the map, clone the Arc of the histogram, unlock.
LatencyFor(r) ==
    /\ pc[r] = "latency"
    /\ Free("latencies")
    /\ Go(r, "observe")
    /\ UNCHANGED <<registry, breaker_state, breaker, job, next, scrape>>

\* Mutant: `<` for `<=`.
ObserveStrictly(r) ==
    /\ pc[r] = "observe"
    /\ counts' = [counts EXCEPT ![next[r]] = IF job[r][2] < next[r] THEN @ + 1 ELSE @]
    /\ next' = [next EXCEPT ![r] = @ + 1]
    /\ Go(r, IF next[r] = Buckets THEN "count" ELSE "observe")
    /\ UNCHANGED <<per_prefix, status_totals, count, sum, breaker_state, breaker, job, scrape>>

\* observe: one bucket after the other, every one whose bound is not exceeded.
Observe(r) ==
    /\ pc[r] = "observe"
    /\ counts' = [counts EXCEPT ![next[r]] = IF job[r][2] <= next[r] THEN @ + 1 ELSE @]
    /\ next' = [next EXCEPT ![r] = @ + 1]
    /\ Go(r, IF next[r] = Buckets THEN "count" ELSE "observe")
    /\ UNCHANGED <<per_prefix, status_totals, count, sum, breaker_state, breaker, job, scrape>>

ObserveCount(r) ==
    /\ pc[r] = "count"
    /\ count' = count + 1
    /\ Go(r, "sum")
    /\ UNCHANGED <<per_prefix, status_totals, counts, sum, breaker_state, breaker,
                   job, next, scrape>>

ObserveSum(r) ==
    /\ pc[r] = "sum"
    /\ sum' = sum + job[r][2]
    /\ Go(r, "done")
    /\ UNCHANGED <<per_prefix, status_totals, counts, count, breaker_state, breaker,
                   job, next, scrape>>

-------------------------------------------------------------------------------
(***************************************************************************)
(* metrics_endpoint and Metrics::render.                                   *)
(***************************************************************************)
Proceed(s, place) == at' = [at EXCEPT ![s] = place]

\* History: what scrapes have read of the breaker and not published yet.
Publishing == {page[t].published : t \in {u \in Scrapers : at[u] = "publish"}}

\* breakers.states(): a snapshot of the breaker, with no lock of the registry.
Snapshot(s) ==
    /\ at[s] = "idle"
    /\ page' = [t \in Scrapers |->
                   CASE t = s -> [BlankPage EXCEPT !.published = breaker,
                                                   !.recent = {breaker} \cup Publishing]
                     [] t # s /\ at[t] # "idle" -> [page[t] EXCEPT !.recent = @ \cup {breaker}]
                     [] t # s /\ at[t] = "idle" -> page[t]]
    /\ idx' = [idx EXCEPT ![s] = 1]
    /\ Proceed(s, "publish")
    /\ UNCHANGED <<registry, breaker_state, breaker, request, holder>>

\* Mutant: the guard on the gauges lives on until the page is rendered.
PublishKeepsGuard(s) ==
    /\ at[s] = "publish"
    /\ Free("breaker_state")
    /\ breaker_state' = page[s].published
    /\ holder' = [holder EXCEPT !["breaker_state"] = s]
    /\ page' = [page EXCEPT ![s].published = "Closed"]
    /\ Proceed(s, "lock")
    /\ UNCHANGED <<registry, breaker, request, idx>>

\* Mutant: a gauge that is there is not set again.
PublishOnce(s) ==
    /\ at[s] = "publish"
    /\ Free("breaker_state")
    /\ breaker_state' = IF breaker_state = "Closed" THEN page[s].published ELSE breaker_state
    /\ page' = [page EXCEPT ![s].published = "Closed"]
    /\ Proceed(s, "lock")
    /\ UNCHANGED <<registry, breaker, request, holder, idx>>

\* set_breaker_state; the snapshot is dropped.
Publish(s) ==
    /\ at[s] = "publish"
    /\ Free("breaker_state")
    /\ breaker_state' = page[s].published
    /\ page' = [page EXCEPT ![s].published = "Closed"]
    /\ Proceed(s, "lock")
    /\ UNCHANGED <<registry, breaker, request, holder, idx>>

\* render: take the locks, one after the other.
Lock(s) ==
    /\ at[s] = "lock"
    /\ Free(Locks[idx[s]])
    /\ holder' = [holder EXCEPT ![Locks[idx[s]]] = s]
    /\ idx' = [idx EXCEPT ![s] = IF @ = Len(Locks) THEN 1 ELSE @ + 1]
    /\ Proceed(s, IF idx[s] = Len(Locks) THEN "totals" ELSE "lock")
    /\ UNCHANGED <<registry, breaker_state, breaker, request, page>>

\* The counters of the prefix.  The rejections are loaded after it; no other
\* family depends on them.
RenderTotals(s) ==
    /\ at[s] = "totals"
    /\ page' = [page EXCEPT ![s].requests = per_prefix["requests_total"]]
    /\ Proceed(s, "status")
    /\ UNCHANGED <<registry, breaker_state, breaker, request, holder, idx>>

RenderStatus(s) ==
    /\ at[s] = "status"
    /\ page' = [page EXCEPT
                   ![s].responses = status_totals,
                   ![s].unfinished = {r \in Requests : pc[r] \in {"observe", "count"}}]
    /\ Proceed(s, "buckets")
    /\ UNCHANGED <<registry, breaker_state, breaker, request, holder, idx>>

RenderBucket(s) ==
    /\ at[s] = "buckets"
    /\ page' = [page EXCEPT ![s].buckets[idx[s]] = counts[idx[s]]]
    /\ idx' = [idx EXCEPT ![s] = @ + 1]
    /\ Proceed(s, IF idx[s] = Buckets THEN "inf" ELSE "buckets")
    /\ UNCHANGED <<registry, breaker_state, breaker, request, holder>>

\* le="+Inf" loads the count ...
RenderInf(s) ==
    /\ at[s] = "inf"
    /\ page' = [page EXCEPT ![s].inf = count]
    /\ Proceed(s, "count")
    /\ UNCHANGED <<registry, breaker_state, breaker, request, holder, idx>>

\* ... and _count loads it again.
RenderCount(s) ==
    /\ at[s] = "count"
    /\ page' = [page EXCEPT ![s].count = count]
    /\ Proceed(s, "gauge")
    /\ UNCHANGED <<registry, breaker_state, breaker, request, holder, idx>>

\* Mutant: the guards are leaked.
RenderGaugeKeepsLocks(s) ==
    /\ at[s] = "gauge"
    /\ page' = [page EXCEPT ![s] = BlankPage]
    /\ Proceed(s, "idle")
    /\ UNCHANGED <<registry, breaker_state, breaker, request, holder, idx>>

\* The gauge; on return the guards are dropped, and the page is sent.
RenderGauge(s) ==
    /\ at[s] = "gauge"
    /\ holder' = [l \in LockNames |-> IF holder[l] = s THEN None ELSE holder[l]]
    /\ page' = [page EXCEPT ![s] = BlankPage]
    /\ Proceed(s, "idle")
    /\ UNCHANGED <<registry, breaker_state, breaker, request, idx>>

\* The circuit breaker moves on its own (Circuit.tla).
BreakerMoves ==
    /\ breaker' \in CASE breaker = "Closed" -> {"Open"}
                      [] breaker = "Open" -> {"HalfOpen"}
                      [] breaker = "HalfOpen" -> {"Closed", "Open"}
    /\ UNCHANGED <<registry, breaker_state, request, scrape>>

Next ==
    \/ \E r \in Requests :
         \/ \E j \in Jobs : CountersFor(r, j)
         \/ Add(r) \/ AddStatus(r) \/ LatencyFor(r)
         \/ Observe(r) \/ ObserveCount(r) \/ ObserveSum(r)
    \/ \E s \in Scrapers :
         \/ Snapshot(s) \/ Publish(s) \/ Lock(s)
         \/ RenderTotals(s) \/ RenderStatus(s) \/ RenderBucket(s)
         \/ RenderInf(s) \/ RenderCount(s) \/ RenderGauge(s)
    \/ BreakerMoves

Spec == Init /\ [][Next]_vars

-------------------------------------------------------------------------------
(***************************************************************************)
(* Safety.                                                                 *)
(***************************************************************************)
\* On one page the responses, summed over the classes, never exceed
\* ratewall_requests_total, although the families are loaded at different
\* moments: who has not been counted in requests_total when render loads it
\* cannot get past the status_totals lock that render holds.
ResponsesWithinRequests ==
    \A s \in Scrapers :
        SumFunctionOnSet(page[s].responses, Classes) <= page[s].requests

\* On one page neither the +Inf bucket nor _count exceeds
\* ratewall_requests_total, although they are loaded last.
ObservationsWithinRequests ==
    \A s \in Scrapers : page[s].inf <= page[s].requests /\ page[s].count <= page[s].requests

\* Scrapes never wait for one another in a circle, nor for themselves: while
\* any mutex is held, some scrape can go on.
ScrapesNeverDeadlock ==
    (\E l \in LockNames : ~Free(l)) =>
        \E s \in Scrapers :
            \/ at[s] \notin {"idle", "publish", "lock"}
            \/ at[s] = "lock" /\ Free(Locks[idx[s]])

\* When no request is being accounted for, every request that finished is in
\* each family exactly once, and in the buckets from its latency upwards; every
\* rejection is in its own counter and in no other family.
Settled ==
    LET finished == {r \in Requests : pc[r] = "done" /\ job[r][1] \in Classes}
    IN  (\A r \in Requests : pc[r] \in {"new", "done"}) =>
            /\ per_prefix["requests_total"] = Cardinality(finished)
            /\ \A c \in Rejections :
                 per_prefix[c] = Cardinality({r \in Requests : job[r] = <<c, 0>>})
            /\ \A c \in Classes :
                 status_totals[c] = Cardinality({r \in finished : job[r][1] = c})
            /\ \A i \in 1 .. Buckets :
                 counts[i] = Cardinality({r \in finished : job[r][2] <= i})
            /\ count = Cardinality(finished)
            /\ sum = SumFunctionOnSet([r \in finished |-> job[r][2]], finished)

\* "The +Inf bucket equals the count; every bucket is <= count", and none exceeds
\* the next, but for the requests that the scrape found in the middle of observe
\* when it had its locks: they may be in one line of the page and not in another.
\* The latencies lock keeps later ones out, although it guards the map and not the
\* atomics, so that a histogram is never further off than that.
HistogramOffByUnfinished ==
    \A s \in Scrapers : at[s] = "gauge" =>
        LET off == Cardinality(page[s].unfinished)
        IN  /\ page[s].inf <= page[s].count /\ page[s].count <= page[s].inf + off
            /\ \A i \in 1 .. Buckets : page[s].buckets[i] <= page[s].count + off
            /\ \A i \in 1 .. Buckets - 1 : page[s].buckets[i] <= page[s].buckets[i + 1] + off

\* The gauge on a page is no older than the scrapes: it was read from the breaker
\* by this very scrape, or by one that ran at the same time and overwrote it.
GaugeIsRecent ==
    \A s \in Scrapers : at[s] = "gauge" => breaker_state \in page[s].recent
==============================================================================
