---------------------------- MODULE MetricsProofs ----------------------------
(***************************************************************************)
(* Proofs about Metrics, for any requests, scrapes, classes and buckets.   *)
(***************************************************************************)
EXTENDS Metrics, CounterLemmas

Finished == Classes \X (1 .. Buckets + 1)

\* A request has its job from the first lock on, and its way through the
\* buckets starts at the first.
JobsMatch ==
    \A r \in Requests :
        /\ pc[r] # "new" => job[r] \in Jobs
        /\ pc[r] \in {"status", "latency", "observe", "count", "sum"} => job[r] \in Finished
        /\ pc[r] \in {"new", "add", "status", "latency"} => next[r] = 1
        /\ pc[r] = "observe" => next[r] \in 1 .. Buckets

Rendering == {"totals", "status", "buckets", "inf", "count", "gauge"}

\* A scrape that takes the locks holds exactly those before the next one, a
\* scrape that renders holds all, and any other holds none.
LocksInOrder ==
    \A s \in Scrapers :
        /\ at[s] = "publish" => idx[s] = 1
        /\ at[s] = "lock" => idx[s] \in 1 .. 4
        /\ at[s] = "buckets" => idx[s] \in 1 .. Buckets
        /\ at[s] \in {"totals", "status"} => idx[s] = 1
        /\ \A k \in 1 .. 4 :
             holder[Locks[k]] = s <=> \/ at[s] \in Rendering
                                      \/ at[s] = "lock" /\ k < idx[s]

\* TypeOK without its last conjunct, which LocksInOrder implies.
Types ==
    /\ per_prefix \in [Rejections \cup {"requests_total"} -> Nat]
    /\ status_totals \in [Classes -> Nat]
    /\ counts \in [1 .. Buckets -> Nat]
    /\ count \in Nat
    /\ sum \in Nat
    /\ breaker_state \in BreakerStates
    /\ breaker \in BreakerStates
    /\ holder \in [LockNames -> Scrapers \cup {None}]
    /\ pc \in [Requests -> {"new", "add", "status", "latency", "observe", "count", "sum", "done"}]
    /\ job \in [Requests -> Jobs \cup {None}]
    /\ next \in [Requests -> 1 .. Buckets + 1]
    /\ at \in [Scrapers -> {"idle", "publish", "lock"} \cup Rendering]
    /\ idx \in [Scrapers -> Nat]
    /\ page \in [Scrapers -> Page]

Requesting == Types /\ JobsMatch
IInv == Requesting /\ LocksInOrder

-------------------------------------------------------------------------------
\* The four mutexes are four, and render takes each once.
LEMMA LockTable ==
    /\ Len(Locks) = 4
    /\ \A k \in 1 .. 4 : Locks[k] \in LockNames
    /\ \A l \in LockNames : \E k \in 1 .. 4 : Locks[k] = l
    /\ \A j, k \in 1 .. 4 : Locks[j] = Locks[k] => j = k
    /\ Locks[1] = "per_prefix" /\ Locks[2] = "latencies"
    /\ Locks[3] = "status_totals" /\ Locks[4] = "breaker_state"
  BY DEF Locks, LockNames

\* A job with a class is not a rejection.
LEMMA JobKinds ==
    ASSUME NEW j \in Jobs
    PROVE  /\ j[1] \in Rejections <=> j \notin Finished
           /\ j \in Finished => j[1] \in Classes /\ j[2] \in 1 .. Buckets + 1
  BY MetricsAssumption DEF Jobs, Finished, Rejections

-------------------------------------------------------------------------------
(***************************************************************************)
(* Types, jobs and locks.                                                  *)
(***************************************************************************)
RequestStep(r) ==
    \/ \E j \in Jobs : CountersFor(r, j)
    \/ Add(r) \/ AddStatus(r) \/ LatencyFor(r)
    \/ Observe(r) \/ ObserveCount(r) \/ ObserveSum(r)

ScrapeStep(s) ==
    \/ Snapshot(s) \/ Publish(s) \/ Lock(s)
    \/ RenderTotals(s) \/ RenderStatus(s) \/ RenderBucket(s)
    \/ RenderInf(s) \/ RenderCount(s) \/ RenderGauge(s)

\* Steps of requests keep the types of the registry and the jobs.
LEMMA RequestTypes ==
    ASSUME Requesting, NEW r \in Requests, RequestStep(r)
    PROVE  Requesting'
  <1> USE DEF Requesting, Types, JobsMatch, Go
  <1>1. ASSUME NEW j \in Jobs, CountersFor(r, j) PROVE Requesting'
    BY <1>1, MetricsAssumption DEF CountersFor, registry, scrape
  <1>2. CASE Add(r)
    <2>1. job[r] \in Jobs
      BY <1>2 DEF Add
    <2>2. job[r][1] \notin Rejections => job[r] \in Finished
      BY <2>1, JobKinds
    <2> QED BY <1>2, <2>1, <2>2 DEF Add, scrape
  <1>3. CASE AddStatus(r)
    <2>1. job[r] \in Finished
      BY <1>3 DEF AddStatus
    <2>2. PICK c \in Classes : job[r][1] = c
      BY <2>1 DEF Finished
    <2>3. status_totals' = [status_totals EXCEPT ![c] = @ + 1]
      BY <1>3, <2>2 DEF AddStatus
    <2>4. status_totals' \in [Classes -> Nat]
      BY <2>3
    <2>5. /\ UNCHANGED <<per_prefix, counts, count, sum, breaker_state, breaker, job, next, scrape>>
          /\ pc[r] = "status" /\ pc' = [pc EXCEPT ![r] = "latency"]
      BY <1>3 DEF AddStatus
    <2>6. Types'
      BY <2>4, <2>5 DEF scrape
    <2>7. JobsMatch'
      BY <2>5
    <2> QED BY <2>6, <2>7
  <1>4. CASE LatencyFor(r)
    BY <1>4, MetricsAssumption DEF LatencyFor, registry, scrape
  <1>5. CASE Observe(r)
    <2>1. next[r] \in 1 .. Buckets
      BY <1>5 DEF Observe
    <2>2. counts' \in [1 .. Buckets -> Nat]
      BY <1>5, <2>1 DEF Observe
    <2>3. next' \in [Requests -> 1 .. Buckets + 1]
      BY <1>5, <2>1, MetricsAssumption DEF Observe
    <2>4. next[r] # Buckets => next[r] + 1 \in 1 .. Buckets
      BY <2>1, MetricsAssumption
    <2> QED BY <1>5, <2>1, <2>2, <2>3, <2>4 DEF Observe, scrape
  <1>6. CASE ObserveCount(r)
    BY <1>6 DEF ObserveCount, scrape
  <1>7. CASE ObserveSum(r)
    <2>1. job[r] \in Jobs /\ job[r] \in Finished
      BY <1>7 DEF ObserveSum
    <2>2. job[r][2] \in Nat
      BY <2>1, JobKinds, MetricsAssumption
    <2> QED BY <1>7, <2>1, <2>2 DEF ObserveSum, scrape
  <1> QED BY Zenon, <1>1, <1>2, <1>3, <1>4, <1>5, <1>6, <1>7 DEF RequestStep

\* Steps of requests leave the scrapes alone.
LEMMA RequestKeeps ==
    ASSUME NEW r \in Requests, RequestStep(r)
    PROVE  UNCHANGED scrape
  BY Zenon DEF RequestStep, CountersFor, Add, AddStatus, LatencyFor, Observe, ObserveCount, ObserveSum

\* Steps of scrapes leave the registry and the requests alone.
LEMMA ScrapeKeeps ==
    ASSUME NEW s \in Scrapers, ScrapeStep(s)
    PROVE  UNCHANGED <<registry, request, breaker>>
  BY Zenon DEF ScrapeStep, Snapshot, Publish, Lock, RenderTotals, RenderStatus, RenderBucket,
               RenderInf, RenderCount, RenderGauge

\* The page of a scrape stays one.
LEMMA PageTyped ==
    ASSUME Types, NEW s \in Scrapers, ScrapeStep(s),
           at[s] = "buckets" => idx[s] \in 1 .. Buckets
    PROVE  page' \in [Scrapers -> Page]
  <1>0. /\ page \in [Scrapers -> Page] /\ breaker \in BreakerStates
        /\ count \in Nat /\ per_prefix["requests_total"] \in Nat
        /\ status_totals \in [Classes -> Nat] /\ counts \in [1 .. Buckets -> Nat]
    BY DEF Types
  <1>1. BlankPage \in Page
    BY DEF BlankPage, Page, BreakerStates
  <1>2. PICK old \in Page : old = page[s]
    BY <1>0
  <1>3. /\ old.published \in BreakerStates /\ old.requests \in Nat /\ old.responses \in [Classes -> Nat]
        /\ old.buckets \in [1 .. Buckets -> Nat] /\ old.inf \in Nat /\ old.count \in Nat
        /\ old.recent \in SUBSET BreakerStates /\ old.unfinished \in SUBSET Requests
    BY DEF Page
  <1>4. CASE Snapshot(s)
    <2>1. Publishing \subseteq BreakerStates
      BY <1>0 DEF Publishing, Page
    <2>2. PICK R \in SUBSET BreakerStates : R = {breaker} \cup Publishing
      BY <1>0, <2>1
    <2>3. \A t \in Scrapers : page'[t] \in Page
      <3> SUFFICES ASSUME NEW t \in Scrapers PROVE page'[t] \in Page
        OBVIOUS
      <3>1. CASE t # s /\ at[t] # "idle"
        <4>1. PICK T \in SUBSET BreakerStates : T = page[t].recent \cup {breaker}
          BY <1>0 DEF Page
        <4>2. page'[t] = [page[t] EXCEPT !.recent = T]
          BY Zenon, <1>4, <3>1, <4>1 DEF Snapshot
        <4> QED BY <1>0, <4>2, Zenon DEF Page
      <3>2. CASE t # s /\ at[t] = "idle"
        BY Zenon, <1>0, <1>4, <3>2 DEF Snapshot
      <3>3. CASE t = s
        <4>1. page'[t] = [[BlankPage EXCEPT !.published = breaker] EXCEPT !.recent = R]
          BY Zenon, <1>4, <2>2, <3>3 DEF Snapshot
        <4> QED BY Zenon, <1>0, <1>1, <4>1 DEF Page
      <3> QED BY <3>1, <3>2, <3>3
    <2>4. page' = [t \in Scrapers |-> page'[t]]
      BY Zenon, <1>4 DEF Snapshot
    <2> QED BY <2>3, <2>4
  <1>5. CASE Lock(s)
    BY <1>0, <1>5 DEF Lock
  <1>6. ASSUME NEW p \in Page, page' = [page EXCEPT ![s] = p]
        PROVE  page' \in [Scrapers -> Page]
    BY <1>0, <1>6
  <1>13. CASE Publish(s)
    <2> DEFINE p == [old EXCEPT !.published = "Closed"]
    <2>1. "Closed" \in BreakerStates
      BY DEF BreakerStates
    <2>2. p \in Page /\ page' = [page EXCEPT ![s] = p]
      BY Zenon, <1>0, <1>2, <1>3, <1>13, <2>1 DEF Page, Publish
    <2> QED BY <1>6, <2>2, Zenon
  <1>7. CASE RenderTotals(s)
    <2> DEFINE p == [old EXCEPT !.requests = per_prefix["requests_total"]]
    <2>1. p \in Page /\ page' = [page EXCEPT ![s] = p]
      BY Zenon, <1>0, <1>2, <1>3, <1>7 DEF Page, RenderTotals
    <2> QED BY <1>6, <2>1, Zenon
  <1>8. CASE RenderStatus(s)
    <2> DEFINE q == {r \in Requests : pc[r] \in {"observe", "count"}}
               p == [[old EXCEPT !.responses = status_totals] EXCEPT !.unfinished = q]
    <2>1. page' = [page EXCEPT ![s] = p] /\ q \in SUBSET Requests
      BY Zenon, <1>0, <1>2, <1>8 DEF RenderStatus
    <2> HIDE DEF q
    <2>2. p \in Page
      BY Zenon, <1>0, <1>3, <2>1 DEF Page
    <2> QED BY <1>6, <2>1, <2>2, Zenon
  <1>9. CASE RenderBucket(s)
    <2> DEFINE i == idx[s]
               p == [old EXCEPT !.buckets = [old.buckets EXCEPT ![i] = counts[i]]]
    <2>1. i \in 1 .. Buckets /\ page' = [page EXCEPT ![s] = p]
      BY <1>2, <1>9 DEF RenderBucket
    <2> HIDE DEF i
    <2>2. p \in Page
      BY Zenon, <1>0, <1>3, <2>1 DEF Page
    <2> QED BY <1>6, <2>1, <2>2, Zenon
  <1>10. CASE RenderInf(s)
    <2> DEFINE p == [old EXCEPT !.inf = count]
    <2>1. p \in Page /\ page' = [page EXCEPT ![s] = p]
      BY Zenon, <1>0, <1>2, <1>3, <1>10 DEF Page, RenderInf
    <2> QED BY <1>6, <2>1, Zenon
  <1>11. CASE RenderCount(s)
    <2> DEFINE p == [old EXCEPT !.count = count]
    <2>1. p \in Page /\ page' = [page EXCEPT ![s] = p]
      BY Zenon, <1>0, <1>2, <1>3, <1>11 DEF Page, RenderCount
    <2> QED BY <1>6, <2>1, Zenon
  <1>12. CASE RenderGauge(s)
    BY <1>1, <1>6, <1>12, Zenon DEF RenderGauge
  <1> QED BY <1>4, <1>5, <1>7, <1>8, <1>9, <1>10, <1>11, <1>12, <1>13 DEF ScrapeStep

\* A scrape takes the locks in their order, and leaves them all at once.
LEMMA ScrapeLocks ==
    ASSUME IInv, NEW s \in Scrapers, ScrapeStep(s)
    PROVE  IInv'
  <1> USE DEF Proceed
  <1>0. Types /\ LocksInOrder
    BY DEF IInv, Requesting
  <1>1. UNCHANGED <<registry, request, breaker>>
    BY ScrapeKeeps
  <1>2. page' \in [Scrapers -> Page]
    BY <1>0, PageTyped DEF LocksInOrder
  <1>3. ASSUME breaker_state' \in BreakerStates,
               holder' \in [LockNames -> Scrapers \cup {None}],
               at' \in [Scrapers -> {"idle", "publish", "lock"} \cup Rendering],
               idx' \in [Scrapers -> Nat], LocksInOrder'
        PROVE  IInv'
    BY <1>0, <1>1, <1>2, <1>3 DEF IInv, Requesting, Types, JobsMatch, registry, request
  <1>4. ASSUME NEW i \in Nat, NEW place \in Rendering, at[s] \in Rendering,
               UNCHANGED <<breaker_state, holder>>,
               idx' = [idx EXCEPT ![s] = i], at' = [at EXCEPT ![s] = place],
               place \in {"totals", "status"} => i = 1,
               place = "buckets" => i \in 1 .. Buckets
        PROVE  IInv'
    <2>1. LocksInOrder'
      BY <1>0, <1>4 DEF Types, LocksInOrder, Rendering
    <2> QED BY <1>0, <1>3, <1>4, <2>1 DEF Types
  <1>5. CASE Snapshot(s)
    <2>1. /\ at[s] = "idle" /\ at' = [at EXCEPT ![s] = "publish"] /\ idx' = [idx EXCEPT ![s] = 1]
          /\ UNCHANGED <<breaker_state, holder>>
      BY Zenon, <1>5 DEF Snapshot
    <2>2. LocksInOrder'
      BY <1>0, <2>1 DEF Types, LocksInOrder, Rendering
    <2> QED BY <1>0, <1>3, <2>1, <2>2 DEF Types
  <1>6. CASE Publish(s)
    <2>1. /\ at[s] = "publish" /\ at' = [at EXCEPT ![s] = "lock"] /\ UNCHANGED <<holder, idx>>
          /\ breaker_state' \in BreakerStates
      BY <1>0, <1>6 DEF Publish, Types, Page
    <2>2. LocksInOrder'
      BY <1>0, <2>1 DEF Types, LocksInOrder, Rendering
    <2> QED BY <1>0, <1>3, <2>1, <2>2 DEF Types
  <1>7. CASE Lock(s)
    <2> DEFINE i == idx[s]
    <2>1. at[s] = "lock" /\ i \in 1 .. 4 /\ holder[Locks[i]] = None
      BY <1>0, <1>7 DEF Lock, LocksInOrder, Free
    <2>2. /\ holder' = [holder EXCEPT ![Locks[i]] = s]
          /\ idx' = [idx EXCEPT ![s] = IF i = 4 THEN 1 ELSE i + 1]
          /\ at' = [at EXCEPT ![s] = IF i = 4 THEN "totals" ELSE "lock"]
          /\ UNCHANGED breaker_state
      BY <1>0, <1>7, LockTable DEF Lock, Types
    <2> HIDE DEF i
    <2>3. /\ holder' \in [LockNames -> Scrapers \cup {None}] /\ idx' \in [Scrapers -> Nat]
          /\ at' \in [Scrapers -> {"idle", "publish", "lock"} \cup Rendering]
      BY <1>0, <2>1, <2>2, LockTable DEF Types, Rendering
    <2>4. LocksInOrder'
      <3> SUFFICES ASSUME NEW t \in Scrapers
                   PROVE  /\ at'[t] = "publish" => idx'[t] = 1
                          /\ at'[t] = "lock" => idx'[t] \in 1 .. 4
                          /\ at'[t] = "buckets" => idx'[t] \in 1 .. Buckets
                          /\ at'[t] \in {"totals", "status"} => idx'[t] = 1
                          /\ \A k \in 1 .. 4 :
                               holder'[Locks[k]] = t <=> \/ at'[t] \in Rendering
                                                         \/ at'[t] = "lock" /\ k < idx'[t]
        BY DEF LocksInOrder
      <3>1. \A k \in 1 .. 4 : holder'[Locks[k]] = IF k = i THEN s ELSE holder[Locks[k]]
        BY <1>0, <2>1, <2>2, LockTable DEF Types
      <3>2. CASE t # s
        <4>1. at'[t] = at[t] /\ idx'[t] = idx[t]
          BY <1>0, <2>2, <3>2 DEF Types
        <4>2. holder[Locks[i]] # t
          BY <2>1, MetricsAssumption
        <4> QED BY <1>0, <2>1, <3>1, <3>2, <4>1, <4>2 DEF LocksInOrder
      <3>3. CASE t = s
        <4>1. at'[s] = (IF i = 4 THEN "totals" ELSE "lock") /\ idx'[s] = (IF i = 4 THEN 1 ELSE i + 1)
          BY <1>0, <2>2 DEF Types
        <4>2. \A k \in 1 .. 4 : holder[Locks[k]] = s <=> k < i
          BY <1>0, <2>1 DEF LocksInOrder, Rendering, i
        <4>3. \A k \in 1 .. 4 : holder'[Locks[k]] = s <=> k <= i
          BY <2>1, <3>1, <4>2
        <4> QED BY <2>1, <3>3, <4>1, <4>3 DEF Rendering
      <3> QED BY <3>2, <3>3
    <2> QED BY <1>0, <1>3, <2>2, <2>3, <2>4 DEF Types
  <1>8. CASE RenderTotals(s)
    BY <1>0, <1>4, <1>8 DEF RenderTotals, Types, LocksInOrder, Rendering
  <1>9. CASE RenderStatus(s)
    <2>1. at[s] = "status" /\ idx[s] = 1 /\ 1 \in 1 .. Buckets /\ UNCHANGED <<breaker_state, holder>>
          /\ at' = [at EXCEPT ![s] = "buckets"] /\ idx' = idx
      BY <1>0, <1>9, MetricsAssumption DEF RenderStatus, LocksInOrder
    <2>2. idx' = [idx EXCEPT ![s] = 1]
      BY <1>0, <2>1 DEF Types
    <2> QED BY <1>4, <2>1, <2>2, Zenon DEF Rendering
  <1>10. CASE RenderBucket(s)
    <2> DEFINE i == idx[s]
               place == IF i = Buckets THEN "inf" ELSE "buckets"
    <2>1. /\ at[s] = "buckets" /\ i \in 1 .. Buckets /\ UNCHANGED <<breaker_state, holder>>
          /\ at' = [at EXCEPT ![s] = place] /\ idx' = [idx EXCEPT ![s] = i + 1]
      BY <1>0, <1>10 DEF RenderBucket, LocksInOrder
    <2> HIDE DEF i
    <2>2. i + 1 \in Nat /\ (place = "buckets" => i + 1 \in 1 .. Buckets) /\ place \in {"inf", "buckets"}
      BY <2>1, MetricsAssumption
    <2> HIDE DEF place
    <2> QED BY <1>4, <2>1, <2>2, Zenon DEF Rendering
  <1>11. CASE RenderInf(s) \/ RenderCount(s)
    <2>1. PICK place \in {"count", "gauge"} :
             /\ at[s] \in Rendering /\ UNCHANGED <<breaker_state, holder>>
             /\ at' = [at EXCEPT ![s] = place] /\ idx' = [idx EXCEPT ![s] = idx[s]] /\ idx[s] \in Nat
      BY <1>0, <1>11 DEF RenderInf, RenderCount, Rendering, Types
    <2> QED BY <1>4, <2>1, Zenon DEF Rendering
  <1>12. CASE RenderGauge(s)
    <2>1. /\ at[s] = "gauge" /\ at' = [at EXCEPT ![s] = "idle"]
          /\ holder' = [l \in LockNames |-> IF holder[l] = s THEN None ELSE holder[l]]
          /\ UNCHANGED <<breaker_state, idx>>
      BY <1>12 DEF RenderGauge
    <2>2. LocksInOrder'
      <3>1. \A k \in 1 .. 4 :
               holder'[Locks[k]] = IF holder[Locks[k]] = s THEN None ELSE holder[Locks[k]]
        BY <2>1, LockTable
      <3> QED BY <1>0, <2>1, <3>1, MetricsAssumption DEF Types, LocksInOrder, Rendering
    <2> QED BY <1>0, <1>3, <2>1, <2>2 DEF Types
  <1> QED BY <1>5, <1>6, <1>7, <1>8, <1>9, <1>10, <1>11, <1>12 DEF ScrapeStep

\* IInv holds however requests and scrapes interleave.
LEMMA Invariance == Spec => []IInv
  <1>1. Init => IInv
    <2> SUFFICES ASSUME Init PROVE IInv
      OBVIOUS
    <2>1. Types
      BY MetricsAssumption
      DEF Init, Types, Rejections, BreakerStates, LockNames, Rendering, BlankPage, Page
    <2>2. JobsMatch
      BY DEF Init, JobsMatch
    <2>3. LocksInOrder
      BY LockTable, MetricsAssumption DEF Init, LocksInOrder, Rendering
    <2> QED BY <2>1, <2>2, <2>3 DEF IInv, Requesting
  <1>2. IInv /\ [Next]_vars => IInv'
    <2> SUFFICES ASSUME IInv, [Next]_vars PROVE IInv'
      OBVIOUS
    <2>1. ASSUME NEW r \in Requests, RequestStep(r) PROVE IInv'
      <3>1. UNCHANGED scrape
        BY <2>1, RequestKeeps
      <3> QED BY <2>1, <3>1, RequestTypes DEF IInv, LocksInOrder, scrape
    <2>2. CASE BreakerMoves \/ UNCHANGED vars
      <3>1. UNCHANGED <<registry, request, scrape, breaker_state>> /\ breaker' \in BreakerStates
        BY <2>2 DEF BreakerMoves, vars, BreakerStates, IInv, Requesting, Types
      <3> QED BY <3>1 DEF IInv, Requesting, Types, JobsMatch, LocksInOrder, registry, request, scrape
    <2> QED BY <2>1, <2>2, ScrapeLocks, Zenon DEF Next, RequestStep, ScrapeStep
  <1> QED BY <1>1, <1>2, PTL DEF Spec

\* The registry, the requests and the scrapes are well typed, and no scrape that
\* is idle or publishes holds a lock.
THEOREM MetricsTypeCorrect == Spec => []TypeOK
  <1>1. IInv => TypeOK
    <2> SUFFICES ASSUME IInv, NEW l \in LockNames, holder[l] # None
                 PROVE  at[holder[l]] \notin {"idle", "publish"}
      BY DEF IInv, Requesting, Types, TypeOK, Rendering
    <2>1. PICK k \in 1 .. 4 : Locks[k] = l
      BY LockTable
    <2>2. holder[l] \in Scrapers
      BY DEF IInv, Requesting, Types
    <2> QED BY <2>1, <2>2 DEF IInv, LocksInOrder, Rendering
  <1> QED BY <1>1, Invariance, PTL

\* metrics_endpoint, for any number of scrapes at once: while any mutex of the
\* registry is held some scrape can go on, since render takes the mutexes in one
\* order and set_breaker_state takes only one.
THEOREM NoDeadlock == Spec => []ScrapesNeverDeadlock
  <1>1. IInv => ScrapesNeverDeadlock
    <2> SUFFICES ASSUME IInv, NEW l \in LockNames, ~Free(l),
                        \A s \in Scrapers : at[s] \in {"idle", "publish", "lock"}
                 PROVE  \E s \in Scrapers : at[s] = "lock" /\ Free(Locks[idx[s]])
      BY DEF ScrapesNeverDeadlock
    <2> DEFINE held(k) == holder[Locks[k]] # None
    <2>1. \A k \in 1 .. 4 : held(k) =>
             \E s \in Scrapers : holder[Locks[k]] = s /\ at[s] = "lock" /\ k < idx[s] /\ idx[s] \in 1 .. 4
      <3> SUFFICES ASSUME NEW k \in 1 .. 4, held(k)
                   PROVE  \E s \in Scrapers :
                             holder[Locks[k]] = s /\ at[s] = "lock" /\ k < idx[s] /\ idx[s] \in 1 .. 4
        OBVIOUS
      <3>1. PICK s \in Scrapers : holder[Locks[k]] = s
        BY LockTable DEF IInv, Requesting, Types
      <3>2. at[s] \notin Rendering
        BY DEF Rendering
      <3> QED BY <3>1, <3>2 DEF IInv, LocksInOrder
    <2>2. PICK j \in 1 .. 4 : held(j)
      BY LockTable DEF Free
    <2>3. PICK k \in 1 .. 4 : held(k) /\ \A i \in 1 .. 4 : i > k => ~held(i)
      <3>1. CASE held(4)
        BY <3>1
      <3>2. CASE held(3) /\ ~held(4)
        BY <3>2
      <3>3. CASE held(2) /\ ~held(3) /\ ~held(4)
        BY <3>3
      <3>4. CASE held(1) /\ ~held(2) /\ ~held(3) /\ ~held(4)
        BY <3>4
      <3>5. j = 1 \/ j = 2 \/ j = 3 \/ j = 4
        OBVIOUS
      <3> QED BY <2>2, <3>1, <3>2, <3>3, <3>4, <3>5
    <2>4. PICK s \in Scrapers : at[s] = "lock" /\ k < idx[s] /\ idx[s] \in 1 .. 4
      BY <2>1, <2>3
    <2>5. ~held(idx[s])
      BY <2>3, <2>4
    <2> QED BY <2>4, <2>5 DEF Free
  <1> QED BY <1>1, Invariance, PTL

-------------------------------------------------------------------------------
(***************************************************************************)
(* What each family has counted.                                           *)
(***************************************************************************)
\* A request that finished and is done, and what it adds to the sum.
Over(r) == pc[r] = "done" /\ job[r] \in Finished
Latency == [r \in Requests |-> IF Over(r) THEN job[r][2] ELSE 0]

\* The requests that are in requests_total, in status_totals and in one of its
\* classes, that have their histogram, are in one of its buckets and in its
\* count; and the rejections of a kind.
Added == {r \in Requests : pc[r] \in {"status", "latency", "observe", "count", "sum"} \/ Over(r)}
Responded == {r \in Requests : pc[r] \in {"latency", "observe", "count", "sum"} \/ Over(r)}
RespondedIn(c) == {r \in Responded : job[r][1] = c}
Observing == {r \in Requests : pc[r] \in {"observe", "count", "sum"} \/ Over(r)}
Passed(r, i) == \/ pc[r] \in {"count", "sum"} \/ Over(r)
                \/ pc[r] = "observe" /\ i < next[r]
InBucket(i) == {r \in Requests : Passed(r, i) /\ job[r][2] <= i}
Observed == {r \in Requests : pc[r] = "sum" \/ Over(r)}
Rejected(c) == {r \in Requests : pc[r] = "done" /\ job[r] = <<c, 0>>}

Tally ==
    /\ per_prefix["requests_total"] = Cardinality(Added)
    /\ \A c \in Rejections : per_prefix[c] = Cardinality(Rejected(c))
    /\ \A c \in Classes : status_totals[c] = Cardinality(RespondedIn(c))
    /\ SumFunctionOnSet(status_totals, Classes) = Cardinality(Responded)
    /\ \A i \in 1 .. Buckets : counts[i] = Cardinality(InBucket(i))
    /\ count = Cardinality(Observed)
    /\ sum = SumFunctionOnSet(Latency, Requests)

\* The sets of requests are finite, and who is counted has been counted before.
LEMMA Sets ==
    /\ Cardinality(Added) \in Nat /\ Cardinality(Responded) \in Nat
    /\ Cardinality(Observing) \in Nat /\ Cardinality(Observed) \in Nat
    /\ Cardinality(Observed) <= Cardinality(Observing)
    /\ Cardinality(Observing) <= Cardinality(Added)
    /\ Cardinality(Responded) <= Cardinality(Added)
    /\ IsFiniteSet(Observed)
  <1>1. IsFiniteSet(Requests)
    BY MetricsAssumption
  <1>2. /\ Added \subseteq Requests /\ Responded \subseteq Added /\ Observing \subseteq Added
        /\ Observed \subseteq Observing
    BY DEF Added, Responded, Observing, Observed
  <1>3. IsFiniteSet(Added) /\ IsFiniteSet(Responded) /\ IsFiniteSet(Observing) /\ IsFiniteSet(Observed)
    BY <1>1, <1>2, FS_Subset
  <1> QED BY <1>2, <1>3, FS_Subset, FS_CardinalityType

\* The other requests stay where they are.
OthersStay(r) ==
    \A q \in Requests \ {r} : pc'[q] = pc[q] /\ job'[q] = job[q] /\ next'[q] = next[q]

(***************************************************************************)
(* The steps of a request as the families see them.                        *)
(***************************************************************************)
TookJob(r) == pc[r] = "new" /\ pc'[r] = "add" /\ UNCHANGED registry

CountedRejection(r) ==
    /\ pc[r] = "add" /\ pc'[r] = "done" /\ job'[r] = job[r]
    /\ job[r] \notin Finished /\ job[r][1] \in Rejections /\ job[r] = <<job[r][1], 0>>
    /\ per_prefix' = [per_prefix EXCEPT ![job[r][1]] = @ + 1]
    /\ per_prefix'["requests_total"] = per_prefix["requests_total"]
    /\ UNCHANGED <<status_totals, counts, count, sum>>

CountedRequest(r) ==
    /\ pc[r] = "add" /\ pc'[r] = "status" /\ job'[r] = job[r]
    /\ per_prefix'["requests_total"] = per_prefix["requests_total"] + 1
    /\ \A c \in Rejections : per_prefix'[c] = per_prefix[c]
    /\ UNCHANGED <<status_totals, counts, count, sum>>

CountedClass(r) ==
    /\ AddStatus(r)
    /\ pc[r] = "status" /\ pc'[r] = "latency" /\ job'[r] = job[r] /\ job[r][1] \in Classes
    /\ status_totals' = [status_totals EXCEPT ![job[r][1]] = @ + 1]
    /\ UNCHANGED <<per_prefix, counts, count, sum>>

GotHistogram(r) ==
    /\ LatencyFor(r)
    /\ pc[r] = "latency" /\ pc'[r] = "observe" /\ job'[r] = job[r] /\ next'[r] = 1
    /\ UNCHANGED registry

CountedBucket(r) ==
    /\ pc[r] = "observe" /\ job'[r] = job[r] /\ next[r] \in 1 .. Buckets
    /\ pc'[r] = (IF next[r] = Buckets THEN "count" ELSE "observe") /\ next'[r] = next[r] + 1
    /\ counts' = [counts EXCEPT ![next[r]] = IF job[r][2] <= next[r] THEN @ + 1 ELSE @]
    /\ UNCHANGED <<per_prefix, status_totals, count, sum>>

CountedObservation(r) ==
    /\ pc[r] = "count" /\ pc'[r] = "sum" /\ job'[r] = job[r] /\ count' = count + 1
    /\ UNCHANGED <<per_prefix, status_totals, counts, sum>>

AddedLatency(r) ==
    /\ pc[r] = "sum" /\ pc'[r] = "done" /\ job'[r] = job[r] /\ job[r] \in Finished
    /\ sum' = sum + job[r][2]
    /\ UNCHANGED <<per_prefix, status_totals, counts, count>>

\* Every step of a request is one of these.
LEMMA Seen ==
    ASSUME Requesting, NEW r \in Requests, RequestStep(r)
    PROVE  /\ OthersStay(r)
           /\ \/ TookJob(r) \/ CountedRejection(r) \/ CountedRequest(r) \/ CountedClass(r)
              \/ GotHistogram(r) \/ CountedBucket(r) \/ CountedObservation(r) \/ AddedLatency(r)
  <1>1. OthersStay(r)
    BY DEF RequestStep, OthersStay, Requesting, Types, Go,
           CountersFor, Add, AddStatus, LatencyFor, Observe, ObserveCount, ObserveSum
  <1>2. /\ per_prefix \in [Rejections \cup {"requests_total"} -> Nat]
        /\ pc \in [Requests -> {"new", "add", "status", "latency", "observe", "count", "sum", "done"}]
        /\ next \in [Requests -> 1 .. Buckets + 1]
    BY DEF Requesting, Types
  <1>3. /\ pc[r] = "add" => job[r] \in Jobs
        /\ pc[r] \in {"status", "latency", "observe", "count", "sum"} => job[r] \in Finished
        /\ pc[r] = "latency" => next[r] = 1
        /\ pc[r] = "observe" => next[r] \in 1 .. Buckets
    BY DEF Requesting, JobsMatch
  <1>4. ASSUME NEW j \in Jobs, CountersFor(r, j) PROVE TookJob(r)
    BY <1>2, <1>4 DEF CountersFor, Go, TookJob
  <1>5. CASE Add(r) /\ job[r][1] \in Rejections
    <2>1. job[r] \in Jobs /\ job[r] \notin Finished
      BY <1>3, <1>5, JobKinds DEF Add
    <2>2. job[r] = <<job[r][1], 0>>
      BY <2>1 DEF Jobs, Finished
    <2>3. CountedRejection(r)
      BY <1>2, <1>5, <2>1, <2>2 DEF Add, Go, CountedRejection, Rejections
    <2> QED BY <1>1, <2>3
  <1>6. CASE Add(r) /\ job[r][1] \notin Rejections
    <2>1. CountedRequest(r)
      BY <1>2, <1>6 DEF Add, Go, CountedRequest, Rejections
    <2> QED BY <1>1, <2>1
  <1>7. CASE AddStatus(r)
    <2>1. job[r][1] \in Classes
      BY <1>3, <1>7 DEF AddStatus, Finished
    <2>2. CountedClass(r)
      BY <1>2, <1>7, <2>1 DEF AddStatus, Go, CountedClass
    <2> QED BY <1>1, <2>2
  <1>8. CASE LatencyFor(r)
    <2>1. GotHistogram(r)
      BY <1>2, <1>3, <1>8 DEF LatencyFor, Go, GotHistogram
    <2> QED BY <1>1, <2>1
  <1>9. CASE Observe(r)
    <2>1. CountedBucket(r)
      BY <1>2, <1>3, <1>9 DEF Observe, Go, CountedBucket
    <2> QED BY <1>1, <2>1
  <1>10. CASE ObserveCount(r)
    <2>1. CountedObservation(r)
      BY <1>2, <1>10 DEF ObserveCount, Go, CountedObservation
    <2> QED BY <1>1, <2>1
  <1>11. CASE ObserveSum(r)
    <2>1. AddedLatency(r)
      BY <1>2, <1>3, <1>11 DEF ObserveSum, Go, AddedLatency
    <2> QED BY <1>1, <2>1
  <1> QED BY <1>1, <1>4, <1>5, <1>6, <1>7, <1>8, <1>9, <1>10, <1>11, Zenon DEF RequestStep

\* A set of requests that one joins.
LEMMA Joins ==
    ASSUME NEW r \in Requests, NEW S \in SUBSET Requests, NEW T, T = S \cup {r}, r \notin S
    PROVE  Cardinality(T) = Cardinality(S) + 1
  BY MetricsAssumption, FS_Subset, FS_AddElement, Zenon

-------------------------------------------------------------------------------
(***************************************************************************)
(* One family after the other: it counts what joins its set.               *)
(***************************************************************************)
\* requests_total is how many requests have been added ...
LEMMA RequestsCounted ==
    ASSUME Requesting, Tally, NEW r \in Requests, RequestStep(r)
    PROVE  per_prefix'["requests_total"] = Cardinality(Added')
  <1>1. per_prefix["requests_total"] = Cardinality(Added) /\ OthersStay(r) /\ Added \in SUBSET Requests
    BY Seen DEF Tally, Added
  <1>2. CASE CountedRequest(r)
    <2>1. Added' = Added \cup {r} /\ r \notin Added
      BY <1>1, <1>2 DEF CountedRequest, OthersStay, Added, Over
    <2>2. Cardinality(Added') = Cardinality(Added) + 1
      BY <1>1, <2>1, Joins, Zenon
    <2> QED BY <1>1, <1>2, <2>2 DEF CountedRequest
  <1>3. CASE ~CountedRequest(r)
    <2>1. /\ r \in Added' <=> r \in Added
          /\ per_prefix'["requests_total"] = per_prefix["requests_total"]
      <3>1. CASE TookJob(r) \/ CountedRejection(r)
        BY <3>1 DEF TookJob, CountedRejection, Added, Over, registry
      <3>2. CASE CountedClass(r) \/ GotHistogram(r)
        BY <3>2 DEF CountedClass, GotHistogram, Added, Over, registry
      <3>3. CASE CountedBucket(r) \/ CountedObservation(r) \/ AddedLatency(r)
        BY <3>3 DEF CountedBucket, CountedObservation, AddedLatency, Added, Over
      <3> QED BY <1>3, <3>1, <3>2, <3>3, Seen, Zenon
    <2>2. \A q \in Requests \ {r} : q \in Added' <=> q \in Added
      BY <1>1, Zenon DEF OthersStay, Added, Over
    <2>3. Added' = Added
      BY <2>1, <2>2 DEF Added
    <2> QED BY <1>1, <2>1, <2>3
  <1> QED BY <1>2, <1>3

\* ... _count is how many have been observed ...
LEMMA ObservationsCounted ==
    ASSUME Requesting, Tally, NEW r \in Requests, RequestStep(r)
    PROVE  count' = Cardinality(Observed')
  <1>1. count = Cardinality(Observed) /\ OthersStay(r) /\ Observed \in SUBSET Requests
    BY Seen DEF Tally, Observed
  <1>2. CASE CountedObservation(r)
    <2>1. Observed' = Observed \cup {r} /\ r \notin Observed
      BY <1>1, <1>2 DEF CountedObservation, OthersStay, Observed, Over
    <2>2. Cardinality(Observed') = Cardinality(Observed) + 1
      BY <1>1, <2>1, Joins, Zenon
    <2> QED BY <1>1, <1>2, <2>2 DEF CountedObservation
  <1>3. CASE ~CountedObservation(r)
    <2>1. (r \in Observed' <=> r \in Observed) /\ UNCHANGED count
      <3>1. CASE TookJob(r) \/ CountedRejection(r) \/ CountedRequest(r)
        BY <3>1 DEF TookJob, CountedRejection, CountedRequest, Observed, Over, registry
      <3>2. CASE CountedClass(r) \/ GotHistogram(r)
        BY <3>2 DEF CountedClass, GotHistogram, Observed, Over, registry
      <3>3. CASE CountedBucket(r) \/ AddedLatency(r)
        BY <3>3 DEF CountedBucket, AddedLatency, Observed, Over
      <3> QED BY <1>3, <3>1, <3>2, <3>3, Seen, Zenon
    <2>2. \A q \in Requests \ {r} : q \in Observed' <=> q \in Observed
      BY <1>1, Zenon DEF OthersStay, Observed, Over
    <2>3. Observed' = Observed
      BY <2>1, <2>2 DEF Observed
    <2> QED BY <1>1, <2>1, <2>3
  <1> QED BY <1>2, <1>3

\* ... a rejection is in its own counter ...
LEMMA RejectionsCounted ==
    ASSUME Requesting, Tally, NEW r \in Requests, RequestStep(r), NEW c \in Rejections
    PROVE  per_prefix'[c] = Cardinality(Rejected(c)')
  <1>1. per_prefix[c] = Cardinality(Rejected(c)) /\ OthersStay(r)
    BY Seen DEF Tally
  <1>2. CASE CountedRejection(r) /\ job[r] = <<c, 0>>
    <2>1. Rejected(c)' = Rejected(c) \cup {r} /\ r \notin Rejected(c) /\ Rejected(c) \in SUBSET Requests
      BY <1>1, <1>2 DEF CountedRejection, OthersStay, Rejected
    <2>2. Cardinality(Rejected(c)') = Cardinality(Rejected(c)) + 1
      BY <2>1, Joins, Zenon
    <2>3. job[r][1] = c
      BY <1>2
    <2>4. per_prefix'[c] = per_prefix[c] + 1
      BY <1>2, <2>3 DEF CountedRejection, Requesting, Types
    <2> QED BY <1>1, <2>2, <2>4
  <1>3. CASE CountedRejection(r) /\ job[r] # <<c, 0>>
    <2>1. Rejected(c)' = Rejected(c)
      BY <1>1, <1>3 DEF CountedRejection, OthersStay, Rejected
    <2>2. job[r][1] # c
      BY <1>3, Zenon DEF CountedRejection
    <2>3. per_prefix'[c] = per_prefix[c]
      BY <1>3, <2>2 DEF CountedRejection, Requesting, Types
    <2> QED BY <1>1, <2>1, <2>3
  <1>4. CASE ~CountedRejection(r)
    <2>1. CASE AddedLatency(r)
      <3>1. job[r] # <<c, 0>>
        BY <2>1, MetricsAssumption DEF AddedLatency, Finished, Rejections
      <3>2. Rejected(c)' = Rejected(c)
        BY <1>1, <2>1, <3>1 DEF AddedLatency, OthersStay, Rejected
      <3> QED BY <1>1, <2>1, <3>2 DEF AddedLatency
    <2>2. CASE ~AddedLatency(r)
      <3>1. pc[r] # "done" /\ pc'[r] # "done" /\ per_prefix'[c] = per_prefix[c]
        BY <1>4, <2>2, Seen, Zenon DEF TookJob, CountedRequest, CountedClass, GotHistogram, CountedBucket,
                                CountedObservation, registry
      <3>2. Rejected(c)' = Rejected(c)
        BY <1>1, <3>1 DEF OthersStay, Rejected
      <3> QED BY <1>1, <3>1, <3>2
    <2> QED BY <2>1, <2>2
  <1> QED BY <1>2, <1>3, <1>4

\* Responded and its classes change when a class is counted, and only then.
LEMMA RespondedKept ==
    ASSUME Requesting, NEW r \in Requests, RequestStep(r), ~CountedClass(r)
    PROVE  /\ Responded' = Responded
           /\ \A c \in Classes : RespondedIn(c)' = RespondedIn(c)
           /\ UNCHANGED status_totals
  <1>1. OthersStay(r)
    BY Seen
  <1>2. /\ (r \in Responded' <=> r \in Responded) /\ (r \in Responded => job'[r] = job[r])
        /\ UNCHANGED status_totals
    <2>1. CASE TookJob(r) \/ CountedRejection(r) \/ CountedRequest(r)
      BY <2>1 DEF TookJob, CountedRejection, CountedRequest, Responded, Over, registry
    <2>2. CASE GotHistogram(r) \/ CountedObservation(r) \/ AddedLatency(r)
      BY <2>2 DEF GotHistogram, CountedObservation, AddedLatency, Responded, Over, registry
    <2>3. CASE CountedBucket(r)
      BY <2>3 DEF CountedBucket, Responded, Over
    <2> QED BY <2>1, <2>2, <2>3, Seen
  <1>3. \A q \in Requests : q \in Responded' <=> q \in Responded
    BY <1>1, <1>2, Zenon DEF OthersStay, Responded, Over
  <1>4. Responded' = Responded
    BY <1>3 DEF Responded
  <1>5. \A q \in Responded : job'[q] = job[q]
    BY <1>1, <1>2 DEF OthersStay, Responded
  <1> QED BY <1>2, <1>4, <1>5 DEF RespondedIn

\* ... the classes, each and summed, are who has been given a status ...
LEMMA ClassesCounted ==
    ASSUME Requesting, Tally, NEW r \in Requests, RequestStep(r)
    PROVE  /\ \A c \in Classes : status_totals'[c] = Cardinality(RespondedIn(c)')
           /\ SumFunctionOnSet(status_totals', Classes) = Cardinality(Responded')
  <1>1. CASE ~CountedClass(r)
    BY <1>1, RespondedKept DEF Tally
  <1>2. CASE CountedClass(r)
    <2> DEFINE k == job[r][1]
    <2>1. OthersStay(r) /\ k \in Classes /\ status_totals \in [Classes -> Nat]
      BY <1>2, Seen, Zenon DEF CountedClass, Requesting, Types
    <2>2. Responded' = Responded \cup {r} /\ r \notin Responded /\ Responded \in SUBSET Requests
      BY <1>2, <2>1 DEF CountedClass, OthersStay, Responded, Over
    <2>3. \A q \in Responded' : job'[q] = job[q]
      BY <1>2, <2>1 DEF CountedClass, OthersStay, Responded
    <2>4. status_totals' = [status_totals EXCEPT ![k] = @ + 1]
      BY <1>2 DEF CountedClass
    <2> HIDE DEF k
    <2>5. ASSUME NEW c \in Classes PROVE status_totals'[c] = Cardinality(RespondedIn(c)')
      <3>1. CASE c = k
        <4>1. /\ RespondedIn(c)' = RespondedIn(c) \cup {r} /\ r \notin RespondedIn(c)
              /\ RespondedIn(c) \in SUBSET Requests
          BY <2>2, <2>3, <3>1 DEF RespondedIn, k
        <4>2. Cardinality(RespondedIn(c)') = Cardinality(RespondedIn(c)) + 1
          BY <4>1, Joins, Zenon
        <4> QED BY <2>1, <2>4, <3>1, <4>2 DEF Tally
      <3>2. CASE c # k
        <4>1. RespondedIn(c)' = RespondedIn(c)
          BY <2>2, <2>3, <3>2 DEF RespondedIn, k
        <4> QED BY <2>1, <2>4, <3>2, <4>1 DEF Tally
      <3> QED BY <3>1, <3>2
    <2>6. SumFunctionOnSet(status_totals', Classes) = Cardinality(Responded')
      <3>1. /\ \A c \in Classes : status_totals[c] \in Nat
            /\ status_totals'[k] = status_totals[k] + 1
            /\ \A c \in Classes \ {k} : status_totals'[c] = status_totals[c]
        BY <2>1, <2>4
      <3>2. SumFunctionOnSet(status_totals', Classes) = SumFunctionOnSet(status_totals, Classes) + 1
        BY <2>1, <3>1, MetricsAssumption, SumRaise
      <3>3. Cardinality(Responded') = Cardinality(Responded) + 1
        BY <2>2, Joins, Zenon
      <3> QED BY <3>2, <3>3 DEF Tally
    <2> QED BY <2>5, <2>6
  <1> QED BY <1>1, <1>2

\* ... and a bucket is who has passed it with a latency within its bound.
LEMMA BucketsCounted ==
    ASSUME Requesting, Tally, NEW r \in Requests, RequestStep(r), NEW i \in 1 .. Buckets
    PROVE  counts'[i] = Cardinality(InBucket(i)')
  <1>1. counts[i] = Cardinality(InBucket(i)) /\ OthersStay(r) /\ counts \in [1 .. Buckets -> Nat]
    BY Seen DEF Tally, Requesting, Types
  <1>2. \A q \in Requests \ {r} : q \in InBucket(i)' <=> q \in InBucket(i)
    BY <1>1, Zenon DEF OthersStay, InBucket, Passed, Over
  <1>3. InBucket(i) \in SUBSET Requests /\ InBucket(i)' \in SUBSET Requests
    BY DEF InBucket
  <1>4. CASE CountedBucket(r)
    <2> DEFINE b == next[r]
    <2>1. /\ b \in 1 .. Buckets /\ counts' = [counts EXCEPT ![b] = IF job[r][2] <= b THEN @ + 1 ELSE @]
          /\ r \in InBucket(i) <=> i < b /\ job[r][2] <= i
      BY <1>4 DEF CountedBucket, InBucket, Passed, Over
    <2>2. r \in InBucket(i)' <=> (b = Buckets \/ i < b + 1) /\ job[r][2] <= i
      BY <1>4 DEF CountedBucket, InBucket, Passed, Over
    <2>3. (b = Buckets \/ i < b + 1) <=> (i < b \/ i = b)
      BY <2>1, MetricsAssumption
    <2> HIDE DEF b
    <2>4. CASE i = b /\ job[r][2] <= i
      <3>1. InBucket(i)' = InBucket(i) \cup {r} /\ r \notin InBucket(i)
        BY <1>2, <1>3, <2>1, <2>2, <2>3, <2>4
      <3>2. Cardinality(InBucket(i)') = Cardinality(InBucket(i)) + 1
        BY <1>3, <3>1, Joins, Zenon
      <3>3. counts'[i] = counts[i] + 1
        BY <1>1, <2>1, <2>4
      <3> QED BY <1>1, <3>2, <3>3
    <2>5. CASE ~(i = b /\ job[r][2] <= i)
      <3>1. InBucket(i)' = InBucket(i)
        BY <1>2, <1>3, <2>1, <2>2, <2>3, <2>5
      <3>2. counts'[i] = counts[i]
        BY <1>1, <2>1, <2>5
      <3> QED BY <1>1, <3>1, <3>2
    <2> QED BY <2>4, <2>5
  <1>5. CASE ~CountedBucket(r)
    <2>1. (r \in InBucket(i)' <=> r \in InBucket(i)) /\ UNCHANGED counts
      <3>1. CASE TookJob(r)
        BY <3>1 DEF TookJob, InBucket, Passed, Over, registry
      <3>2. CASE CountedRejection(r) \/ CountedRequest(r)
        BY <3>2 DEF CountedRejection, CountedRequest, InBucket, Passed, Over
      <3>3. CASE CountedClass(r) \/ GotHistogram(r)
        BY <3>3 DEF CountedClass, GotHistogram, InBucket, Passed, Over, registry
      <3>4. CASE CountedObservation(r) \/ AddedLatency(r)
        BY <3>4 DEF CountedObservation, AddedLatency, InBucket, Passed, Over
      <3> QED BY <1>5, <3>1, <3>2, <3>3, <3>4, Seen, Zenon
    <2>2. InBucket(i)' = InBucket(i)
      BY <1>2, <1>3, <2>1
    <2> QED BY <1>1, <2>1, <2>2
  <1> QED BY <1>4, <1>5

\* A latency is a number, and zero before the request is over.
LEMMA LatencyTyped == \A q \in Requests : Latency[q] \in Nat
  BY MetricsAssumption DEF Latency, Over, Finished

\* The sum is that of the latencies of those that are over.
LEMMA LatenciesAdded ==
    ASSUME Requesting, Tally, NEW r \in Requests, RequestStep(r)
    PROVE  sum' = SumFunctionOnSet(Latency', Requests)
  <1>1. sum = SumFunctionOnSet(Latency, Requests) /\ OthersStay(r)
    BY Seen DEF Tally
  <1>2. \A q \in Requests \ {r} : Latency'[q] = Latency[q]
    BY <1>1 DEF OthersStay, Latency, Over
  <1>3. CASE AddedLatency(r)
    <2> DEFINE d == job[r][2]
    <2>1. d \in Nat /\ sum' = sum + d
      BY <1>3, MetricsAssumption DEF AddedLatency, Finished
    <2>2. Latency[r] = 0 /\ Latency'[r] = d
      BY <1>3 DEF AddedLatency, Latency, Over
    <2> HIDE DEF d
    <2>3. Latency'[r] = Latency[r] + d
      BY <2>1, <2>2
    <2>4. SumFunctionOnSet(Latency', Requests) = SumFunctionOnSet(Latency, Requests) + d
      BY <1>2, <2>1, <2>3, LatencyTyped, MetricsAssumption, SumRaise
    <2> QED BY <1>1, <2>1, <2>4
  <1>4. CASE ~AddedLatency(r)
    <2>1. pc[r] # "done" /\ (pc'[r] = "done" => job'[r] \notin Finished) /\ sum' = sum
      BY <1>4, Seen DEF TookJob, CountedRejection, CountedRequest, CountedClass, GotHistogram,
                        CountedBucket, CountedObservation, registry
    <2>2. \A q \in Requests : Latency'[q] = Latency[q]
      BY <1>2, <2>1 DEF Latency, Over
    <2>3. SumFunctionOnSet(Latency', Requests) = SumFunctionOnSet(Latency, Requests)
      BY <2>2, MetricsAssumption, SumSame, Zenon
    <2> QED BY <1>1, <2>1, <2>3
  <1> QED BY <1>3, <1>4

-------------------------------------------------------------------------------
(***************************************************************************)
(* What a page shows.                                                      *)
(***************************************************************************)
Showing == {"buckets", "inf", "count", "gauge"}

\* A page shows enough requests for what it shows of the other families, for the
\* responses its scrape is about to load, and for every request that may still
\* observe while it is rendered.
PageBounded(s) ==
    /\ at[s] \in {"idle", "publish", "lock", "totals", "status"} =>
         /\ page[s].inf = 0 /\ page[s].count = 0
         /\ \A c \in Classes : page[s].responses[c] = 0
    /\ at[s] = "status" => Cardinality(Responded) <= page[s].requests
    /\ at[s] \in {"status"} \cup Showing => Cardinality(Observing) <= page[s].requests
    /\ SumFunctionOnSet(page[s].responses, Classes) <= page[s].requests
    /\ page[s].inf <= page[s].requests /\ page[s].count <= page[s].requests

\* n counts the requests of S, but for some of K.
Between(n, S, K) == Cardinality(S \ K) <= n /\ n <= Cardinality(S \ K) + Cardinality(K)

\* While a scrape reads the histogram only the unfinished observe, so that what
\* it has loaded is off by no others.
PageOff(s) ==
    at[s] \in Showing =>
        /\ \A r \in Requests \ page[s].unfinished : pc[r] \notin {"observe", "count"}
        /\ \A i \in 1 .. Buckets : (at[s] = "buckets" => i < idx[s]) =>
             Between(page[s].buckets[i], InBucket(i), page[s].unfinished)
        /\ at[s] \in {"count", "gauge"} =>
             Between(page[s].inf, Observed, page[s].unfinished) /\ page[s].inf <= count
        /\ at[s] = "gauge" =>
             Between(page[s].count, Observed, page[s].unfinished) /\ page[s].inf <= page[s].count

Pages == \A s \in Scrapers : PageBounded(s) /\ PageOff(s)

\* What is loaded of a counter that counts S.
LEMMA LoadedBetween ==
    ASSUME NEW S \in SUBSET Requests, NEW K \in SUBSET Requests, NEW n, n = Cardinality(S)
    PROVE  Between(n, S, K)
  <1>1. IsFiniteSet(S) /\ IsFiniteSet(K) /\ IsFiniteSet(S \cap K) /\ S \cap K \subseteq K
    BY MetricsAssumption, FS_Subset
  <1>2. Cardinality(S \ K) = Cardinality(S) - Cardinality(S \cap K)
    BY <1>1, FS_Difference
  <1>3. Cardinality(S \cap K) <= Cardinality(K)
    BY <1>1, FS_Subset
  <1>4. Cardinality(S) \in Nat /\ Cardinality(K) \in Nat /\ Cardinality(S \cap K) \in Nat
    BY <1>1, FS_CardinalityType
  <1> QED BY <1>2, <1>3, <1>4 DEF Between

\* The locks that render holds keep requests out of status_totals and of the
\* histogram.
LEMMA KeptOut ==
    ASSUME IInv, NEW r \in Requests, RequestStep(r), NEW s \in Scrapers, at[s] \in Rendering
    PROVE  /\ Responded' = Responded /\ Observing' = Observing
           /\ OthersStay(r)
           /\ \/ TookJob(r) \/ CountedRejection(r) \/ CountedRequest(r)
              \/ CountedBucket(r) \/ CountedObservation(r) \/ AddedLatency(r)
  <1>1. ~AddStatus(r) /\ ~LatencyFor(r)
    <2>1. holder[Locks[2]] = s /\ holder[Locks[3]] = s
      BY DEF IInv, LocksInOrder
    <2> QED BY <2>1, LockTable, MetricsAssumption DEF Free, AddStatus, LatencyFor
  <1>2. Requesting /\ OthersStay(r) /\ ~CountedClass(r) /\ ~GotHistogram(r)
    BY <1>1, Seen DEF IInv, CountedClass, GotHistogram
  <1>3. Responded' = Responded
    BY <1>2, RespondedKept
  <1>4. r \in Observing' <=> r \in Observing
    <2>1. CASE TookJob(r) \/ CountedRejection(r) \/ CountedRequest(r)
      BY <2>1 DEF TookJob, CountedRejection, CountedRequest, Observing, Over
    <2>2. CASE CountedBucket(r) \/ CountedObservation(r) \/ AddedLatency(r)
      BY <2>2 DEF CountedBucket, CountedObservation, AddedLatency, Observing, Over
    <2> QED BY <1>2, <2>1, <2>2, Seen, Zenon
  <1>5. \A q \in Requests \ {r} : q \in Observing' <=> q \in Observing
    BY <1>2, Zenon DEF OthersStay, Observing, Over
  <1>6. Observing' = Observing
    BY <1>4, <1>5 DEF Observing
  <1> QED BY <1>2, <1>3, <1>6, Seen, Zenon

\* Of the requests outside of K none observes, and who has been observed stays so.
LEMMA OutsideStays ==
    ASSUME IInv, NEW r \in Requests, RequestStep(r), NEW s \in Scrapers, at[s] \in Rendering,
           NEW K \in SUBSET Requests,
           \A q \in Requests \ K : pc[q] \notin {"observe", "count"}
    PROVE  /\ \A q \in Requests \ K : pc'[q] \notin {"observe", "count"}
           /\ \A i : InBucket(i)' \ K = InBucket(i) \ K
           /\ Observed' \ K = Observed \ K
           /\ count \in Nat /\ count <= count'
  <1>1. /\ OthersStay(r)
        /\ \/ TookJob(r) \/ CountedRejection(r) \/ CountedRequest(r)
           \/ CountedBucket(r) \/ CountedObservation(r) \/ AddedLatency(r)
    BY KeptOut, Zenon
  <1>2. count \in Nat /\ count <= count'
    <2>1. count \in Nat
      BY DEF IInv, Requesting, Types
    <2>2. count' = count \/ count' = count + 1
      BY <1>1, Zenon DEF TookJob, CountedRejection, CountedRequest, CountedBucket,
                         CountedObservation, AddedLatency, registry
    <2> QED BY <2>1, <2>2
  <1>3. ASSUME r \notin K
        PROVE  /\ pc'[r] \notin {"observe", "count"}
               /\ \A i : r \in InBucket(i)' <=> r \in InBucket(i)
               /\ r \in Observed' <=> r \in Observed
    <2>1. pc[r] \notin {"observe", "count"}
      BY <1>3, Zenon
    <2>2. CASE TookJob(r) \/ CountedRejection(r) \/ CountedRequest(r)
      BY <2>2 DEF TookJob, CountedRejection, CountedRequest, InBucket, Passed, Observed, Over
    <2>3. CASE AddedLatency(r)
      BY <2>3 DEF AddedLatency, InBucket, Passed, Observed, Over
    <2> QED BY <1>1, <2>1, <2>2, <2>3 DEF CountedBucket, CountedObservation
  <1>4. ASSUME NEW q \in Requests \ {r}
        PROVE  /\ pc'[q] = pc[q]
               /\ \A i : q \in InBucket(i)' <=> q \in InBucket(i)
               /\ q \in Observed' <=> q \in Observed
    BY <1>1, Zenon DEF OthersStay, InBucket, Passed, Observed, Over
  <1>5. ASSUME NEW q \in Requests \ K
        PROVE  /\ pc'[q] \notin {"observe", "count"}
               /\ \A i : q \in InBucket(i)' <=> q \in InBucket(i)
               /\ q \in Observed' <=> q \in Observed
    <2>1. CASE q = r
      BY <1>3, <2>1
    <2>2. CASE q # r
      BY <1>4, <2>2
    <2> QED BY <2>1, <2>2
  <1>6. (\A i : InBucket(i) \subseteq Requests /\ InBucket(i)' \subseteq Requests)
        /\ Observed \subseteq Requests /\ Observed' \subseteq Requests
    BY DEF InBucket, Observed
  <1> QED BY <1>2, <1>5, <1>6

\* The locks that render holds keep requests from disturbing its page.
LEMMA PagesRequest ==
    ASSUME IInv, Pages, NEW r \in Requests, RequestStep(r)
    PROVE  Pages'
  <1> SUFFICES ASSUME NEW s \in Scrapers PROVE PageBounded(s)' /\ PageOff(s)'
    BY DEF Pages
  <1>1. UNCHANGED scrape
    BY RequestKeeps
  <1>2. PageBounded(s) /\ PageOff(s)
    BY DEF Pages
  <1>3. CASE at[s] \in Rendering
    <2>0. Responded' = Responded /\ Observing' = Observing
      BY <1>3, KeptOut, Zenon
    <2>1. PageBounded(s)'
      BY <1>1, <1>2, <2>0 DEF PageBounded, scrape
    <2>2. PageOff(s)'
      <3> SUFFICES ASSUME at[s] \in Showing PROVE PageOff(s)'
        BY <1>1, Zenon DEF PageOff, scrape
      <3> DEFINE K == page[s].unfinished
      <3>1. K \in SUBSET Requests /\ page[s].inf \in Nat
        BY DEF IInv, Requesting, Types, Page
      <3>2. \A q \in Requests \ K : pc[q] \notin {"observe", "count"}
        BY <1>2 DEF PageOff
      <3>3. /\ \A q \in Requests \ K : pc'[q] \notin {"observe", "count"}
            /\ \A i : InBucket(i)' \ K = InBucket(i) \ K
            /\ Observed' \ K = Observed \ K
            /\ count \in Nat /\ count <= count'
        <4> HIDE DEF K
        <4> QED BY <1>3, <3>1, <3>2, OutsideStays, Zenon
      <3>4. count' \in Nat
        BY RequestTypes DEF IInv, Requesting, Types
      <3>5. /\ \A n, i : Between(n, InBucket(i), K) => Between(n, InBucket(i)', K)
            /\ \A n : Between(n, Observed, K) => Between(n, Observed', K)
        BY <3>3, Zenon DEF Between
      <3>6. page[s].inf <= count => page[s].inf <= count'
        BY <3>1, <3>3, <3>4
      <3>7. at' = at /\ idx' = idx /\ page' = page
        BY <1>1, Zenon DEF scrape
      <3> QED BY <1>2, <3>3, <3>5, <3>6, <3>7, Zenon DEF PageOff
    <2> QED BY <2>1, <2>2
  <1>4. CASE at[s] \notin Rendering
    <2>1. at[s] # "status" /\ at[s] \notin Showing
      BY <1>4 DEF Rendering, Showing
    <2> QED BY <1>1, <1>2, <2>1 DEF PageBounded, PageOff, scrape
  <1> QED BY <1>3, <1>4

\* A step of a scrape leaves what the other pages show alone.
LEMMA OtherPages ==
    ASSUME IInv, Pages, UNCHANGED <<registry, request>>, NEW s \in Scrapers, NEW t \in Scrapers,
           at'[t] = at[t], idx'[t] = idx[t],
           page'[t].requests = page[t].requests, page'[t].responses = page[t].responses,
           page'[t].buckets = page[t].buckets, page'[t].inf = page[t].inf,
           page'[t].count = page[t].count, page'[t].unfinished = page[t].unfinished
    PROVE  PageBounded(t)' /\ PageOff(t)'
  <1>1. Responded' = Responded /\ Observing' = Observing
    BY DEF request, Responded, Observing, Over
  <1>2. PageBounded(t) /\ PageOff(t)
    BY DEF Pages
  <1>3. UNCHANGED <<pc, counts, count>>
    BY DEF registry, request
  <1>4. PageBounded(t)'
    BY <1>1, <1>2 DEF PageBounded
  <1>5. Observed' = Observed /\ \A i : InBucket(i)' = InBucket(i)
    BY DEF request, Observed, InBucket, Passed, Over
  <1>6. PageOff(t)'
    BY <1>2, <1>3, <1>5, Zenon DEF PageOff, Between
  <1> QED BY <1>4, <1>6, Zenon

\* The page of a scrape that has shown no family yet.
LEMMA NothingShown ==
    ASSUME NEW s \in Scrapers, at'[s] \in {"idle", "publish", "lock", "totals"},
           page'[s] \in Page, page'[s].inf = 0, page'[s].count = 0,
           \A c \in Classes : page'[s].responses[c] = 0
    PROVE  PageBounded(s)' /\ PageOff(s)'
  <1>1. SumFunctionOnSet(page'[s].responses, Classes) = 0
    BY MetricsAssumption, SumZero, Zenon
  <1>2. page'[s].requests \in Nat
    BY DEF Page
  <1> QED BY <1>1, <1>2 DEF PageBounded, PageOff, Showing

\* A page that grows by a family is still bounded by what it shows.
LEMMA PagesScrape ==
    ASSUME IInv, IInv', Tally, Pages, NEW s \in Scrapers, ScrapeStep(s)
    PROVE  Pages'
  <1>0. /\ page \in [Scrapers -> Page] /\ idx \in [Scrapers -> Nat]
        /\ at \in [Scrapers -> {"idle", "publish", "lock"} \cup Rendering]
        /\ status_totals \in [Classes -> Nat] /\ counts \in [1 .. Buckets -> Nat] /\ count \in Nat
        /\ page' \in [Scrapers -> Page]
    BY DEF IInv, Requesting, Types
  <1>1. UNCHANGED <<registry, request>>
    BY ScrapeKeeps
  <1>2. ASSUME NEW t \in Scrapers, t # s
        PROVE  PageBounded(t)' /\ PageOff(t)'
    <2>1. at'[t] = at[t] /\ idx'[t] = idx[t]
      BY <1>0, <1>2, Zenon DEF ScrapeStep, Proceed, Snapshot, Publish, Lock, RenderTotals, RenderStatus,
                        RenderBucket, RenderInf, RenderCount, RenderGauge
    <2>2. CASE Snapshot(s)
      <3>1. page[t] \in Page
        BY <1>0
      <3>2. PICK R : page'[t] = [page[t] EXCEPT !.recent = R] \/ page'[t] = page[t]
        BY <1>2, <2>2, Zenon DEF Snapshot
      <3>3. /\ page'[t].requests = page[t].requests /\ page'[t].responses = page[t].responses
            /\ page'[t].buckets = page[t].buckets /\ page'[t].inf = page[t].inf
            /\ page'[t].count = page[t].count /\ page'[t].unfinished = page[t].unfinished
        BY <3>1, <3>2 DEF Page
      <3> QED BY <1>1, <2>1, <3>3, OtherPages
    <2>3. CASE ~Snapshot(s)
      <3>1. page'[t] = page[t]
        BY <1>0, <1>2, <2>3 DEF ScrapeStep, Publish, Lock, RenderTotals, RenderStatus,
                                RenderBucket, RenderInf, RenderCount, RenderGauge
      <3> QED BY <1>1, <2>1, <3>1, OtherPages, Zenon
    <2> QED BY <2>2, <2>3
  <1>3. PageBounded(s)' /\ PageOff(s)'
    <2>1. PageBounded(s) /\ PageOff(s) /\ page[s] \in Page /\ page'[s] \in Page
      BY <1>0 DEF Pages
    <2>2. /\ Responded' = Responded /\ Observing' = Observing
          /\ Observed' = Observed /\ (\A i : InBucket(i)' = InBucket(i))
          /\ UNCHANGED <<pc, counts, count, status_totals>>
      BY <1>1 DEF registry, request, Responded, Observing, Observed, InBucket, Passed, Over
    <2>11. /\ count <= Cardinality(Observing) /\ Cardinality(Observing) \in Nat
           /\ per_prefix["requests_total"] = Cardinality(Added)
           /\ page[s].requests \in Nat
      <3>1. count = Cardinality(Observed) /\ per_prefix["requests_total"] = Cardinality(Added)
        BY Zenon DEF Tally
      <3>2. page[s].requests \in Nat
        BY <2>1, Zenon DEF Page
      <3> QED BY <3>1, <3>2, Sets
    <2>12. ASSUME NEW K \in SUBSET Requests PROVE Between(count, Observed, K)
      <3>1. count = Cardinality(Observed) /\ Observed \in SUBSET Requests
        BY DEF Tally, Observed
      <3> QED BY <3>1, LoadedBetween, Zenon
    <2>3. CASE Snapshot(s)
      <3>1. PICK R : page'[s] = [[BlankPage EXCEPT !.published = breaker] EXCEPT !.recent = R]
        BY <2>3, Zenon DEF Snapshot
      <3>2. page'[s].responses = [c \in Classes |-> 0] /\ page'[s].inf = 0 /\ page'[s].count = 0
        BY <3>1 DEF BlankPage
      <3>3. at'[s] = "publish"
        <4>1. at' = [at EXCEPT ![s] = "publish"]
          BY <2>3, Zenon DEF Snapshot, Proceed
        <4> QED BY <1>0, <4>1, Zenon
      <3> QED BY <2>1, <3>2, <3>3, NothingShown
    <2>4. CASE Publish(s) \/ Lock(s)
      <3>1. /\ page'[s] = [page[s] EXCEPT !.published = "Closed"] \/ page'[s] = page[s]
            /\ at[s] \in {"publish", "lock"} /\ at'[s] \in {"lock", "totals"}
        BY <1>0, <2>4 DEF Publish, Lock, Proceed
      <3>2. /\ page'[s].responses = page[s].responses /\ page'[s].inf = page[s].inf
            /\ page'[s].count = page[s].count
        BY <2>1, <3>1 DEF Page
      <3> QED BY <2>1, <3>1, <3>2, NothingShown DEF PageBounded
    <2>5. CASE RenderTotals(s)
      <3>1. /\ at[s] = "totals" /\ at'[s] = "status"
            /\ page'[s] = [page[s] EXCEPT !.requests = per_prefix["requests_total"]]
        BY <1>0, <2>5 DEF RenderTotals, Proceed
      <3>2. /\ page'[s].responses = page[s].responses
            /\ page'[s].requests = per_prefix["requests_total"]
            /\ page'[s].inf = page[s].inf /\ page'[s].count = page[s].count
        BY <2>1, <3>1 DEF Page
      <3>3. /\ \A c \in Classes : page'[s].responses[c] = 0
            /\ page'[s].inf = 0 /\ page'[s].count = 0
        BY <2>1, <3>1, <3>2 DEF PageBounded
      <3>4. SumFunctionOnSet(page'[s].responses, Classes) = 0
        BY <3>3, MetricsAssumption, SumZero, Zenon
      <3> QED BY <2>2, <2>11, <3>1, <3>2, <3>3, <3>4, Sets DEF PageBounded, PageOff, Showing
    <2>6. CASE RenderStatus(s)
      <3>1. at[s] = "status" /\ at'[s] = "buckets" /\ idx'[s] = 1
        BY <1>0, <2>6 DEF RenderStatus, Proceed, IInv, LocksInOrder
      <3> DEFINE q == {r \in Requests : pc[r] \in {"observe", "count"}}
      <3>2. page'[s] = [[page[s] EXCEPT !.responses = status_totals] EXCEPT !.unfinished = q]
        BY <1>0, <2>6, Zenon DEF RenderStatus
      <3>3. /\ page'[s].responses = status_totals /\ page'[s].requests = page[s].requests
            /\ page'[s].inf = page[s].inf /\ page'[s].count = page[s].count
            /\ page'[s].unfinished = q
        <4> HIDE DEF q
        <4> QED BY <2>1, <3>2, Zenon DEF Page
      <3>4. SumFunctionOnSet(status_totals, Classes) <= page[s].requests
        BY <2>1, <3>1 DEF Tally, PageBounded
      <3>5. PageBounded(s)'
        BY <2>1, <2>2, <3>1, <3>3, <3>4, Zenon DEF PageBounded, Showing
      <3>6. PageOff(s)'
        <4>1. \A i \in 1 .. Buckets : ~(i < 1)
          OBVIOUS
        <4>2. \A r \in Requests \ page'[s].unfinished : pc'[r] \notin {"observe", "count"}
          BY <2>2, <3>3, Zenon
        <4> HIDE DEF q
        <4> QED BY <3>1, <4>1, <4>2, Zenon DEF PageOff
      <3> QED BY <3>5, <3>6
    <2>7. CASE RenderBucket(s)
      <3> DEFINE k == idx[s]
      <3>1. /\ at[s] = "buckets" /\ at'[s] = (IF k = Buckets THEN "inf" ELSE "buckets") /\ idx'[s] = k + 1
            /\ page'[s] = [page[s] EXCEPT !.buckets = [page[s].buckets EXCEPT ![k] = counts[k]]]
            /\ k \in 1 .. Buckets
        BY <1>0, <2>7 DEF RenderBucket, Proceed, IInv, LocksInOrder
      <3>2. /\ page'[s].responses = page[s].responses /\ page'[s].requests = page[s].requests
            /\ page'[s].inf = page[s].inf /\ page'[s].count = page[s].count
            /\ page'[s].unfinished = page[s].unfinished /\ page[s].unfinished \in SUBSET Requests
            /\ page'[s].buckets = [page[s].buckets EXCEPT ![k] = counts[k]]
            /\ page[s].buckets \in [1 .. Buckets -> Nat]
        BY <2>1, <3>1 DEF Page
      <3> HIDE DEF k
      <3>3. PageBounded(s)'
        BY <2>1, <2>2, <3>1, <3>2 DEF PageBounded, Showing
      <3>4. PageOff(s)'
        <4> DEFINE K == page[s].unfinished
        <4>1. /\ \A r \in Requests \ K : pc[r] \notin {"observe", "count"}
              /\ \A i \in 1 .. Buckets : i < k => Between(page[s].buckets[i], InBucket(i), K)
          BY <2>1, <3>1 DEF PageOff, Showing, k
        <4>2. Between(counts[k], InBucket(k), K)
          <5>1. counts[k] = Cardinality(InBucket(k)) /\ InBucket(k) \in SUBSET Requests
            BY <3>1 DEF Tally, InBucket
          <5> QED BY <3>2, <5>1, LoadedBetween, Zenon
        <4>3. \A i \in 1 .. Buckets :
                 (at'[s] = "buckets" => i < idx'[s]) => Between(page'[s].buckets[i], InBucket(i), K)
          <5> SUFFICES ASSUME NEW i \in 1 .. Buckets, at'[s] = "buckets" => i < idx'[s]
                       PROVE  Between(page'[s].buckets[i], InBucket(i), K)
            OBVIOUS
          <5>1. i < k \/ i = k
            BY <3>1, MetricsAssumption
          <5>2. page'[s].buckets[i] = IF i = k THEN counts[k] ELSE page[s].buckets[i]
            BY <3>2, Zenon
          <5>3. i < k => i # k
            BY <3>1
          <5> QED BY <4>1, <4>2, <5>1, <5>2, <5>3, Zenon
        <4>4. at'[s] \notin {"count", "gauge"}
          BY <3>1
        <4> QED BY <2>2, <3>2, <4>1, <4>3, <4>4, Zenon DEF PageOff, Between
      <3> QED BY <3>3, <3>4
    <2>8. CASE RenderInf(s)
      <3>1. /\ at[s] = "inf" /\ at'[s] = "count" /\ page'[s] = [page[s] EXCEPT !.inf = count]
        BY <1>0, <2>8 DEF RenderInf, Proceed
      <3>2. /\ page'[s].responses = page[s].responses /\ page'[s].requests = page[s].requests
            /\ page'[s].unfinished = page[s].unfinished /\ page'[s].buckets = page[s].buckets
            /\ page[s].unfinished \in SUBSET Requests /\ page[s].inf \in Nat
            /\ page'[s].inf = count /\ page'[s].count = page[s].count
        BY <2>1, <3>1 DEF Page
      <3>3. count <= page[s].requests
        BY <1>0, <2>1, <2>11, <3>1 DEF PageBounded, Showing
      <3>4. PageBounded(s)'
        BY <2>1, <2>2, <3>1, <3>2, <3>3 DEF PageBounded, Showing
      <3>5. count <= count /\ at[s] \in Showing /\ at'[s] # "buckets" /\ at[s] # "buckets"
        BY <1>0, <3>1 DEF Showing
      <3>6. PageOff(s)'
        BY <2>1, <2>2, <2>12, <3>1, <3>2, <3>5, Zenon DEF PageOff, Between
      <3> QED BY <3>4, <3>6
    <2>9. CASE RenderCount(s)
      <3>1. /\ at[s] = "count" /\ at'[s] = "gauge" /\ page'[s] = [page[s] EXCEPT !.count = count]
        BY <1>0, <2>9 DEF RenderCount, Proceed
      <3>2. /\ page'[s].responses = page[s].responses /\ page'[s].requests = page[s].requests
            /\ page'[s].unfinished = page[s].unfinished /\ page'[s].buckets = page[s].buckets
            /\ page[s].unfinished \in SUBSET Requests /\ page[s].inf \in Nat
            /\ page'[s].inf = page[s].inf /\ page'[s].count = count
        BY <2>1, <3>1 DEF Page
      <3>3. count <= page[s].requests
        BY <1>0, <2>1, <2>11, <3>1 DEF PageBounded, Showing
      <3>4. PageBounded(s)'
        BY <2>1, <2>2, <3>1, <3>2, <3>3 DEF PageBounded, Showing
      <3>5. count <= count /\ at[s] \in Showing /\ at'[s] # "buckets" /\ at[s] # "buckets"
        BY <1>0, <3>1 DEF Showing
      <3>6. PageOff(s)'
        BY <2>1, <2>2, <2>12, <3>1, <3>2, <3>5, Zenon DEF PageOff, Between
      <3> QED BY <3>4, <3>6
    <2>10. CASE RenderGauge(s)
      <3>1. at'[s] = "idle" /\ page'[s] = BlankPage
        BY <1>0, <2>10 DEF RenderGauge, Proceed
      <3>2. /\ \A c \in Classes : page'[s].responses[c] = 0
            /\ page'[s].inf = 0 /\ page'[s].count = 0
        BY <3>1 DEF BlankPage
      <3> QED BY <2>1, <3>1, <3>2, NothingShown
    <2> QED BY <2>3, <2>4, <2>5, <2>6, <2>7, <2>8, <2>9, <2>10 DEF ScrapeStep
  <1> QED BY <1>2, <1>3 DEF Pages

\* Steps of scrapes, and of the breaker, count nothing.
LEMMA TallyUnmoved ==
    ASSUME Tally, UNCHANGED <<registry, request>>
    PROVE  Tally'
  <1>1. /\ Added' = Added /\ Responded' = Responded /\ Observed' = Observed
        /\ Latency' = Latency
    BY DEF request, Added, Responded, Observed, Latency, Over
  <1>2. \A c : RespondedIn(c)' = RespondedIn(c) /\ Rejected(c)' = Rejected(c)
    BY <1>1 DEF request, RespondedIn, Rejected
  <1>3. \A i : InBucket(i)' = InBucket(i)
    BY DEF request, InBucket, Passed, Over
  <1> QED BY <1>1, <1>2, <1>3 DEF Tally, registry

\* Tally and Pages hold however requests and scrapes interleave.
LEMMA PagesInvariance == Spec => [](Tally /\ Pages)
  <1>1. Init => Tally /\ Pages
    <2> SUFFICES ASSUME Init PROVE Tally /\ Pages
      OBVIOUS
    <2>1. /\ Added = {} /\ Responded = {} /\ Observed = {} /\ (\A c : RespondedIn(c) = {} /\ Rejected(c) = {})
          /\ (\A i : InBucket(i) = {}) /\ \A r \in Requests : Latency[r] = 0
      BY DEF Init, Added, Responded, Observed, RespondedIn, Rejected, InBucket, Passed, Over, Latency
    <2>2. SumFunctionOnSet(Latency, Requests) = 0
      BY <2>1, MetricsAssumption, SumZero, Zenon
    <2>3. \A c \in Classes : status_totals[c] = 0
      BY DEF Init
    <2>4. SumFunctionOnSet(status_totals, Classes) = 0
      BY <2>3, MetricsAssumption, SumZero, Zenon
    <2>5. Tally
      BY <2>1, <2>2, <2>4, FS_EmptySet, Zenon DEF Init, Tally
    <2>6. ASSUME NEW s \in Scrapers PROVE PageBounded(s) /\ PageOff(s)
      <3>1. /\ at[s] = "idle" /\ page[s].requests = 0
            /\ page[s].responses = [c \in Classes |-> 0] /\ page[s].inf = 0 /\ page[s].count = 0
        BY DEF Init, BlankPage
      <3>2. \A c \in Classes : page[s].responses[c] = 0
        BY <3>1
      <3>3. SumFunctionOnSet(page[s].responses, Classes) = 0
        BY <3>2, MetricsAssumption, SumZero, Zenon
      <3> QED BY <3>1, <3>2, <3>3 DEF PageBounded, PageOff, Showing
    <2> QED BY <2>5, <2>6 DEF Pages
  <1>2. IInv /\ IInv' /\ Tally /\ Pages /\ [Next]_vars => (Tally /\ Pages)'
    <2> SUFFICES ASSUME IInv, IInv', Tally, Pages, [Next]_vars PROVE Tally' /\ Pages'
      OBVIOUS
    <2>1. ASSUME NEW r \in Requests, RequestStep(r) PROVE Tally' /\ Pages'
      <3>1. Requesting
        BY DEF IInv
      <3>2. /\ \A c \in Rejections : per_prefix'[c] = Cardinality(Rejected(c)')
            /\ \A i \in 1 .. Buckets : counts'[i] = Cardinality(InBucket(i)')
        BY <2>1, <3>1, RejectionsCounted, BucketsCounted
      <3>3. Tally'
        BY <2>1, <3>1, <3>2, ClassesCounted, LatenciesAdded,
           RequestsCounted, ObservationsCounted, Zenon DEF Tally
      <3> QED BY <2>1, <3>3, PagesRequest
    <2>2. ASSUME NEW s \in Scrapers, ScrapeStep(s) PROVE Tally' /\ Pages'
      <3>1. UNCHANGED <<registry, request>>
        BY <2>2, ScrapeKeeps
      <3> QED BY <2>2, <3>1, TallyUnmoved, PagesScrape
    <2>3. CASE BreakerMoves \/ UNCHANGED vars
      <3>1. UNCHANGED <<registry, request, scrape>>
        BY <2>3, Zenon DEF BreakerMoves, vars
      <3>2. Pages'
        <4>1. ASSUME NEW t \in Scrapers PROVE PageBounded(t)' /\ PageOff(t)'
          BY <3>1, OtherPages DEF scrape
        <4> QED BY <4>1 DEF Pages
      <3> QED BY <3>1, <3>2, TallyUnmoved
    <2> QED BY <2>1, <2>2, <2>3, Zenon DEF Next, RequestStep, ScrapeStep
  <1> QED BY <1>1, <1>2, Invariance, PTL DEF Spec

\* finish counts a request in requests_total first and in status_totals under
\* its lock, and render loads them in that order with the lock held: no page
\* shows more responses, over all classes, than requests.
THEOREM ResponsesAreWithinRequests == Spec => []ResponsesWithinRequests
  <1>1. Pages => ResponsesWithinRequests
    BY DEF Pages, PageBounded, ResponsesWithinRequests
  <1> QED BY <1>1, PagesInvariance, PTL

\* render loads the count of the histogram last and the requests first, and
\* still no page shows more observations than requests, for any number of
\* requests that finish while it is rendered.
THEOREM ObservationsAreWithinRequests == Spec => []ObservationsWithinRequests
  <1>1. Pages => ObservationsWithinRequests
    BY DEF Pages, PageBounded, ObservationsWithinRequests
  <1> QED BY <1>1, PagesInvariance, PTL

\* A scrape publishes a histogram whose buckets are cumulative and end in the
\* count, up to the requests that it found in the middle of observe, for any
\* number of requests that finish meanwhile.
THEOREM HistogramIsOffByUnfinished == Spec => []HistogramOffByUnfinished
  <1>1. IInv /\ Pages => HistogramOffByUnfinished
    <2> SUFFICES ASSUME IInv, Pages, NEW s \in Scrapers, at[s] = "gauge"
                 PROVE  LET off == Cardinality(page[s].unfinished)
                        IN  /\ page[s].inf <= page[s].count /\ page[s].count <= page[s].inf + off
                            /\ \A i \in 1 .. Buckets : page[s].buckets[i] <= page[s].count + off
                            /\ \A i \in 1 .. Buckets - 1 :
                                 page[s].buckets[i] <= page[s].buckets[i + 1] + off
      BY DEF HistogramOffByUnfinished
    <2> DEFINE K == page[s].unfinished
               off == Cardinality(K)
               Base(i) == InBucket(i) \ K
               All == Observed \ K
    <2>1. /\ K \in SUBSET Requests /\ page[s].inf \in Nat /\ page[s].count \in Nat
          /\ page[s].buckets \in [1 .. Buckets -> Nat]
      <3>1. page[s] \in Page
        BY DEF IInv, Requesting, Types
      <3> QED BY <3>1 DEF Page
    <2>2. /\ \A r \in Requests \ K : pc[r] \notin {"observe", "count"}
          /\ \A i \in 1 .. Buckets : Between(page[s].buckets[i], InBucket(i), K)
          /\ Between(page[s].inf, Observed, K) /\ Between(page[s].count, Observed, K)
          /\ page[s].inf <= page[s].count
      BY DEF Pages, PageOff, Showing
    <2> HIDE DEF K
    <2>3. /\ off \in Nat /\ IsFiniteSet(All) /\ Cardinality(All) \in Nat
          /\ \A i : IsFiniteSet(Base(i)) /\ Cardinality(Base(i)) \in Nat
      <3>1. All \subseteq Requests /\ \A i : Base(i) \subseteq Requests
        BY DEF Observed, InBucket
      <3>2. IsFiniteSet(Requests) /\ K \subseteq Requests
        BY <2>1, MetricsAssumption, Zenon
      <3> HIDE DEF All, Base
      <3>3. IsFiniteSet(K) /\ IsFiniteSet(All) /\ \A i : IsFiniteSet(Base(i))
        BY <3>1, <3>2, FS_Subset, Zenon
      <3> QED BY <3>3, FS_CardinalityType, Zenon
    <2>4. ASSUME NEW i \in 1 .. Buckets PROVE Cardinality(Base(i)) <= Cardinality(All)
      <3>1. Base(i) \subseteq All
        BY <2>2 DEF InBucket, Passed, Observed
      <3> QED BY <2>3, <3>1, FS_Subset
    <2>5. ASSUME NEW i \in 1 .. Buckets - 1
          PROVE  /\ i \in 1 .. Buckets /\ i + 1 \in 1 .. Buckets
                 /\ Cardinality(Base(i)) <= Cardinality(Base(i + 1))
      <3>1. i \in 1 .. Buckets /\ i + 1 \in 1 .. Buckets
        BY MetricsAssumption
      <3>2. ASSUME NEW r \in Requests \ K, Passed(r, i), job[r][2] <= i
            PROVE  Passed(r, i + 1) /\ job[r][2] <= i + 1
        <4>1. pc[r] = "sum" \/ Over(r)
          BY <2>2, <3>2 DEF Passed
        <4>2. job[r] \in Finished
          BY <4>1 DEF Over, IInv, Requesting, JobsMatch
        <4>3. job[r][2] \in Nat
          BY <4>2, MetricsAssumption DEF Finished
        <4> QED BY <3>2, <4>1, <4>3 DEF Passed
      <3>3. Base(i) \subseteq Base(i + 1)
        BY <3>2 DEF InBucket
      <3> QED BY <2>3, <3>1, <3>3, FS_Subset
    <2>6. /\ Cardinality(All) <= page[s].inf /\ page[s].inf <= Cardinality(All) + off
          /\ Cardinality(All) <= page[s].count /\ page[s].count <= Cardinality(All) + off
          /\ \A i \in 1 .. Buckets : /\ Cardinality(Base(i)) <= page[s].buckets[i]
                                     /\ page[s].buckets[i] <= Cardinality(Base(i)) + off
      BY <2>2, Zenon DEF Between
    <2> HIDE DEF All, Base, off
    <2>7. ASSUME NEW i \in 1 .. Buckets PROVE page[s].buckets[i] <= page[s].count + off
      <3>1. /\ page[s].buckets[i] \in Nat /\ Cardinality(Base(i)) \in Nat
            /\ Cardinality(Base(i)) <= Cardinality(All)
            /\ page[s].buckets[i] <= Cardinality(Base(i)) + off
        BY <2>1, <2>3, <2>4, <2>6, Zenon
      <3> QED BY <2>1, <2>3, <2>6, <3>1
    <2>8. ASSUME NEW i \in 1 .. Buckets - 1
          PROVE  page[s].buckets[i] <= page[s].buckets[i + 1] + off
      <3>1. i \in 1 .. Buckets /\ i + 1 \in 1 .. Buckets
        BY <2>5
      <3>2. /\ page[s].buckets[i] \in Nat /\ page[s].buckets[i + 1] \in Nat
            /\ Cardinality(Base(i)) \in Nat /\ Cardinality(Base(i + 1)) \in Nat
            /\ Cardinality(Base(i)) <= Cardinality(Base(i + 1))
            /\ page[s].buckets[i] <= Cardinality(Base(i)) + off
            /\ Cardinality(Base(i + 1)) <= page[s].buckets[i + 1]
        BY <2>1, <2>3, <2>5, <2>6, <3>1, Zenon
      <3> QED BY <2>3, <3>2
    <2>9. page[s].count <= page[s].inf + off
      BY <2>1, <2>3, <2>6
    <2> QED BY <2>2, <2>7, <2>8, <2>9 DEF off, K
  <1> QED BY <1>1, Invariance, PagesInvariance, PTL

\* A request has no job before its first lock.
Jobless == \A r \in Requests : pc[r] = "new" => job[r] = None

\* Jobless holds: jobs are given with the first lock.
LEMMA JoblessInvariance == Spec => []Jobless
  <1>1. Init => Jobless
    BY DEF Init, Jobless
  <1>2. IInv /\ Jobless /\ [Next]_vars => Jobless'
    <2> SUFFICES ASSUME IInv, Jobless, [Next]_vars PROVE Jobless'
      OBVIOUS
    <2>1. ASSUME NEW r \in Requests, RequestStep(r) PROVE Jobless'
      <3>1. OthersStay(r)
        BY <2>1, Seen DEF IInv
      <3>2. pc'[r] # "new"
        BY <2>1, Zenon DEF IInv, Requesting, Types, RequestStep, Go,
                    CountersFor, Add, AddStatus, LatencyFor, Observe, ObserveCount, ObserveSum
      <3> QED BY <3>1, <3>2 DEF OthersStay, Jobless
    <2>2. ASSUME UNCHANGED request PROVE Jobless'
      BY <2>2 DEF request, Jobless
    <2>3. (\E s \in Scrapers : ScrapeStep(s)) \/ BreakerMoves \/ UNCHANGED vars => UNCHANGED request
      BY ScrapeKeeps, Zenon DEF BreakerMoves, vars
    <2> QED BY <2>1, <2>2, <2>3, Zenon DEF Next, RequestStep, ScrapeStep
  <1> QED BY <1>1, <1>2, Invariance, PTL DEF Spec

\* Once no request is being accounted for, each finished request has been
\* counted exactly once in every family, and each rejection exactly once in its
\* own: for any number of requests, whatever their order in the atomics.
THEOREM RegistrySettles == Spec => []Settled
  <1>1. IInv /\ Tally /\ Jobless => Settled
    <2> DEFINE finished == {r \in Requests : pc[r] = "done" /\ job[r][1] \in Classes}
    <2> SUFFICES ASSUME IInv, Tally, Jobless, \A r \in Requests : pc[r] \in {"new", "done"}
                 PROVE  /\ per_prefix["requests_total"] = Cardinality(finished)
                        /\ \A c \in Rejections :
                             per_prefix[c] = Cardinality({r \in Requests : job[r] = <<c, 0>>})
                        /\ \A c \in Classes :
                             status_totals[c] = Cardinality({r \in finished : job[r][1] = c})
                        /\ \A i \in 1 .. Buckets :
                             counts[i] = Cardinality({r \in finished : job[r][2] <= i})
                        /\ count = Cardinality(finished)
                        /\ sum = SumFunctionOnSet([r \in finished |-> job[r][2]], finished)
      BY Zenon DEF Settled
    <2>1. \A r \in Requests : /\ pc[r] = "done" => job[r] \in Jobs
                              /\ pc[r] \in {"new", "done"}
      BY DEF IInv, Requesting, JobsMatch
    <2>2. \A r \in Requests : pc[r] = "done" => (job[r] \in Finished <=> job[r][1] \in Classes)
      BY <2>1, JobKinds, MetricsAssumption DEF Rejections
    <2>3. finished = {r \in Requests : Over(r)}
      BY <2>2 DEF Over
    <2>4. Added = finished /\ Observed = finished /\ Responded = finished
      BY <2>1, <2>3 DEF Added, Observed, Responded
    <2>5. per_prefix["requests_total"] = Cardinality(finished) /\ count = Cardinality(finished)
      BY <2>4 DEF Tally
    <2>6. ASSUME NEW c \in Rejections
          PROVE  per_prefix[c] = Cardinality({r \in Requests : job[r] = <<c, 0>>})
      <3>1. <<c, 0>> \in Jobs
        BY DEF Jobs
      <3>2. Rejected(c) = {r \in Requests : job[r] = <<c, 0>>}
        BY <2>1, <3>1, MetricsAssumption DEF Rejected, Jobless
      <3> QED BY <3>2 DEF Tally
    <2>7. ASSUME NEW c \in Classes
          PROVE  status_totals[c] = Cardinality({r \in finished : job[r][1] = c})
      BY <2>4 DEF Tally, RespondedIn
    <2>8. ASSUME NEW i \in 1 .. Buckets
          PROVE  counts[i] = Cardinality({r \in finished : job[r][2] <= i})
      <3>1. InBucket(i) = {r \in finished : job[r][2] <= i}
        BY <2>1, <2>3 DEF InBucket, Passed
      <3> QED BY <3>1 DEF Tally
    <2>9. sum = SumFunctionOnSet([r \in finished |-> job[r][2]], finished)
      <3> DEFINE f == [r \in finished |-> job[r][2]]
      <3>1. /\ finished \in SUBSET Requests
            /\ \A r \in Requests \ finished : Latency[r] = 0
            /\ \A r \in finished : Latency[r] = f[r]
        BY <2>3 DEF Latency
      <3>2. IsFiniteSet(finished)
        BY MetricsAssumption, FS_Subset
      <3> HIDE DEF f, finished
      <3>3. SumFunctionOnSet(Latency, Requests) = SumFunctionOnSet(Latency, finished)
        BY <3>1, LatencyTyped, MetricsAssumption, SumSupport
      <3>4. SumFunctionOnSet(Latency, finished) = SumFunctionOnSet(f, finished)
        BY <3>1, <3>2, SumSame, Zenon
      <3>5. sum = SumFunctionOnSet(f, finished)
        BY <3>3, <3>4 DEF Tally
      <3> QED BY <3>5 DEF f
    <2> QED BY <2>5, <2>6, <2>7, <2>8, <2>9, Zenon
  <1> QED BY <1>1, Invariance, PagesInvariance, JoblessInvariance, PTL

-------------------------------------------------------------------------------
(***************************************************************************)
(* The gauge.                                                              *)
(***************************************************************************)
\* What is read and not yet published is known to every scrape that runs, and so
\* is the gauge to a scrape that has published.
Known ==
    \A s \in Scrapers : at[s] # "idle" =>
        /\ \A t \in Scrapers : at[t] = "publish" => page[t].published \in page[s].recent
        /\ at[s] = "publish" \/ breaker_state \in page[s].recent

\* Past its snapshot a scrape changes nothing of the others, and keeps what its
\* page knows of the gauge.
LEMMA ScrapeGoesOn ==
    ASSUME IInv, NEW s \in Scrapers, ScrapeStep(s), ~Snapshot(s)
    PROVE  /\ at[s] # "idle" /\ at'[s] # "publish"
           /\ \A t \in Scrapers \ {s} : at'[t] = at[t] /\ page'[t] = page[t]
           /\ at'[s] = "idle" \/ page'[s].recent = page[s].recent
           /\ IF at[s] = "publish" THEN breaker_state' = page[s].published
                                   ELSE UNCHANGED breaker_state
  <1> USE DEF Proceed
  <1>0. at \in [Scrapers -> {"idle", "publish", "lock"} \cup Rendering] /\ page \in [Scrapers -> Page]
    BY DEF IInv, Requesting, Types
  <1>1. \A t \in Scrapers \ {s} : at'[t] = at[t] /\ page'[t] = page[t]
    BY Zenon, <1>0 DEF ScrapeStep, Publish, Lock, RenderTotals, RenderStatus, RenderBucket,
                       RenderInf, RenderCount, RenderGauge
  <1>2. at[s] # "idle" /\ at'[s] # "publish"
    BY <1>0 DEF ScrapeStep, Publish, Lock, RenderTotals, RenderStatus, RenderBucket,
                RenderInf, RenderCount, RenderGauge
  <1>3. IF at[s] = "publish" THEN breaker_state' = page[s].published ELSE UNCHANGED breaker_state
    BY <1>0 DEF ScrapeStep, Publish, Lock, RenderTotals, RenderStatus, RenderBucket,
                RenderInf, RenderCount, RenderGauge
  <1>4. CASE Lock(s)
    BY <1>1, <1>2, <1>3, <1>4, Zenon DEF Lock
  <1>5. CASE RenderGauge(s)
    <2>1. at'[s] = "idle"
      BY <1>0, <1>5 DEF RenderGauge
    <2> QED BY <1>1, <1>2, <1>3, <2>1, Zenon
  <1>6. CASE \/ Publish(s) \/ RenderTotals(s) \/ RenderStatus(s)
             \/ RenderBucket(s) \/ RenderInf(s) \/ RenderCount(s)
    <2>1. page'[s].recent = page[s].recent
      BY <1>0, <1>6 DEF Page, Publish, RenderTotals, RenderStatus, RenderBucket, RenderInf, RenderCount
    <2> QED BY <1>1, <1>2, <1>3, <2>1, Zenon
  <1> QED BY <1>4, <1>5, <1>6, Zenon DEF ScrapeStep

\* A scrape that starts knows what is on its way to the gauge, and those that run
\* know what it has read.
LEMMA ScrapeStarts ==
    ASSUME IInv, NEW s \in Scrapers, Snapshot(s)
    PROVE  /\ at'[s] = "publish" /\ UNCHANGED breaker_state
           /\ page'[s].published = breaker /\ page'[s].recent = {breaker} \cup Publishing
           /\ \A t \in Scrapers \ {s} :
                /\ at'[t] = at[t] /\ page'[t].published = page[t].published
                /\ at[t] # "idle" => page'[t].recent = page[t].recent \cup {breaker}
  <1>0. at \in [Scrapers -> {"idle", "publish", "lock"} \cup Rendering] /\ page \in [Scrapers -> Page]
    BY DEF IInv, Requesting, Types
  <1>1. /\ at'[s] = "publish" /\ UNCHANGED breaker_state
        /\ \A t \in Scrapers \ {s} : at'[t] = at[t]
    BY <1>0, Zenon DEF Snapshot, Proceed
  <1>2. page'[s].published = breaker /\ page'[s].recent = {breaker} \cup Publishing
    <2>1. page'[s] = [[BlankPage EXCEPT !.published = breaker]
                         EXCEPT !.recent = {breaker} \cup Publishing]
      BY Zenon DEF Snapshot
    <2> QED BY <2>1 DEF BlankPage
  <1>3. ASSUME NEW t \in Scrapers \ {s}
        PROVE  /\ page'[t].published = page[t].published
               /\ at[t] # "idle" => page'[t].recent = page[t].recent \cup {breaker}
    <2>1. page[t] \in Page
      BY <1>0
    <2>2. CASE at[t] # "idle"
      <3>1. page'[t] = [page[t] EXCEPT !.recent = page[t].recent \cup {breaker}]
        BY <2>2, Zenon DEF Snapshot
      <3> QED BY <2>1, <3>1 DEF Page
    <2>3. CASE at[t] = "idle"
      BY <2>3, Zenon DEF Snapshot
    <2> QED BY <2>2, <2>3
  <1> QED BY <1>1, <1>2, <1>3, Zenon

\* Known holds: the gauge is set by scrapes only.
LEMMA KnownInvariance == Spec => []Known
  <1>1. Init => Known
    BY DEF Init, Known
  <1>2. IInv /\ Known /\ [Next]_vars => Known'
    <2> SUFFICES ASSUME IInv, Known, [Next]_vars PROVE Known'
      OBVIOUS
    <2>1. ASSUME NEW s \in Scrapers, Snapshot(s) PROVE Known'
      <3>1. /\ at'[s] = "publish" /\ UNCHANGED breaker_state
            /\ page'[s].published = breaker /\ page'[s].recent = {breaker} \cup Publishing
            /\ \A t \in Scrapers \ {s} :
                 /\ at'[t] = at[t] /\ page'[t].published = page[t].published
                 /\ at[t] # "idle" => page'[t].recent = page[t].recent \cup {breaker}
        BY <2>1, ScrapeStarts
      <3>2. \A t \in Scrapers : at[t] = "publish" => page[t].published \in Publishing
        BY Zenon DEF Publishing
      <3> SUFFICES ASSUME NEW u \in Scrapers, at'[u] # "idle"
                   PROVE  /\ \A t \in Scrapers : at'[t] = "publish" => page'[t].published \in page'[u].recent
                          /\ at'[u] = "publish" \/ breaker_state' \in page'[u].recent
        BY DEF Known
      <3>3. CASE u = s
        BY <3>1, <3>2, <3>3
      <3>4. CASE u # s
        BY <3>1, <3>4 DEF Known
      <3> QED BY <3>3, <3>4
    <2>2. ASSUME NEW s \in Scrapers, ScrapeStep(s), ~Snapshot(s) PROVE Known'
      <3>1. /\ at[s] # "idle" /\ at'[s] # "publish"
            /\ \A t \in Scrapers \ {s} : at'[t] = at[t] /\ page'[t] = page[t]
            /\ at'[s] = "idle" \/ page'[s].recent = page[s].recent
            /\ IF at[s] = "publish" THEN breaker_state' = page[s].published
                                    ELSE UNCHANGED breaker_state
        BY <2>2, ScrapeGoesOn
      <3> QED BY <3>1 DEF Known
    <2>3. ASSUME UNCHANGED <<scrape, breaker_state>> PROVE Known'
      BY <2>3 DEF scrape, Known
    <2>4. (\E r \in Requests : RequestStep(r)) \/ BreakerMoves \/ UNCHANGED vars
            => UNCHANGED <<scrape, breaker_state>>
      BY Zenon DEF BreakerMoves, vars, RequestStep, CountersFor, Add, AddStatus, LatencyFor,
                   Observe, ObserveCount, ObserveSum
    <2> QED BY <2>1, <2>2, <2>3, <2>4, Zenon DEF Next, RequestStep, ScrapeStep
  <1> QED BY <1>1, <1>2, Invariance, PTL DEF Spec

\* The gauge that render shows was read by this very scrape or by one that ran
\* beside it, for any number of scrapes: only what had not been published when
\* this one began, or was read later, can overwrite what it has set.
THEOREM GaugeIsAlwaysRecent == Spec => []GaugeIsRecent
  <1>1. Known => GaugeIsRecent
    BY DEF Known, GaugeIsRecent
  <1> QED BY <1>1, KnownInvariance, PTL

==============================================================================
