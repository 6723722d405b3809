# Verification of the ratewall gateway

TLA+ models of the ratewall reverse proxy, TLC runs that check them on small
instances, and TLAPS proofs of the main safety properties for every value of
the constants. Source paths are relative to the repository root.

## 1. The system

A client request passes `request-id` middleware → bearer gate (fail-closed) →
rate limiter (Redis, fail-open) → circuit breaker of the route → backend call.
Handlers are async tasks: many run at once, each can be suspended at an `await`,
and each can be *dropped* there when its client disconnects.

| Component | State | Operations | Meets | Hard behaviours |
|---|---|---|---|---|
| Circuit breaker (`core/src/circuit.rs`) | per prefix: state, failure streak, opening time, under one mutex | `try_admit`, `record`, `open`, `states` | `forward`, `readyz`, `/metrics` | late outcomes; a probe that never reports; time between admission and report |
| Forwarding (`router.rs`, `forward`) | local to a handler; three awaits | admit, buffer body, send, record, read body, finish | breaker, metrics, backend, client | stale admission; slow or broken bodies; timeout; disconnects |
| Rate limiter (`ratelimit.rs`) | counters in Redis: `INCR` + `EXPIRE` per key and window | `decide`, `ping` | `proxy_fallback`, `readyz`, all replicas | stamp before await; lost replies; restarts; clock skew; silence |
| Metrics (`metrics.rs`) | atomics in four mutex-guarded maps | `finish`, `observe`, `inc_*`, `set_breaker_state`, `render` | `forward`, `metrics_endpoint` | torn reads; lock order; concurrent scrapes |
| Keys and tokens (`auth.rs`, `auth_login.rs`) | two PEM files; a key in memory | `load_or_create_signing_key`, `issue_token`, `verify_token`, `login` | `main`, bearer gate | crash in the middle of a first boot; two first boots |
| Bearer gate, middleware (`middleware_auth.rs`, `middleware.rs`) | the span of a request | `check_bearer`, `record_subject`, `request_id_and_trace` | `proxy_fallback`, `login` | a token that expires while its request waits; a completion line lost with its client |
| Readiness (`readyz`, `k8s/30-gateway.yaml`) | none in the process; probe failures and endpoints in the cluster | read breakers one by one, await PING, answer | breakers, limiter, kubelet, Service | stale reading; a PING that hangs; traffic that depends on the answer |
| Configuration (`config.rs`) | none | `from_toml`, `validate` | `main` | two sets of defaults; boundaries |
| Bootstrap (`gateway/src/main.rs`) | none | load, validate, wire, refuse to start | all | every error path |
| Mock backends | none | echo | gateway | – |

Properties looked for: a breaker that fails fast must have a reason and an end;
one backend must not affect another; the cap holds in spite of what happens to
calls in flight, and nobody is refused wrongly; a page of metrics is coherent;
issued tokens survive restarts; only genuine tokens reach a backend, nobody pays
for others and the audit adds up; readiness does not lie and comes back.

## 2. Modules

| Module | Models | Used by |
|---|---|---|
| `Circuit` | `circuit.rs`: each method as a function on the mutex-guarded record | `Forward`, `Readiness` |
| `Forward` | concurrent runs of `forward` over the breakers and its counters | `MCForward` |
| `BreakerContract` | abstract specification: what ADR-0006 promises of one circuit per backend | refinement in `Forward` |
| `RateLimiter` | `decide`, all replicas, one Redis | `MCRateLimiter` |
| `Metrics` | the registry for one prefix, and scrapes | `MCMetrics` |
| `Token` | `issue_token`, `verify_token`, `bearer_token`, `check_bearer` as operators | `KeyStore`, `Gateway` |
| `KeyStore` | the key files, boots, crashes, tokens | run as it is |
| `Config` | `from_toml`, `validate`, the route table, prefixes of paths, as operators | `Gateway` |
| `Gateway` | `main` and `proxy_fallback`: the composition of all parts | `MCGateway` |
| `Readiness` | `readyz`, the readiness probe, the Service | run as it is |
| `*Proofs` | theorems about the module of that name | – |
| `CounterLemmas` | lemmas on sums over finite sets and on counters that wrap | the proofs of `Forward`, `Metrics`, `Gateway` |
| `GatewaySteps` | the inductive invariant of `Gateway`, the lemmas on the steps of main, login and the gate, which `GatewayProofs` extends, and the theorems about the start | – |

The `MC*` modules add symmetry sets, and `MCGateway` the files, paths and tokens
of its instance. Operators introduced by "Mutant:" are deliberate faults: each
property has one that violates it.

### Circuit and Forward

`breakers[p]` is `Inner`. `opened_at` holds the time *elapsed*, saturating at
`Cooldown`, since the code only asks `elapsed() >= cooldown`. A request slot is
at one of the awaits: `buffering` (`to_bytes`), `sent` (`send`), `reading`
(`bytes`). One action covers all the code up to the next await: `Call` and
`ShortCircuit` (`try_admit`), `Send`, `BodyFails` (400, no record), `SendFails`
(record(false), finish, 502), `Answered` (record(true)), `Respond` (finish),
and `Disconnect` (the future is dropped). `Tick` ages everything; the reqwest
timeout bounds `sent` plus `reading`, nothing bounds `buffering`. `probe`,
`probes`, `recorded`, `left` are history: no guard reads them.
Header copying, URLs and statuses beyond their class are abstracted away.

### RateLimiter

A call is `new → pool → sending → executed → done`; `Decide` stamps the window
before anything is awaited. `FailOpen` is any error, `Drop` a disconnect; a
pipeline on its way is then an `orphan` that Redis may still execute. Redis
(`Exec`, `Restart`, expiry in `Tick`) is external, modelled from the commands
the code sends. Each call happens once, so the calls themselves are the
history that properties quantify over. `CapPerWindow` counts every call with one
stamp, whenever Redis executes it: a call may be stamped and reach Redis windows
later, or be stamped by a replica whose clock is ahead. Only keys whose counter a
restart has `wiped` are left out.

### Metrics

Every atomic load and addition is a step of its own; the momentary locks of
`finish` are guards, the four locks of `render` are held step by step. Bucket
bounds are indices. `finish(None)` is not called outside of tests and left out.
Relaxed ordering: on x86-64 the interleaving is exact; on weaker machines the
two page properties still hold, because they follow from the mutexes.
`unfinished` and `recent` are history of a page: the requests found in the middle
of `observe` when the locks were taken, and the breaker states that this scrape
or one beside it has read.

### KeyStore

`std::fs::write` is two steps, truncate and write. Process exit on a failed
write is a `Crash` at that point. Tokens are those of `Token`. `raced` is
history: two processes were creating a key at the same time.

### Token and Config

A token is what `verify_token` takes it apart into: shape, algorithm, signer,
claims. The checks come in the order of the code, and `exp` is a `u64` that
saturates at `U64Max`. Base64 and signatures are abstracted to "whose signature
is it". A configuration file is a record whose sections and keys may be
`Absent`; `Checks` lists what `validate` looks at, in its order. Prefixes, paths
and URLs are sequences, because the rules that split them are what the
properties are about. TOML syntax is one bit, and the port is left out: any
`u16` validates.

### Gateway

`phase` is the place in `main`; `LoadConfig`, `LoadKeys` and `Wire` have every
exit. A request is at one of two awaits: `deciding` (the limiter) or
`forwarding`. The inside of both is in `RateLimiter` and `Forward`; here `decide`
counts a key within one window or fails open, and `forward` answers at once or is
at the backend. `Disconnect` drops the handler with its middleware, and Redis may
count the request all the same. `arrived`, `verified`, `logins`, `refused` and
`left` are history.

### Readiness

`readyz` takes one step per breaker, because `Breakers::states` takes one mutex
after the other, and one for the PING. `ProbeResult` is the kubelet with the
`failureThreshold` of the manifest; a PING that hangs ends with the probe's
timeout. `Gated` says whether requests come through the Service or reach the
process directly. `stale` is history: routes Open ever since the call began.

## 3. Runs

Passing runs:

| Run | Bounds | Shows |
|---|---|---|
| `forward_safety` | 2 routes, 3 slots, threshold 2, cooldown 3, timeout 1 | `BreakersConsistent`, `ProbeAccounted`, `OlderThanOpening`, `OneProbeIfPrompt`, `ProbeDecidesIfPrompt`; `KeepsContract`: `Forward` implements `BreakerContract` |
| `forward_liveness` | 1 route, 2 slots, 2/2/1, 2 classes, counters wrap after 2 | `Recovers`, `OutcomesCounted` |
| `limiter_safety` | 3 calls, 1 key, limit 1, window 2, 6 instants, skew 0–1, 1 restart | `CapPerWindow`, `LimitIsEarned`, `OverForAWindow` |
| `metrics_safety` | 2 requests, 2 scrapes, 2 finite buckets, 1 class | `ResponsesWithinRequests`, `ObservationsWithinRequests`, `ScrapesNeverDeadlock`, `Settled`, `HistogramOffByUnfinished`, `GaugeIsRecent` |
| `keystore` | 2 processes, 4 keys, 2 crashes, ttl 2, `U64Max` 3 | `TokensSurviveRestarts`, `PublicFileNeverLies`, `KeyNeverOverwritten`, `EventuallyServing` |
| `readiness` | 1 pod, 2 routes, threshold 2, cooldown 2, 2 failed probes, not gated | `ReadyzHasSeenIt`, `RedisOutageIsSeen`, `ReadinessRecovers` |
| `gateway` | 91 files, 2 clients, 3 requests, 4 paths, 3 instants, good tokens and one bad per check | `OnlyGenuineReachBackends`, `LoginTokensOpenTheGate`, `NobodyPaysForOthers`, `AuditAddsUp`, `RefusedForWhatIsWritten`, `ServingIsUsable`, `RejectionsLandOnTheRoute` |

Why the bounds are enough: three slots are a probe, a straggler and a third
request that opens the breaker or probes next; cooldown 3 and timeout 1 leave
room for bodies on both sides of `cooldown - timeout`; two routes show
independence. In `forward_liveness` counters wrap within reach, and two slots
are a probe and a straggler. With
limit 1, three calls exceed the cap and then come after it, and six instants
are three windows. Four keys are one for each boot that two processes and two
crashes allow, and with `U64Max` 3 expiries saturate. Pods share no breakers, so
one pod is enough for `readiness`; two routes are one read before and one after a
breaker moves. In `gateway` three requests exceed a limit of one while another
subject waits. In the other `Forward` runs `CounterMax = 0` keeps the counters
out of the state space. `Forward`'s runs check for deadlock. `RateLimiter`,
`KeyStore` and `Gateway` may stop when their bounds are reached, `Gateway` also when it refuses to start. In `Metrics` the
breaker can always move, so deadlock is stated as an invariant.

Runs that find a claim violated:

| Run | Claim | What happens |
|---|---|---|
| `forward_one_probe` | `circuit.rs:23` "Only one probe is ever in flight" | a straggler re-opens the breaker under a slow probe, a second probe follows |
| `forward_probe_resolves` | `README.md:58` "one probe request decides" | the probe's body breaks or its client leaves: HalfOpen for ever |
| `limiter_decides` | ADR-0005 "timeout … the request passes" | no timeout: a silent Redis holds the call |
| `readiness_gated` | ADR-0006:49 "restart CRM → probe closes the circuit → 200s resume" | behind the Service a pod with an Open circuit is not ready, gets no request, and so never probes |
| `gateway_starts` | ADR-0004:33 "`issuer` + `issuer_public_key_pem` → external mode", set up that way in `README.md:189`; ADR-0003:24 exits on a "backend that is not an absolute http(s) URL" | `validate` also wants `keys_dir` there and refuses the documented example; `https://` and `http:///` are accepted and trimmed to `https:` and `http:` |

For each refuted claim about probes the passing run has the version that does
hold: it needs bodies delivered in less than `cooldown - timeout`. `ReadinessRecovers` is
what holds of readiness when requests reach pods that are not ready.
`gateway_starts` stops at the first of its two counterexamples; without the files
of that kind it finds the other. `RefusedForWhatIsWritten` says that these two
are all: what is refused otherwise is forbidden by the documents, and what is
accepted otherwise is allowed by them. `Wrong`, `AbsoluteUrl` and the like are
written down from the documents and share no operator with `validate`.
`ServingIsUsable` accordingly says nothing of backends without a host. Of routes
it says that an endpoint takes at most one path of a prefix, `/healthz` or
`/auth/login`, and that all others lead to the prefix.

Seen while modelling, and not worth a run: `Retry-After` is always the whole
window (`ratelimit.rs:102`), where ADR-0005 says "the seconds remaining in the
window"; a request admitted while Closed may be *sent* while the breaker is
open (`router.rs:288`), where `README.md:57` says the backend "isn't contacted
at all"; the Redis key has no prefix part (`ratelimit.rs:84`), where ADR-0005
has `rl:{sub|ip}:{prefix}:{window}`; a response body that times out stays a
success (`router.rs:310`, `329`), where `config.rs:80` says "A timeout is a
transport failure"; the Open arm of `record` is reached by a second failure
admitted while Closed (`circuit.rs:164` calls it unreachable); a call delayed
before Redis counts in a past window, so more than "2× limit" can pass
(`ratelimit.rs:15`); a scrape during an `observe` may show a bucket above the
count (`metrics.rs:381`), and the gauge of another scrape
(`metrics_flow.rs:304`): the passing run has how far off both may be;
429 labels come from the raw path, where `metrics.rs:12` says "not the raw
URL", and a 429 for the bare `/crm` is counted under the empty prefix
(`router.rs:201`), where the comment at 192 has it derived "the same way the
fallback does": `RejectionsLandOnTheRoute` is about `/{prefix}/*`; a HalfOpen breaker counts as ready (`router.rs:149`), where ADR-0007 says
"every circuit breaker is closed"; a prefix `healthz` validates and is shadowed by the endpoint at that very path;
requests without a subject share the key `unkeyed` (`router.rs:189`), where
`main.rs:212` speaks of the client IP - with the gate always on there are none.

### Fairness

- `ServerFairness`: reqwest calls end, at the latest by their timeout, and so do
  response bodies; time passes.
- `ClientFairness`: a body is eventually complete or broken, and requests for a
  prefix keep coming (strong fairness, since a free slot is an artefact of the
  model). The code enforces neither; `Recovers` is a statement about a gateway
  with traffic, and takes as a premise that no probe is lost.
- `RateLimiter!FairSpec`: clocks run and a reply that has arrived is handled.
  Nothing is assumed of Redis, which is the point of `limiter_decides`.
- `KeyStore!FairSpec`: a process that is down is started again by whatever
  supervises it, and a boot goes on.
- `Readiness!FairSpec`: time passes, the kubelet polls, calls end (reqwest's
  timeout), and clients keep trying every route of a pod they can reach. The
  last is strong fairness, an assumption on traffic and not on the code; gated,
  it says nothing of a pod that is not ready, which is what `readiness_gated`
  shows.

## 4. Proofs

Every invariant and action property that a passing run checks, and the
refinement, is also a theorem `Spec => ...` for every value of the constants.

`ForwardProofs` proves, for any prefixes, any finite number of requests and
classes, any width of the counters and any positive threshold, cooldown and
timeout (the named assumptions of `Circuit` and `Forward`):

- `TypeCorrect`: `Spec => []TypeOK`;
- `Invariance`: the inductive invariant `IInv`, from which
  `BreakersAlwaysConsistent`, `ProbeAlwaysAccounted`, `StragglersAreOld` and
  `AtMostOnePromptProbe` follow;
- `PromptProbeDecides`: the action property `ProbeDecidesIfPrompt`;
- `ForwardKeepsContract`: the refinement `KeepsContract`;
- `OutcomesAreCounted`: `OutcomesCounted`, which is inductive given `TypeOK`. A
  wrapped counter is one more modulo its width (`IncWraps`), a class that wraps
  takes a full turn off the sum (`FullTurn`), and whoever reads a response is
  the one outcome that is reported and not yet counted (`ReadersMove`).

`IInv` joins the safety invariants with `ProbesInFlight` (whoever was admitted
as a probe is in flight until it leaves `probes`). They need each other: that a
second probe implies an old first one follows from `OlderThanOpening`; that
follows from the shape of the breaker record (`BreakersConsistent`) and from
knowing whom the breaker is waiting for (`ProbeAccounted`). Lemmas
(`BreakerTyping`, `BreakerConsistency`, `ProbeWaited`, `AgedByTick`, ...) state
what the `Circuit` operators preserve; one lemma per kind of step
(`CallStep`, `RecordStep`, `AbandonStep`, `TickStep`) carries the invariant.

The other proof modules, each with the inductive invariant it needs:

| Module | Theorems | Inductive invariant |
|---|---|---|
| `ReadinessProofs` | `ReadinessTypeCorrect`, `ReadyzNeverLies` | `SeenSoFar`: while `ready` is still true, no breaker read so far is `stale` |
| `KeyStoreProofs` | `TypeCorrect`, `TokensAlwaysSurvive`, `PublicFileIsRight`, `KeyIsKept` | `OneKey`: without a race, files, processes and tokens know one key only |
| `RateLimiterProofs` | `LimiterTypeCorrect`, `LimitIsAlwaysEarned`, `CapIsKept`, `OverForTheWindow` | `Earned`, `Lives`, `Distinct`: a counter is at most the number of counted calls, lives for a window after every hit, and gave calls less than a window apart different numbers |
| `MetricsProofs` | `MetricsTypeCorrect`, `NoDeadlock`, `ResponsesAreWithinRequests`, `ObservationsAreWithinRequests`, `HistogramIsOffByUnfinished`, `RegistrySettles`, `GaugeIsAlwaysRecent` | `LocksInOrder`: a scrape holds a prefix of the lock order; `Tally`: each counter is the size of the set of requests that have passed it; `Pages`: what a page shows is bounded by who had passed when its locks were taken; `Jobless`; `Known`: what scrapes are about to publish, and the gauge once a scrape has published, is `recent` to every scrape that runs |
| `GatewaySteps`, `GatewayProofs` | `BackendsAreGuarded`, `BudgetsAreApart`, `AuditAlwaysAddsUp`, `LoginsAreGood`, `GatewayTypeCorrect`, `RejectionsAreTheRoutes` | `Booted`, `AllMinted`, `Passed`, `Budget`: what main has set up, what issued tokens look like, what waiting requests have passed, and that a key's counter is covered by its subject's own requests; `Bounded`: the requests that came in are within the bound of the model, and every counter is within them; `Labelled`: a label is made while serving, from the path of a request |
| `GatewaySteps` | `RefusalsAreForWhatIsWritten`, `ServingIsAlwaysUsable` | `Started`: what main has examined and built in each phase |

Three arguments are worth telling.

*Pages.* `Tally` says of every counter whose count it is: `Added`, `Responded`,
`RespondedIn(c)`, `InBucket(i)`, `Observed` and `Rejected(c)` are sets of requests
by their place in `finish`, and a step of a request passes at most one counter.
A page may then be compared with sets instead of numbers. `render` loads
`requests_total` first and the rest later, but with the locks of `status_totals`
and `latencies` in hand, so nobody enters `Responded` or `Observing` in between
(`KeptOut`): what is loaded later counts a subset of `Added` at the earlier
moment. For the histogram the same lock keeps `observe` from beginning
(`OutsideStays`), so every load lies between the requests that were through when
the locks were taken and these with the unfinished ones (`LoadedBetween`), and
two loads differ by at most the unfinished ones. `Settled` is `Tally` where the sets
coincide.

*The start.* `validate` returns the first of its checks that fails. `Min` of the
failing indices exists just when one of them fails, so `from_toml` accepts a file
if and only if it parses and is `Sound`, whatever the order of the checks
(`ValidateAccepts`, `RoutesChecked`); each clause of `Sound`, about the parsed
configuration, is then matched with what is written (`AuthWritten`,
`NumberWritten`, `LimitsWritten`, `BreakerWritten`, `RoutesWritten`), where the
two sets of defaults are used. Between what `validate` takes for a backend and
what an absolute URL is there are only inclusions, `AbsoluteIsAccepted` and
`AcceptedIsHttp`: the gap is the finding of `gateway_starts`. That a prefix is
reached by its paths follows from `PrefixOf`: a clean prefix has no slash, so the
second slash of the path is the one behind it. No endpoint ends in a slash
(`EndpointsEnd`), so `/{prefix}/` is never one.

*Sums.* `SumFunctionOnSet` is a fold, that is a recursive function on the subsets
of a set. The library's induction theorems take the predicate as a parameter,
which the provers cannot instantiate; `CounterLemmas` proves an induction over
*sets* of good cases instead (`NatSetInduction`, from the well-foundedness of
`<`), and from it that the fold exists (`RecursExists`), that any element may be
taken out first (`SumRemove`), and what a changed summand does (`SumRaise`).

The theorems rest on the named assumptions of the modules, all of which TLC
evaluates. Most give a constant its type. Those that say more: a positive
threshold, cooldown, timeout, limit, window and number of routes
(`validate` refuses zero and an empty table) and of buckets (a fixed array) and a
positive failure threshold of the readiness probe (Kubernetes demands it); finitely many requests, classes, clients and
subjects, because the properties count them; `None`, `Absent` and `Lost` differ
from proper values; no slash is `Clean` (`validate` wants letters, digits, `-` and
`_`); a file has the types that serde demands, its routes are a table with one
backend per prefix, and `token_ttl_secs` is a `u64`; paths are text;
only the gateway signs with its own key, and the external issuer stands by what it
signed - signatures are not modelled any deeper.

Only model-checked: liveness under fairness (`Recovers`, `EventuallyServing`,
`RedisOutageIsSeen`, `ReadinessRecovers`), which is out of the prover's reach; and
the refuted claims, for which TLC gives the counterexample.

## 5. Not modelled

- Header copying, query strings, request ids, bodies and response texts: data
  that no decision depends on.
- Logging except the completion line, TLS, HTTP and TOML parsing, base64 and
  signature arithmetic.
- The display of errors and the text layout of the metrics page.
- The mock backends, the scripts, and of the manifests everything but the
  readiness probe and the Service: rolling updates, the liveness probe and the
  Secret would need a model of the cluster, not of this code.
- Several windows of the limiter within `Gateway`, and lost probes within
  `Readiness`: `RateLimiter` and `Forward` have them.
