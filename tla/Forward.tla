------------------------------- MODULE Forward -------------------------------
(***************************************************************************)
(* The proxy path behind the auth and rate-limit gates: concurrent runs of *)
(* router.rs `forward`, sharing one circuit breaker per route prefix and   *)
(* the counters that forward updates.                                      *)
(*                                                                         *)
(* A request slot is one client connection.  forward has three awaits, and *)
(* other requests run at each of them:                                     *)
(*    "buffering"  to_bytes(body).await      waits for the CLIENT          *)
(*    "sent"       send().await              waits for response headers    *)
(*    "reading"    response.bytes().await    waits for the response body   *)
(* Between two awaits nothing is waited for, and one action does it all.   *)
(* At an await the handler's future may also be dropped, because hyper     *)
(* saw the client disconnect: none of the code after the await then runs.  *)
(*                                                                         *)
(* Time is kept as ages that Tick advances.  The timeout of the reqwest    *)
(* call runs from send to the end of the response body; the code puts no   *)
(* bound on the time a client takes to deliver its body.                   *)
(***************************************************************************)
EXTENDS Circuit, FiniteSets, Functions

CONSTANTS
    Prefixes,      \* the validated route table's prefixes
    Requests,      \* request slots
    Timeout,       \* breaker.timeout_secs, in ticks
    Classes,       \* the status classes a backend answers with
    CounterMax,    \* largest value of a counter before it wraps (u64::MAX)
    Lost           \* the probe went away without reporting

\* config.rs rejects a zero timeout; transport failures are filed under 5xx.
\* A status has three digits, so the classes are finitely many; so are the
\* connections of a process.
ASSUME ForwardAssumption ==
    /\ Timeout \in Nat \ {0}
    /\ CounterMax \in Nat
    /\ "5xx" \in Classes
    /\ IsFiniteSet(Classes) /\ IsFiniteSet(Requests)

ASSUME NamesAssumption ==
    /\ None \notin Prefixes \cup Requests
    /\ Lost \notin Requests \cup {None}

VARIABLES
    breakers,   \* Breakers.per_backend
    pc,         \* where the handler of each slot is
    route,      \* the prefix it serves, None when idle
    buffered,   \* ticks the slot's body took so far (saturating at Cooldown)
    waiting,    \* ticks since the slot's request was sent
    requests_total,      \* PrefixCounters, updated when a timer finishes
    circuit_open_total,  \* PrefixCounters, updated on a short circuit
    status_totals,       \* StatusTotals, keyed by class and prefix
    probe,      \* history: who decides for a HalfOpen breaker
    probes,     \* history: the slots in flight that were admitted as probes
    recorded,   \* history: outcomes reported to each breaker
    left        \* history: clients that left while their response was read

request == <<pc, route, buffered, waiting>>
metrics == <<requests_total, circuit_open_total, status_totals>>
history == <<probe, probes, recorded, left>>

vars == <<breakers, request, metrics, history>>

Counter == 0 .. CounterMax

\* AtomicU64::fetch_add(1)
Inc(n) == IF n = CounterMax THEN 0 ELSE n + 1

InFlight(r) == pc[r] \in {"buffering", "sent"}

TypeOK ==
    /\ breakers \in [Prefixes -> Inner]
    /\ pc \in [Requests -> {"idle", "buffering", "sent", "reading"}]
    /\ route \in [Requests -> Prefixes \cup {None}]
    /\ \A r \in Requests : route[r] = None <=> pc[r] = "idle"
    /\ buffered \in [Requests -> Elapsed]
    /\ waiting \in [Requests -> 0 .. Timeout]
    /\ requests_total \in [Prefixes -> Counter]
    /\ circuit_open_total \in [Prefixes -> Counter]
    /\ status_totals \in [Classes \X Prefixes -> Counter]
    /\ probe \in [Prefixes -> Requests \cup {None, Lost}]
    /\ probes \in SUBSET Requests
    /\ recorded \in [Prefixes -> Counter]
    /\ left \in [Prefixes -> Counter]

Init ==
    /\ breakers = [p \in Prefixes |-> Fresh]
    /\ pc = [r \in Requests |-> "idle"]
    /\ route = [r \in Requests |-> None]
    /\ buffered = [r \in Requests |-> 0]
    /\ waiting = [r \in Requests |-> 0]
    /\ requests_total = [p \in Prefixes |-> 0]
    /\ circuit_open_total = [p \in Prefixes |-> 0]
    /\ status_totals = [key \in Classes \X Prefixes |-> 0]
    /\ probe = [p \in Prefixes |-> None]
    /\ probes = {}
    /\ recorded = [p \in Prefixes |-> 0]
    /\ left = [p \in Prefixes |-> 0]

-------------------------------------------------------------------------------
\* inc_circuit_open
CountShortCircuit(p) ==
    /\ circuit_open_total' = [circuit_open_total EXCEPT ![p] = Inc(@)]
    /\ UNCHANGED <<requests_total, status_totals>>

\* RequestTimer::finish(Some(class)).  A timer that is dropped counts nothing.
Finish(p, class) ==
    /\ requests_total' = [requests_total EXCEPT ![p] = Inc(@)]
    /\ status_totals' = [status_totals EXCEPT ![<<class, p>>] = Inc(@)]
    /\ UNCHANGED circuit_open_total

\* The handler returns, or is dropped: the slot can take another request.
Release(r) ==
    /\ pc' = [pc EXCEPT ![r] = "idle"]
    /\ route' = [route EXCEPT ![r] = None]
    /\ buffered' = [buffered EXCEPT ![r] = 0]
    /\ waiting' = [waiting EXCEPT ![r] = 0]

\* r, in flight, ends without a record: a breaker it was deciding for is not told.
Abandon(r) ==
    /\ probe' = [p \in Prefixes |-> IF probe[p] = r THEN Lost ELSE probe[p]]
    /\ probes' = probes \ {r}

\* History of a record by r: only a HalfOpen breaker is waiting for a decision,
\* and whoever reports first decides.
Decided(r) ==
    /\ probe' = [probe EXCEPT ![route[r]] = None]
    /\ probes' = probes \ {r}
    /\ recorded' = [recorded EXCEPT ![route[r]] = Inc(@)]
    /\ UNCHANGED left

-------------------------------------------------------------------------------
\* forward, the breaker refuses: 503 at once, the backend is not contacted.
ShortCircuit(r, p) ==
    /\ pc[r] = "idle"
    /\ Admit(breakers[p]) = "ShortCircuit"
    /\ CountShortCircuit(p)
    /\ UNCHANGED <<breakers, request, history>>

\* forward, the breaker admits: try_admit may have made this call the probe.
Call(r, p) ==
    /\ pc[r] = "idle"
    /\ Admit(breakers[p]) = "Call"
    /\ breakers' = [breakers EXCEPT ![p] = Admitted(@)]
    /\ pc' = [pc EXCEPT ![r] = "buffering"]
    /\ route' = [route EXCEPT ![r] = p]
    /\ IF IsProbe(breakers[p])
         THEN probe' = [probe EXCEPT ![p] = r] /\ probes' = probes \cup {r}
         ELSE UNCHANGED <<probe, probes>>
    /\ UNCHANGED <<buffered, waiting, metrics, recorded, left>>

\* The body is complete: the timer starts and the request goes out.
Send(r) ==
    /\ pc[r] = "buffering"
    /\ pc' = [pc EXCEPT ![r] = "sent"]
    /\ UNCHANGED <<breakers, route, buffered, waiting, metrics, history>>

\* to_bytes fails (broken or oversized body): 400, and no record.
BodyFails(r) ==
    /\ pc[r] = "buffering"
    /\ Release(r)
    /\ Abandon(r)
    /\ UNCHANGED <<breakers, metrics, recorded, left>>

\* Mutant: the error path forgets the timer.
SendFailsUntimed(r) ==
    /\ pc[r] = "sent"
    /\ breakers' = [breakers EXCEPT ![route[r]] = RecordFailure(@)]
    /\ Decided(r)
    /\ Release(r)
    /\ UNCHANGED metrics

\* send() returns Err (refused, DNS, reset or timed out): record(false), 502.
SendFails(r) ==
    /\ pc[r] = "sent"
    /\ breakers' = [breakers EXCEPT ![route[r]] = RecordFailure(@)]
    /\ Finish(route[r], "5xx")
    /\ Decided(r)
    /\ Release(r)

\* send() returns Ok, with whatever status: record(true), then read the body.
Answered(r) ==
    /\ pc[r] = "sent"
    /\ breakers' = [breakers EXCEPT ![route[r]] = RecordSuccess(@)]
    /\ pc' = [pc EXCEPT ![r] = "reading"]
    /\ Decided(r)
    /\ UNCHANGED <<route, buffered, waiting, metrics>>

\* The response body is read, or reading it failed and an empty one stands in
\* for it (unwrap_or_default): the two are the same to the code that follows.
Respond(r) ==
    /\ pc[r] = "reading"
    /\ \E class \in Classes : Finish(route[r], class)
    /\ Release(r)
    /\ UNCHANGED <<breakers, history>>

\* The client disconnects while the handler is at an await.
Disconnect(r) ==
    /\ pc[r] # "idle"
    /\ Release(r)
    /\ Abandon(r)
    /\ left' = IF pc[r] = "reading" THEN [left EXCEPT ![route[r]] = Inc(@)] ELSE left
    /\ UNCHANGED <<breakers, metrics, recorded>>

\* Mutant: the request carries no timeout.
TickUntimed ==
    /\ breakers' = [p \in Prefixes |-> Aged(breakers[p])]
    /\ buffered' = [r \in Requests |->
                      IF pc[r] = "buffering" /\ buffered[r] < Cooldown
                        THEN buffered[r] + 1 ELSE buffered[r]]
    /\ waiting' = [r \in Requests |->
                      IF pc[r] \in {"sent", "reading"}
                        THEN waiting[r] + 1 ELSE waiting[r]]
    /\ UNCHANGED <<pc, route, metrics, history>>

\* A tick of time.  An expired reqwest timeout resolves its await before the
\* clock moves on (the runtime polls expired timers).
Tick ==
    /\ \A r \in Requests : pc[r] \in {"sent", "reading"} => waiting[r] < Timeout
    /\ breakers' = [p \in Prefixes |-> Aged(breakers[p])]
    /\ buffered' = [r \in Requests |->
                      IF pc[r] = "buffering" /\ buffered[r] < Cooldown
                        THEN buffered[r] + 1 ELSE buffered[r]]
    /\ waiting' = [r \in Requests |->
                      IF pc[r] \in {"sent", "reading"}
                        THEN waiting[r] + 1 ELSE waiting[r]]
    /\ UNCHANGED <<pc, route, metrics, history>>

Step(r) ==
    \/ \E p \in Prefixes : ShortCircuit(r, p) \/ Call(r, p)
    \/ Send(r) \/ BodyFails(r)
    \/ SendFails(r) \/ Answered(r)
    \/ Respond(r)
    \/ Disconnect(r)

Next == Tick \/ \E r \in Requests : Step(r)

Spec == Init /\ [][Next]_vars

-------------------------------------------------------------------------------
(***************************************************************************)
(* Fairness.  A reqwest call ends, if only by its timeout; a response body *)
(* is bounded by the same timeout; time passes.  What clients do is not in *)
(* the gateway's hands: ClientFairness says that a body is eventually      *)
(* complete or broken and that traffic for a prefix never dries up (strong *)
(* fairness, since a free slot is an artefact of the model).               *)
(***************************************************************************)
ServerFairness ==
    /\ WF_vars(Tick)
    /\ \A r \in Requests : /\ WF_vars(SendFails(r) \/ Answered(r))
                            /\ WF_vars(Respond(r))

ClientFairness ==
    /\ \A r \in Requests : WF_vars(Send(r) \/ BodyFails(r))
    /\ \A p \in Prefixes : SF_vars(\E r \in Requests : Call(r, p))

FairSpec == Spec /\ ServerFairness /\ ClientFairness

-------------------------------------------------------------------------------
(***************************************************************************)
(* Safety.                                                                 *)
(***************************************************************************)
\* The fields of every breaker agree (circuit.rs `lock` recovers a poisoned
\* mutex because "the breaker's data is always internally consistent"), and
\* the u32 streak never reaches the threshold, let alone overflows.
BreakersConsistent == \A p \in Prefixes : Consistent(breakers[p])

\* A HalfOpen breaker fails everyone fast because one request is deciding for
\* it (circuit.rs try_admit).  That request is still in flight on this very
\* prefix and can still report, unless it was abandoned at an await.
ProbeAccounted ==
    \A p \in Prefixes :
        /\ breakers[p].state = "HalfOpen" <=> probe[p] # None
        /\ probe[p] \in Requests => /\ InFlight(probe[p])
                                    /\ route[probe[p]] = p
                                    /\ probe[p] \in probes

\* While a breaker is not closed, every request in flight behind it other than
\* its probe was admitted before it opened, so it is at least as old as the
\* opening: try_admit lets nobody else through.
OlderThanOpening ==
    \A p \in Prefixes, r \in Requests :
        (/\ InFlight(r)
         /\ route[r] = p
         /\ probe[p] # r
         /\ breakers[p].state # "Closed")
            => breakers[p].opened_at <= buffered[r] + waiting[r]

\* circuit.rs: "Only one probe is ever in flight".  Two can be, but only when
\* a client took at least Cooldown - Timeout to deliver its body: with prompt
\* bodies and timeout_secs < cooldown_secs the claim holds.
OneProbeIfPrompt ==
    \A r1, r2 \in probes :
        (r1 # r2 /\ route[r1] = route[r2])
            => \E r \in {r1, r2} : buffered[r] + Timeout >= Cooldown

\* "That probe decides everything": the outcome that moves a breaker out of
\* HalfOpen in circuit.rs record is the probe's own, or that of a straggler
\* whose body took at least Cooldown - Timeout.
StragglerDecides(r) ==
    /\ SendFails(r) \/ Answered(r)
    /\ breakers[route[r]].state = "HalfOpen"
    /\ probe[route[r]] # r

ProbeDecidesIfPrompt ==
    [][\A r \in Requests : StragglerDecides(r) => buffered[r] + Timeout >= Cooldown]_vars

\* Every outcome reported to a breaker by forward is counted once in
\* requests_total, is about to be (its body is being read), or belonged to a
\* client that left while the body was read; and the per-class counters add
\* up to requests_total.  Counters wrap, so the sums are modulo their width.
Reading(p) == Cardinality({r \in Requests : pc[r] = "reading" /\ route[r] = p})

Responses(p) == SumFunctionOnSet([c \in Classes |-> status_totals[<<c, p>>]], Classes)

OutcomesCounted ==
    \A p \in Prefixes :
        /\ recorded[p] = (requests_total[p] + Reading(p) + left[p]) % (CounterMax + 1)
        /\ requests_total[p] = Responses(p) % (CounterMax + 1)

-------------------------------------------------------------------------------
(***************************************************************************)
(* The refinement mapping: what is left of an Open breaker's cooldown is   *)
(* the quiet time, and a call is inside from its admission to its record.  *)
(***************************************************************************)
Quiet(inner) == IF inner.state = "Open" THEN Cooldown - inner.opened_at ELSE 0

Inside(p) == {r \in Requests : InFlight(r) /\ route[r] = p}

Contract == INSTANCE BreakerContract WITH
    Backends <- Prefixes,
    Calls    <- Requests,
    phase    <- [p \in Prefixes |-> breakers[p].state],
    quiet    <- [p \in Prefixes |-> Quiet(breakers[p])],
    streak   <- [p \in Prefixes |-> breakers[p].consecutive_failures],
    calls    <- [p \in Prefixes |-> Inside(p)]

\* The breakers keep the contract of ADR-0006: after FailureThreshold failures
\* in a row try_admit admits no call for a full Cooldown and then one, whatever
\* the interleaving of handlers, late outcomes and disconnects; and no step of
\* one backend's requests touches another backend's circuit.
KeepsContract == Contract!Spec

-------------------------------------------------------------------------------
(***************************************************************************)
(* Liveness.                                                               *)
(***************************************************************************)
\* README: "After a cooldown, one probe request decides whether the circuit
\* closes again".  If from some time on no call to the backend of p fails and
\* no probe for p is lost, its breaker closes for good.
Heals(p) ==
    (/\ <>[][\A r \in Requests : route[r] = p => ~SendFails(r)]_vars
     /\ <>[](probe[p] # Lost))
        => <>[](breakers[p].state = "Closed")

Recovers == \A p \in Prefixes : Heals(p)

-------------------------------------------------------------------------------
(***************************************************************************)
(* Claims of comments and docs that the code does not keep.                *)
(***************************************************************************)
\* circuit.rs, on HalfOpen: "Only one probe is ever in flight".
OnlyOneProbe ==
    \A r1, r2 \in probes : route[r1] = route[r2] => r1 = r2

\* README: "one probe request decides whether the circuit closes again": a
\* HalfOpen breaker does not stay HalfOpen.
ProbeResolves ==
    \A p \in Prefixes :
        breakers[p].state = "HalfOpen" ~> breakers[p].state # "HalfOpen"
==============================================================================
