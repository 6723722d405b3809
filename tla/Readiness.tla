------------------------------ MODULE Readiness ------------------------------
(***************************************************************************)
(* Readiness (router.rs, readyz) and what is built on it: the pods of      *)
(* k8s/30-gateway.yaml, each with a breaker per route, the readiness probe *)
(* that polls them and the Service that sends requests to ready pods only. *)
(*                                                                         *)
(* readyz copies the breaker states one mutex at a time (Breakers::states),*)
(* then awaits a PING that has no timeout, and answers with what it has    *)
(* read; breakers move in between.  Requests have whole bodies and clients *)
(* that stay (Forward has the others), so nothing here is about lost       *)
(* probes of a breaker.                                                    *)
(***************************************************************************)
EXTENDS Circuit, FiniteSets

CONSTANTS
    Pods,            \* gateway replicas
    Routes,          \* number of routes, read in the order of the table
    ProbeThreshold,  \* readinessProbe.failureThreshold
    Gated            \* requests come through the Service (k8s), or straight
                     \* to the process (compose)

ASSUME ReadinessAssumption ==
    /\ Routes \in Nat \ {0}
    /\ ProbeThreshold \in Nat \ {0}
    /\ Gated \in BOOLEAN

Route == 1 .. Routes

VARIABLES
    breakers,   \* per pod and route: the circuit breaker
    calls,      \* per pod: routes with a call in flight
    up,         \* the backends that answer
    redis,      \* Redis answers
    reading,    \* per pod: 0, or the breaker that readyz reads next, or
                \* Routes + 1 when it awaits the PING
    ready,      \* per pod: the local variable of readyz
    strikes,    \* per pod: failed readiness probes in a row
    endpoints,  \* the pods that the Service knows as ready
    stale       \* history, per pod: routes Open ever since readyz was called

probe == <<reading, ready>>
kubelet == <<strikes, endpoints>>
world == <<up, redis>>
vars == <<breakers, calls, world, probe, kubelet, stale>>

TypeOK ==
    /\ breakers \in [Pods -> [Route -> Inner]]
    /\ \A p \in Pods, i \in Route : Consistent(breakers[p][i])
    /\ calls \in [Pods -> SUBSET Route]
    /\ up \in SUBSET Route
    /\ redis \in BOOLEAN
    /\ reading \in [Pods -> 0 .. Routes + 1]
    /\ ready \in [Pods -> BOOLEAN]
    /\ strikes \in [Pods -> 0 .. ProbeThreshold]
    /\ endpoints \in SUBSET Pods
    /\ stale \in [Pods -> SUBSET Route]

Init ==
    /\ breakers = [p \in Pods |-> [i \in Route |-> Fresh]]
    /\ calls = [p \in Pods |-> {}]
    /\ up = Route
    /\ redis = TRUE
    /\ reading = [p \in Pods |-> 0]
    /\ ready = [p \in Pods |-> FALSE]
    /\ strikes = [p \in Pods |-> 0]
    /\ endpoints = {}
    /\ stale = [p \in Pods |-> {}]

Open(p) == {i \in Route : breakers[p][i].state = "Open"}

\* The breakers of the pods become b.
SetBreakers(b) ==
    /\ breakers' = b
    /\ stale' = [p \in Pods |-> {i \in stale[p] : b[p][i].state = "Open"}]

-------------------------------------------------------------------------------
(***************************************************************************)
(* Requests: forward, with its two critical sections on the breaker.  One  *)
(* that is refused (503) changes nothing here.                             *)
(***************************************************************************)
Call(p, i) ==
    /\ Gated => p \in endpoints
    /\ i \notin calls[p]
    /\ Admit(breakers[p][i]) = "Call"
    /\ SetBreakers([breakers EXCEPT ![p][i] = Admitted(@)])
    /\ calls' = [calls EXCEPT ![p] = @ \cup {i}]
    /\ UNCHANGED <<world, probe, kubelet>>

Outcome(p, i) ==
    /\ i \in calls[p]
    /\ SetBreakers([breakers EXCEPT ![p][i] =
                        IF i \in up THEN RecordSuccess(@) ELSE RecordFailure(@)])
    /\ calls' = [calls EXCEPT ![p] = @ \ {i}]
    /\ UNCHANGED <<world, probe, kubelet>>

-------------------------------------------------------------------------------
(***************************************************************************)
(* readyz.                                                                 *)
(***************************************************************************)
\* GET /readyz: nothing has been read, nothing speaks against it.
Readyz(p) ==
    /\ reading[p] = 0
    /\ reading' = [reading EXCEPT ![p] = 1]
    /\ ready' = [ready EXCEPT ![p] = TRUE]
    /\ stale' = [stale EXCEPT ![p] = Open(p)]
    /\ UNCHANGED <<breakers, calls, world, kubelet>>

\* Mutant: the last breaker read decides.
ReadBreakerOverwrites(p) ==
    /\ reading[p] \in Route
    /\ ready' = [ready EXCEPT ![p] = reading[p] \notin Open(p)]
    /\ reading' = [reading EXCEPT ![p] = @ + 1]
    /\ UNCHANGED <<breakers, calls, world, kubelet, stale>>

\* One breaker of Breakers::states: only Open counts as not ready.
ReadBreaker(p) ==
    /\ reading[p] \in Route
    /\ ready' = [ready EXCEPT ![p] = @ /\ reading[p] \notin Open(p)]
    /\ reading' = [reading EXCEPT ![p] = @ + 1]
    /\ UNCHANGED <<breakers, calls, world, kubelet, stale>>

\* The kubelet has an answer: one success makes the pod ready, ProbeThreshold
\* failures in a row take it out of the endpoints.
ProbeResult(p, ok) ==
    /\ strikes' = [strikes EXCEPT ![p] =
                      IF ok THEN 0 ELSE IF @ < ProbeThreshold THEN @ + 1 ELSE @]
    /\ endpoints' = IF ok THEN endpoints \cup {p}
                    ELSE IF strikes[p] + 1 >= ProbeThreshold THEN endpoints \ {p}
                    ELSE endpoints

\* Mutant: the PING is made and its result dropped.
AnswerWithoutRedis(p) ==
    /\ reading[p] = Routes + 1
    /\ reading' = [reading EXCEPT ![p] = 0]
    /\ ProbeResult(p, ready[p])
    /\ UNCHANGED <<breakers, calls, world, ready, stale>>

\* ping returns: PONG, or any error.
Answer(p) ==
    /\ reading[p] = Routes + 1
    /\ reading' = [reading EXCEPT ![p] = 0]
    /\ ProbeResult(p, ready[p] /\ redis)
    /\ UNCHANGED <<breakers, calls, world, ready, stale>>

\* ping hangs on a Redis that is gone: the kubelet's timeout is a failure.
ProbeTimeout(p) ==
    /\ reading[p] = Routes + 1
    /\ ~redis
    /\ reading' = [reading EXCEPT ![p] = 0]
    /\ ProbeResult(p, FALSE)
    /\ UNCHANGED <<breakers, calls, world, ready, stale>>

-------------------------------------------------------------------------------
\* Backends and Redis come and go.
World ==
    /\ \/ \E i \in Route : up' \in {up \ {i}, up \cup {i}} /\ UNCHANGED redis
       \/ redis' = ~redis /\ UNCHANGED up
    /\ UNCHANGED <<breakers, calls, probe, kubelet, stale>>

Tick ==
    /\ SetBreakers([p \in Pods |-> [i \in Route |-> Aged(breakers[p][i])]])
    /\ UNCHANGED <<calls, world, probe, kubelet>>

ProbeStep(p) == Readyz(p) \/ ReadBreaker(p) \/ Answer(p) \/ ProbeTimeout(p)

Next ==
    \/ \E p \in Pods : ProbeStep(p) \/ \E i \in Route : Call(p, i) \/ Outcome(p, i)
    \/ World
    \/ Tick

Spec == Init /\ [][Next]_vars

(***************************************************************************)
(* Time passes, the kubelet polls, a call ends (reqwest's timeout), and    *)
(* clients keep trying every route of every pod they can reach.            *)
(***************************************************************************)
FairSpec ==
    /\ Spec
    /\ WF_vars(Tick)
    /\ \A p \in Pods :
         /\ WF_vars(ProbeStep(p))
         /\ \A i \in Route : WF_vars(Outcome(p, i)) /\ SF_vars(Call(p, i))

-------------------------------------------------------------------------------
(***************************************************************************)
(* A 200 means that each route was seen not Open at some moment of this    *)
(* very call, and that Redis answered.                                     *)
(***************************************************************************)
Says200(p) == Answer(p) /\ ready[p] /\ redis

\* router.rs: "readiness must not lie".  No 200 while some circuit has been
\* Open since before readyz was called.
ReadyzHasSeenIt == [][\A p \in Pods : Says200(p) => stale[p] = {}]_vars

\* ADR-0007: "A Redis outage marks every gateway pod NotReady", although the
\* PING may hang.
RedisOutageIsSeen == <>[](~redis) => <>[](endpoints = {})

\* ADR-0007: "readiness recovers without a restart".  When backends and Redis
\* stay up, every pod ends up ready for good - if requests reach pods that are
\* not ready.
Healthy == up = Route /\ redis

ReadinessRecovers == <>[]Healthy => <>[](endpoints = Pods)

(***************************************************************************)
(* A claim that the deployment does not keep.                              *)
(***************************************************************************)
\* ADR-0006: "restart CRM -> probe closes the circuit -> 200s resume, all with
\* the gateway never restarted".
CircuitsSelfHeal == <>[]Healthy => <>[](\A p \in Pods : Open(p) = {})
==============================================================================
