---------------------------- MODULE ForwardProofs ----------------------------
(***************************************************************************)
(* Proofs about Forward, for every set of prefixes and slots and every     *)
(* threshold, cooldown and timeout that config.rs accepts.                 *)
(***************************************************************************)
EXTENDS Forward, CounterLemmas

-------------------------------------------------------------------------------
(***************************************************************************)
(* The methods of circuit.rs on one breaker.                               *)
(***************************************************************************)
\* Every method of CircuitBreaker, and the passage of time, keeps the three
\* fields of Inner within their types.
LEMMA BreakerTyping ==
    ASSUME NEW i \in Inner
    PROVE  /\ Fresh \in Inner
           /\ Admitted(i) \in Inner
           /\ RecordSuccess(i) \in Inner
           /\ RecordFailure(i) \in Inner
           /\ Aged(i) \in Inner
<1>1. /\ i.state \in State
      /\ i.consecutive_failures \in Nat
      /\ i.opened_at \in Elapsed \cup {None}
  BY DEF Inner
<1>2. Fresh \in Inner
  BY DEF Fresh, Inner, State
<1>3. Admitted(i) \in Inner
  BY DEF Admitted, Inner, State
<1>4. Opened \in Inner
  BY BreakerConfigAssumption DEF Opened, Inner, State, Elapsed
<1>5. RecordSuccess(i) \in Inner
  BY <1>1, <1>2 DEF RecordSuccess, Inner, State
<1>6. RecordFailure(i) \in Inner
  BY <1>1, <1>4 DEF RecordFailure, Inner, State
<1>7. Aged(i) \in Inner
  BY <1>1, BreakerConfigAssumption, NoneAssumption DEF Aged, Inner, Elapsed
<1> QED
  BY <1>2, <1>3, <1>5, <1>6, <1>7

\* The same methods keep the fields consistent with each other: in particular
\* the streak of a closed breaker stays below the threshold.
LEMMA BreakerConsistency ==
    ASSUME NEW i \in Inner, Consistent(i)
    PROVE  /\ Consistent(Fresh)
           /\ Consistent(Admitted(i))
           /\ Consistent(RecordSuccess(i))
           /\ Consistent(RecordFailure(i))
           /\ Consistent(Aged(i))
<1> USE BreakerConfigAssumption, NoneAssumption
<1>1. /\ i.state \in State
      /\ i.consecutive_failures \in Nat
      /\ i.opened_at \in Elapsed \cup {None}
  BY DEF Inner
<1>2. Consistent(Fresh)
  BY DEF Fresh, Consistent
<1>3. Consistent(Admitted(i))
  BY <1>1 DEF Admitted, IsProbe, Waited, Inner, Consistent, Elapsed
<1>4. Consistent(Opened)
  BY DEF Opened, Consistent
<1>5. Consistent(RecordSuccess(i))
  BY <1>1, <1>2 DEF RecordSuccess, Inner, State, Consistent
<1>6. Consistent(RecordFailure(i))
  BY <1>1, <1>4 DEF RecordFailure, Inner, State, Consistent
<1>7. Consistent(Aged(i))
  BY <1>1 DEF Aged, Inner, Consistent, Elapsed
<1> QED
  BY <1>2, <1>3, <1>5, <1>6, <1>7

\* The probe is admitted with the cooldown over.
LEMMA ProbeWaited ==
    ASSUME NEW i \in Inner, IsProbe(i)
    PROVE  i.opened_at = Cooldown
<1> DEFINE elapsed == i.opened_at
<1>1. elapsed \in Elapsed /\ elapsed >= Cooldown
  BY DEF IsProbe, Waited, Inner
<1> HIDE DEF elapsed
<1>2. elapsed = Cooldown
  BY <1>1, BreakerConfigAssumption DEF Elapsed
<1> QED
  BY <1>2 DEF elapsed

\* The elapsed time of a stamped breaker grows by a tick until it saturates.
LEMMA AgedByTick ==
    ASSUME NEW i \in Inner, i.opened_at \in Elapsed
    PROVE  Aged(i).opened_at = IF i.opened_at < Cooldown THEN i.opened_at + 1 ELSE i.opened_at
BY NoneAssumption, BreakerConfigAssumption DEF Aged, Inner, Elapsed

-------------------------------------------------------------------------------
(***************************************************************************)
(* Type correctness.                                                       *)
(***************************************************************************)
\* fetch_add on a counter that wraps at CounterMax stays a counter.
LEMMA IncTyping ==
    ASSUME NEW n \in Counter
    PROVE  Inc(n) \in Counter
BY ForwardAssumption DEF Counter, Inc

\* The state of the breakers, the slots, the counters and the history keeps
\* its type through every step of forward, disconnect and tick.
THEOREM TypeCorrect == Spec => []TypeOK
<1>1. Init => TypeOK
  <2> SUFFICES ASSUME Init PROVE TypeOK
    OBVIOUS
  <2>1. Fresh \in Inner
    BY DEF Fresh, Inner, State
  <2> QED
    BY <2>1, ForwardAssumption, BreakerConfigAssumption
    DEF Init, TypeOK, Elapsed, Counter
<1>2. TypeOK /\ [Next]_vars => TypeOK'
  <2> SUFFICES ASSUME TypeOK, [Next]_vars PROVE TypeOK'
    OBVIOUS
  <2> USE DEF TypeOK
  <2>1. ASSUME NEW r \in Requests, NEW p \in Prefixes, ShortCircuit(r, p)
        PROVE  TypeOK'
    <3>1. circuit_open_total' \in [Prefixes -> Counter]
      BY <2>1, IncTyping DEF ShortCircuit, CountShortCircuit
    <3> QED
      BY <2>1, <3>1 DEF ShortCircuit, CountShortCircuit, request, history
  <2>2. ASSUME NEW r \in Requests, NEW p \in Prefixes, Call(r, p)
        PROVE  TypeOK'
    <3>1. breakers' \in [Prefixes -> Inner]
      BY <2>2, BreakerTyping DEF Call
    <3>2. \A q \in Requests : route'[q] = None <=> pc'[q] = "idle"
      BY <2>2, NamesAssumption DEF Call
    <3>3. probe' \in [Prefixes -> Requests \cup {None, Lost}] /\ probes' \in SUBSET Requests
      BY <2>2 DEF Call
    <3> QED
      BY <2>2, <3>1, <3>2, <3>3 DEF Call, metrics
  <2>3. ASSUME NEW r \in Requests, Send(r)
        PROVE  TypeOK'
    BY <2>3 DEF Send, metrics, history
  <2>4. ASSUME NEW r \in Requests, BodyFails(r)
        PROVE  TypeOK'
    BY <2>4, ForwardAssumption, BreakerConfigAssumption
    DEF BodyFails, Release, Abandon, metrics, Elapsed
  <2>5. ASSUME NEW r \in Requests, SendFails(r)
        PROVE  TypeOK'
    <3>1. route[r] \in Prefixes
      BY <2>5 DEF SendFails
    <3>2. breakers' \in [Prefixes -> Inner]
      BY <2>5, <3>1, BreakerTyping DEF SendFails
    <3>3. /\ requests_total' \in [Prefixes -> Counter]
          /\ status_totals' \in [Classes \X Prefixes -> Counter]
          /\ circuit_open_total' \in [Prefixes -> Counter]
      BY <2>5, <3>1, IncTyping, ForwardAssumption DEF SendFails, Finish
    <3>4. /\ probe' \in [Prefixes -> Requests \cup {None, Lost}]
          /\ probes' \in SUBSET Requests
          /\ recorded' \in [Prefixes -> Counter]
          /\ left' \in [Prefixes -> Counter]
      BY <2>5, <3>1, IncTyping DEF SendFails, Decided
    <3> QED
      BY <2>5, <3>2, <3>3, <3>4, ForwardAssumption, BreakerConfigAssumption
      DEF SendFails, Release, Elapsed
  <2>6. ASSUME NEW r \in Requests, Answered(r)
        PROVE  TypeOK'
    <3>1. route[r] \in Prefixes
      BY <2>6 DEF Answered
    <3>2. breakers' \in [Prefixes -> Inner]
      BY <2>6, <3>1, BreakerTyping DEF Answered
    <3>3. /\ probe' \in [Prefixes -> Requests \cup {None, Lost}]
          /\ probes' \in SUBSET Requests
          /\ recorded' \in [Prefixes -> Counter]
          /\ left' \in [Prefixes -> Counter]
      BY <2>6, <3>1, IncTyping DEF Answered, Decided
    <3> QED
      BY <2>6, <3>2, <3>3 DEF Answered, metrics
  <2>7. ASSUME NEW r \in Requests, Respond(r)
        PROVE  TypeOK'
    <3>1. route[r] \in Prefixes
      BY <2>7 DEF Respond
    <3>2. /\ requests_total' \in [Prefixes -> Counter]
          /\ status_totals' \in [Classes \X Prefixes -> Counter]
          /\ circuit_open_total' \in [Prefixes -> Counter]
      BY <2>7, <3>1, IncTyping DEF Respond, Finish
    <3> QED
      BY <2>7, <3>2, ForwardAssumption, BreakerConfigAssumption
      DEF Respond, Release, Elapsed, history
  <2>8. ASSUME NEW r \in Requests, Disconnect(r)
        PROVE  TypeOK'
    <3>1. left' \in [Prefixes -> Counter]
      BY <2>8, IncTyping DEF Disconnect
    <3> QED
      BY <2>8, <3>1, ForwardAssumption, BreakerConfigAssumption
      DEF Disconnect, Release, Abandon, metrics, Elapsed
  <2>9. CASE Tick
    <3>1. breakers' \in [Prefixes -> Inner]
      BY <2>9, BreakerTyping DEF Tick
    <3>2. buffered' \in [Requests -> Elapsed]
      BY <2>9, BreakerConfigAssumption DEF Tick, Elapsed
    <3>3. waiting' \in [Requests -> 0 .. Timeout]
      BY <2>9, ForwardAssumption DEF Tick
    <3> QED
      BY <2>9, <3>1, <3>2, <3>3 DEF Tick, metrics, history
  <2>10. CASE UNCHANGED vars
    BY <2>10 DEF vars, request, metrics, history
  <2> QED
    BY Zenon, <2>1, <2>2, <2>3, <2>4, <2>5, <2>6, <2>7, <2>8, <2>9, <2>10 DEF Next, Step
<1> QED
  BY <1>1, <1>2, PTL DEF Spec

-------------------------------------------------------------------------------
(***************************************************************************)
(* The inductive invariant.  OneProbeIfPrompt alone is not inductive: the  *)
(* step that admits a second probe keeps it only because the first was     *)
(* admitted before the breaker last opened (OlderThanOpening), which needs *)
(* to know who may be in flight behind a breaker that is not closed        *)
(* (ProbeAccounted) and that HalfOpen is entered with the cooldown over    *)
(* (BreakersConsistent).                                                   *)
(***************************************************************************)
ProbesInFlight == \A r \in probes : InFlight(r)

IInv ==
    /\ TypeOK
    /\ BreakersConsistent
    /\ ProbeAccounted
    /\ ProbesInFlight
    /\ OlderThanOpening
    /\ OneProbeIfPrompt

\* What record does to the state of a breaker: an outcome never leaves it
\* HalfOpen, an Open breaker ignores it, and a breaker that ends up Open
\* without having been Open has just been stamped.
LEMMA RecordOutcome ==
    ASSUME NEW i \in Inner, NEW j, j = RecordSuccess(i) \/ j = RecordFailure(i)
    PROVE  /\ j.state # "HalfOpen"
           /\ i.state = "Open" => j = i
           /\ (j.state # "Closed" /\ i.state # "Open") => j.opened_at = 0
BY DEF RecordSuccess, RecordFailure, Fresh, Opened, Inner, State

\* A step that reports an outcome of r preserves the invariant's parts that
\* relate a breaker to the slots behind it.
LEMMA RecordStep ==
    ASSUME IInv, TypeOK', NEW r \in Requests, pc[r] = "sent",
           \/ breakers' = [breakers EXCEPT ![route[r]] = RecordSuccess(@)]
           \/ breakers' = [breakers EXCEPT ![route[r]] = RecordFailure(@)],
           Decided(r),
           pc'[r] \notin {"buffering", "sent"},
           \A q \in Requests \ {r} : /\ pc'[q] = pc[q]
                                     /\ route'[q] = route[q]
                                     /\ buffered'[q] = buffered[q]
                                     /\ waiting'[q] = waiting[q]
    PROVE  IInv'
<1> USE DEF TypeOK
<1> DEFINE p == route[r]
<1>1. p \in Prefixes
  BY DEF IInv
<1>2. breakers[p] \in Inner
  BY <1>1 DEF IInv
<1>3. \A q \in Prefixes \ {p} : breakers'[q] = breakers[q] /\ probe'[q] = probe[q]
  BY <1>1 DEF IInv, Decided
<1>4. breakers'[p] = RecordSuccess(breakers[p]) \/ breakers'[p] = RecordFailure(breakers[p])
  BY <1>1 DEF IInv
<1>5. /\ breakers'[p].state # "HalfOpen"
      /\ breakers[p].state = "Open" => breakers'[p] = breakers[p]
      /\ (breakers'[p].state # "Closed" /\ breakers[p].state # "Open")
            => breakers'[p].opened_at = 0
  BY <1>2, <1>4, RecordOutcome
<1>6. probe'[p] = None /\ probes' = probes \ {r}
  BY <1>1 DEF Decided, IInv
<1>7. BreakersConsistent'
  <2>1. Consistent(breakers'[p])
    BY <1>1, <1>2, <1>4, BreakerConsistency DEF IInv, BreakersConsistent
  <2> QED
    BY <2>1, <1>3 DEF IInv, BreakersConsistent
<1>8. ProbeAccounted'
  <2> SUFFICES ASSUME NEW q \in Prefixes
               PROVE  /\ breakers'[q].state = "HalfOpen" <=> probe'[q] # None
                      /\ probe'[q] \in Requests =>
                            /\ pc'[probe'[q]] \in {"buffering", "sent"}
                            /\ route'[probe'[q]] = q
                            /\ probe'[q] \in probes'
    BY DEF ProbeAccounted, InFlight
  <2>1. CASE q = p
    BY <2>1, <1>5, <1>6, NamesAssumption
  <2>2. CASE q # p
    <3>1. probe[q] # r
      BY <2>2 DEF IInv, ProbeAccounted
    <3> QED
      BY <2>2, <3>1, <1>3, <1>6 DEF IInv, ProbeAccounted, InFlight
  <2> QED
    BY <2>1, <2>2
<1>9. ProbesInFlight'
  BY <1>6 DEF IInv, ProbesInFlight, InFlight
<1>10. OlderThanOpening'
  <2> SUFFICES ASSUME NEW q \in Prefixes, NEW o \in Requests,
                      InFlight(o)', route'[o] = q, probe'[q] # o,
                      breakers'[q].state # "Closed"
               PROVE  breakers'[q].opened_at <= buffered'[o] + waiting'[o]
    BY DEF OlderThanOpening
  <2>1. o # r /\ InFlight(o) /\ route[o] = q
    BY DEF InFlight
  <2>2. buffered'[o] = buffered[o] /\ waiting'[o] = waiting[o]
    BY <2>1
  <2>3. buffered[o] \in Nat /\ waiting[o] \in Nat
    BY DEF IInv, Elapsed
  <2>4. CASE q # p
    BY <2>1, <2>2, <2>4, <1>3 DEF IInv, OlderThanOpening
  <2>5. CASE q = p /\ breakers[p].state = "Open"
    <3>1. probe[p] = None
      BY <1>1, <2>5 DEF IInv, ProbeAccounted
    <3> QED
      BY <2>1, <2>2, <2>5, <3>1, <1>5, NamesAssumption DEF IInv, OlderThanOpening
  <2>6. CASE q = p /\ breakers[p].state # "Open"
    BY <2>2, <2>3, <2>6, <1>5
  <2> QED
    BY <2>4, <2>5, <2>6
<1>11. OneProbeIfPrompt'
  BY <1>6 DEF IInv, OneProbeIfPrompt
<1> QED
  BY <1>7, <1>8, <1>9, <1>10, <1>11 DEF IInv

\* A step in which r ends without an outcome preserves the invariant: the
\* breaker it may have been deciding for is left with a lost probe.
LEMMA AbandonStep ==
    ASSUME IInv, TypeOK', NEW r \in Requests, pc[r] # "idle",
           Release(r), Abandon(r), UNCHANGED breakers
    PROVE  IInv'
<1> USE DEF TypeOK
<1>1. \A q \in Requests \ {r} : /\ pc'[q] = pc[q]
                                /\ route'[q] = route[q]
                                /\ buffered'[q] = buffered[q]
                                /\ waiting'[q] = waiting[q]
  BY DEF IInv, Release
<1>2. pc'[r] = "idle" /\ probes' = probes \ {r}
  BY DEF IInv, Release, Abandon
<1>3. \A p \in Prefixes : probe'[p] = IF probe[p] = r THEN Lost ELSE probe[p]
  BY DEF Abandon
<1>4. BreakersConsistent'
  BY DEF IInv, BreakersConsistent
<1>5. ProbeAccounted'
  <2> SUFFICES ASSUME NEW q \in Prefixes
               PROVE  /\ breakers'[q].state = "HalfOpen" <=> probe'[q] # None
                      /\ probe'[q] \in Requests =>
                            /\ pc'[probe'[q]] \in {"buffering", "sent"}
                            /\ route'[probe'[q]] = q
                            /\ probe'[q] \in probes'
    BY DEF ProbeAccounted, InFlight
  <2>1. CASE probe[q] = r
    BY <2>1, <1>3, NamesAssumption DEF IInv, ProbeAccounted
  <2>2. CASE probe[q] # r
    BY <2>2, <1>1, <1>2, <1>3 DEF IInv, ProbeAccounted, InFlight
  <2> QED
    BY <2>1, <2>2
<1>6. ProbesInFlight'
  BY <1>1, <1>2 DEF IInv, ProbesInFlight, InFlight
<1>7. OlderThanOpening'
  <2> SUFFICES ASSUME NEW q \in Prefixes, NEW d \in Requests, InFlight(d)', route'[d] = q,
                      probe'[q] # d, breakers'[q].state # "Closed"
               PROVE  breakers'[q].opened_at <= buffered'[d] + waiting'[d]
    BY DEF OlderThanOpening
  <2>1. d # r
    BY <1>2 DEF InFlight
  <2>2. /\ InFlight(d) /\ route[d] = q /\ probe[q] # d
        /\ buffered'[d] = buffered[d] /\ waiting'[d] = waiting[d]
    BY <1>1, <1>3, <2>1 DEF InFlight
  <2> QED
    BY <2>2 DEF IInv, OlderThanOpening
<1>8. OneProbeIfPrompt'
  BY <1>1, <1>2 DEF IInv, OneProbeIfPrompt
<1> QED
  BY <1>4, <1>5, <1>6, <1>7, <1>8 DEF IInv

\* try_admit lets r through: either the breaker was closed, or it was Open
\* with its cooldown over and r is now its one probe.
LEMMA CallStep ==
    ASSUME IInv, TypeOK', NEW r \in Requests, NEW p \in Prefixes, Call(r, p)
    PROVE  IInv'
<1> USE DEF TypeOK
<1>1. /\ pc[r] = "idle"
      /\ breakers[p] \in Inner
      /\ breakers[p].state \in State
  BY DEF IInv, Call, Inner
<1>2. /\ pc' = [pc EXCEPT ![r] = "buffering"]
      /\ route' = [route EXCEPT ![r] = p]
      /\ UNCHANGED <<buffered, waiting>>
      /\ breakers' = [breakers EXCEPT ![p] = Admitted(@)]
  BY DEF Call
<1>3. r \notin probes /\ \A q \in Prefixes : probe[q] # r
  BY <1>1 DEF IInv, ProbesInFlight, ProbeAccounted, InFlight
<1>4. BreakersConsistent'
  BY <1>1, <1>2, BreakerConsistency DEF IInv, BreakersConsistent
<1>5. CASE ~IsProbe(breakers[p])
  <2>1. breakers[p].state = "Closed" /\ breakers' = breakers
    BY <1>5, <1>2 DEF Call, Admit, Admitted, IInv
  <2>2. UNCHANGED <<probe, probes>>
    BY <1>5 DEF Call
  <2>3. ProbeAccounted'
    BY <1>2, <1>3, <2>1, <2>2 DEF IInv, ProbeAccounted, InFlight
  <2>4. ProbesInFlight'
    BY <1>2, <2>2 DEF IInv, ProbesInFlight, InFlight
  <2>5. OlderThanOpening'
    BY <1>1, <1>2, <2>1, <2>2 DEF IInv, OlderThanOpening, InFlight
  <2>6. OneProbeIfPrompt'
    BY <1>2, <1>3, <2>2 DEF IInv, OneProbeIfPrompt
  <2> QED
    BY <1>4, <2>3, <2>4, <2>5, <2>6 DEF IInv
<1>6. CASE IsProbe(breakers[p])
  <2>1. /\ breakers[p].state = "Open"
        /\ breakers[p].opened_at = Cooldown
        /\ probe[p] = None
    <3>1. breakers[p].state = "Open"
      BY <1>6 DEF IsProbe
    <3>2. breakers[p].opened_at = Cooldown
      BY <1>1, <1>6, ProbeWaited
    <3>3. probe[p] = None
      BY <3>1 DEF IInv, ProbeAccounted
    <3> QED
      BY <3>1, <3>2, <3>3
  <2>2. /\ breakers'[p].state = "HalfOpen"
        /\ breakers'[p].opened_at = Cooldown
        /\ \A q \in Prefixes \ {p} : breakers'[q] = breakers[q]
    <3>1. breakers'[p] = [breakers[p] EXCEPT !.state = "HalfOpen"]
      BY <1>2, <1>6 DEF Admitted, IInv
    <3> QED
      BY <1>1, <1>2, <2>1, <3>1 DEF IInv, Inner
  <2>3. probe' = [probe EXCEPT ![p] = r] /\ probes' = probes \cup {r}
    BY <1>6 DEF Call
  <2>4. ProbeAccounted'
    BY <1>2, <1>3, <2>2, <2>3, NamesAssumption DEF IInv, ProbeAccounted, InFlight
  <2>5. ProbesInFlight'
    BY <1>2, <2>3 DEF IInv, ProbesInFlight, InFlight
  <2>6. \A o \in Requests : (InFlight(o) /\ route[o] = p)
                             => Cooldown <= buffered[o] + waiting[o]
    BY Zenon, <2>1, NamesAssumption DEF IInv, OlderThanOpening
  <2>7. OlderThanOpening'
    <3> SUFFICES ASSUME NEW q \in Prefixes, NEW o \in Requests,
                        InFlight(o)', route'[o] = q, probe'[q] # o,
                        breakers'[q].state # "Closed"
                 PROVE  breakers'[q].opened_at <= buffered'[o] + waiting'[o]
      BY DEF OlderThanOpening
    <3>1. o # r
      BY <1>2, <2>3 DEF IInv
    <3>2. InFlight(o) /\ route[o] = q
      BY <1>2, <3>1 DEF InFlight, IInv
    <3>3. CASE q = p
      BY <1>2, <2>2, <2>6, <3>2, <3>3
    <3>4. CASE q # p
      BY <1>2, <2>2, <2>3, <3>2, <3>4 DEF IInv, OlderThanOpening
    <3> QED
      BY <3>3, <3>4
  <2>8. OneProbeIfPrompt'
    <3> SUFFICES ASSUME NEW r1 \in probes', NEW r2 \in probes',
                        r1 # r2, route'[r1] = route'[r2]
                 PROVE  \E o \in {r1, r2} : buffered'[o] + Timeout >= Cooldown
      BY DEF OneProbeIfPrompt
    <3>1. CASE r1 # r /\ r2 # r
      BY <1>2, <2>3, <3>1 DEF IInv, OneProbeIfPrompt
    <3>2. ASSUME NEW o \in {r1, r2}, o # r, route'[o] = route'[r]
          PROVE  buffered'[o] + Timeout >= Cooldown
      <4>1. o \in Requests /\ InFlight(o) /\ route[o] = p
        BY <3>2, <1>2, <2>3 DEF IInv, ProbesInFlight
      <4>2. Cooldown <= buffered[o] + waiting[o]
        BY <4>1, <2>6
      <4>3. buffered[o] \in Nat /\ waiting[o] \in Nat /\ waiting[o] <= Timeout
        BY <4>1, ForwardAssumption, BreakerConfigAssumption DEF IInv, Elapsed
      <4> QED
        BY <1>2, <4>2, <4>3, ForwardAssumption, BreakerConfigAssumption
    <3> QED
      BY <3>1, <3>2
  <2> QED
    BY <1>4, <2>4, <2>5, <2>7, <2>8 DEF IInv
<1> QED
  BY <1>5, <1>6

\* A tick ages the breaker and every slot in flight behind it alike.
LEMMA TickStep ==
    ASSUME IInv, TypeOK', Tick
    PROVE  IInv'
<1> USE DEF TypeOK
<1>1. /\ pc' = pc /\ route' = route /\ probe' = probe /\ probes' = probes
      /\ \A p \in Prefixes : breakers'[p] = Aged(breakers[p])
  BY DEF Tick, history
<1>2. \A p \in Prefixes : /\ breakers[p] \in Inner
                          /\ breakers'[p].state = breakers[p].state
  BY <1>1 DEF IInv, Aged, Inner
<1>3. BreakersConsistent'
  BY <1>1, <1>2, BreakerConsistency DEF IInv, BreakersConsistent
<1>4. ProbeAccounted'
  <2>1. \A r : InFlight(r)' <=> InFlight(r)
    BY <1>1 DEF InFlight
  <2> QED
    BY Zenon, <1>1, <1>2, <2>1 DEF IInv, ProbeAccounted
<1>5. ProbesInFlight'
  BY <1>1 DEF IInv, ProbesInFlight, InFlight
<1>6. \A r \in Requests : buffered[r] \in Nat /\ buffered'[r] >= buffered[r]
  BY BreakerConfigAssumption DEF IInv, Tick, Elapsed
<1>7. OlderThanOpening'
  <2> SUFFICES ASSUME NEW p \in Prefixes, NEW r \in Requests,
                      InFlight(r), route[r] = p, probe[p] # r,
                      breakers[p].state # "Closed"
               PROVE  breakers'[p].opened_at <= buffered'[r] + waiting'[r]
    BY <1>1, <1>2 DEF OlderThanOpening, InFlight
  <2> DEFINE old == breakers[p].opened_at
             new == breakers'[p].opened_at
  <2>1. old \in Elapsed
    BY <1>2 DEF IInv, BreakersConsistent, Consistent, Inner
  <2>2. old <= buffered[r] + waiting[r]
    BY DEF IInv, OlderThanOpening
  <2>3. new = IF old < Cooldown THEN old + 1 ELSE old
    BY <1>1, <1>2, <2>1, AgedByTick
  <2>4. buffered[r] \in 0 .. Cooldown /\ waiting[r] \in Nat
    BY DEF IInv, Elapsed
  <2> HIDE DEF old, new
  <2>5. CASE pc[r] = "buffering"
    <3>1. /\ buffered'[r] = IF buffered[r] < Cooldown THEN buffered[r] + 1 ELSE buffered[r]
          /\ waiting'[r] = waiting[r]
      BY <2>5 DEF Tick, IInv
    <3>2. new <= buffered'[r] + waiting'[r]
      BY <2>1, <2>2, <2>3, <2>4, <3>1, BreakerConfigAssumption DEF Elapsed
    <3> QED
      BY Zenon, <3>2 DEF new
  <2>6. CASE pc[r] = "sent"
    <3>1. buffered'[r] = buffered[r] /\ waiting'[r] = waiting[r] + 1
      BY <2>6 DEF Tick, IInv
    <3>2. new <= buffered'[r] + waiting'[r]
      BY <2>1, <2>2, <2>3, <2>4, <3>1, BreakerConfigAssumption DEF Elapsed
    <3> QED
      BY <3>2 DEF new
  <2> QED
    BY <2>5, <2>6 DEF InFlight
<1>8. OneProbeIfPrompt'
  <2> SUFFICES ASSUME NEW r1 \in probes, NEW r2 \in probes, r1 # r2, route[r1] = route[r2]
               PROVE  \E r \in {r1, r2} : buffered'[r] + Timeout >= Cooldown
    BY <1>1 DEF OneProbeIfPrompt
  <2>1. PICK r \in {r1, r2} : buffered[r] + Timeout >= Cooldown
    BY DEF IInv, OneProbeIfPrompt
  <2>2. r \in Requests
    BY DEF IInv
  <2>3. buffered'[r] \in Nat
    BY <2>2, BreakerConfigAssumption DEF Elapsed
  <2> QED
    BY <2>1, <2>2, <2>3, <1>6, ForwardAssumption, BreakerConfigAssumption
<1> QED
  BY <1>3, <1>4, <1>5, <1>7, <1>8 DEF IInv

\* A step that leaves the breakers and the probes alone, and who is in flight
\* behind them, preserves the invariant.
LEMMA NoChange ==
    ASSUME IInv, TypeOK', UNCHANGED <<breakers, route, buffered, waiting, probe, probes>>,
           \A q \in Requests : InFlight(q)' <=> InFlight(q)
    PROVE  IInv'
<1>1. BreakersConsistent'
  BY DEF IInv, BreakersConsistent
<1>2. ProbeAccounted'
  BY DEF IInv, TypeOK, ProbeAccounted
<1>3. ProbesInFlight'
  BY DEF IInv, TypeOK, ProbesInFlight
<1>4. OlderThanOpening'
  BY DEF IInv, OlderThanOpening
<1>5. OneProbeIfPrompt'
  BY DEF IInv, OneProbeIfPrompt
<1> QED
  BY <1>1, <1>2, <1>3, <1>4, <1>5 DEF IInv

\* IInv holds in the initial state and every step preserves it.
THEOREM Invariance == Spec => []IInv
<1>1. Init => IInv
  <2> SUFFICES ASSUME Init, TypeOK PROVE IInv
    <3>1. Fresh \in Inner
      BY DEF Fresh, Inner, State
    <3>2. Init => TypeOK
      BY <3>1, ForwardAssumption, BreakerConfigAssumption
      DEF Init, TypeOK, Elapsed, Counter
    <3> QED
      BY <3>2
  <2>1. Consistent(Fresh)
    BY BreakerConfigAssumption DEF Consistent, Fresh
  <2> QED
    BY <2>1, NamesAssumption
    DEF Init, IInv, BreakersConsistent, ProbeAccounted, ProbesInFlight,
        OlderThanOpening, OneProbeIfPrompt, InFlight, Fresh
<1>2. IInv /\ TypeOK' /\ [Next]_vars => IInv'
  <2> SUFFICES ASSUME IInv, TypeOK', [Next]_vars PROVE IInv'
    OBVIOUS
  <2>1. ASSUME NEW r \in Requests, NEW p \in Prefixes, ShortCircuit(r, p)
        PROVE  IInv'
    <3>1. UNCHANGED <<breakers, pc, route, buffered, waiting, probe, probes>>
      BY <2>1 DEF ShortCircuit, request, history
    <3>2. \A q \in Requests : InFlight(q)' <=> InFlight(q)
      BY <3>1 DEF InFlight
    <3> QED
      BY <3>1, <3>2, NoChange
  <2>2. ASSUME NEW r \in Requests, NEW p \in Prefixes, Call(r, p)
        PROVE  IInv'
    BY <2>2, CallStep
  <2>3. ASSUME NEW r \in Requests, Send(r)
        PROVE  IInv'
    <3>1. \A q \in Requests : InFlight(q)' <=> InFlight(q)
      BY <2>3 DEF Send, InFlight, IInv, TypeOK
    <3>2. UNCHANGED <<breakers, route, buffered, waiting, probe, probes>>
      BY <2>3 DEF Send, history
    <3> QED
      BY <3>1, <3>2, NoChange
  <2>4. ASSUME NEW r \in Requests, BodyFails(r)
        PROVE  IInv'
    BY <2>4, AbandonStep DEF BodyFails
  <2>5. ASSUME NEW r \in Requests, SendFails(r)
        PROVE  IInv'
    <3>1. /\ pc'[r] = "idle"
          /\ \A q \in Requests \ {r} : /\ pc'[q] = pc[q]
                                       /\ route'[q] = route[q]
                                       /\ buffered'[q] = buffered[q]
                                       /\ waiting'[q] = waiting[q]
      BY <2>5 DEF SendFails, Release, IInv, TypeOK
    <3> QED
      BY Zenon, <2>5, <3>1, RecordStep DEF SendFails
  <2>6. ASSUME NEW r \in Requests, Answered(r)
        PROVE  IInv'
    <3>1. /\ pc'[r] = "reading"
          /\ \A q \in Requests \ {r} : /\ pc'[q] = pc[q]
                                       /\ route'[q] = route[q]
                                       /\ buffered'[q] = buffered[q]
                                       /\ waiting'[q] = waiting[q]
      BY <2>6 DEF Answered, IInv, TypeOK
    <3> QED
      BY Zenon, <2>6, <3>1, RecordStep DEF Answered
  <2>7. ASSUME NEW r \in Requests, Respond(r)
        PROVE  IInv'
    <3>1. Abandon(r)
      <4>1. r \notin probes /\ \A p \in Prefixes : probe[p] # r
        BY <2>7 DEF Respond, IInv, ProbesInFlight, ProbeAccounted, InFlight
      <4> QED
        BY <2>7, <4>1 DEF Respond, history, Abandon, IInv, TypeOK
    <3> QED
      BY <2>7, <3>1, AbandonStep DEF Respond
  <2>8. ASSUME NEW r \in Requests, Disconnect(r)
        PROVE  IInv'
    BY <2>8, AbandonStep DEF Disconnect
  <2>9. CASE Tick
    BY <2>9, TickStep
  <2>10. CASE UNCHANGED vars
    <3>1. UNCHANGED <<breakers, pc, route, buffered, waiting, probe, probes>>
      BY <2>10 DEF vars, request, history
    <3>2. \A q \in Requests : InFlight(q)' <=> InFlight(q)
      BY <3>1 DEF InFlight
    <3> QED
      BY <3>1, <3>2, NoChange
  <2> QED
    BY <2>1, <2>2, <2>3, <2>4, <2>5, <2>6, <2>7, <2>8, <2>9, <2>10 DEF Next, Step
<1> QED
  BY <1>1, <1>2, TypeCorrect, PTL DEF Spec

-------------------------------------------------------------------------------
(***************************************************************************)
(* The results.                                                            *)
(***************************************************************************)
\* A breaker's fields always agree and its streak stays below the threshold,
\* so recovering a poisoned lock (circuit.rs `lock`) is safe.
THEOREM BreakersAlwaysConsistent == Spec => []BreakersConsistent
BY Invariance, PTL DEF IInv

\* A HalfOpen breaker has its probe in flight on its own prefix, or lost it.
THEOREM ProbeAlwaysAccounted == Spec => []ProbeAccounted
BY Invariance, PTL DEF IInv

\* Whatever is in flight behind a breaker that is not closed, its probe apart,
\* is older than the opening.
THEOREM StragglersAreOld == Spec => []OlderThanOpening
BY Invariance, PTL DEF IInv

\* circuit.rs's "only one probe is ever in flight" holds as long as bodies
\* arrive within Cooldown - Timeout.
THEOREM AtMostOnePromptProbe == Spec => []OneProbeIfPrompt
BY Invariance, PTL DEF IInv

\* The outcome that record(..) takes for the probe's in HalfOpen is the
\* probe's, or comes from a body that took at least Cooldown - Timeout.
THEOREM PromptProbeDecides == Spec => ProbeDecidesIfPrompt
<1>1. ASSUME IInv, NEW r \in Requests, StragglerDecides(r)
      PROVE  buffered[r] + Timeout >= Cooldown
  <2> DEFINE p == route[r]
  <2>1. pc[r] = "sent"
    BY <1>1 DEF StragglerDecides, SendFails, Answered
  <2>2. p \in Prefixes /\ InFlight(r) /\ probe[p] # r /\ breakers[p].state = "HalfOpen"
    BY <1>1, <2>1 DEF IInv, TypeOK, StragglerDecides, InFlight
  <2>3. breakers[p].opened_at = Cooldown /\ breakers[p].opened_at <= buffered[r] + waiting[r]
    BY <1>1, <2>2 DEF IInv, BreakersConsistent, Consistent, OlderThanOpening
  <2>4. buffered[r] \in Nat /\ waiting[r] \in Nat /\ waiting[r] <= Timeout
    BY <1>1, ForwardAssumption, BreakerConfigAssumption DEF IInv, TypeOK, Elapsed
  <2> QED
    BY <2>3, <2>4, ForwardAssumption, BreakerConfigAssumption
<1>2. IInv => [\A r \in Requests : StragglerDecides(r) => buffered[r] + Timeout >= Cooldown]_vars
  BY <1>1
<1> QED
  BY <1>2, Invariance, PTL DEF ProbeDecidesIfPrompt

\* How the calls inside each circuit change: by an admission, by the end of a
\* call, or not at all.
LEMMA InsideGrows ==
    ASSUME TypeOK, NEW r \in Requests, NEW p \in Prefixes, pc[r] = "idle",
           pc' = [pc EXCEPT ![r] = "buffering"], route' = [route EXCEPT ![r] = p]
    PROVE  \A q \in Prefixes : Inside(q)' = IF q = p THEN Inside(q) \cup {r} ELSE Inside(q)
BY DEF TypeOK, Inside, InFlight

\* ... and shrink by one that is no longer in flight.
LEMMA InsideShrinks ==
    ASSUME TypeOK, NEW r \in Requests, NEW p \in Prefixes, InFlight(r), route[r] = p,
           pc'[r] \notin {"buffering", "sent"},
           \A q \in Requests \ {r} : pc'[q] = pc[q] /\ route'[q] = route[q]
    PROVE  /\ r \in Inside(p)
           /\ \A q \in Prefixes : Inside(q)' = IF q = p THEN Inside(q) \ {r} ELSE Inside(q)
BY DEF TypeOK, Inside, InFlight

\* forward implements the contract of ADR-0006 for any number of concurrent
\* requests: the initial states agree, and under IInv every step is a step of
\* the contract or leaves the circuits alone.
THEOREM ForwardKeepsContract == Spec => KeepsContract
<1>1. Init => Contract!Init
  BY NamesAssumption
  DEF Init, Contract!Init, Fresh, Quiet, Inside, InFlight
<1>2. IInv /\ [Next]_vars => [Contract!Next]_(Contract!circuits)
  <2> SUFFICES ASSUME IInv, [Next]_vars
               PROVE  Contract!Next \/ UNCHANGED Contract!circuits
    OBVIOUS
  <2>a. TypeOK
    BY DEF IInv
  <2>b. \A p \in Prefixes : /\ breakers[p] \in Inner
                            /\ breakers[p].state \in State
                            /\ breakers[p].consecutive_failures \in Nat
    BY <2>a DEF TypeOK, Inner
  <2>c. \A p \in Prefixes : breakers[p].state = "Open" => breakers[p].opened_at \in Elapsed
    BY <2>b DEF IInv, BreakersConsistent, Consistent, Inner
  <2>1. ASSUME NEW r \in Requests, NEW p \in Prefixes, ShortCircuit(r, p)
        PROVE  UNCHANGED Contract!circuits
    BY <2>1 DEF ShortCircuit, request, Contract!circuits, Inside, InFlight
  <2>2. ASSUME NEW r \in Requests, NEW p \in Prefixes, Call(r, p)
        PROVE  Contract!Next
    <3>1. \A q \in Prefixes : Inside(q)' = IF q = p THEN Inside(q) \cup {r} ELSE Inside(q)
      BY Zenon, <2>2, <2>a, InsideGrows DEF Call
    <3>2. CASE ~IsProbe(breakers[p])
      <4>1. breakers[p].state = "Closed" /\ breakers' = breakers
        BY <2>2, <2>a, <3>2 DEF Call, Admit, Admitted, TypeOK
      <4>2. Contract!Enter(p, r)
        BY Zenon, <3>1, <4>1 DEF Contract!Enter
      <4> QED
        BY <4>2 DEF Contract!Next
    <3>3. CASE IsProbe(breakers[p])
      <4>1. breakers' = [breakers EXCEPT ![p] = [breakers[p] EXCEPT !.state = "HalfOpen"]]
        BY <2>2, <3>3 DEF Call, Admitted
      <4>2. /\ breakers'[p].state = "HalfOpen"
            /\ breakers'[p].consecutive_failures = breakers[p].consecutive_failures
            /\ \A q \in Prefixes \ {p} : breakers'[q] = breakers[q]
        BY <2>a, <2>b, <4>1 DEF TypeOK, Inner
      <4>3. breakers[p].state = "Open" /\ Quiet(breakers[p]) = 0
        BY <2>b, <3>3, ProbeWaited, BreakerConfigAssumption DEF IsProbe, Quiet
      <4>4. Quiet(breakers'[p]) = 0
        BY <4>2 DEF Quiet
      <4>5. Contract!Try(p, r)
        BY Zenon, <3>1, <4>2, <4>3, <4>4 DEF Contract!Try
      <4> QED
        BY <4>5 DEF Contract!Next
    <3> QED
      BY <3>2, <3>3
  <2>3. ASSUME NEW r \in Requests, Send(r)
        PROVE  UNCHANGED Contract!circuits
    <3>1. \A q \in Prefixes : Inside(q)' = Inside(q)
      BY <2>3, <2>a DEF Send, Inside, InFlight, TypeOK
    <3> QED
      BY <2>3, <3>1 DEF Send, Contract!circuits
  <2>4. ASSUME NEW r \in Requests, pc[r] # "idle", Release(r), UNCHANGED breakers
        PROVE  Contract!Next \/ UNCHANGED Contract!circuits
    <3>1. /\ route[r] \in Prefixes
          /\ pc'[r] = "idle"
          /\ \A q \in Requests \ {r} : pc'[q] = pc[q] /\ route'[q] = route[q]
      BY <2>4, <2>a DEF Release, TypeOK
    <3>2. CASE InFlight(r)
      <4>1. Contract!Vanish(route[r], r)
        BY Zenon, <2>4, <2>a, <3>1, <3>2, InsideShrinks DEF Contract!Vanish, Contract!Leaves
      <4> QED
        BY <3>1, <4>1 DEF Contract!Next
    <3>3. CASE ~InFlight(r)
      <4>1. \A q \in Prefixes : Inside(q)' = Inside(q)
        BY <3>1, <3>3 DEF Inside, InFlight
      <4> QED
        BY <2>4, <4>1 DEF Contract!circuits
    <3> QED
      BY <3>2, <3>3
  <2>5. ASSUME NEW r \in Requests, SendFails(r)
        PROVE  Contract!Next
    <3>0. PICK p \in Prefixes : route[r] = p
      BY <2>5, <2>a DEF SendFails, TypeOK
    <3>1. /\ InFlight(r)
          /\ pc'[r] = "idle"
          /\ \A q \in Requests \ {r} : pc'[q] = pc[q] /\ route'[q] = route[q]
      BY <2>5, <2>a DEF SendFails, Release, TypeOK, InFlight
    <3>2. Contract!Leaves(p, r)
      BY Zenon, <2>a, <3>0, <3>1, InsideShrinks DEF Contract!Leaves
    <3>3. /\ breakers'[p] = RecordFailure(breakers[p])
          /\ \A q \in Prefixes \ {p} : breakers'[q] = breakers[q]
      BY <2>5, <2>a, <3>0 DEF SendFails, TypeOK
    <3>4. Contract!Fail(p, r)
      <4>1. CASE breakers[p].state = "Closed" /\ breakers[p].consecutive_failures + 1 < FailureThreshold
        <5>1. breakers'[p] = [breakers[p] EXCEPT !.consecutive_failures = @ + 1]
          BY <3>3, <4>1, <2>b, BreakerConfigAssumption DEF RecordFailure
        <5>2. /\ breakers'[p].state = breakers[p].state
              /\ breakers'[p].consecutive_failures = breakers[p].consecutive_failures + 1
          BY <5>1, <2>b DEF Inner
        <5>3. \A q \in Prefixes : Quiet(breakers'[q]) = Quiet(breakers[q])
          BY <3>3, <4>1, <5>2 DEF Quiet
        <5> QED
          BY Zenon, <3>2, <3>3, <4>1, <5>2, <5>3 DEF Contract!Fail
      <4>2. CASE /\ breakers[p].state = "Closed" => breakers[p].consecutive_failures + 1 = FailureThreshold
                 /\ breakers[p].state # "Open"
        <5>1. breakers'[p] = Opened
          BY <3>3, <4>2, <2>b, BreakerConfigAssumption DEF RecordFailure, State
        <5>2. /\ breakers'[p].state = "Open"
              /\ breakers'[p].consecutive_failures = 0
              /\ Quiet(breakers'[p]) = Cooldown
          BY <5>1, BreakerConfigAssumption DEF Opened, Quiet
        <5>3. Contract!Open(p)
          BY Zenon, <3>3, <5>2 DEF Contract!Open
        <5> QED
          BY <3>2, <4>2, <5>3 DEF Contract!Fail
      <4>3. CASE breakers[p].state = "Open"
        <5>1. breakers'[p] = breakers[p]
          BY <3>3, <4>3, <2>b DEF RecordFailure
        <5> QED
          BY <3>2, <3>3, <4>3, <5>1, Zenon DEF Contract!Fail
      <4>4. breakers[p].state = "Closed" => breakers[p].consecutive_failures + 1 <= FailureThreshold
        BY <2>b, BreakerConfigAssumption DEF IInv, BreakersConsistent, Consistent
      <4>5. breakers[p].state = "Closed" =>
              \/ breakers[p].consecutive_failures + 1 < FailureThreshold
              \/ breakers[p].consecutive_failures + 1 = FailureThreshold
        BY <2>b, <4>4, BreakerConfigAssumption
      <4> QED
        BY <4>1, <4>2, <4>3, <4>5
    <3> QED
      BY <3>4 DEF Contract!Next
  <2>6. ASSUME NEW r \in Requests, Answered(r)
        PROVE  Contract!Next
    <3>0. PICK p \in Prefixes : route[r] = p
      BY <2>6, <2>a DEF Answered, TypeOK
    <3>1. /\ InFlight(r)
          /\ pc'[r] = "reading"
          /\ \A q \in Requests \ {r} : pc'[q] = pc[q] /\ route'[q] = route[q]
      BY <2>6, <2>a DEF Answered, TypeOK, InFlight
    <3>2. Contract!Leaves(p, r)
      BY Zenon, <2>a, <3>0, <3>1, InsideShrinks DEF Contract!Leaves
    <3>3. /\ breakers'[p] = RecordSuccess(breakers[p])
          /\ \A q \in Prefixes \ {p} : breakers'[q] = breakers[q]
      BY <2>6, <2>a, <3>0 DEF Answered, TypeOK
    <3>4. /\ breakers'[p].state = IF breakers[p].state = "Open" THEN "Open" ELSE "Closed"
          /\ breakers'[p].consecutive_failures = 0
          /\ Quiet(breakers'[p]) = Quiet(breakers[p])
      <4>1. CASE breakers[p].state = "Closed"
        <5>1. breakers'[p] = [breakers[p] EXCEPT !.consecutive_failures = 0]
          BY <3>3, <4>1 DEF RecordSuccess
        <5> QED
          BY <2>b, <4>1, <5>1 DEF Quiet, Inner
      <4>2. CASE breakers[p].state = "HalfOpen"
        <5>1. breakers'[p] = Fresh
          BY <3>3, <4>2 DEF RecordSuccess
        <5> QED
          BY <4>2, <5>1 DEF Quiet, Fresh
      <4>3. CASE breakers[p].state = "Open"
        <5>1. breakers'[p] = breakers[p]
          BY <3>3, <4>3 DEF RecordSuccess
        <5> QED
          BY <4>3, <5>1 DEF IInv, BreakersConsistent, Consistent
      <4> QED
        BY <2>b, <4>1, <4>2, <4>3 DEF State
    <3>5. Contract!Succeed(p, r)
      BY Zenon, <3>2, <3>3, <3>4 DEF Contract!Succeed
    <3> QED
      BY <3>5 DEF Contract!Next
  <2>7. CASE Tick
    <3>1. /\ \A p \in Prefixes : breakers'[p] = Aged(breakers[p])
          /\ \A p \in Prefixes : Inside(p)' = Inside(p)
      BY <2>7 DEF Tick, Inside, InFlight
    <3>2. \A p \in Prefixes : /\ breakers'[p].state = breakers[p].state
                              /\ breakers'[p].consecutive_failures = breakers[p].consecutive_failures
      BY Zenon, <2>b, <3>1 DEF Aged, Inner
    <3>3. ASSUME NEW p \in Prefixes
          PROVE  Quiet(breakers'[p]) = IF Quiet(breakers[p]) > 0 THEN Quiet(breakers[p]) - 1 ELSE 0
      <4>1. CASE breakers[p].state # "Open"
        BY <3>2, <4>1 DEF Quiet
      <4>2. CASE breakers[p].state = "Open"
        <5> DEFINE old == breakers[p].opened_at
                   new == breakers'[p].opened_at
        <5>1. old \in Elapsed
          BY <2>c, <4>2
        <5>2. new = IF old < Cooldown THEN old + 1 ELSE old
          BY <2>b, <3>1, <5>1, AgedByTick
        <5>3. Quiet(breakers[p]) = Cooldown - old /\ Quiet(breakers'[p]) = Cooldown - new
          BY <3>2, <4>2 DEF Quiet
        <5> HIDE DEF old, new
        <5> QED
          BY <5>1, <5>2, <5>3, BreakerConfigAssumption DEF Elapsed
      <4> QED
        BY <4>1, <4>2
    <3>4. Contract!Pass
      BY <3>1, <3>2, <3>3 DEF Contract!Pass
    <3> QED
      BY <3>4 DEF Contract!Next
  <2>8. CASE UNCHANGED vars
    BY <2>8 DEF vars, request, Contract!circuits, Inside, InFlight
  <2>9. ASSUME NEW r \in Requests, BodyFails(r) \/ Respond(r) \/ Disconnect(r)
        PROVE  pc[r] # "idle" /\ Release(r) /\ UNCHANGED breakers
    BY <2>9 DEF BodyFails, Respond, Disconnect
  <2> QED
    BY <2>1, <2>2, <2>3, <2>4, <2>5, <2>6, <2>7, <2>8, <2>9 DEF Next, Step
<1> QED
  BY <1>1, <1>2, Invariance, PTL DEF Spec, KeepsContract, Contract!Spec

-------------------------------------------------------------------------------
(***************************************************************************)
(* The counters.                                                           *)
(***************************************************************************)
Readers(p) == {r \in Requests : pc[r] = "reading" /\ route[r] = p}
Width == CounterMax + 1

\* fetch_add on a counter of its width: a wrapped counter is one more, modulo.
LEMMA IncWraps ==
    /\ Width \in Nat \ {0}
    /\ \A n \in Nat : Inc(n % Width) = (n + 1) % Width
    /\ \A a \in Counter, n \in Nat : (Inc(a) + n) % Width = (a + n + 1) % Width
  <1>1. Width \in Nat \ {0} /\ CounterMax = Width - 1
    BY ForwardAssumption DEF Width
  <1>2. ASSUME NEW n \in Nat PROVE Inc(n % Width) = (n + 1) % Width
    BY <1>1, OneMore, Zenon DEF Inc
  <1>3. ASSUME NEW a \in Counter, NEW n \in Nat PROVE (Inc(a) + n) % Width = (a + n + 1) % Width
    <2>1. CASE a # CounterMax
      <3>1. Inc(a) + n = a + n + 1
        BY <2>1, ForwardAssumption DEF Inc, Counter
      <3> QED BY <3>1
    <2>2. CASE a = CounterMax
      <3>1. Inc(a) + n = n /\ a + n + 1 = n + Width
        BY <1>1, <2>2 DEF Inc
      <3> QED BY <1>1, <3>1, FullTurn
    <2> QED BY <2>1, <2>2
  <1> QED BY <1>1, <1>2, <1>3

\* A timer that finishes keeps the classes adding up to the requests.
LEMMA FinishCounted ==
    ASSUME TypeOK, OutcomesCounted, NEW p \in Prefixes, NEW c \in Classes, Finish(p, c)
    PROVE  /\ requests_total' = [requests_total EXCEPT ![p] = Inc(@)]
           /\ \A q \in Prefixes : requests_total'[q] = Responses(q)' % Width
  <1> DEFINE of(q) == [d \in Classes |-> status_totals[<<d, q>>]]
             to(q) == [d \in Classes |-> status_totals'[<<d, q>>]]
  <1>1. /\ requests_total' = [requests_total EXCEPT ![p] = Inc(@)]
        /\ requests_total \in [Prefixes -> Counter]
        /\ status_totals' = [status_totals EXCEPT ![<<c, p>>] = Inc(@)]
        /\ status_totals \in [Classes \X Prefixes -> Counter]
    BY DEF Finish, TypeOK
  <1>2. \A q \in Prefixes : requests_total[q] = Responses(q) % Width
    BY DEF OutcomesCounted, Width
  <1>3. \A q \in Prefixes, d \in Classes :
           to(q)[d] = IF d = c /\ q = p THEN Inc(of(q)[d]) ELSE of(q)[d]
    BY <1>1
  <1>4. \A q \in Prefixes, d \in Classes : of(q)[d] \in Counter
    BY <1>1
  <1>5. \A q \in Prefixes : /\ Responses(q) = SumFunctionOnSet(of(q), Classes)
                            /\ Responses(q)' = SumFunctionOnSet(to(q), Classes)
    BY DEF Responses
  <1> HIDE DEF of, to
  <1>6. IsFiniteSet(Classes) /\ Counter \subseteq Nat /\ CounterMax \in Nat
    BY ForwardAssumption DEF Counter
  <1>7. ASSUME NEW q \in Prefixes, q # p PROVE requests_total'[q] = Responses(q)' % Width
    <2>1. \A d \in Classes : to(q)[d] = of(q)[d]
      BY <1>3, <1>7
    <2>2. SumFunctionOnSet(to(q), Classes) = SumFunctionOnSet(of(q), Classes)
      BY <1>6, <2>1, SumSame, Zenon
    <2> QED BY <1>1, <1>2, <1>5, <1>7, <2>2
  <1>8. requests_total'[p] = Responses(p)' % Width
    <2> DEFINE sum == SumFunctionOnSet(of(p), Classes)
               new == SumFunctionOnSet(to(p), Classes)
    <2>1. /\ \A d \in Classes : of(p)[d] \in Nat
          /\ \A d \in Classes : to(p)[d] \in Nat
      BY <1>3, <1>4, <1>6, IncTyping, Zenon
    <2>2. sum \in Nat /\ new \in Nat
      BY <1>6, <2>1, SumNat, Zenon
    <2>3. requests_total'[p] = (sum + 1) % Width
      BY <1>1, <1>2, <1>5, <2>2, IncWraps
    <2>4. \A d \in Classes \ {c} : to(p)[d] = of(p)[d]
      BY <1>3
    <2>5. CASE of(p)[c] # CounterMax
      <3>1. to(p)[c] = of(p)[c] + 1
        BY <1>3, <2>5 DEF Inc
      <3>2. new = sum + 1
        BY <1>6, <2>1, <2>4, <3>1, SumRaise
      <3> QED BY <1>5, <2>3, <3>2
    <2>6. CASE of(p)[c] = CounterMax
      <3>1. to(p)[c] = 0 /\ of(p)[c] = to(p)[c] + CounterMax
        BY <1>3, <1>6, <2>6 DEF Inc
      <3>2. sum = new + CounterMax
        BY <1>6, <2>1, <2>4, <3>1, SumRaise
      <3>3. sum + 1 = new + Width
        BY <1>6, <2>2, <3>2 DEF Width
      <3>4. (new + Width) % Width = new % Width
        BY <2>2, IncWraps, FullTurn
      <3> QED BY <1>5, <2>3, <3>3, <3>4
    <2> QED BY <2>5, <2>6
  <1> QED BY <1>1, <1>7, <1>8

\* The set of those who are at the last await, when one joins or leaves it.
LEMMA ReadersMove ==
    ASSUME NEW p, NEW r
    PROVE  /\ Reading(p) \in Nat /\ Reading(p)' \in Nat
           /\ Readers(p)' = Readers(p) => Reading(p)' = Reading(p)
           /\ r \notin Readers(p) /\ Readers(p)' = Readers(p) \cup {r} => Reading(p)' = Reading(p) + 1
           /\ r \in Readers(p) /\ Readers(p)' = Readers(p) \ {r} => Reading(p) = Reading(p)' + 1
  <1>1. IsFiniteSet(Readers(p)) /\ IsFiniteSet(Readers(p)')
    BY ForwardAssumption, FS_Subset DEF Readers
  <1>2. Reading(p) = Cardinality(Readers(p)) /\ Reading(p)' = Cardinality(Readers(p)')
    BY DEF Reading, Readers
  <1> QED BY <1>1, <1>2, FS_CardinalityType, FS_AddElement, OneLess

\* A step that reports, finishes or leaves nothing, counts nothing.
LEMMA NothingCounted ==
    ASSUME OutcomesCounted, UNCHANGED <<requests_total, status_totals, recorded, left>>,
           \A p \in Prefixes : Readers(p)' = Readers(p)
    PROVE  OutcomesCounted'
  <1>1. \A p \in Prefixes : Reading(p)' = Reading(p) /\ Responses(p)' = Responses(p)
    BY ReadersMove DEF Responses
  <1> QED BY <1>1 DEF OutcomesCounted

\* Every outcome that forward reports is counted once, is about to be, or was
\* that of a client that left while its response was read; and the classes add
\* up to the requests.  For any number of slots, modulo the width of counters.
THEOREM OutcomesAreCounted == Spec => []OutcomesCounted
  <1>1. Init => OutcomesCounted
    <2> SUFFICES ASSUME Init, NEW p \in Prefixes
                 PROVE  /\ recorded[p] = (requests_total[p] + Reading(p) + left[p]) % Width
                        /\ requests_total[p] = Responses(p) % Width
      BY DEF OutcomesCounted, Width
    <2>1. Readers(p) = {} /\ \A c \in Classes : [d \in Classes |-> status_totals[<<d, p>>]][c] = 0
      BY DEF Init, Readers
    <2>2. Reading(p) = 0 /\ Responses(p) = 0
      BY <2>1, FS_EmptySet, SumZero, ForwardAssumption, Zenon DEF Reading, Readers, Responses
    <2>3. 0 % Width = 0
      BY IncWraps
    <2> QED BY <2>2, <2>3 DEF Init
  <1>2. TypeOK /\ TypeOK' /\ OutcomesCounted /\ [Next]_vars => OutcomesCounted'
    <2> SUFFICES ASSUME TypeOK, TypeOK', OutcomesCounted, [Next]_vars PROVE OutcomesCounted'
      OBVIOUS
    <2>0. /\ requests_total \in [Prefixes -> Counter] /\ recorded \in [Prefixes -> Counter]
          /\ left \in [Prefixes -> Counter] /\ Counter \subseteq Nat
          /\ requests_total' \in [Prefixes -> Counter] /\ left' \in [Prefixes -> Counter]
          /\ pc \in [Requests -> {"idle", "buffering", "sent", "reading"}]
          /\ route \in [Requests -> Prefixes \cup {None}]
      BY ForwardAssumption DEF TypeOK, Counter
    <2>a. ASSUME NEW p \in Prefixes
          PROVE  /\ recorded[p] = (requests_total[p] + Reading(p) + left[p]) % Width
                 /\ requests_total[p] = Responses(p) % Width
      BY DEF OutcomesCounted, Width
    <2>b. ASSUME \A p \in Prefixes :
                   /\ recorded'[p] = (requests_total'[p] + Reading(p)' + left'[p]) % Width
                   /\ requests_total'[p] = Responses(p)' % Width
          PROVE  OutcomesCounted'
      BY <2>b DEF OutcomesCounted, Width
    <2>1. ASSUME NEW r \in Requests, NEW p \in Prefixes, ShortCircuit(r, p) \/ Call(r, p)
          PROVE  OutcomesCounted'
      <3>1. \A q \in Prefixes : Readers(q)' = Readers(q)
        BY <2>0, <2>1 DEF ShortCircuit, Call, Readers, request
      <3>2. UNCHANGED <<requests_total, status_totals, recorded, left>>
        BY <2>1 DEF ShortCircuit, CountShortCircuit, Call, metrics, history
      <3> QED BY <3>1, <3>2, NothingCounted
    <2>2. ASSUME NEW r \in Requests, pc[r] # "reading", Send(r) \/ BodyFails(r) \/ Disconnect(r)
          PROVE  OutcomesCounted'
      <3>1. \A q \in Prefixes : Readers(q)' = Readers(q)
        BY <2>0, <2>2 DEF Send, BodyFails, Disconnect, Release, Readers
      <3>2. UNCHANGED <<requests_total, status_totals, recorded, left>>
        BY <2>2, Zenon DEF Send, BodyFails, Disconnect, metrics, history
      <3> QED BY <3>1, <3>2, NothingCounted
    <2>3. ASSUME NEW r \in Requests, SendFails(r) PROVE OutcomesCounted'
      <3>0. PICK p \in Prefixes : p = route[r]
        BY <2>3 DEF SendFails, TypeOK
      <3>1. Finish(p, "5xx") /\ "5xx" \in Classes
        BY <2>3, <3>0, ForwardAssumption DEF SendFails
      <3>2. /\ recorded' = [recorded EXCEPT ![p] = Inc(@)] /\ UNCHANGED left
            /\ \A q \in Prefixes : Readers(q)' = Readers(q)
        BY <2>0, <2>3, <3>0 DEF SendFails, Decided, Release, Readers
      <3>3. /\ requests_total' = [requests_total EXCEPT ![p] = Inc(@)]
            /\ \A q \in Prefixes : requests_total'[q] = Responses(q)' % Width
        BY <3>1, FinishCounted
      <3>4. \A q \in Prefixes : Reading(q)' = Reading(q) /\ Reading(q) \in Nat
        BY <3>2, ReadersMove, Zenon
      <3>5. ASSUME NEW q \in Prefixes
            PROVE  recorded'[q] = (requests_total'[q] + Reading(q)' + left'[q]) % Width
        <4> DEFINE n == Reading(q) + left[q]
                   a == requests_total[q]
        <4>0. left[q] \in Nat /\ Reading(q) \in Nat /\ a \in Counter /\ a \in Nat
          BY <2>0, <3>4, Zenon
        <4>1. n \in Nat /\ a + n \in Nat
          BY <4>0
        <4>2. recorded[q] = (a + n) % Width
          <5>1. a + Reading(q) + left[q] = a + n
            BY <4>0
          <5> QED BY <2>a, <5>1
        <4>3. /\ q = p => requests_total'[q] = Inc(a) /\ recorded'[q] = Inc(recorded[q])
              /\ q # p => requests_total'[q] = a /\ recorded'[q] = recorded[q]
          BY <2>0, <3>2, <3>3
        <4>4. requests_total'[q] + Reading(q)' + left'[q] = requests_total'[q] + n
          <5>1. requests_total'[q] \in Nat /\ Reading(q)' = Reading(q) /\ left'[q] = left[q]
            BY <2>0, <3>2, <3>4, Zenon
          <5> QED BY <4>0, <5>1
        <4> HIDE DEF n, a
        <4>5. Inc((a + n) % Width) = (Inc(a) + n) % Width
          BY <4>0, <4>1, IncWraps, Zenon
        <4> QED BY <4>2, <4>3, <4>4, <4>5
      <3> QED BY <2>b, <3>3, <3>5
    <2>4. ASSUME NEW r \in Requests, Answered(r) PROVE OutcomesCounted'
      <3>0. PICK p \in Prefixes : p = route[r]
        BY <2>4 DEF Answered, TypeOK
      <3>1. /\ r \notin Readers(p) /\ Readers(p)' = Readers(p) \cup {r}
            /\ \A q \in Prefixes \ {p} : Readers(q)' = Readers(q)
        BY <2>4, <3>0 DEF Answered, Readers, TypeOK
      <3>2. /\ recorded' = [recorded EXCEPT ![p] = Inc(@)]
            /\ UNCHANGED <<left, requests_total, status_totals>>
        BY <2>4, <3>0, Zenon DEF Answered, Decided, metrics
      <3>3. /\ Reading(p)' = Reading(p) + 1
            /\ \A q \in Prefixes \ {p} : Reading(q)' = Reading(q)
            /\ \A q \in Prefixes : Reading(q) \in Nat
        BY <3>1, ReadersMove
      <3>4. \A q \in Prefixes : Responses(q)' = Responses(q)
        BY <3>2 DEF Responses
      <3>5. ASSUME NEW q \in Prefixes, q # p
            PROVE  recorded'[q] = (requests_total'[q] + Reading(q)' + left'[q]) % Width
        BY <2>0, <2>a, <3>2, <3>3, <3>5
      <3>6. recorded'[p] = (requests_total'[p] + Reading(p)' + left'[p]) % Width
        <4> DEFINE n == requests_total[p] + Reading(p) + left[p]
        <4>1. n \in Nat /\ requests_total'[p] + Reading(p)' + left'[p] = n + 1
          <5>1. requests_total[p] \in Nat /\ left[p] \in Nat
            BY <2>0, Zenon
          <5> QED BY <3>2, <3>3, <5>1
        <4>2. recorded'[p] = Inc(n % Width)
          BY <2>0, <2>a, <3>2
        <4> HIDE DEF n
        <4> QED BY <4>1, <4>2, IncWraps
      <3>7. \A q \in Prefixes : requests_total'[q] = Responses(q)' % Width
        BY <2>a, <3>2, <3>4
      <3> QED BY <2>b, <3>5, <3>6, <3>7
    <2>5. ASSUME NEW r \in Requests, pc[r] = "reading", Respond(r) \/ Disconnect(r)
          PROVE  OutcomesCounted'
      <3>0. PICK p \in Prefixes : p = route[r]
        BY <2>5 DEF TypeOK
      <3>1. /\ r \in Readers(p) /\ Readers(p)' = Readers(p) \ {r}
            /\ \A q \in Prefixes \ {p} : Readers(q)' = Readers(q)
        <4>1. Release(r)
          BY <2>5 DEF Respond, Disconnect
        <4> QED BY <2>0, <2>5, <3>0, <4>1 DEF Release, Readers
      <3>2. UNCHANGED recorded
        BY <2>5 DEF Respond, Disconnect, history
      <3>3. /\ \A q \in Prefixes : requests_total'[q] = Responses(q)' % Width
            /\ \/ requests_total' = [requests_total EXCEPT ![p] = Inc(@)] /\ UNCHANGED left
               \/ left' = [left EXCEPT ![p] = Inc(@)] /\ UNCHANGED requests_total
        <4>1. CASE Respond(r)
          <5>1. PICK c \in Classes : Finish(p, c)
            BY <3>0, <4>1 DEF Respond
          <5> QED BY <4>1, <5>1, FinishCounted DEF Respond, history
        <4>2. CASE Disconnect(r)
          <5>1. left' = [left EXCEPT ![p] = Inc(@)] /\ UNCHANGED <<requests_total, status_totals>>
            BY <2>5, <3>0, <4>2 DEF Disconnect, metrics
          <5>2. \A q \in Prefixes : Responses(q)' = Responses(q)
            BY <5>1 DEF Responses
          <5> QED BY <2>a, <5>1, <5>2
        <4> QED BY <2>5, <4>1, <4>2
      <3>4. /\ Reading(p) = Reading(p)' + 1
            /\ \A q \in Prefixes \ {p} : Reading(q)' = Reading(q)
            /\ \A q \in Prefixes : Reading(q) \in Nat /\ Reading(q)' \in Nat
        BY <3>1, ReadersMove
      <3>5. ASSUME NEW q \in Prefixes, q # p
            PROVE  recorded'[q] = (requests_total'[q] + Reading(q)' + left'[q]) % Width
        BY <2>0, <2>a, <3>2, <3>3, <3>4, <3>5
      <3>6. recorded'[p] = (requests_total'[p] + Reading(p)' + left'[p]) % Width
        <4> DEFINE n == Reading(p)'
                   a == requests_total[p]
                   b == left[p]
        <4>1. /\ n \in Nat /\ a \in Counter /\ b \in Counter /\ a \in Nat /\ b \in Nat
              /\ Reading(p) = n + 1
          BY <2>0, <3>4, Zenon
        <4>2. recorded'[p] = (a + (n + 1) + b) % Width
          BY <2>a, <3>2, <4>1
        <4>3. \/ requests_total'[p] = Inc(a) /\ left'[p] = b
              \/ requests_total'[p] = a /\ left'[p] = Inc(b)
          BY <2>0, <3>3
        <4> HIDE DEF n, a, b
        <4>4. /\ n + b \in Nat /\ n + a \in Nat /\ Inc(a) \in Nat /\ Inc(b) \in Nat
              /\ a + (n + 1) + b = a + (n + b) + 1 /\ a + (n + 1) + b = b + (n + a) + 1
              /\ Inc(a) + n + b = Inc(a) + (n + b) /\ a + n + Inc(b) = Inc(b) + (n + a)
          BY <4>1, ForwardAssumption DEF Inc
        <4>5. /\ (Inc(a) + (n + b)) % Width = (a + (n + b) + 1) % Width
              /\ (Inc(b) + (n + a)) % Width = (b + (n + a) + 1) % Width
          BY <4>1, <4>4, IncWraps, Zenon
        <4>6. requests_total'[p] + Reading(p)' + left'[p] = requests_total'[p] + n + left'[p]
          BY DEF n
        <4> QED BY <4>2, <4>3, <4>4, <4>5, <4>6
      <3> QED BY <2>b, <3>3, <3>5, <3>6
    <2>6. CASE Tick \/ UNCHANGED vars
      <3>1. \A q \in Prefixes : Readers(q)' = Readers(q)
        BY <2>6 DEF Tick, Readers, vars, request
      <3>2. UNCHANGED <<requests_total, status_totals, recorded, left>>
        BY <2>6 DEF Tick, vars, metrics, history
      <3> QED BY <3>1, <3>2, NothingCounted
    <2>7. \A r \in Requests : /\ Send(r) \/ BodyFails(r) => pc[r] # "reading"
                              /\ Respond(r) => pc[r] = "reading"
      BY DEF Send, BodyFails, Respond
    <2> QED BY <2>1, <2>2, <2>3, <2>4, <2>5, <2>6, <2>7 DEF Next, Step
  <1> QED BY <1>1, <1>2, TypeCorrect, PTL DEF Spec
==============================================================================
