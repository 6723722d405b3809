--------------------------- MODULE ReadinessProofs ---------------------------
(***************************************************************************)
(* Proofs about Readiness, for any pods and routes, and any thresholds.    *)
(***************************************************************************)
EXTENDS Readiness, TLAPS

-------------------------------------------------------------------------------
(***************************************************************************)
(* The methods of circuit.rs on one breaker.                               *)
(***************************************************************************)
\* Every method of CircuitBreaker, and the passage of time, keeps the three
\* fields of Inner within their types.
LEMMA BreakerTyping ==
    ASSUME NEW i \in Inner
    PROVE  /\ Fresh \in Inner
           /\ Admitted(i) \in Inner
           /\ RecordSuccess(i) \in Inner
           /\ RecordFailure(i) \in Inner
           /\ Aged(i) \in Inner
<1>1. /\ i.state \in State
      /\ i.consecutive_failures \in Nat
      /\ i.opened_at \in Elapsed \cup {None}
  BY DEF Inner
<1>2. Fresh \in Inner
  BY DEF Fresh, Inner, State
<1>3. Admitted(i) \in Inner
  BY DEF Admitted, Inner, State
<1>4. Opened \in Inner
  BY BreakerConfigAssumption DEF Opened, Inner, State, Elapsed
<1>5. RecordSuccess(i) \in Inner
  BY <1>1, <1>2 DEF RecordSuccess, Inner, State
<1>6. RecordFailure(i) \in Inner
  BY <1>1, <1>4 DEF RecordFailure, Inner, State
<1>7. Aged(i) \in Inner
  BY <1>1, BreakerConfigAssumption, NoneAssumption DEF Aged, Inner, Elapsed
<1> QED
  BY <1>2, <1>3, <1>5, <1>6, <1>7

\* The same methods keep the fields consistent with each other: in particular
\* the streak of a closed breaker stays below the threshold.
LEMMA BreakerConsistency ==
    ASSUME NEW i \in Inner, Consistent(i)
    PROVE  /\ Consistent(Fresh)
           /\ Consistent(Admitted(i))
           /\ Consistent(RecordSuccess(i))
           /\ Consistent(RecordFailure(i))
           /\ Consistent(Aged(i))
<1> USE BreakerConfigAssumption, NoneAssumption
<1>1. /\ i.state \in State
      /\ i.consecutive_failures \in Nat
      /\ i.opened_at \in Elapsed \cup {None}
  BY DEF Inner
<1>2. Consistent(Fresh)
  BY DEF Fresh, Consistent
<1>3. Consistent(Admitted(i))
  BY <1>1 DEF Admitted, IsProbe, Waited, Inner, Consistent, Elapsed
<1>4. Consistent(Opened)
  BY DEF Opened, Consistent
<1>5. Consistent(RecordSuccess(i))
  BY <1>1, <1>2 DEF RecordSuccess, Inner, State, Consistent
<1>6. Consistent(RecordFailure(i))
  BY <1>1, <1>4 DEF RecordFailure, Inner, State, Consistent
<1>7. Consistent(Aged(i))
  BY <1>1 DEF Aged, Inner, Consistent, Elapsed
<1> QED
  BY <1>2, <1>3, <1>5, <1>6, <1>7

-------------------------------------------------------------------------------
\* The routes that were Open before the call and still are have not been read
\* yet, or the answer is already no.
SeenSoFar ==
    \A p \in Pods :
        /\ stale[p] \subseteq Open(p)
        /\ ready[p] /\ reading[p] # 0 => \A i \in stale[p] : i >= reading[p]

IInv == TypeOK /\ SeenSoFar

-------------------------------------------------------------------------------
\* What every step that moves breakers does to the state of readyz: Open routes
\* can only be struck from the history.
LEMMA SettingBreakers ==
    ASSUME IInv, NEW b \in [Pods -> [Route -> Inner]],
           \A p \in Pods, i \in Route : Consistent(b[p][i]),
           SetBreakers(b), UNCHANGED <<world, probe, kubelet>>,
           calls' \in [Pods -> SUBSET Route]
    PROVE  IInv'
  <1>1. breakers' = b
    BY DEF SetBreakers
  <1>2. /\ stale' \in [Pods -> SUBSET Route]
        /\ \A p \in Pods : stale'[p] \subseteq stale[p] /\ stale'[p] \subseteq Open(p)'
    BY <1>1 DEF SetBreakers, IInv, TypeOK, Open
  <1>3. TypeOK'
    BY <1>1, <1>2 DEF IInv, TypeOK, world, probe, kubelet
  <1>4. SeenSoFar'
    BY <1>2 DEF IInv, SeenSoFar, probe
  <1> QED BY <1>3, <1>4 DEF IInv

\* Steps of readyz that leave breakers and calls alone.
LEMMA Kubelet ==
    ASSUME TypeOK, NEW p \in Pods, NEW ok \in BOOLEAN, ProbeResult(p, ok)
    PROVE  strikes' \in [Pods -> 0 .. ProbeThreshold] /\ endpoints' \in SUBSET Pods
  BY ReadinessAssumption DEF TypeOK, ProbeResult

\* Breakers start closed, and no probe has been answered.
LEMMA InitInv == Init => IInv
  <1> SUFFICES ASSUME Init PROVE IInv
    OBVIOUS
  <1>0. Fresh \in Inner /\ Consistent(Fresh)
    BY NoneAssumption, BreakerConfigAssumption DEF Fresh, Inner, State, Consistent
  <1>1. TypeOK
    BY <1>0, ReadinessAssumption DEF Init, TypeOK, Route
  <1>2. SeenSoFar
    BY DEF Init, SeenSoFar
  <1> QED BY <1>1, <1>2 DEF IInv

\* Each step of a pod, a probe, a breaker or the clock keeps IInv.
LEMMA NextInv == IInv /\ [Next]_vars => IInv'
  <1> SUFFICES ASSUME IInv, [Next]_vars PROVE IInv'
    OBVIOUS
  <1> USE ReadinessAssumption
  <1>0. TypeOK /\ SeenSoFar
    BY DEF IInv
  <1>1. ASSUME NEW p \in Pods, NEW i \in Route, Call(p, i) PROVE IInv'
    <2> DEFINE b == [breakers EXCEPT ![p][i] = Admitted(@)]
    <2>1. breakers[p][i] \in Inner /\ Consistent(breakers[p][i])
      BY <1>0 DEF TypeOK
    <2>2. Admitted(breakers[p][i]) \in Inner /\ Consistent(Admitted(breakers[p][i]))
      BY <2>1, BreakerTyping, BreakerConsistency
    <2>3. b \in [Pods -> [Route -> Inner]] /\ \A q \in Pods, j \in Route : Consistent(b[q][j])
      BY <1>0, <2>2 DEF TypeOK
    <2>4. SetBreakers(b) /\ calls' \in [Pods -> SUBSET Route] /\ UNCHANGED <<world, probe, kubelet>>
      BY <1>0, <1>1 DEF Call, TypeOK
    <2> HIDE DEF b
    <2> QED BY <2>3, <2>4, SettingBreakers
  <1>2. ASSUME NEW p \in Pods, NEW i \in Route, Outcome(p, i) PROVE IInv'
    <2> DEFINE new == IF i \in up THEN RecordSuccess(breakers[p][i]) ELSE RecordFailure(breakers[p][i])
               b == [breakers EXCEPT ![p][i] = new]
    <2>1. breakers[p][i] \in Inner /\ Consistent(breakers[p][i])
      BY <1>0 DEF TypeOK
    <2>2. new \in Inner /\ Consistent(new)
      BY <2>1, BreakerTyping, BreakerConsistency
    <2>4. SetBreakers(b) /\ calls' \in [Pods -> SUBSET Route] /\ UNCHANGED <<world, probe, kubelet>>
      BY <1>0, <1>2 DEF Outcome, TypeOK
    <2> HIDE DEF new
    <2>3. b \in [Pods -> [Route -> Inner]] /\ \A q \in Pods, j \in Route : Consistent(b[q][j])
      BY <1>0, <2>2 DEF TypeOK
    <2> HIDE DEF b
    <2> QED BY <2>3, <2>4, SettingBreakers
  <1>3. ASSUME NEW p \in Pods, Readyz(p) PROVE IInv'
    <2>1. TypeOK'
      BY <1>0, <1>3 DEF Readyz, TypeOK, Open, Route, world, kubelet
    <2>2. SeenSoFar'
      BY <1>0, <1>3 DEF Readyz, TypeOK, SeenSoFar, Open, Route
    <2> QED BY <2>1, <2>2 DEF IInv
  <1>4. ASSUME NEW p \in Pods, ReadBreaker(p) PROVE IInv'
    <2>1. TypeOK'
      BY <1>0, <1>4 DEF ReadBreaker, TypeOK, Route, world, kubelet
    <2>2. \A q \in Pods : Open(q)' = Open(q) /\ stale'[q] = stale[q]
      BY <1>4 DEF ReadBreaker, Open
    <2>3. ASSUME NEW q \in Pods, ready'[q], reading'[q] # 0, NEW i \in stale[q]
          PROVE  i >= reading'[q]
      <3>1. i \in Route /\ reading[q] \in 0 .. Routes + 1 /\ i \in Open(q)
        BY <1>0, <2>3 DEF TypeOK, SeenSoFar
      <3>2. CASE q # p
        BY <1>0, <1>4, <2>3, <3>2 DEF ReadBreaker, TypeOK, SeenSoFar
      <3>3. CASE q = p
        <4>1. ready[p] /\ reading[p] \notin Open(p) /\ reading[p] \in Route /\ reading'[p] = reading[p] + 1
          BY <1>0, <1>4, <2>3, <3>3 DEF ReadBreaker, TypeOK
        <4>2. i >= reading[p] /\ i # reading[p]
          BY <1>0, <2>3, <3>1, <3>3, <4>1 DEF SeenSoFar, Route
        <4> QED BY <3>1, <3>3, <4>1, <4>2 DEF Route
      <3> QED BY <3>2, <3>3
    <2>4. SeenSoFar'
      BY <1>0, <2>2, <2>3 DEF SeenSoFar
    <2> QED BY <2>1, <2>4 DEF IInv
  <1>5. ASSUME NEW p \in Pods, NEW ok \in BOOLEAN, ProbeResult(p, ok),
               reading' = [reading EXCEPT ![p] = 0],
               UNCHANGED <<breakers, calls, world, ready, stale>>
        PROVE  IInv'
    <2>1. TypeOK'
      BY <1>0, <1>5, Kubelet DEF TypeOK, world
    <2>2. SeenSoFar'
      BY <1>0, <1>5 DEF TypeOK, SeenSoFar, Open
    <2> QED BY <2>1, <2>2 DEF IInv
  <1>6. ASSUME NEW p \in Pods, Answer(p) PROVE IInv'
    <2>1. (ready[p] /\ redis) \in BOOLEAN
      OBVIOUS
    <2> QED BY <1>5, <1>6, <2>1 DEF Answer
  <1>7. ASSUME NEW p \in Pods, ProbeTimeout(p) PROVE IInv'
    BY <1>5, <1>7 DEF ProbeTimeout
  <1>8. CASE World
    <2>1. up' \in SUBSET Route /\ redis' \in BOOLEAN
      BY <1>0, <1>8 DEF World, TypeOK
    <2>2. UNCHANGED <<breakers, calls, probe, kubelet, stale>>
      BY <1>8 DEF World
    <2>3. TypeOK'
      BY <1>0, <2>1, <2>2 DEF TypeOK, probe, kubelet
    <2>4. SeenSoFar'
      BY <1>0, <2>2 DEF SeenSoFar, Open, probe
    <2> QED BY <2>3, <2>4 DEF IInv
  <1>9. CASE Tick
    <2> DEFINE b == [p \in Pods |-> [i \in Route |-> Aged(breakers[p][i])]]
    <2>1. \A p \in Pods, i \in Route :
             Aged(breakers[p][i]) \in Inner /\ Consistent(Aged(breakers[p][i]))
      BY <1>0, BreakerTyping, BreakerConsistency DEF TypeOK
    <2>2. b \in [Pods -> [Route -> Inner]] /\ \A q \in Pods, j \in Route : Consistent(b[q][j])
      BY <2>1
    <2>3. SetBreakers(b) /\ calls' \in [Pods -> SUBSET Route] /\ UNCHANGED <<world, probe, kubelet>>
      BY <1>0, <1>9 DEF Tick, TypeOK
    <2> HIDE DEF b
    <2> QED BY <2>2, <2>3, SettingBreakers
  <1>10. CASE UNCHANGED vars
    <2>1. TypeOK'
      BY <1>0, <1>10 DEF vars, TypeOK, world, probe, kubelet
    <2>2. SeenSoFar'
      BY <1>0, <1>10 DEF vars, SeenSoFar, Open, probe
    <2> QED BY <2>1, <2>2 DEF IInv
  <1> QED BY <1>1, <1>2, <1>3, <1>4, <1>6, <1>7, <1>8, <1>9, <1>10 DEF Next, ProbeStep

\* IInv holds in every behaviour.
LEMMA Invariance == Spec => []IInv
  BY InitInv, NextInv, PTL DEF Spec

-------------------------------------------------------------------------------
\* Breakers of every pod stay consistent, and the state of readyz and of the
\* kubelet well typed.
THEOREM ReadinessTypeCorrect == Spec => []TypeOK
  <1>1. IInv => TypeOK
    BY DEF IInv
  <1> QED BY <1>1, Invariance, PTL

\* readyz never answers 200 while some circuit has been Open since before it was
\* called, however many routes there are and however the breakers move between
\* the locks of Breakers::states and during the PING.
THEOREM ReadyzNeverLies == Spec => ReadyzHasSeenIt
  <1>1. IInv /\ [Next]_vars => [\A p \in Pods : Says200(p) => stale[p] = {}]_vars
    <2> SUFFICES ASSUME IInv, NEW p \in Pods, Says200(p) PROVE stale[p] = {}
      OBVIOUS
    <2>1. reading[p] = Routes + 1 /\ ready[p]
      BY DEF Says200, Answer
    <2>2. ASSUME NEW i \in stale[p] PROVE FALSE
      <3>1. i \in 1 .. Routes
        BY <2>2 DEF IInv, TypeOK, Route
      <3>2. i >= Routes + 1
        BY <2>1, <2>2, ReadinessAssumption DEF IInv, SeenSoFar
      <3> QED BY <3>1, <3>2, ReadinessAssumption
    <2> QED BY <2>2
  <1> QED BY <1>1, Invariance, PTL DEF Spec, ReadyzHasSeenIt
==============================================================================
