------------------------------- MODULE Circuit -------------------------------
(***************************************************************************)
(* One circuit breaker (core/src/circuit.rs) as operators on the record    *)
(* that its mutex guards.  Each method takes the lock once and does no I/O *)
(* under it, so a call is one atomic function from Inner to Inner; Forward *)
(* applies these functions to the breaker of a route.                      *)
(*                                                                         *)
(* The code stamps opened_at with an Instant and only ever asks whether    *)
(* opened_at.elapsed() >= cooldown.  The model keeps the answer-relevant   *)
(* part: opened_at holds the ELAPSED time, saturating at Cooldown.         *)
(***************************************************************************)
EXTENDS Integers

CONSTANTS
    FailureThreshold,   \* BreakerConfig.failure_threshold
    Cooldown,           \* BreakerConfig.cooldown, in ticks
    None                \* Option::None

\* config.rs rejects a zero threshold and a zero cooldown at start-up.
ASSUME BreakerConfigAssumption ==
    /\ FailureThreshold \in Nat \ {0}
    /\ Cooldown \in Nat \ {0}

ASSUME NoneAssumption == None \notin Nat

State == {"Closed", "Open", "HalfOpen"}

\* The time elapsed since the breaker opened, as far as it can matter.
Elapsed == 0 .. Cooldown

Inner == [state                : State,
          consecutive_failures : Nat,
          opened_at            : Elapsed \cup {None}]

\* Inner::fresh
Fresh == [state |-> "Closed", consecutive_failures |-> 0, opened_at |-> None]

\* Mutant: the stamp is there, so the probe may go.
WaitedNotAtAll(inner) == inner.opened_at # None

\* Mutant: the comparison is the wrong way round.
WaitedBackwards(inner) == inner.opened_at # None /\ inner.opened_at < Cooldown

\* opened_at.map(|t| t.elapsed() >= cooldown).unwrap_or(false)
Waited(inner) ==
    /\ inner.opened_at # None
    /\ inner.opened_at >= Cooldown

(***************************************************************************)
(* try_admit.  Admit(inner) is the value it returns and Admitted(inner)    *)
(* the record it leaves behind: only the caller that finds the cooldown    *)
(* over changes anything, and that caller is the probe.                    *)
(***************************************************************************)
IsProbe(inner) == inner.state = "Open" /\ Waited(inner)

\* Mutant: HalfOpen lets callers through like Closed.
AdmitInHalfOpen(inner) ==
    IF inner.state # "Open" \/ IsProbe(inner) THEN "Call" ELSE "ShortCircuit"

Admit(inner) ==
    IF inner.state = "Closed" \/ IsProbe(inner) THEN "Call" ELSE "ShortCircuit"

\* Mutant: the probe is not reserved.
AdmittedUnreserved(inner) == inner

Admitted(inner) ==
    IF IsProbe(inner) THEN [inner EXCEPT !.state = "HalfOpen"] ELSE inner

\* open: a fresh stamp, and the streak starts again from zero.
Opened == [state |-> "Open", consecutive_failures |-> 0, opened_at |-> 0]

\* Mutant: a successful probe leaves the old stamp behind.
RecordSuccessKeepsStamp(inner) ==
    IF inner.state = "Open" THEN inner
    ELSE [inner EXCEPT !.state = "Closed", !.consecutive_failures = 0]

\* Mutant: no arm for a successful probe.
RecordSuccessOnlyClosed(inner) ==
    IF inner.state = "Closed" THEN [inner EXCEPT !.consecutive_failures = 0] ELSE inner

\* record(true)
RecordSuccess(inner) ==
    CASE inner.state = "Closed"   -> [inner EXCEPT !.consecutive_failures = 0]
      [] inner.state = "HalfOpen" -> Fresh
      [] inner.state = "Open"     -> inner

\* Mutant: one failure too many before the breaker opens.
RecordFailureLate(inner) ==
    IF inner.state = "Closed" /\ inner.consecutive_failures < FailureThreshold
      THEN [inner EXCEPT !.consecutive_failures = @ + 1]
      ELSE IF inner.state = "Open" THEN inner ELSE Opened

\* record(false)
RecordFailure(inner) ==
    CASE inner.state = "Closed" ->
            IF inner.consecutive_failures + 1 >= FailureThreshold
              THEN Opened
              ELSE [inner EXCEPT !.consecutive_failures = @ + 1]
      [] inner.state = "HalfOpen" -> Opened
      [] inner.state = "Open"     -> inner

\* One tick passes: Instant::elapsed grows, up to where it stops mattering.
Aged(inner) ==
    IF inner.opened_at # None /\ inner.opened_at < Cooldown
      THEN [inner EXCEPT !.opened_at = @ + 1]
      ELSE inner

(***************************************************************************)
(* What the three fields say together in every state a breaker can reach:  *)
(* a closed breaker has no stamp and is short of the threshold, any other  *)
(* has a stamp and no streak, and HalfOpen is only entered with the        *)
(* cooldown over.                                                          *)
(***************************************************************************)
Consistent(inner) ==
    /\ inner.state = "Closed" => /\ inner.opened_at = None
                                 /\ inner.consecutive_failures < FailureThreshold
    /\ inner.state # "Closed" => /\ inner.opened_at # None
                                 /\ inner.consecutive_failures = 0
    /\ inner.state = "HalfOpen" => inner.opened_at = Cooldown
==============================================================================
