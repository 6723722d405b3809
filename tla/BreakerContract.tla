--------------------------- MODULE BreakerContract ---------------------------
(***************************************************************************)
(* What the circuit breakers promise the backends (ADR-0006), without      *)
(* mutexes, stamps or handlers.  Each backend is behind a circuit:         *)
(*    "Closed"    any number of calls may enter;                           *)
(*    "Open"      FailureThreshold failures in a row have been reported:   *)
(*                nothing enters for the next Cooldown ticks;              *)
(*    "HalfOpen"  one call has entered since, and nothing else does until  *)
(*                an outcome is reported: success closes the circuit, and  *)
(*                failure opens it for another full Cooldown.              *)
(* A call leaves with an outcome or without one (its client went away); no *)
(* step for one backend changes the circuit of another.                    *)
(***************************************************************************)
EXTENDS Integers

CONSTANTS Backends, Calls, FailureThreshold, Cooldown

VARIABLES
    phase,   \* the circuit of each backend
    quiet,   \* ticks until the backend of an open circuit may be tried
    streak,  \* failures in a row reported to a closed circuit
    calls    \* the calls inside each circuit

circuits == <<phase, quiet, streak, calls>>

Init ==
    /\ phase = [b \in Backends |-> "Closed"]
    /\ quiet = [b \in Backends |-> 0]
    /\ streak = [b \in Backends |-> 0]
    /\ calls = [b \in Backends |-> {}]

Leaves(b, c) ==
    /\ c \in calls[b]
    /\ calls' = [calls EXCEPT ![b] = @ \ {c}]

Open(b) ==
    /\ phase' = [phase EXCEPT ![b] = "Open"]
    /\ quiet' = [quiet EXCEPT ![b] = Cooldown]
    /\ streak' = [streak EXCEPT ![b] = 0]

-------------------------------------------------------------------------------
Enter(b, c) ==
    /\ phase[b] = "Closed"
    /\ calls' = [calls EXCEPT ![b] = @ \cup {c}]
    /\ UNCHANGED <<phase, quiet, streak>>

Try(b, c) ==
    /\ phase[b] = "Open"
    /\ quiet[b] = 0
    /\ phase' = [phase EXCEPT ![b] = "HalfOpen"]
    /\ calls' = [calls EXCEPT ![b] = @ \cup {c}]
    /\ UNCHANGED <<quiet, streak>>

\* A success ends the streak and the trial; an open circuit ignores it.
Succeed(b, c) ==
    /\ Leaves(b, c)
    /\ phase' = [phase EXCEPT ![b] = IF @ = "Open" THEN @ ELSE "Closed"]
    /\ streak' = [streak EXCEPT ![b] = 0]
    /\ UNCHANGED quiet

Fail(b, c) ==
    /\ Leaves(b, c)
    /\ \/ /\ phase[b] = "Closed"
          /\ streak[b] + 1 < FailureThreshold
          /\ streak' = [streak EXCEPT ![b] = @ + 1]
          /\ UNCHANGED <<phase, quiet>>
       \/ /\ phase[b] = "Closed" => streak[b] + 1 = FailureThreshold
          /\ phase[b] # "Open"
          /\ Open(b)
       \/ /\ phase[b] = "Open"
          /\ UNCHANGED <<phase, quiet, streak>>

Vanish(b, c) ==
    /\ Leaves(b, c)
    /\ UNCHANGED <<phase, quiet, streak>>

Pass ==
    /\ quiet' = [b \in Backends |-> IF quiet[b] > 0 THEN quiet[b] - 1 ELSE 0]
    /\ UNCHANGED <<phase, streak, calls>>

Next ==
    \/ Pass
    \/ \E b \in Backends, c \in Calls :
          Enter(b, c) \/ Try(b, c) \/ Succeed(b, c) \/ Fail(b, c) \/ Vanish(b, c)

Spec == Init /\ [][Next]_circuits
==============================================================================
