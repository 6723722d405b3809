----------------------------- MODULE RateLimiter -----------------------------
(***************************************************************************)
(* The fixed-window limiter (core/src/ratelimit.rs): concurrent calls of   *)
(* `decide`, from every gateway replica, against the counters of one Redis.*)
(*                                                                         *)
(* decide reads the wall clock FIRST, to name the counter of the current   *)
(* window, and only then awaits a pooled connection and the reply to       *)
(* MULTI INCR EXPIRE.  Neither await has a timeout, so a call may reach    *)
(* Redis in a later window than the one it was stamped with.               *)
(*                                                                         *)
(* Each call is used once: what was decided for it stays on record, and    *)
(* the history that the properties speak of is the state of the calls.     *)
(***************************************************************************)
EXTENDS Integers, FiniteSets

CONSTANTS
    Calls,      \* calls of decide
    Keys,       \* limit_key values: subjects
    Limit,      \* ratelimit.limit
    Window,     \* ratelimit.window_secs, in ticks
    Skews,      \* how far the replicas' clocks are ahead of Redis's
    MaxTime,    \* bound on the clock
    MaxRestarts,\* bound on the times Redis restarts and loses its counters
    None        \* not set yet

\* config.rs rejects a zero limit and a zero window.
ASSUME LimiterAssumption ==
    /\ Limit \in Nat \ {0}
    /\ Window \in Nat \ {0}
    /\ Skews \subseteq Nat
    /\ MaxTime \in Nat
    /\ MaxRestarts \in Nat
    /\ IsFiniteSet(Calls)
    /\ None \notin {"Allow", "Limit"}

VARIABLES
    clock,      \* Redis's clock
    count,      \* Redis: the value of each counter
    ttl,        \* Redis: ticks until it expires, 0 when the key is absent
    pc,         \* where each call is
    key,        \* the key it is limited under
    stamp,      \* the window its counter is named after
    reply,      \* the count Redis answered with
    executed,   \* when Redis executed its INCR, -1 if it has not
    decision,   \* what decide returned
    restarts,   \* how often Redis has restarted
    wiped       \* history: counters lost in a restart

redis == <<count, ttl>>
call == <<pc, key, stamp, reply, executed, decision>>

vars == <<clock, redis, call, restarts, wiped>>

\* The window a clock reading falls in (as_secs() / window).
WindowOf(t) == t \div Window

Windows == {WindowOf(t + s) : t \in 0 .. MaxTime, s \in Skews}

TypeOK ==
    /\ clock \in 0 .. MaxTime
    /\ count \in [Keys \X Windows -> Nat]
    /\ ttl \in [Keys \X Windows -> 0 .. Window]
    /\ pc \in [Calls -> {"new", "pool", "sending", "executed", "broken",
                      "orphan", "done"}]
    /\ key \in [Calls -> Keys \cup {None}]
    /\ stamp \in [Calls -> Windows \cup {-1}]
    /\ reply \in [Calls -> Nat]
    /\ executed \in [Calls -> -1 .. MaxTime]
    /\ decision \in [Calls -> {None, "Allow", "Limit", "Open", "Dropped"}]
    /\ restarts \in 0 .. MaxRestarts
    /\ wiped \in SUBSET (Keys \X Windows)
    /\ \A id \in Keys \X Windows : ttl[id] = 0 <=> count[id] = 0

Init ==
    /\ clock = 0
    /\ count = [id \in Keys \X Windows |-> 0]
    /\ ttl = [id \in Keys \X Windows |-> 0]
    /\ pc = [c \in Calls |-> "new"]
    /\ key = [c \in Calls |-> None]
    /\ stamp = [c \in Calls |-> -1]
    /\ reply = [c \in Calls |-> 0]
    /\ executed = [c \in Calls |-> -1]
    /\ decision = [c \in Calls |-> None]
    /\ restarts = 0
    /\ wiped = {}

-------------------------------------------------------------------------------
(***************************************************************************)
(* decide.                                                                 *)
(***************************************************************************)
\* The window key is computed from the replica's clock, before any await.
Decide(c, k, s) ==
    /\ pc[c] = "new"
    /\ pc' = [pc EXCEPT ![c] = "pool"]
    /\ key' = [key EXCEPT ![c] = k]
    /\ stamp' = [stamp EXCEPT ![c] = WindowOf(clock + s)]
    /\ UNCHANGED <<clock, redis, reply, executed, decision, restarts, wiped>>

\* self.conn.get().await: a connection, and the pipeline is written to it.
GotConnection(c) ==
    /\ pc[c] = "pool"
    /\ pc' = [pc EXCEPT ![c] = "sending"]
    /\ UNCHANGED <<clock, redis, key, stamp, reply, executed, decision, restarts, wiped>>

\* The caller is done with c, but a pipeline on its way to Redis still arrives.
Return(c, d) ==
    /\ pc' = [pc EXCEPT ![c] = IF @ = "sending" THEN "orphan" ELSE "done"]
    /\ decision' = [decision EXCEPT ![c] = d]

\* fail_open: no connection, or an error instead of a reply.  Whether Redis
\* executed the INCR is not known to the caller.
FailOpen(c) ==
    /\ pc[c] \in {"pool", "sending", "executed", "broken"}
    /\ Return(c, "Open")
    /\ UNCHANGED <<clock, redis, key, stamp, reply, executed, restarts, wiped>>

\* The client disconnects and the future of decide is dropped at its await.
Drop(c) ==
    /\ pc[c] \in {"pool", "sending", "executed", "broken"}
    /\ Return(c, "Dropped")
    /\ UNCHANGED <<clock, redis, key, stamp, reply, executed, restarts, wiped>>

\* Mutants: the comparison one too late, and one too early.
VerdictLate(n) == IF n > Limit + 1 THEN "Limit" ELSE "Allow"
VerdictEarly(n) == IF n >= Limit THEN "Limit" ELSE "Allow"

Verdict(n) == IF n > Limit THEN "Limit" ELSE "Allow"

\* The reply arrives: compare the count with the limit.
Reply(c) ==
    /\ pc[c] = "executed"
    /\ Return(c, Verdict(reply[c]))
    /\ UNCHANGED <<clock, redis, key, stamp, reply, executed, restarts, wiped>>

-------------------------------------------------------------------------------
(***************************************************************************)
(* Redis.                                                                  *)
(***************************************************************************)
\* Mutants: an expiry shorter than the window, and no expiry at all.
ExecShortExpiry(c) ==
    LET id == <<key[c], stamp[c]>>
    IN  /\ pc[c] \in {"sending", "orphan"}
        /\ count' = [count EXCEPT ![id] = @ + 1]
        /\ ttl' = [ttl EXCEPT ![id] = Window - 1]
        /\ reply' = [reply EXCEPT ![c] = count[id] + 1]
        /\ executed' = [executed EXCEPT ![c] = clock]
        /\ pc' = [pc EXCEPT ![c] = IF @ = "orphan" THEN "done" ELSE "executed"]
        /\ UNCHANGED <<clock, key, stamp, decision, restarts, wiped>>

ExecWithoutExpire(c) ==
    LET id == <<key[c], stamp[c]>>
    IN  /\ pc[c] \in {"sending", "orphan"}
        /\ count' = [count EXCEPT ![id] = @ + 1]
        /\ UNCHANGED ttl
        /\ reply' = [reply EXCEPT ![c] = count[id] + 1]
        /\ executed' = [executed EXCEPT ![c] = clock]
        /\ pc' = [pc EXCEPT ![c] = IF @ = "orphan" THEN "done" ELSE "executed"]
        /\ UNCHANGED <<clock, key, stamp, decision, restarts, wiped>>

\* MULTI INCR key; EXPIRE key window: every hit renews the expiry.
Exec(c) ==
    LET id == <<key[c], stamp[c]>>
    IN  /\ pc[c] \in {"sending", "orphan"}
        /\ count' = [count EXCEPT ![id] = @ + 1]
        /\ ttl' = [ttl EXCEPT ![id] = Window]
        /\ reply' = [reply EXCEPT ![c] = count[id] + 1]
        /\ executed' = [executed EXCEPT ![c] = clock]
        /\ pc' = [pc EXCEPT ![c] = IF @ = "orphan" THEN "done" ELSE "executed"]
        /\ UNCHANGED <<clock, key, stamp, decision, restarts, wiped>>

\* A pipeline that nobody waits for is lost on the way.
Vanish(c) ==
    /\ pc[c] = "orphan"
    /\ pc' = [pc EXCEPT ![c] = "done"]
    /\ UNCHANGED <<clock, redis, key, stamp, reply, executed, decision, restarts, wiped>>

\* Redis restarts and comes back without its counters; its connections break,
\* and with them every pipeline it has not executed.
Restart ==
    /\ restarts < MaxRestarts
    /\ restarts' = restarts + 1
    /\ wiped' = wiped \cup {id \in Keys \X Windows : count[id] > 0}
    /\ count' = [id \in Keys \X Windows |-> 0]
    /\ ttl' = [id \in Keys \X Windows |-> 0]
    /\ pc' = [c \in Calls |-> CASE pc[c] = "sending" -> "broken"
                               [] pc[c] = "orphan" -> "done"
                               [] OTHER -> pc[c]]
    /\ UNCHANGED <<clock, key, stamp, reply, executed, decision>>

\* A tick of every clock; keys whose time is over are gone.
Tick ==
    /\ clock < MaxTime
    /\ clock' = clock + 1
    /\ ttl' = [id \in Keys \X Windows |-> IF ttl[id] > 0 THEN ttl[id] - 1 ELSE 0]
    /\ count' = [id \in Keys \X Windows |-> IF ttl[id] > 1 THEN count[id] ELSE 0]
    /\ UNCHANGED <<call, restarts, wiped>>

Next ==
    \/ \E c \in Calls :
         \/ \E k \in Keys, s \in Skews : Decide(c, k, s)
         \/ GotConnection(c) \/ FailOpen(c) \/ Drop(c) \/ Reply(c)
         \/ Exec(c) \/ Vanish(c)
    \/ Restart
    \/ Tick

Spec == Init /\ [][Next]_vars

\* The gateway and the clocks run; nothing is assumed of Redis.
FairSpec == Spec /\ WF_vars(Tick) /\ \A c \in Calls : WF_vars(Reply(c))

-------------------------------------------------------------------------------
(***************************************************************************)
(* Safety.                                                                 *)
(***************************************************************************)
\* The calls that Redis counted for key k in window w.
Counted(k, w) == {c \in Calls : executed[c] >= 0 /\ key[c] = k /\ stamp[c] = w}

\* decide keeps the cap: in any Window ticks at most Limit of the calls that
\* were stamped with one window are allowed, whatever the order of stamps,
\* executions and replies, although every hit renews the expiry - and also of
\* the calls that reach Redis early, stamped by a fast clock, or long after
\* their window, when the counter is started afresh.  Only a restart of Redis
\* gives them another Limit.
CapPerWindow ==
    \A k \in Keys, w \in Windows, t \in 0 .. MaxTime :
        <<k, w>> \notin wiped =>
            Cardinality({c \in Counted(k, w) : /\ executed[c] \in t .. t + Window - 1
                                               /\ decision[c] = "Allow"}) <= Limit

\* A 429 is never wrong: more than Limit calls with this key and this window
\* did reach Redis.  Losing counters (expiry, restart) and losing replies only
\* ever errs on the side of letting requests pass.
LimitIsEarned ==
    \A c \in Calls :
        decision[c] = "Limit" => Cardinality(Counted(key[c], stamp[c])) > Limit

\* A key that is over its limit stays over it for the length of a window, and so
\* at least until its own window ends: no counter expires under the feet of the
\* calls that are still to reach it.
OverForAWindow ==
    [][\A c, d \in Calls :
          (/\ Exec(c)
           /\ <<key[c], stamp[c]>> \notin wiped
           /\ d \in Counted(key[c], stamp[c])
           /\ clock < executed[d] + Window
           /\ reply[d] > Limit)
              => reply'[c] > Limit]_vars

-------------------------------------------------------------------------------
(***************************************************************************)
(* A claim of a document that the code does not keep.                      *)
(***************************************************************************)
\* ADR-0005: "If Redis is unreachable - connection refused, timeout, any
\* counter-operation error - the request passes": every call gets a decision.
EveryCallIsDecided == \A c \in Calls : pc[c] = "pool" ~> decision[c] # None
==============================================================================
