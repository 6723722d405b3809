-------------------------- MODULE RateLimiterProofs --------------------------
(***************************************************************************)
(* Proofs about RateLimiter, for any calls, keys, limit, window, skews and *)
(* restarts.                                                               *)
(***************************************************************************)
EXTENDS RateLimiter, FiniteSetTheorems, TLAPS

\* What a call has done so far.
Journey ==
    \A c \in Calls :
        /\ pc[c] \in {"new", "pool", "sending", "broken", "orphan"} => executed[c] = -1
        /\ pc[c] = "executed" => executed[c] >= 0
        /\ pc[c] # "new" => key[c] \in Keys /\ stamp[c] \in Windows
        /\ executed[c] <= clock
        /\ executed[c] >= 0 => reply[c] >= 1 /\ pc[c] # "new"
        /\ decision[c] = "Limit" => executed[c] >= 0 /\ reply[c] > Limit
        /\ decision[c] = "Allow" => executed[c] >= 0 /\ reply[c] <= Limit

\* No counter, and no reply, is larger than the number of calls it stands for.
Earned ==
    /\ \A k \in Keys, w \in Windows : count[<<k, w>>] <= Cardinality(Counted(k, w))
    /\ \A c \in Calls : executed[c] >= 0 => reply[c] <= Cardinality(Counted(key[c], stamp[c]))

\* For a window's length after a hit the counter lives on, and does not go back.
Lives ==
    \A k \in Keys, w \in Windows : <<k, w>> \notin wiped =>
        \A c \in Counted(k, w) : clock < executed[c] + Window =>
            /\ executed[c] + Window <= clock + ttl[<<k, w>>]
            /\ reply[c] <= count[<<k, w>>]

\* Two calls that reached Redis less than a window apart.
Near(c, d) == executed[c] < executed[d] + Window /\ executed[d] < executed[c] + Window

\* No two of them were given the same count.
Distinct ==
    \A k \in Keys, w \in Windows : <<k, w>> \notin wiped =>
        \A c, d \in Counted(k, w) : (Near(c, d) /\ reply[c] = reply[d]) => c = d

IInv == TypeOK /\ Journey /\ Earned /\ Lives /\ Distinct

-------------------------------------------------------------------------------
\* The sets of counted calls are finite.
LEMMA FiniteCounted ==
    \A k, w : IsFiniteSet(Counted(k, w)) /\ Cardinality(Counted(k, w)) \in Nat
  <1> SUFFICES ASSUME NEW k, NEW w PROVE IsFiniteSet(Counted(k, w))
    BY FS_CardinalityType
  <1>1. Counted(k, w) \subseteq Calls
    BY DEF Counted
  <1> QED BY <1>1, FS_Subset, LimiterAssumption

-------------------------------------------------------------------------------
(***************************************************************************)
(* Steps that leave Redis and the clock alone.                             *)
(***************************************************************************)
LEMMA Quiet ==
    ASSUME IInv, TypeOK', Journey', UNCHANGED <<clock, count, ttl, reply, executed, wiped>>,
           \A c \in Calls : executed[c] >= 0 => key'[c] = key[c] /\ stamp'[c] = stamp[c]
    PROVE  IInv'
  <1>1. \A k, w : Counted(k, w)' = Counted(k, w)
    BY DEF Counted
  <1>3. Earned'
    BY <1>1 DEF IInv, Earned
  <1>4. Lives'
    BY <1>1 DEF IInv, Lives
  <1>5. Distinct'
    BY <1>1 DEF IInv, Distinct, Near
  <1> QED BY <1>3, <1>4, <1>5 DEF IInv

\* decide begins: it reads a clock and fixes key and window.
LEMMA DecideStep ==
    ASSUME IInv, NEW c \in Calls, NEW k \in Keys, NEW s \in Skews, Decide(c, k, s)
    PROVE  IInv'
  <1>1. WindowOf(clock + s) \in Windows
    BY DEF IInv, TypeOK, Windows
  <1>2. TypeOK'
    BY <1>1 DEF IInv, TypeOK, Decide, redis
  <1>3. Journey'
    BY <1>1 DEF IInv, TypeOK, Journey, Decide, redis
  <1>4. executed[c] = -1
    BY DEF IInv, Journey, Decide
  <1> QED BY <1>2, <1>3, <1>4, Quiet DEF IInv, TypeOK, Decide, redis

\* The connection, the timeout, the answer and the loss of a call.
LEMMA CallStep ==
    ASSUME IInv, NEW c \in Calls,
           GotConnection(c) \/ FailOpen(c) \/ Drop(c) \/ Reply(c) \/ Vanish(c)
    PROVE  IInv'
  <1> USE DEF redis
  <1>1. /\ UNCHANGED <<clock, count, ttl, reply, executed, wiped>>
        /\ UNCHANGED <<key, stamp, restarts>>
    BY DEF GotConnection, FailOpen, Drop, Reply, Vanish
  <1>2. /\ pc[c] # "new"
        /\ \E p \in {"sending", "orphan", "done"} :
             /\ pc' = [pc EXCEPT ![c] = p]
             /\ p \in {"sending", "orphan"} => executed[c] = -1
    BY DEF IInv, Journey, GotConnection, FailOpen, Drop, Reply, Vanish, Return
  <1>3. \/ UNCHANGED decision
        \/ decision' = [decision EXCEPT ![c] = "Open"]
        \/ decision' = [decision EXCEPT ![c] = "Dropped"]
        \/ /\ decision' = [decision EXCEPT ![c] = "Limit"]
           /\ executed[c] >= 0 /\ reply[c] > Limit
        \/ /\ decision' = [decision EXCEPT ![c] = "Allow"]
           /\ executed[c] >= 0 /\ reply[c] <= Limit
    BY LimiterAssumption
    DEF IInv, TypeOK, Journey, GotConnection, FailOpen, Drop, Reply, Vanish, Return, Verdict
  <1>4. TypeOK'
    BY <1>1, <1>2, <1>3 DEF IInv, TypeOK
  <1>5. Journey'
    <2> SUFFICES ASSUME NEW d \in Calls
                 PROVE  /\ pc'[d] \in {"new", "pool", "sending", "broken", "orphan"} => executed[d] = -1
                        /\ pc'[d] = "executed" => executed[d] >= 0
                        /\ pc'[d] # "new" => key[d] \in Keys /\ stamp[d] \in Windows
                        /\ executed[d] <= clock
                        /\ executed[d] >= 0 => reply[d] >= 1 /\ pc'[d] # "new"
                        /\ decision'[d] = "Limit" => executed[d] >= 0 /\ reply[d] > Limit
                        /\ decision'[d] = "Allow" => executed[d] >= 0 /\ reply[d] <= Limit
      BY <1>1 DEF Journey
    <2>1. CASE d = c
      BY <1>2, <1>3, <2>1 DEF IInv, TypeOK, Journey
    <2>2. CASE d # c
      BY <1>2, <1>3, <2>2 DEF IInv, TypeOK, Journey
    <2> QED BY <2>1, <2>2
  <1> QED BY <1>1, <1>4, <1>5, Quiet

-------------------------------------------------------------------------------
(***************************************************************************)
(* Redis executes a pipeline: the one step that counts.                    *)
(***************************************************************************)
LEMMA ExecStep ==
    ASSUME IInv, NEW c \in Calls, Exec(c)
    PROVE  IInv'
  <1>0. PICK k \in Keys, w \in Windows : key[c] = k /\ stamp[c] = w
    BY DEF IInv, Journey, Exec
  <1> DEFINE id == <<k, w>>
  <1>1. id \in Keys \X Windows /\ executed[c] = -1
    BY DEF IInv, Journey, Exec
  <1>2. /\ count' = [count EXCEPT ![id] = count[id] + 1]
        /\ ttl' = [ttl EXCEPT ![id] = Window]
        /\ reply' = [reply EXCEPT ![c] = count[id] + 1]
        /\ executed' = [executed EXCEPT ![c] = clock]
        /\ UNCHANGED <<clock, key, stamp, decision, restarts, wiped>>
    BY <1>0 DEF Exec
  <1>3. pc[c] # "new" /\ \/ pc' = [pc EXCEPT ![c] = "done"]
                         \/ pc' = [pc EXCEPT ![c] = "executed"]
    BY DEF Exec
  <1>4. clock \in Nat /\ count[id] \in Nat /\ Window \in Nat \ {0}
    BY <1>1, LimiterAssumption DEF IInv, TypeOK
  <1> HIDE DEF id
  <1>5. TypeOK'
    BY <1>1, <1>2, <1>3, <1>4 DEF IInv, TypeOK
  <1>6. Journey'
    BY <1>1, <1>2, <1>3, <1>4, LimiterAssumption DEF IInv, TypeOK, Journey
  <1>7. /\ Counted(k, w)' = Counted(k, w) \cup {c} /\ c \notin Counted(k, w)
        /\ \A x, y : <<x, y>> # id => Counted(x, y)' = Counted(x, y)
    BY <1>0, <1>1, <1>2, <1>4 DEF Counted, IInv, TypeOK, id
  <1>8. /\ Cardinality(Counted(k, w)') = Cardinality(Counted(k, w)) + 1
        /\ Cardinality(Counted(k, w)) \in Nat
    BY <1>7, FiniteCounted, FS_AddElement
  <1>9. \A d \in Calls : d # c => executed'[d] = executed[d] /\ reply'[d] = reply[d]
    BY <1>2 DEF IInv, TypeOK
  <1>10. executed'[c] = clock /\ reply'[c] = count[id] + 1
    BY <1>2 DEF IInv, TypeOK
  <1>11. \A x \in Keys, y \in Windows : <<x, y>> # id =>
            count'[<<x, y>>] = count[<<x, y>>] /\ ttl'[<<x, y>>] = ttl[<<x, y>>]
    BY <1>2 DEF IInv, TypeOK
  <1>12. count'[id] = count[id] + 1 /\ ttl'[id] = Window
    BY <1>1, <1>2 DEF IInv, TypeOK
  <1>13. Earned'
    <2>1. \A x \in Keys, y \in Windows : count'[<<x, y>>] <= Cardinality(Counted(x, y)')
      <3> SUFFICES ASSUME NEW x \in Keys, NEW y \in Windows
                   PROVE  count'[<<x, y>>] <= Cardinality(Counted(x, y)')
        OBVIOUS
      <3>1. CASE <<x, y>> # id
        BY <1>7, <1>11, <3>1 DEF IInv, Earned
      <3>2. CASE <<x, y>> = id
        <4>1. x = k /\ y = w
          BY <3>2 DEF id
        <4>2. count[id] <= Cardinality(Counted(k, w))
          BY DEF IInv, Earned, id
        <4> QED BY <1>4, <1>8, <1>12, <3>2, <4>1, <4>2
      <3> QED BY <3>1, <3>2
    <2>2. ASSUME NEW d \in Calls, executed'[d] >= 0,
                 NEW x, NEW y, key[d] = x, stamp[d] = y
          PROVE  reply'[d] <= Cardinality(Counted(x, y)')
      <3>1. CASE d = c
        <4>1. count[id] <= Cardinality(Counted(k, w)) /\ x = k /\ y = w
          BY <1>0, <2>2, <3>1 DEF IInv, Earned, id
        <4> QED BY <1>4, <1>8, <1>10, <3>1, <4>1
      <3>2. CASE d # c
        <4>1. reply[d] <= Cardinality(Counted(x, y)) /\ reply[d] \in Nat
          BY <1>9, <2>2, <3>2 DEF IInv, Earned, TypeOK
        <4>2. CASE <<x, y>> # id
          BY <1>7, <1>9, <3>2, <4>1, <4>2
        <4>3. CASE <<x, y>> = id
          <5>1. x = k /\ y = w
            BY <4>3 DEF id
          <5> QED BY <1>8, <1>9, <3>2, <4>1, <5>1
        <4> QED BY <4>2, <4>3
      <3> QED BY <3>1, <3>2
    <2> QED BY <1>2, <2>1, <2>2 DEF Earned
  <1>14. \A x \in Keys, y \in Windows : \A d \in Counted(x, y) :
            d \in Calls /\ d # c /\ executed[d] \in Nat /\ reply[d] \in Nat
    BY <1>1 DEF Counted, IInv, TypeOK
  \* A hit less than a window ago is still counted, so the next value is a new one.
  <1>15. ASSUME id \notin wiped
         PROVE  \A d \in Counted(k, w) : clock < executed[d] + Window => reply[d] <= count[id]
    BY <1>15 DEF IInv, Lives, id
  <1>16. Lives'
    <2> SUFFICES ASSUME NEW x \in Keys, NEW y \in Windows, <<x, y>> \notin wiped,
                        NEW d \in Counted(x, y)', clock < executed'[d] + Window
                 PROVE  /\ executed'[d] + Window <= clock + ttl'[<<x, y>>]
                        /\ reply'[d] <= count'[<<x, y>>]
      BY <1>2 DEF Lives
    <2>1. CASE <<x, y>> # id
      <3>1. d \in Counted(x, y)
        BY <1>7, <2>1
      <3> QED BY <1>9, <1>11, <1>14, <2>1, <3>1 DEF IInv, Lives
    <2>2. CASE <<x, y>> = id
      <3>1. x = k /\ y = w
        BY <2>2 DEF id
      <3>2. CASE d = c
        BY <1>4, <1>10, <1>12, <2>2, <3>2
      <3>3. CASE d # c
        <4>1. d \in Counted(k, w)
          BY <1>7, <3>1, <3>3
        <4>2. d \in Calls /\ executed'[d] = executed[d] /\ reply'[d] = reply[d]
              /\ executed[d] \in Nat /\ reply[d] \in Nat
          BY <1>9, <1>14, <4>1
        <4>3. reply[d] <= count[id]
          BY <1>15, <2>2, <4>1, <4>2
        <4>4. executed[d] <= clock
          BY <4>2 DEF IInv, Journey
        <4> QED BY <1>4, <1>12, <2>2, <4>2, <4>3, <4>4
      <3> QED BY <3>2, <3>3
    <2> QED BY <2>1, <2>2
  <1>17. Distinct'
    <2> SUFFICES ASSUME NEW x \in Keys, NEW y \in Windows, <<x, y>> \notin wiped,
                        NEW d \in Counted(x, y)', NEW e \in Counted(x, y)',
                        Near(d, e)', reply'[d] = reply'[e], d # e
                 PROVE  FALSE
      BY <1>2 DEF Distinct
    <2>1. CASE d # c /\ e # c
      <3>1. d \in Counted(x, y) /\ e \in Counted(x, y)
        BY <1>7, <2>1 DEF id
      <3>2. Near(d, e) /\ reply[d] = reply[e]
        BY <1>9, <1>14, <3>1 DEF Near
      <3> QED BY <3>1, <3>2 DEF IInv, Distinct
    <2>2. CASE d = c \/ e = c
      <3>1. PICK f \in {d, e} : f # c
        OBVIOUS
      <3>2. <<x, y>> = id
        BY <1>1, <1>7, <2>2 DEF Counted
      <3>3. x = k /\ y = w
        BY <3>2 DEF id
      <3>4. f \in Counted(k, w)
        BY <1>7, <3>1, <3>3
      <3>5. clock < executed[f] + Window
        BY <1>9, <1>10, <1>14, <2>2, <3>1, <3>4 DEF Near
      <3>6. reply[f] <= count[id] /\ reply[f] \in Nat /\ reply'[f] = reply[f]
        BY <1>9, <1>14, <1>15, <3>1, <3>2, <3>4, <3>5
      <3> QED BY <1>4, <1>10, <2>2, <3>1, <3>6
    <2> QED BY <2>1, <2>2
  <1> QED BY <1>5, <1>6, <1>13, <1>16, <1>17 DEF IInv

-------------------------------------------------------------------------------
(***************************************************************************)
(* Redis restarts, time passes.                                            *)
(***************************************************************************)
\* A counter that a restart wipes has been used, or nobody was counted.
LEMMA RestartStep == ASSUME IInv, Restart PROVE IInv'
  <1>1. /\ UNCHANGED <<clock, key, stamp, reply, executed, decision>>
        /\ count' = [id \in Keys \X Windows |-> 0]
        /\ ttl' = [id \in Keys \X Windows |-> 0]
        /\ wiped' = wiped \cup {id \in Keys \X Windows : count[id] > 0}
        /\ restarts < MaxRestarts /\ restarts' = restarts + 1
    BY DEF Restart
  <1>2. \A c \in Calls : \/ pc'[c] = pc[c]
                         \/ pc[c] = "sending" /\ pc'[c] = "broken"
                         \/ pc[c] = "orphan" /\ pc'[c] = "done"
    BY DEF Restart, IInv, TypeOK
  <1>3. pc' \in [Calls -> {"new", "pool", "sending", "executed", "broken", "orphan", "done"}]
    <2>1. pc' = [c \in Calls |-> pc'[c]]
      BY DEF Restart
    <2> QED BY <1>2, <2>1 DEF IInv, TypeOK
  <1>4. TypeOK'
    BY <1>1, <1>3, LimiterAssumption DEF IInv, TypeOK
  <1>5. Journey'
    BY <1>1, <1>2 DEF IInv, Journey
  <1>6. \A k, w : Counted(k, w)' = Counted(k, w)
    BY <1>1 DEF Counted
  <1>8. Earned'
    BY <1>1, <1>6, FiniteCounted DEF IInv, Earned
  <1>9. Lives'
    <2> SUFFICES ASSUME NEW k \in Keys, NEW w \in Windows, <<k, w>> \notin wiped',
                        NEW c \in Counted(k, w), clock < executed[c] + Window
                 PROVE  FALSE
      BY <1>1, <1>6 DEF Lives
    <2>1. reply[c] <= count[<<k, w>>]
      BY <1>1 DEF IInv, Lives
    <2>2. reply[c] >= 1 /\ reply[c] \in Nat /\ count[<<k, w>>] \in Nat
      BY DEF Counted, IInv, Journey, TypeOK
    <2> QED BY <1>1, <2>1, <2>2
  <1>10. Distinct'
    BY <1>1, <1>6 DEF IInv, Distinct, Near
  <1> QED BY <1>4, <1>5, <1>8, <1>9, <1>10 DEF IInv

\* Time passes, and keys whose time to live is over expire.
LEMMA TickStep == ASSUME IInv, Tick PROVE IInv'
  <1>1. /\ clock < MaxTime /\ clock' = clock + 1
        /\ ttl' = [id \in Keys \X Windows |-> IF ttl[id] > 0 THEN ttl[id] - 1 ELSE 0]
        /\ count' = [id \in Keys \X Windows |-> IF ttl[id] > 1 THEN count[id] ELSE 0]
        /\ UNCHANGED <<pc, key, stamp, reply, executed, decision, restarts, wiped>>
    BY DEF Tick, call
  <1>2. clock \in Nat /\ Window \in Nat \ {0}
    BY LimiterAssumption DEF IInv, TypeOK
  <1>3. TypeOK'
    <2>1. clock' \in 0 .. MaxTime
      BY <1>1, <1>2, LimiterAssumption
    <2>2. \A id \in Keys \X Windows :
             /\ ttl[id] \in 0 .. Window /\ count[id] \in Nat
             /\ ttl'[id] \in 0 .. Window /\ count'[id] \in Nat
             /\ ttl'[id] = 0 <=> count'[id] = 0
      BY <1>1, <1>2 DEF IInv, TypeOK
    <2>3. ttl' \in [Keys \X Windows -> 0 .. Window] /\ count' \in [Keys \X Windows -> Nat]
      BY <1>1, <2>2
    <2> QED BY <1>1, <2>1, <2>2, <2>3 DEF IInv, TypeOK
  <1>4. Journey'
    BY <1>1, <1>2 DEF IInv, TypeOK, Journey
  <1>5. \A k, w : Counted(k, w)' = Counted(k, w)
    BY <1>1 DEF Counted
  <1>7. Earned'
    <2>1. \A k \in Keys, w \in Windows :
             /\ count[<<k, w>>] <= Cardinality(Counted(k, w))
             /\ count'[<<k, w>>] = count[<<k, w>>] \/ count'[<<k, w>>] = 0
      BY <1>1 DEF IInv, Earned
    <2> QED BY <1>1, <1>5, <2>1, FiniteCounted DEF IInv, Earned
  <1>8. Lives'
    <2> SUFFICES ASSUME NEW k \in Keys, NEW w \in Windows, <<k, w>> \notin wiped,
                        NEW c \in Counted(k, w), clock + 1 < executed[c] + Window
                 PROVE  /\ executed[c] + Window <= clock + 1 + ttl'[<<k, w>>]
                        /\ reply[c] <= count'[<<k, w>>]
      BY <1>1, <1>5 DEF Lives
    <2>1. executed[c] \in Nat
      BY DEF Counted, IInv, TypeOK
    <2>2. executed[c] + Window <= clock + ttl[<<k, w>>] /\ reply[c] <= count[<<k, w>>]
      BY <1>2, <2>1 DEF IInv, Lives
    <2>3. ttl[<<k, w>>] > 1 /\ ttl[<<k, w>>] \in Nat
      BY <1>2, <2>1, <2>2 DEF IInv, TypeOK
    <2>4. ttl'[<<k, w>>] = ttl[<<k, w>>] - 1 /\ count'[<<k, w>>] = count[<<k, w>>]
      BY <1>1, <2>3
    <2> QED BY <1>2, <2>1, <2>2, <2>3, <2>4
  <1>9. Distinct'
    BY <1>1, <1>5 DEF IInv, Distinct, Near
  <1> QED BY <1>3, <1>4, <1>7, <1>8, <1>9 DEF IInv

-------------------------------------------------------------------------------
\* IInv holds whatever the calls, Redis and the clock do.
LEMMA Invariance == Spec => []IInv
  <1>1. Init => IInv
    <2> SUFFICES ASSUME Init PROVE IInv
      OBVIOUS
    <2>1. TypeOK
      BY LimiterAssumption DEF Init, TypeOK
    <2>2. Journey
      BY LimiterAssumption DEF Init, Journey
    <2>3. \A k, w : Counted(k, w) = {}
      BY DEF Init, Counted
    <2>4. Earned
      BY <2>3, FiniteCounted DEF Init, Earned
    <2> QED BY <2>1, <2>2, <2>3, <2>4 DEF IInv, Lives, Distinct
  <1>2. IInv /\ [Next]_vars => IInv'
    <2> SUFFICES ASSUME IInv, [Next]_vars PROVE IInv'
      OBVIOUS
    <2>1. CASE UNCHANGED vars
      <3>1. TypeOK' /\ Journey'
        BY <2>1 DEF IInv, TypeOK, Journey, vars, redis, call
      <3> QED BY <2>1, <3>1, Quiet DEF vars, redis, call
    <2> QED BY <2>1, DecideStep, CallStep, ExecStep, RestartStep, TickStep DEF Next
  <1> QED BY <1>1, <1>2, PTL DEF Spec

\* Calls, counters and expiries are well typed, and a counter is there exactly
\* as long as its expiry runs.
THEOREM LimiterTypeCorrect == Spec => []TypeOK
  <1>1. IInv => TypeOK
    BY DEF IInv
  <1> QED BY <1>1, Invariance, PTL

\* decide never answers with a 429 that was not earned, for any number of calls,
\* replicas, restarts and lost replies.
THEOREM LimitIsAlwaysEarned == Spec => []LimitIsEarned
  <1>1. IInv => LimitIsEarned
    <2> SUFFICES ASSUME IInv, NEW c \in Calls, decision[c] = "Limit"
                 PROVE  Cardinality(Counted(key[c], stamp[c])) > Limit
      BY DEF LimitIsEarned
    <2>1. executed[c] >= 0 /\ reply[c] > Limit /\ reply[c] \in Nat
      BY DEF IInv, Journey, TypeOK
    <2>2. reply[c] <= Cardinality(Counted(key[c], stamp[c]))
      BY <2>1 DEF IInv, Earned
    <2> QED BY <2>1, <2>2, FiniteCounted, LimiterAssumption
  <1> QED BY <1>1, Invariance, PTL

\* The cap: the calls that are allowed within the length of a window were given
\* different counts, and none above the limit.
THEOREM CapIsKept == Spec => []CapPerWindow
  <1>1. IInv => CapPerWindow
    <2> SUFFICES ASSUME IInv, NEW k \in Keys, NEW w \in Windows, NEW t \in 0 .. MaxTime,
                        <<k, w>> \notin wiped
                 PROVE  Cardinality({c \in Counted(k, w) : /\ executed[c] \in t .. t + Window - 1
                                                           /\ decision[c] = "Allow"}) <= Limit
      BY DEF CapPerWindow
    <2> DEFINE S == {c \in Counted(k, w) : /\ executed[c] \in t .. t + Window - 1
                                           /\ decision[c] = "Allow"}
               f == [c \in S |-> reply[c]]
    <2>1. \A c \in S : reply[c] \in 1 .. Limit
      BY LimiterAssumption DEF Counted, IInv, Journey, TypeOK
    <2>2. \A c, d \in S : Near(c, d)
      BY LimiterAssumption DEF Near
    <2>3. \A c, d \in S : reply[c] = reply[d] => c = d
      BY <2>2 DEF IInv, Distinct
    <2>4. f \in Injection(S, 1 .. Limit)
      BY <2>1, <2>3 DEF Injection, IsInjective
    <2>5. IsFiniteSet(1 .. Limit) /\ Cardinality(1 .. Limit) = Limit
      BY FS_Interval, LimiterAssumption
    <2> HIDE DEF S, f
    <2>6. Cardinality(S) <= Cardinality(1 .. Limit)
      BY <2>4, <2>5, FS_Injection
    <2> QED BY <2>5, <2>6 DEF S
  <1> QED BY <1>1, Invariance, PTL

\* No counter expires within a window's length of a hit: who is over the limit
\* stays over it for that long.
THEOREM OverForTheWindow == Spec => OverForAWindow
  <1>1. IInv => [\A c, d \in Calls :
                    (/\ Exec(c)
                     /\ <<key[c], stamp[c]>> \notin wiped
                     /\ d \in Counted(key[c], stamp[c])
                     /\ clock < executed[d] + Window
                     /\ reply[d] > Limit)
                        => reply'[c] > Limit]_vars
    <2> SUFFICES ASSUME IInv, NEW c \in Calls, NEW d \in Calls, Exec(c),
                        <<key[c], stamp[c]>> \notin wiped,
                        d \in Counted(key[c], stamp[c]),
                        clock < executed[d] + Window, reply[d] > Limit
                 PROVE  reply'[c] > Limit
      OBVIOUS
    <2>1. key[c] \in Keys /\ stamp[c] \in Windows
      BY DEF IInv, Journey, Exec
    <2>2. reply[d] <= count[<<key[c], stamp[c]>>]
      BY <2>1 DEF IInv, Lives
    <2>3. reply'[c] = count[<<key[c], stamp[c]>>] + 1
      BY DEF Exec, IInv, TypeOK
    <2> QED BY <2>1, <2>2, <2>3, LimiterAssumption DEF IInv, TypeOK
  <1> QED BY <1>1, Invariance, PTL DEF OverForAWindow
==============================================================================
