---------------------------- MODULE GatewayProofs ----------------------------
(***************************************************************************)
(* Proofs about Gateway, for any configurations, clients, paths and tokens *)
(* of others.  GatewaySteps has the invariant and the first of its steps.  *)
(***************************************************************************)
EXTENDS GatewaySteps

\* The end of a request, however it ends.
LEMMA EndStep ==
    ASSUME IInv, NEW c \in Clients, pc[c] # "idle", Done(c), UNCHANGED boot,
           UNCHANGED <<file, clock, issued, verified, logins>>,
           \/ count' = count
           \/ pc[c] = "deciding" /\ count' = [count EXCEPT ![<<"sub", subject[c]>>] = @ + 1],
           \/ refused' = refused
           \/ /\ pc[c] = "deciding" /\ refused' = refused \cup {subject[c]}
              /\ count[<<"sub", subject[c]>>] + 1 > config.ratelimit.limit,
           \/ logged' = [logged EXCEPT ![subject[c]] = @ + 1] /\ left' = left
           \/ left' = [left EXCEPT ![subject[c]] = @ + 1] /\ logged' = logged
    PROVE  IInv'
  <1>1. PICK s : s = subject[c] /\ s \in Named /\ s \in Subjects
    BY DEF IInv, Types, Passed, Named
  <1>2. phase = "serving" /\ UNCHANGED <<phase, config, error, auth, login>>
    BY DEF IInv, Booted, boot
  <1>3. <<"sub", s>> \in LimitKeys
    BY <1>1 DEF LimitKeys
  <1>4. \A r \in Named :
          /\ count[<<"sub", r>>] \in Nat /\ count'[<<"sub", r>>] \in Nat
          /\ \/ count'[<<"sub", r>>] = count[<<"sub", r>>]
             \/ /\ r = s /\ pc[c] = "deciding"
                /\ count'[<<"sub", r>>] = count[<<"sub", r>>] + 1
    BY <1>1, <1>3 DEF IInv, Types, LimitKeys
  <1>5. count' \in [LimitKeys -> Nat]
    BY <1>1, <1>3 DEF IInv, Types
  <1>6. \A r \in Subjects :
          /\ logged[r] \in Nat /\ left[r] \in Nat /\ logged'[r] \in Nat /\ left'[r] \in Nat
          /\ logged'[r] + left'[r] = logged[r] + left[r] + (IF r = s THEN 1 ELSE 0)
    BY <1>1 DEF IInv, Types
  <1>7. logged' \in [Subjects -> Nat] /\ left' \in [Subjects -> Nat]
    BY <1>1 DEF IInv, Types
  <1>8. Types'
    <2>1. /\ pc' \in [Clients -> {"idle", "deciding", "forwarding"}]
          /\ subject' \in [Clients -> Subjects] /\ arrived' \in [Clients -> Nat]
          /\ DOMAIN path' = Clients /\ DOMAIN token' = Clients
      BY DEF IInv, Types, Done, Subjects
    <2> QED BY <1>2, <1>5, <1>7, <2>1 DEF IInv, Types
  <1>9. Booted' /\ (\A q : Routed(q) => Routed(q)')
    BY <1>2, Serves
  <1>10. Passed'
    <2> SUFFICES ASSUME NEW d \in Clients
                 PROVE  /\ pc'[d] # "idle" =>
                             /\ Genuine(token[d], arrived[d])'
                             /\ subject'[d] = token'[d].claims.sub
                             /\ subject'[d] # None
                        /\ pc'[d] = "forwarding" => Routed(path[d])'
      BY DEF Passed
    <2>1. CASE d = c
      BY <2>1 DEF IInv, Types, Done
    <2>2. CASE d # c
      <3>1. /\ pc'[d] = pc[d] /\ token'[d] = token[d] /\ subject'[d] = subject[d]
            /\ arrived'[d] = arrived[d] /\ path'[d] = path[d]
        BY <2>2 DEF IInv, Types, Done
      <3>2. pc[d] # "idle" => Genuine(token[d], arrived[d])'
        BY <1>2, <3>1 DEF IInv, Passed, Genuine, WrittenTtl
      <3>3. pc[d] = "forwarding" => Routed(path[d])'
        BY <1>2, <3>1 DEF IInv, Passed, Routed
      <3> QED BY <3>1, <3>2, <3>3 DEF IInv, Passed
    <2> QED BY <2>1, <2>2
  <1>11. AllMinted'
    BY <1>2 DEF IInv, AllMinted, Minted, WrittenTtl
  <1>12. \A r \in Named :
           /\ Waiting(r)' = Waiting(r) - (IF r = s THEN 1 ELSE 0)
           /\ Cardinality(DecidingFor(r)') =
                Cardinality(DecidingFor(r)) - (IF r = s /\ pc[c] = "deciding" THEN 1 ELSE 0)
           /\ Waiting(r) \in Nat /\ Cardinality(DecidingFor(r)) \in Nat
    BY <1>1, Leaves, FiniteWaiting DEF IInv
  <1>13. \A r \in Named : verified[r] \in Nat /\ verified'[r] = verified[r]
    BY DEF IInv, Types, Named
  <1>14. pc[c] = "deciding" => Cardinality(DecidingFor(s)) >= 1
    <2>1. Cardinality(DecidingFor(s)') \in Nat
      <3>1. DecidingFor(s)' \subseteq Clients
        BY DEF DecidingFor
      <3> QED BY <3>1, GatewayAssumption, FS_Subset, FS_CardinalityType
    <2> QED BY <1>1, <1>12, <2>1
  <1>15. Budget'
    <2>1. ASSUME NEW r \in Named
          PROVE  count'[<<"sub", r>>] + Cardinality(DecidingFor(r)') <= verified'[r]
      <3>1. count[<<"sub", r>>] + Cardinality(DecidingFor(r)) <= verified[r]
        BY DEF IInv, Budget
      <3>2. CASE r = s /\ pc[c] = "deciding"
        BY <1>4, <1>12, <1>13, <3>1, <3>2
      <3>3. CASE ~(r = s /\ pc[c] = "deciding")
        BY <1>4, <1>12, <1>13, <3>1, <3>3
      <3> QED BY <3>2, <3>3
    <2>2. config.ratelimit.limit \in Nat
      BY <1>2, Numbers DEF IInv, Types, Booted
    <2>3. ASSUME NEW r \in refused'
          PROVE  r \in Named /\ verified'[r] > config.ratelimit.limit
      <3>1. CASE r \in refused
        BY <1>13, <3>1 DEF IInv, Budget
      <3>2. CASE r \notin refused
        <4>1. r = s /\ pc[c] = "deciding" /\ count[<<"sub", s>>] + 1 > config.ratelimit.limit
          BY <1>1, <3>2
        <4>2. count[<<"sub", s>>] + Cardinality(DecidingFor(s)) <= verified[s]
          BY <1>1 DEF IInv, Budget
        <4>3. verified[s] > config.ratelimit.limit
          BY <1>1, <1>4, <1>12, <1>13, <1>14, <2>2, <4>1, <4>2
        <4> QED BY <1>1, <1>13, <4>1, <4>3
      <3> QED BY <3>1, <3>2
    <2> QED BY <1>2, <2>1, <2>3 DEF Budget
  <1>16. AuditAddsUp'
    <2>1. ASSUME NEW r \in Named
          PROVE  verified'[r] + (IF r = DemoUser THEN logins ELSE 0)
                   = Waiting(r)' + logged'[r] + left'[r]
      <3>1. /\ logins \in Nat /\ r \in Subjects
            /\ verified[r] + (IF r = DemoUser THEN logins ELSE 0) = Waiting(r) + logged[r] + left[r]
        BY DEF Named, IInv, Types, AuditAddsUp
      <3>2. CASE r = s
        BY <1>6, <1>12, <1>13, <3>1, <3>2
      <3>3. CASE r # s
        BY <1>6, <1>12, <1>13, <3>1, <3>3
      <3> QED BY <3>2, <3>3
    <2> QED BY <2>1 DEF AuditAddsUp, Named
  <1> QED BY <1>8, <1>9, <1>10, <1>11, <1>15, <1>16 DEF IInv

\* forward begins: the request is counted and waits for a backend.
LEMMA ForwardStep ==
    ASSUME IInv, NEW c \in Clients, pc[c] = "deciding", UNCHANGED boot,
           UNCHANGED <<file, clock, issued, refused, verified, logins, left, logged>>,
           UNCHANGED <<path, token, subject, arrived>>,
           Routed(path[c]), pc' = [pc EXCEPT ![c] = "forwarding"],
           count' \in {count, [count EXCEPT ![<<"sub", subject[c]>>] = @ + 1]}
    PROVE  IInv'
  <1>1. PICK s : s = subject[c] /\ s \in Named
    BY DEF IInv, Types, Passed, Named
  <1>2. phase = "serving" /\ UNCHANGED <<phase, config, error, auth, login>>
    BY DEF IInv, Booted, boot
  <1>3. <<"sub", s>> \in LimitKeys
    BY <1>1 DEF LimitKeys
  <1>4. /\ count' \in [LimitKeys -> Nat]
        /\ \A r \in Named : /\ count[<<"sub", r>>] \in Nat
                            /\ \/ count'[<<"sub", r>>] = count[<<"sub", r>>]
                               \/ r = s /\ count'[<<"sub", r>>] = count[<<"sub", r>>] + 1
    <2>1. count \in [LimitKeys -> Nat]
      BY DEF IInv, Types
    <2>2. \A r \in Named : <<"sub", r>> \in LimitKeys
      BY DEF LimitKeys
    <2> QED BY <1>1, <2>1, <2>2
  <1>5. Types'
    BY <1>2, <1>4 DEF IInv, Types
  <1>6. Booted'
    BY <1>2, Serves
  <1>7. Passed'
    <2>1. \A d \in Clients : /\ pc'[d] # "idle" => pc[d] # "idle"
                             /\ pc'[d] = "forwarding" => d = c \/ pc[d] = "forwarding"
      BY DEF IInv, Types
    <2>2. ASSUME NEW d \in Clients, pc'[d] # "idle"
          PROVE  /\ Genuine(token[d], arrived[d])'
                 /\ subject'[d] = token'[d].claims.sub /\ subject'[d] # None
      <3>1. Genuine(token[d], arrived[d]) /\ subject[d] = token[d].claims.sub /\ subject[d] # None
        BY <2>1, <2>2 DEF IInv, Passed
      <3> QED BY <1>2, <3>1 DEF Genuine, WrittenTtl
    <2>3. ASSUME NEW d \in Clients, pc'[d] = "forwarding"
          PROVE  Routed(path[d])'
      <3>1. Routed(path[d])
        BY <2>1, <2>3 DEF IInv, Passed
      <3> QED BY <1>2, <3>1 DEF Routed
    <2> QED BY <2>2, <2>3 DEF Passed
  <1>8. AllMinted'
    BY <1>2 DEF IInv, AllMinted, Minted, WrittenTtl
  <1>9. \A r \in Named :
          /\ Cardinality(DecidingFor(r)') =
               Cardinality(DecidingFor(r)) - (IF r = s THEN 1 ELSE 0)
          /\ Cardinality(DecidingFor(r)) \in Nat
    <2> TAKE r \in Named
    <2>1. DecidingFor(r)' = DecidingFor(r) \ {c}
      BY DEF DecidingFor, IInv, Types
    <2>2. c \in DecidingFor(r) <=> r = s
      BY <1>1 DEF DecidingFor
    <2>3. Cardinality(DecidingFor(r) \ {c}) =
            IF c \in DecidingFor(r) THEN Cardinality(DecidingFor(r)) - 1
            ELSE Cardinality(DecidingFor(r))
      BY Zenon, FiniteWaiting, FS_RemoveElement
    <2> QED BY <2>1, <2>2, <2>3, FiniteWaiting
  <1>10. Budget'
    <2>1. ASSUME NEW r \in Named
          PROVE  count'[<<"sub", r>>] + Cardinality(DecidingFor(r)') <= verified[r]
      <3>1. count[<<"sub", r>>] + Cardinality(DecidingFor(r)) <= verified[r] /\ verified[r] \in Nat
        BY DEF IInv, Budget, Types, Named
      <3>2. CASE r = s
        BY <1>4, <1>9, <3>1, <3>2
      <3>3. CASE r # s
        BY <1>4, <1>9, <3>1, <3>3
      <3> QED BY <3>2, <3>3
    <2> QED BY <1>2, <2>1 DEF IInv, Budget
  <1>11. AuditAddsUp'
    <2>1. \A r : {d \in Clients : pc'[d] # "idle" /\ subject[d] = r}
                   = {d \in Clients : pc[d] # "idle" /\ subject[d] = r}
      BY DEF IInv, Types
    <2> QED BY <2>1 DEF IInv, AuditAddsUp, Waiting
  <1> QED BY <1>5, <1>6, <1>7, <1>8, <1>10, <1>11 DEF IInv

\* Past the gate the limit key is the subject's own.
LEMMA RequestStep ==
    ASSUME IInv, NEW c \in Clients, Limited(c) \/ Allowed(c) \/ Forwarded(c) \/ Disconnect(c)
    PROVE  IInv'
  <1>1. pc[c] # "idle" => LimitKey(subject[c]) = <<"sub", subject[c]>>
    BY DEF IInv, Passed, LimitKey
  <1>2. CASE Limited(c)
    BY Zenon, <1>1, <1>2, EndStep DEF Limited, Complete
  <1>3. CASE Allowed(c)
    <2>1. /\ pc[c] = "deciding"
          /\ count' \in {count, [count EXCEPT ![<<"sub", subject[c]>>] = @ + 1]}
          /\ UNCHANGED boot
          /\ UNCHANGED <<file, clock, issued, refused, verified, logins, left>>
      BY <1>1, <1>3 DEF Allowed
    <2>2. CASE Complete(subject[c]) /\ Done(c)
      BY Zenon, <2>1, <2>2, EndStep DEF Complete
    <2>3. CASE ~(Complete(subject[c]) /\ Done(c))
      BY Zenon, <1>3, <2>1, <2>3, ForwardStep DEF Allowed
    <2> QED BY <2>2, <2>3
  <1>4. CASE Forwarded(c)
    BY Zenon, <1>4, EndStep DEF Forwarded, Complete
  <1>5. CASE Disconnect(c)
    BY Zenon, <1>1, <1>5, EndStep DEF Disconnect
  <1> QED BY Zenon, <1>2, <1>3, <1>4, <1>5

\* Time passes: tokens minted by then are minted by now.
LEMMA TickStep == ASSUME IInv, Tick PROVE IInv'
  <1>1. /\ UNCHANGED <<phase, config, error, auth, login, file, issued, count, refused>>
        /\ UNCHANGED <<pc, path, token, subject, arrived, verified, logins, logged, left>>
        /\ clock < MaxTime /\ clock' = clock + 1 /\ phase = "serving"
    BY DEF Tick, boot, request, audit
  <1>2. clock \in 0 .. MaxTime /\ clock' \in 0 .. MaxTime /\ clock \in Nat
    BY <1>1, GatewayAssumption, TokenAssumption DEF IInv, Types
  <1>3. Types'
    BY <1>1, <1>2 DEF IInv, Types
  <1>4. AllMinted'
    <2>1. WrittenTtl' = WrittenTtl /\ 0 .. clock \subseteq 0 .. clock'
      BY <1>1, <1>2 DEF WrittenTtl
    <2> QED BY <1>1, <2>1 DEF IInv, AllMinted, Minted
  <1>5. Booted' /\ Passed'
    BY <1>1 DEF IInv, Booted, Passed, Genuine, WrittenTtl, Routed
  <1>6. Budget' /\ AuditAddsUp'
    BY <1>1 DEF IInv, Budget, DecidingFor, AuditAddsUp, Waiting
  <1> QED BY <1>3, <1>4, <1>5, <1>6 DEF IInv

\* Nothing is counted, issued or waiting at first.
LEMMA Starts == ASSUME Init PROVE IInv
  <1>1. Types
    <2>1. clock \in 0 .. MaxTime
      BY GatewayAssumption, TokenAssumption DEF Init
    <2>2. count \in [LimitKeys -> Nat]
      BY DEF Init, LimitKeys, Named
    <2> QED BY Zenon, <2>1, <2>2 DEF Init, Types, Phases, Subjects
  <1>2. Booted /\ AllMinted /\ Passed
    BY DEF Init, Booted, AllMinted, Passed
  <1>3. \A s : Waiting(s) = 0 /\ Cardinality(DecidingFor(s)) = 0
    <2>1. \A s : WaitingFor(s) = {} /\ DecidingFor(s) = {}
      BY DEF Init, WaitingFor, DecidingFor
    <2> QED BY <2>1, FiniteWaiting, FS_EmptySet
  <1>4. Budget
    <2>1. \A s \in Named : count[<<"sub", s>>] = 0 /\ verified[s] = 0
      BY DEF Init, Named
    <2> QED BY <1>3, <2>1 DEF Init, Budget
  <1>5. AuditAddsUp
    BY <1>3 DEF Init, AuditAddsUp
  <1> QED BY <1>1, <1>2, <1>4, <1>5 DEF IInv

-------------------------------------------------------------------------------
(***************************************************************************)
(* Theorems.                                                               *)
(***************************************************************************)
\* IInv holds whatever main, the clients, Redis and the clock do.
LEMMA Invariance == Spec => []IInv
  <1>1. ASSUME IInv, [Next]_vars PROVE IInv'
    <2>1. CASE LoadConfig \/ LoadKeys \/ Wire
      BY <1>1, <2>1, BootStep
    <2>2. CASE Login
      BY <1>1, <2>2, LoginStep
    <2>3. ASSUME NEW p \in Paths, Endpoint(p) PROVE IInv'
      BY <1>1, <2>3, AnonymousStep DEF Endpoint, Listening, Complete
    <2>4. ASSUME NEW c \in Clients, NEW p \in Paths, NEW h \in Headers, Arrive(c, p, h)
          PROVE  IInv'
      BY <1>1, <2>4, ArriveStep
    <2>5. ASSUME NEW c \in Clients, Limited(c) \/ Allowed(c) \/ Forwarded(c) \/ Disconnect(c)
          PROVE  IInv'
      BY <1>1, <2>5, RequestStep
    <2>6. CASE Tick
      BY <1>1, <2>6, TickStep
    <2>7. CASE UNCHANGED vars
      <3>1. /\ UNCHANGED <<phase, config, error, auth, login, file, clock, issued, count, refused>>
            /\ UNCHANGED <<pc, path, token, subject, arrived, verified, logins, logged, left>>
        BY <2>7 DEF vars, boot, request, audit
      <3>2. Types' /\ Booted' /\ AllMinted'
        BY <1>1, <3>1 DEF IInv, Types, Booted, AllMinted, Minted, WrittenTtl
      <3>3. Passed' /\ Budget' /\ AuditAddsUp'
        BY <1>1, <3>1 DEF IInv, Passed, Genuine, WrittenTtl, Routed, Budget, DecidingFor,
                          AuditAddsUp, Waiting
      <3> QED BY <3>2, <3>3 DEF IInv
    <2> QED BY <1>1, <2>1, <2>2, <2>3, <2>4, <2>5, <2>6, <2>7 DEF Next
  <1> QED BY <1>1, Starts, PTL DEF Spec

\* proxy_fallback lets nothing through to a backend but requests for a
\* configured prefix, under the subject of a token that was genuine when the
\* request passed the gate: for any configuration, tokens, clients and times.
THEOREM BackendsAreGuarded == Spec => []OnlyGenuineReachBackends
  <1>1. ASSUME IInv PROVE OnlyGenuineReachBackends
    <2> SUFFICES ASSUME NEW c \in Clients, pc[c] = "forwarding"
                 PROVE  /\ Genuine(token[c], arrived[c])
                        /\ subject[c] = token[c].claims.sub
                        /\ \E i \in DOMAIN config.routes : Prefix(path[c]) = config.routes[i].prefix
      BY DEF OnlyGenuineReachBackends
    <2>1. Genuine(token[c], arrived[c]) /\ subject[c] = token[c].claims.sub /\ Routed(path[c])
      BY <1>1 DEF IInv, Passed
    <2>2. \E i \in DOMAIN config.routes : Prefix(path[c]) = config.routes[i].prefix
      BY <2>1 DEF Routed, Backends
    <2> QED BY <2>1, <2>2
  <1> QED BY <1>1, Invariance, PTL

\* Nobody pays for others: the key that limit_key makes keeps the budgets of
\* subjects apart, and only requests past the gate are counted.
THEOREM BudgetsAreApart == Spec => []NobodyPaysForOthers
  <1>1. IInv => NobodyPaysForOthers
    BY DEF IInv, Budget, NobodyPaysForOthers
  <1> QED BY <1>1, Invariance, PTL

\* The audit adds up: the completion line of request_id_and_trace is written
\* once for every request past the gate, under its subject, unless its client
\* left.
THEOREM AuditAlwaysAddsUp == Spec => []AuditAddsUp
  <1>1. IInv => AuditAddsUp
    BY DEF IInv
  <1> QED BY <1>1, Invariance, PTL

\* What login hands out, check_bearer of the same process accepts for the whole
\* lifetime that the operator wrote or left to its default.
THEOREM LoginsAreGood == Spec => []LoginTokensOpenTheGate
  <1>1. ASSUME IInv PROVE LoginTokensOpenTheGate
    <2> SUFFICES ASSUME NEW t \in issued, clock < t.claims.iat + WrittenTtl, clock < U64Max
                 PROVE  CheckBearer(auth, [scheme |-> "Bearer ", words |-> <<t>>], clock) = DemoUser
      BY DEF LoginTokensOpenTheGate
    <2>1. PICK now \in 0 .. clock : t = IssueToken(OwnKey, OwnIssuer, DemoUser, now, WrittenTtl)
      BY <1>1 DEF IInv, AllMinted, Minted
    <2>2. auth.verifying_key = OwnKey /\ auth.trusted_issuer = OwnIssuer
      BY <1>1 DEF IInv, AllMinted, Booted, Types, Phases
    <2>3. clock \in 0 .. MaxTime /\ clock \in Nat /\ now \in 0 .. MaxTime /\ WrittenTtl \in Nat
      BY <1>1, <2>1, Numbers, GatewayAssumption, TokenAssumption DEF IInv, Types
    <2>4. /\ t.shape /\ t.alg = "EdDSA" /\ t.signer = OwnKey /\ t.json
          /\ t.claims.sub = DemoUser /\ t.claims.iss = OwnIssuer /\ t.claims.iat = now
          /\ t.claims.exp = SaturatingAdd(now, WrittenTtl)
      BY <2>1 DEF IssueToken
    <2>5. t.claims.exp \in 0 .. U64Max /\ clock < t.claims.exp
      BY <2>3, <2>4, TokenAssumption, GatewayAssumption DEF SaturatingAdd
    <2>6. t \in OwnTokens
      BY <2>1, <2>3, <2>4, <2>5 DEF OwnTokens, IssueToken
    <2> DEFINE h == [scheme |-> "Bearer ", words |-> <<t>>]
    <2>7. h # None /\ t # None
      BY <2>6, NoneAssumption
    <2>8. BearerToken(h) = t
      <3>1. DOMAIN <<t>> = {1} /\ <<t>>[1] = t
        OBVIOUS
      <3>2. h.scheme = "Bearer " /\ h.words = <<t>>
        OBVIOUS
      <3> QED BY <2>7, <3>1, <3>2 DEF BearerToken
    <2>9. VerifyToken(OwnKey, t, OwnIssuer, clock) = "Ok"
      <3>1. t.claims.exp # None /\ t.claims.sub # None /\ ~(clock >= t.claims.exp)
        BY <2>3, <2>4, <2>5, GatewayAssumption, TokenAssumption
      <3> QED BY <2>4, <3>1 DEF VerifyToken
    <2> QED BY <2>2, <2>4, <2>7, <2>8, <2>9 DEF CheckBearer
  <1> QED BY <1>1, Invariance, PTL

-------------------------------------------------------------------------------
(***************************************************************************)
(* Types and bounds.                                                       *)
(***************************************************************************)
Made ==
    /\ config \in {None, Parsed(file)}
    /\ auth \in {None} \cup AuthStates

Within == SumFunctionOnSet(Load, Subjects) <= MaxRequests

\* Without a subject nothing is counted.
Unnamed == count[<<"ip", None>>] = 0 /\ verified[None] = 0

Placed ==
    \A c \in Clients :
        /\ arrived[c] \in 0 .. MaxTime
        /\ path[c] \in Paths \cup {None}
        /\ pc[c] = "idle" <=> path[c] = None

\* What TypeOK asks for besides IInv.
Bounded == Made /\ Within /\ Unnamed /\ Placed

\* The requests that came in are natural numbers, for finitely many subjects.
LEMMA LoadTyped ==
    ASSUME IInv
    PROVE  /\ IsFiniteSet(Subjects)
           /\ \A s \in Subjects :
                /\ Load[s] = Waiting(s) + logged[s] + left[s]
                /\ Waiting(s) \in Nat /\ logged[s] \in Nat /\ left[s] \in Nat /\ Load[s] \in Nat
  <1>1. IsFiniteSet({DemoUser, None})
    <2>1. IsFiniteSet({DemoUser}) /\ {DemoUser} \cup {None} = {DemoUser, None}
      BY FS_Singleton, Zenon
    <2> QED BY <2>1, FS_AddElement, Zenon
  <1>2. IsFiniteSet(Subjects)
    BY <1>1, OthersAssumption, FS_Union, Zenon DEF Subjects
  <1>3. \A s \in Subjects : Load[s] = Waiting(s) + logged[s] + left[s]
    BY DEF Load
  <1>4. \A s \in Subjects : Waiting(s) \in Nat /\ logged[s] \in Nat /\ left[s] \in Nat
    BY FiniteWaiting DEF IInv, Types
  <1> QED BY <1>2, <1>3, <1>4

\* A request comes in, or goes from where it waits to the log or away.
LEMMA Adding ==
    ASSUME IInv, NEW s \in Subjects
    PROVE  LET w == Waiting(s)  l == logged[s]  e == left[s]
           IN  /\ (w + 1) + l + e = (w + l + e) + 1 /\ w + (l + 1) + e = (w + l + e) + 1
               /\ (w - 1) + (l + 1) + e = w + l + e /\ (w - 1) + l + (e + 1) = w + l + e
  <1>1. Waiting(s) \in Nat /\ logged[s] \in Nat /\ left[s] \in Nat
    BY LoadTyped, Zenon
  <1> QED BY <1>1

\* Another request is within the bound that Listening checks ...
LEMMA OneMoreIsWithin ==
    ASSUME IInv, Listening, NEW s \in Subjects,
           Waiting(s)' + logged'[s] + left'[s] = (Waiting(s) + logged[s] + left[s]) + 1,
           \A r \in Subjects \ {s} : Waiting(r)' + logged'[r] + left'[r]
                                       = Waiting(r) + logged[r] + left[r]
    PROVE  Within'
  <1>1. PICK f, g : f = Load /\ g = Load'
    OBVIOUS
  <1>2. IsFiniteSet(Subjects) /\ \A r \in Subjects : f[r] \in Nat
    BY <1>1, LoadTyped, Zenon
  <1>3. \A r \in Subjects : /\ f[r] = Waiting(r) + logged[r] + left[r]
                            /\ g[r] = Waiting(r)' + logged'[r] + left'[r]
    BY <1>1, Zenon DEF Load
  <1>4. g[s] = f[s] + 1 /\ \A r \in Subjects \ {s} : g[r] = f[r]
    BY <1>3, Zenon
  <1>5. SumFunctionOnSet(g, Subjects) = SumFunctionOnSet(f, Subjects) + 1
    BY <1>2, <1>4, SumRaise
  <1>6. SumFunctionOnSet(f, Subjects) \in Nat
    BY <1>2, SumNat, Zenon
  <1>7. SumFunctionOnSet(f, Subjects) < MaxRequests
    BY <1>1, Zenon DEF Listening
  <1>8. SumFunctionOnSet(g, Subjects) <= MaxRequests
    BY <1>5, <1>6, <1>7, GatewayAssumption
  <1> QED BY <1>1, <1>8, Zenon DEF Within

\* ... and whatever becomes of a request that waits, it was in the sum before.
LEMMA NoMoreIsWithin ==
    ASSUME IInv, Within,
           \A r \in Subjects : Waiting(r)' + logged'[r] + left'[r]
                                 = Waiting(r) + logged[r] + left[r]
    PROVE  Within'
  <1>1. PICK f, g : f = Load /\ g = Load'
    OBVIOUS
  <1>2. \A r \in Subjects : f[r] = g[r]
    BY <1>1, Zenon DEF Load
  <1>3. SumFunctionOnSet(f, Subjects) = SumFunctionOnSet(g, Subjects)
    BY <1>2, LoadTyped, SumSame, Zenon
  <1> QED BY <1>1, <1>3, Zenon DEF Within

\* main makes the configuration and the AuthState, and lets no request in.
LEMMA BoundedBoot == ASSUME IInv, Bounded, LoadConfig \/ LoadKeys \/ Wire PROVE Bounded'
  <1>1. /\ UNCHANGED <<file, clock, issued, count, labels, refused>>
        /\ UNCHANGED <<pc, path, token, subject, arrived>>
        /\ UNCHANGED <<verified, logins, logged, left>>
    BY Zenon DEF LoadConfig, LoadKeys, Wire, Refuse, serving, request, audit
  <1>2. config' \in {config, Parsed(file)}
    BY Zenon DEF LoadConfig, LoadKeys, Wire, Refuse
  <1>3. auth' \in {auth, [verifying_key |-> OwnKey, trusted_issuer |-> OwnIssuer],
                  [verifying_key |-> IssuerKey, trusted_issuer |-> Issuer]}
    BY DEF LoadConfig, LoadKeys, Wire, Refuse
  <1>4. Made'
    <2>1. config' \in {None, Parsed(file)'}
      BY <1>1, <1>2 DEF Bounded, Made
    <2>2. auth' \in {None} \cup AuthStates
      BY <1>3 DEF Bounded, Made, AuthStates
    <2> QED BY <2>1, <2>2 DEF Made
  <1>5. Within'
    BY <1>1, NoMoreIsWithin, Zenon DEF Bounded, Waiting
  <1> QED BY <1>1, <1>4, <1>5, Zenon DEF Bounded, Unnamed, Placed

\* An answer at once: no request begins to wait.
LEMMA BoundedAnswer ==
    ASSUME IInv, Bounded, Listening, NEW s \in Subjects, UNCHANGED boot,
           UNCHANGED <<file, count, request, verified, left>>,
           logged' = [logged EXCEPT ![s] = @ + 1]
    PROVE  Bounded'
  <1>1. UNCHANGED <<config, auth, pc, path, subject, arrived>>
    BY DEF boot, request
  <1>2. logged'[s] = logged[s] + 1 /\ \A r \in Subjects \ {s} : logged'[r] = logged[r]
    BY Zenon DEF IInv, Types
  <1>3. \A r \in Subjects : Waiting(r)' = Waiting(r) /\ left'[r] = left[r]
    BY <1>1, Zenon DEF Waiting
  <1>4. Within'
    <2>1. Waiting(s)' + logged'[s] + left'[s] = Waiting(s) + (logged[s] + 1) + left[s]
      BY <1>2, <1>3, Zenon
    <2>2. Waiting(s) + (logged[s] + 1) + left[s] = (Waiting(s) + logged[s] + left[s]) + 1
      BY Adding, Zenon
    <2>3. \A r \in Subjects \ {s} : Waiting(r)' + logged'[r] + left'[r]
                                      = Waiting(r) + logged[r] + left[r]
      BY <1>2, <1>3, Zenon
    <2> QED BY <2>1, <2>2, <2>3, OneMoreIsWithin, Zenon
  <1> QED BY <1>1, <1>4, Zenon DEF Bounded, Made, Unnamed, Placed

\* A request past the gate waits, at a path and since a time.
LEMMA BoundedArrive ==
    ASSUME IInv, Bounded, NEW c \in Clients, NEW p \in Paths, NEW h \in Headers, Arrive(c, p, h)
    PROVE  Bounded'
  <1>1. PICK s : s = CheckBearer(auth, h, clock)
    OBVIOUS
  <1>2. PICK now : now = clock
    OBVIOUS
  <1>3. /\ Listening /\ phase = "serving" /\ pc[c] = "idle"
        /\ UNCHANGED boot /\ UNCHANGED <<file, count, left>>
    BY DEF Arrive, Listening
  <1>4. CASE s = None
    <2>1. UNCHANGED <<request, verified>> /\ logged' = [logged EXCEPT ![None] = @ + 1]
      BY <1>1, <1>4 DEF Arrive, Complete
    <2>2. None \in Subjects
      BY DEF Subjects
    <2> QED BY <1>3, <2>1, <2>2, BoundedAnswer, Zenon
  <1>5. CASE s # None
    <2>1. s \in Subjects
      BY <1>1, <1>3, <1>5, Gate DEF Named
    <2>2. /\ pc' = [pc EXCEPT ![c] = "deciding"]
          /\ path' = [path EXCEPT ![c] = p]
          /\ subject' = [subject EXCEPT ![c] = s]
          /\ arrived' = [arrived EXCEPT ![c] = now]
          /\ verified' = [verified EXCEPT ![s] = @ + 1]
          /\ UNCHANGED logged
      BY <1>1, <1>2, <1>5 DEF Arrive
    <2>3. Made'
      BY <1>3, Zenon DEF boot, Bounded, Made
    <2>4. Unnamed'
      BY <1>3, <1>5, <2>2, Zenon DEF IInv, Types, Subjects, Bounded, Unnamed
    <2>5. Placed'
      <3>1. now \in 0 .. MaxTime /\ p \in Paths /\ p # None
        BY <1>2, Clock, NoneAssumption
      <3>2. /\ DOMAIN pc = Clients /\ DOMAIN path = Clients /\ DOMAIN arrived = Clients
            /\ \A d \in Clients : /\ arrived[d] \in 0 .. MaxTime /\ path[d] \in Paths \cup {None}
                                  /\ pc[d] = "idle" <=> path[d] = None
        BY Zenon DEF IInv, Types, Bounded, Placed
      <3>3. ASSUME NEW d \in Clients
            PROVE  /\ arrived'[d] \in 0 .. MaxTime
                   /\ path'[d] \in Paths \cup {None}
                   /\ pc'[d] = "idle" <=> path'[d] = None
        <4>1. CASE d = c
          BY <2>2, <3>1, <3>2, <4>1
        <4>2. CASE d # c
          BY <2>2, <3>2, <4>2
        <4> QED BY <4>1, <4>2, Zenon
      <3> QED BY <3>3, Zenon DEF Placed
    <2>6. Within'
      <3>1. \A r \in Subjects : Waiting(r)' = Waiting(r) + (IF r = s THEN 1 ELSE 0)
        BY <1>3, <2>1, <2>2, Enters, Zenon DEF IInv
      <3>2. \A r \in Subjects : Waiting(r) \in Nat
        BY LoadTyped, Zenon
      <3>3. Waiting(s)' = Waiting(s) + 1 /\ \A r \in Subjects \ {s} : Waiting(r)' = Waiting(r)
        BY <2>1, <3>1, <3>2
      <3>4. logged' = logged /\ left' = left
        BY <1>3, <2>2, Zenon
      <3>5. Waiting(s)' + logged'[s] + left'[s] = (Waiting(s) + 1) + logged[s] + left[s]
        BY <3>3, <3>4, Zenon
      <3>6. (Waiting(s) + 1) + logged[s] + left[s] = (Waiting(s) + logged[s] + left[s]) + 1
        BY <2>1, Adding, Zenon
      <3>7. \A r \in Subjects \ {s} : Waiting(r)' + logged'[r] + left'[r]
                                        = Waiting(r) + logged[r] + left[r]
        BY <3>3, <3>4, Zenon
      <3> QED BY <1>3, <2>1, <3>5, <3>6, <3>7, OneMoreIsWithin, Zenon
    <2> QED BY <2>3, <2>4, <2>5, <2>6, Zenon DEF Bounded
  <1> QED BY <1>4, <1>5, Zenon

\* The request of client c is over, counted or not, logged or not.
Ends(c) ==
    /\ pc[c] # "idle" /\ Done(c)
    /\ UNCHANGED boot /\ UNCHANGED <<file, verified>>
    /\ \/ count' = count
       \/ count' = [count EXCEPT ![<<"sub", subject[c]>>] = @ + 1]
    /\ \/ logged' = [logged EXCEPT ![subject[c]] = @ + 1] /\ left' = left
       \/ left' = [left EXCEPT ![subject[c]] = @ + 1] /\ logged' = logged

\* The time of a client that is idle is within the bound.
LEMMA NoTime == 0 \in 0 .. MaxTime
  BY GatewayAssumption, TokenAssumption

\* A request that ends was waiting, and its subject is one less.
LEMMA WaitingEnds ==
    ASSUME IInv, NEW c \in Clients, Ends(c), NEW s, s = subject[c]
    PROVE  /\ s \in Subjects
           /\ Waiting(s)' = Waiting(s) - 1
           /\ \A r \in Subjects \ {s} : Waiting(r)' = Waiting(r)
  <1>1. s \in Named
    BY Zenon DEF IInv, Types, Passed, Named, Ends
  <1>2. \A r \in Named : Waiting(r)' = Waiting(r) - (IF r = s THEN 1 ELSE 0) /\ Waiting(r) \in Nat
    BY Leaves, FiniteWaiting, Zenon DEF IInv, Ends
  <1>3. Waiting(None)' = Waiting(None)
    <2>1. \A d \in Clients : pc[d] # "idle" => subject[d] # None
      BY Zenon DEF IInv, Passed
    <2>2. \A d \in Clients : pc'[d] # "idle" => subject'[d] # None
      BY <2>1 DEF IInv, Types, Done, Ends
    <2>3. /\ {d \in Clients : pc[d] # "idle" /\ subject[d] = None} = {}
          /\ {d \in Clients : pc'[d] # "idle" /\ subject'[d] = None} = {}
      BY <2>1, <2>2, Zenon
    <2> QED BY <2>3, Zenon DEF Waiting
  <1>4. \A r \in Named \ {s} : Waiting(r)' = Waiting(r)
    BY <1>2
  <1>5. Waiting(s)' = Waiting(s) - 1
    BY <1>1, <1>2
  <1> QED BY <1>1, <1>3, <1>4, <1>5, Zenon DEF Named

\* It leaves its line, or is among those that left.
LEMMA BoundedEnd ==
    ASSUME IInv, Bounded, NEW c \in Clients, Ends(c)
    PROVE  Bounded'
  <1>1. PICK s : s = subject[c]
    OBVIOUS
  <1>2. /\ s \in Subjects /\ Waiting(s)' = Waiting(s) - 1
        /\ \A r \in Subjects \ {s} : Waiting(r)' = Waiting(r)
    BY <1>1, WaitingEnds, Zenon
  <1>3. Made'
    BY Zenon DEF boot, Bounded, Made, Ends
  <1>4. Unnamed'
    <2>1. <<"ip", None>> \in LimitKeys /\ <<"sub", s>> # <<"ip", None>>
      BY DEF LimitKeys
    <2>2. count \in [LimitKeys -> Nat] /\ count[<<"ip", None>>] = 0 /\ verified[None] = 0
      BY Zenon DEF IInv, Types, Bounded, Unnamed
    <2>3. count'[<<"ip", None>>] = count[<<"ip", None>>] /\ verified' = verified
      BY <1>1, <2>1, <2>2 DEF Ends
    <2> QED BY <2>2, <2>3, Zenon DEF Unnamed
  <1>5. Placed'
    <2>1. /\ DOMAIN pc = Clients /\ DOMAIN path = Clients /\ DOMAIN arrived = Clients
          /\ pc' = [pc EXCEPT ![c] = "idle"] /\ path' = [path EXCEPT ![c] = None]
          /\ arrived' = [arrived EXCEPT ![c] = 0]
      BY Zenon DEF IInv, Types, Ends, Done
    <2>2. /\ pc'[c] = "idle" /\ path'[c] = None /\ arrived'[c] = 0
          /\ \A d \in Clients \ {c} : pc'[d] = pc[d] /\ path'[d] = path[d] /\ arrived'[d] = arrived[d]
      BY <2>1, Zenon
    <2> QED BY <2>2, NoTime, Zenon DEF Bounded, Placed
  <1>6. /\ \/ logged'[s] = logged[s] + 1 /\ left'[s] = left[s]
           \/ logged'[s] = logged[s] /\ left'[s] = left[s] + 1
        /\ \A r \in Subjects \ {s} : logged'[r] = logged[r] /\ left'[r] = left[r]
    BY <1>1, <1>2, Zenon DEF IInv, Types, Ends
  <1>7. Waiting(s)' + logged'[s] + left'[s] = Waiting(s) + logged[s] + left[s]
    <2>1. /\ (Waiting(s) - 1) + (logged[s] + 1) + left[s] = Waiting(s) + logged[s] + left[s]
          /\ (Waiting(s) - 1) + logged[s] + (left[s] + 1) = Waiting(s) + logged[s] + left[s]
      BY <1>2, Adding, Zenon
    <2> QED BY <1>2, <1>6, <2>1, Zenon
  <1>8. \A r \in Subjects : Waiting(r)' + logged'[r] + left'[r] = Waiting(r) + logged[r] + left[r]
    BY <1>2, <1>6, <1>7, Zenon
  <1>9. Within'
    BY <1>8, NoMoreIsWithin, Zenon DEF Bounded
  <1> QED BY <1>3, <1>4, <1>5, <1>9, Zenon DEF Bounded

\* What a request that waits does.
LEMMA BoundedRequest ==
    ASSUME IInv, Bounded, NEW c \in Clients,
           Limited(c) \/ Allowed(c) \/ Forwarded(c) \/ Disconnect(c)
    PROVE  Bounded'
  <1>1. pc[c] # "idle" => LimitKey(subject[c]) = <<"sub", subject[c]>>
    BY DEF IInv, Passed, LimitKey
  <1>2. CASE Limited(c)
    BY Zenon, <1>1, <1>2, BoundedEnd DEF Limited, Complete, Ends
  <1>3. CASE Allowed(c)
    <2>1. /\ pc[c] = "deciding"
          /\ count' \in {count, [count EXCEPT ![<<"sub", subject[c]>>] = @ + 1]}
          /\ UNCHANGED boot /\ UNCHANGED <<file, verified, left>>
      BY <1>1, <1>3, Zenon DEF Allowed
    <2>2. CASE Complete(subject[c]) /\ Done(c)
      BY Zenon, <2>1, <2>2, BoundedEnd DEF Complete, Ends
    <2>3. CASE ~(Complete(subject[c]) /\ Done(c))
      <3>1. pc' = [pc EXCEPT ![c] = "forwarding"] /\ UNCHANGED <<path, token, subject, arrived, logged>>
        BY <1>3, <2>3, Zenon DEF Allowed
      <3>2. Made'
        BY <2>1, Zenon DEF boot, Bounded, Made
      <3>3. Unnamed'
        <4>1. <<"ip", None>> \in LimitKeys /\ <<"sub", subject[c]>> # <<"ip", None>>
          BY DEF LimitKeys
        <4>2. count \in [LimitKeys -> Nat] /\ count[<<"ip", None>>] = 0 /\ verified[None] = 0
          BY Zenon DEF IInv, Types, Bounded, Unnamed
        <4> QED BY <2>1, <4>1, <4>2 DEF Unnamed
      <3>4. \A d \in Clients : pc'[d] = "idle" <=> pc[d] = "idle"
        BY <2>1, <3>1, Zenon DEF IInv, Types
      <3>5. Placed'
        BY <3>1, <3>4, Zenon DEF Bounded, Placed
      <3>6. \A r : {d \in Clients : pc'[d] # "idle" /\ subject[d] = r}
                     = {d \in Clients : pc[d] # "idle" /\ subject[d] = r}
        BY <3>4, Zenon
      <3>7. \A r : Waiting(r)' = Waiting(r)
        BY <3>1, <3>6, Zenon DEF Waiting
      <3>8. Within'
        BY Zenon, <2>1, <3>1, <3>7, NoMoreIsWithin DEF Bounded
      <3> QED BY <3>2, <3>3, <3>5, <3>8, Zenon DEF Bounded
    <2> QED BY <2>2, <2>3, Zenon
  <1>4. CASE Forwarded(c)
    BY Zenon, <1>4, BoundedEnd DEF Forwarded, Complete, Ends
  <1>5. CASE Disconnect(c)
    <2>1. Ends(c)
      BY <1>1, <1>5, Zenon DEF Disconnect, Ends
    <2> QED BY <2>1, BoundedEnd, Zenon
  <1> QED BY Zenon, <1>2, <1>3, <1>4, <1>5

\* Bounded holds whatever main, the clients, Redis and the clock do.
LEMMA BoundedInvariance == Spec => []Bounded
  <1>1. ASSUME Init PROVE Bounded
    <2>1. IInv
      BY <1>1, Starts
    <2>2. PICK f : f = Load
      OBVIOUS
    <2>3. \A s \in Subjects : f[s] = 0
      <3>1. \A s : {d \in Clients : pc[d] # "idle" /\ subject[d] = s} = {}
        BY <1>1 DEF Init
      <3>2. \A s : Waiting(s) = 0
        BY <3>1, FS_EmptySet, Zenon DEF Waiting
      <3>3. \A s \in Subjects : logged[s] = 0 /\ left[s] = 0
        BY <1>1 DEF Init
      <3> QED BY <2>1, <2>2, <3>2, <3>3, LoadTyped
    <2>4. SumFunctionOnSet(f, Subjects) = 0
      BY <2>1, <2>3, LoadTyped, SumZero, Zenon
    <2>5. Within
      BY <2>2, <2>4, GatewayAssumption DEF Within
    <2>6. Made /\ Unnamed
      BY <1>1 DEF Init, Made, Unnamed, Subjects
    <2>7. Placed
      BY <1>1, NoTime, Zenon DEF Init, Placed
    <2> QED BY <2>5, <2>6, <2>7, Zenon DEF Bounded
  <1>2. ASSUME IInv, Bounded, [Next]_vars PROVE Bounded'
    <2>0. None \in Subjects /\ DemoUser \in Subjects
      BY DEF Subjects
    <2>1. CASE LoadConfig \/ LoadKeys \/ Wire
      BY <1>2, <2>1, BoundedBoot, Zenon
    <2>2. CASE Login
      BY <1>2, <2>0, <2>2, BoundedAnswer, Zenon DEF Login, Complete
    <2>3. ASSUME NEW p \in Paths, Endpoint(p) PROVE Bounded'
      BY <1>2, <2>0, <2>3, BoundedAnswer, Zenon DEF Endpoint, Complete
    <2>4. ASSUME NEW c \in Clients, NEW p \in Paths, NEW h \in Headers, Arrive(c, p, h)
          PROVE  Bounded'
      BY <1>2, <2>4, BoundedArrive, Zenon
    <2>5. ASSUME NEW c \in Clients, Limited(c) \/ Allowed(c) \/ Forwarded(c) \/ Disconnect(c)
          PROVE  Bounded'
      BY <1>2, <2>5, BoundedRequest, Zenon
    <2>6. CASE Tick \/ UNCHANGED vars
      <3>1. /\ UNCHANGED <<config, auth, file, count>>
            /\ UNCHANGED <<pc, path, subject, arrived, verified, logged, left>>
        BY <2>6 DEF Tick, vars, boot, request, audit
      <3>2. Within'
        BY <1>2, <3>1, NoMoreIsWithin, Zenon DEF Bounded, Waiting
      <3> QED BY <1>2, <3>1, <3>2, Zenon DEF Bounded, Made, Unnamed, Placed
    <2> QED BY Zenon, <1>2, <2>1, <2>2, <2>3, <2>4, <2>5, <2>6 DEF Next
  <1> QED BY <1>1, <1>2, Invariance, PTL DEF Spec

\* The tokens of login are what issue_token makes.
LEMMA MintedTyped == ASSUME IInv PROVE issued \subseteq OwnTokens
  <1> SUFFICES ASSUME NEW t \in issued PROVE t \in OwnTokens
    OBVIOUS
  <1>1. PICK now \in 0 .. clock : t = IssueToken(OwnKey, OwnIssuer, DemoUser, now, WrittenTtl)
    BY Zenon DEF IInv, AllMinted, Minted
  <1>2. now \in 0 .. MaxTime /\ now \in Nat /\ WrittenTtl \in Nat
    <2>1. \A a \in 0 .. clock : a \in 0 .. MaxTime /\ a \in Nat
      BY Clock, GatewayAssumption, TokenAssumption
    <2>2. WrittenTtl \in Nat
      BY Numbers, Zenon DEF IInv, Types
    <2> QED BY <1>1, <2>1, <2>2, Zenon
  <1>3. SaturatingAdd(now, WrittenTtl) \in 0 .. U64Max
    BY <1>2, TokenAssumption, GatewayAssumption DEF SaturatingAdd
  <1> QED BY <1>1, <1>2, <1>3 DEF OwnTokens, IssueToken

\* Every variable has its type, and every counter its bound: Redis counts no
\* request that did not come in, and login hands out no token without one.
THEOREM GatewayTypeCorrect == Spec => []TypeOK
  <1>1. ASSUME IInv, Bounded PROVE TypeOK
    <2>1. MaxRequests \in Nat
      BY GatewayAssumption
    <2>2. ASSUME NEW s \in Subjects PROVE Load[s] <= MaxRequests /\ Load[s] \in Nat
      <3>1. PICK f : f = Load
        OBVIOUS
      <3>2. IsFiniteSet(Subjects) /\ \A r \in Subjects : f[r] \in Nat
        BY <1>1, <3>1, LoadTyped
      <3>3. SumFunctionOnSet(f, Subjects) = f[s] + SumFunctionOnSet(f, Subjects \ {s})
        BY <3>2, SumRemove
      <3>4. SumFunctionOnSet(f, Subjects \ {s}) \in Nat
        <4>1. IsFiniteSet(Subjects \ {s}) /\ \A r \in Subjects \ {s} : f[r] \in Nat
          BY <3>2, FS_RemoveElement, Zenon
        <4> QED BY <4>1, SumNat, Zenon
      <3>5. SumFunctionOnSet(f, Subjects) <= MaxRequests
        BY <1>1, <3>1, Zenon DEF Bounded, Within
      <3> QED BY <2>1, <3>1, <3>2, <3>3, <3>4, <3>5
    <2>3. \A s \in Subjects : logged[s] \in 0 .. MaxRequests /\ left[s] \in 0 .. MaxRequests
      BY <1>1, <2>1, <2>2, LoadTyped
    <2>4. ASSUME NEW s \in Named
          PROVE  /\ verified[s] \in 0 .. MaxRequests
                 /\ s = DemoUser => logins \in 0 .. MaxRequests
      <3>1. verified[s] + (IF s = DemoUser THEN logins ELSE 0) = Load[s]
        <4>1. /\ s \in Subjects /\ s \in Subjects \ {None}
              /\ verified[s] + (IF s = DemoUser THEN logins ELSE 0)
                   = Waiting(s) + logged[s] + left[s]
          BY <1>1, Zenon DEF IInv, AuditAddsUp, Named
        <4> QED BY <4>1 DEF Load
      <3>2. verified[s] \in Nat /\ logins \in Nat /\ s \in Subjects
        BY <1>1 DEF IInv, Types, Named
      <3> QED BY <2>1, <2>2, <3>1, <3>2
    <2>5. \A s \in Subjects : verified[s] \in 0 .. MaxRequests
      BY <1>1, <2>1, <2>4 DEF Named, Bounded, Unnamed
    <2>6. logins \in 0 .. MaxRequests
      BY <2>4, GatewayAssumption DEF Named, Subjects
    <2>7. \A k \in DOMAIN count : count[k] \in 0 .. MaxRequests
      <3>1. ASSUME NEW s \in Named PROVE count[<<"sub", s>>] \in 0 .. MaxRequests
        <4>1. /\ count[<<"sub", s>>] + Cardinality(DecidingFor(s)) <= verified[s]
              /\ count[<<"sub", s>>] \in Nat /\ Cardinality(DecidingFor(s)) \in Nat
          <5>1. <<"sub", s>> \in LimitKeys
            BY DEF LimitKeys
          <5>2. count[<<"sub", s>>] \in Nat
            BY <1>1, <5>1 DEF IInv, Types
          <5>3. count[<<"sub", s>>] + Cardinality(DecidingFor(s)) <= verified[s]
            BY <1>1, Zenon DEF IInv, Budget
          <5> QED BY <5>2, <5>3, FiniteWaiting, Zenon
        <4> QED BY <2>1, <2>4, <4>1
      <3>2. count[<<"ip", None>>] \in 0 .. MaxRequests
        BY <1>1, <2>1 DEF Bounded, Unnamed
      <3>3. DOMAIN count = LimitKeys
        BY <1>1 DEF IInv, Types
      <3>4. \A k \in LimitKeys : k = <<"ip", None>> \/ \E s \in Named : k = <<"sub", s>>
        BY DEF LimitKeys
      <3> QED BY <3>1, <3>2, <3>3, <3>4, Zenon
    <2>8. {verified, logged, left} \subseteq [Subjects -> 0 .. MaxRequests]
      BY <1>1, <2>3, <2>5 DEF IInv, Types
    <2>9. issued \subseteq OwnTokens
      BY <1>1, MintedTyped
    <2>10. refused \subseteq Subjects
      BY <1>1 DEF IInv, Budget, Named
    <2>11. \A c \in Clients :
             /\ pc[c] \in {"idle", "deciding", "forwarding"} /\ subject[c] \in Subjects
             /\ path[c] \in Paths \cup {None} /\ arrived[c] \in 0 .. MaxTime
             /\ pc[c] = "idle" <=> path[c] = None
      BY <1>1, Zenon DEF IInv, Types, Bounded, Placed
    <2>12. /\ phase \in Phases /\ file \in Files /\ login \in BOOLEAN /\ clock \in 0 .. MaxTime
           /\ config \in {None, Parsed(file)} /\ auth \in {None} \cup AuthStates
      BY <1>1, Zenon DEF IInv, Types, Bounded, Made
    <2> QED BY Zenon, <2>6, <2>7, <2>8, <2>9, <2>10, <2>11, <2>12 DEF TypeOK
  <1> QED BY <1>1, Invariance, BoundedInvariance, PTL

-------------------------------------------------------------------------------
(***************************************************************************)
(* Labels.                                                                 *)
(***************************************************************************)
\* A label is made while serving, from the path of a request.
Labelled ==
    \A l \in labels : phase = "serving" /\ l.path \in Paths /\ l.label = LimitedLabel(l.path)

\* Only a 429 makes one.
LEMMA LabelledAlways == Spec => []Labelled
  <1>1. ASSUME Init PROVE Labelled
    BY <1>1, Zenon DEF Init, Labelled
  <1>2. ASSUME IInv, TypeOK, Labelled, [Next]_vars PROVE Labelled'
    <2>1. CASE LoadConfig \/ LoadKeys \/ Wire
      <3>1. phase # "serving" /\ labels' = labels
        BY <2>1 DEF LoadConfig, LoadKeys, Wire, Refuse, serving
      <3> QED BY <1>2, <3>1, Zenon DEF Labelled
    <2>2. ASSUME NEW c \in Clients, Limited(c) PROVE Labelled'
      <3>1. /\ pc[c] = "deciding" /\ phase' = phase
            /\ labels' = labels \cup {[path |-> path[c], label |-> LimitedLabel(path[c])]}
        BY <2>2, Zenon DEF Limited, boot
      <3>2. pc[c] # "idle"
        BY <3>1
      <3>3. phase = "serving" /\ path[c] \in Paths
        <4>1. /\ path[c] \in Paths \cup {None}
              /\ pc[c] = "idle" <=> path[c] = None
          BY <1>2, Zenon DEF TypeOK
        <4>2. phase = "serving"
          BY <1>2, <3>2, Zenon DEF IInv, Booted
        <4> QED BY <3>2, <4>1, <4>2, Zenon
      <3> DEFINE new == [path |-> path[c], label |-> LimitedLabel(path[c])]
      <3>4. new.path = path[c] /\ new.label = LimitedLabel(path[c])
        BY Zenon
      <3> HIDE DEF new
      <3>5. labels' = labels \cup {new}
        BY <3>1, Zenon DEF new
      <3> QED BY <1>2, <3>1, <3>3, <3>4, <3>5, Zenon DEF Labelled
    <2>3. ASSUME labels' = labels, phase' = phase PROVE Labelled'
      BY <1>2, <2>3, Zenon DEF Labelled
    <2>4. ASSUME Login \/ Tick \/ UNCHANGED vars PROVE labels' = labels /\ phase' = phase
      BY <2>4, Zenon DEF Login, Tick, vars, boot
    <2>5. ASSUME NEW p \in Paths, Endpoint(p) PROVE labels' = labels /\ phase' = phase
      BY <2>5, Zenon DEF Endpoint, boot
    <2>6. ASSUME NEW c \in Clients, NEW p \in Paths, NEW h \in Headers, Arrive(c, p, h)
          PROVE  labels' = labels /\ phase' = phase
      BY <2>6, Zenon DEF Arrive, boot
    <2>7. ASSUME NEW c \in Clients, Allowed(c) \/ Forwarded(c) \/ Disconnect(c)
          PROVE  labels' = labels /\ phase' = phase
      BY <2>7, Zenon DEF Allowed, Forwarded, Disconnect, boot
    <2> QED BY <1>2, <2>1, <2>2, <2>3, <2>4, <2>5, <2>6, <2>7, Zenon DEF Next
  <1> QED BY <1>1, <1>2, Invariance, GatewayTypeCorrect, PTL DEF Spec

\* A 429 for a path that a route is served at is counted under the prefix of
\* that route, although the label is made from the path a second time.
THEOREM RejectionsAreTheRoutes == Spec => []RejectionsLandOnTheRoute
  <1>1. ASSUME Started, Labelled PROVE RejectionsLandOnTheRoute
    <2> SUFFICES ASSUME NEW l \in labels, NEW i \in DOMAIN config.routes,
                        LET root == <<"/">> \o config.routes[i].prefix \o <<"/">>
                        IN  Len(l.path) >= Len(root) /\ SubSeq(l.path, 1, Len(root)) = root
                 PROVE  l.label = config.routes[i].prefix
      BY Zenon DEF RejectionsLandOnTheRoute
    <2> DEFINE Char == STRING \cup {"/"}
    <2>1. phase = "serving" /\ l.path \in Paths /\ l.label = LimitedLabel(l.path)
      BY <1>1, Zenon DEF Labelled
    <2>2. config.routes[i].prefix \in Seq(STRING) /\ CleanPrefix(config.routes[i].prefix)
      BY <1>1, <2>1, Accepted, Zenon
    <2>3. "/" \in Char /\ STRING \subseteq Char
      BY Zenon
    <2> HIDE DEF Char
    <2>4. l.path \in Seq(Char) /\ config.routes[i].prefix \in Seq(Char)
      BY <2>1, <2>2, <2>3, PathsAssumption, Widen, Zenon
    <2>5. LimitedLabel(l.path) = config.routes[i].prefix
      BY <2>2, <2>3, <2>4, RootLabel, Zenon
    <2> QED BY <2>1, <2>5, Zenon
  <1> QED BY <1>1, StartedAlways, LabelledAlways, PTL
==============================================================================
