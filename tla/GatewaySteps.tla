---------------------------- MODULE GatewaySteps -----------------------------
(***************************************************************************)
(* The inductive invariant of Gateway, what its operators compute, and the *)
(* steps of it up to a request's arrival; GatewayProofs has the rest.      *)
(* Then the start by itself: which files from_toml accepts, and what a     *)
(* process that serves can rely on.                                        *)
(***************************************************************************)
EXTENDS Gateway, CounterLemmas

Named == Subjects \ {None}
LimitKeys == {<<"ip", None>>} \cup ({"sub"} \X Named)

WaitingFor(s) == {c \in Clients : pc[c] # "idle" /\ subject[c] = s}
DecidingFor(s) == {c \in Clients : pc[c] = "deciding" /\ subject[c] = s}

Types ==
    /\ phase \in Phases
    /\ file \in Files
    /\ login \in BOOLEAN
    /\ clock \in 0 .. MaxTime
    /\ pc \in [Clients -> {"idle", "deciding", "forwarding"}]
    /\ subject \in [Clients -> Subjects]
    /\ arrived \in [Clients -> Nat]
    /\ DOMAIN path = Clients
    /\ DOMAIN token = Clients
    /\ count \in [LimitKeys -> Nat]
    /\ verified \in [Subjects -> Nat]
    /\ logged \in [Subjects -> Nat]
    /\ left \in [Subjects -> Nat]
    /\ logins \in Nat

\* What main has made of the file, and that nothing is served before.
Booted ==
    /\ phase \in {"keys", "wiring", "serving"} => config = Parsed(file)
    /\ phase \in {"wiring", "serving"} =>
         auth = IF login THEN [verifying_key |-> OwnKey, trusted_issuer |-> OwnIssuer]
                ELSE [verifying_key |-> IssuerKey, trusted_issuer |-> Issuer]
    /\ phase # "serving" => issued = {} /\ refused = {} /\ \A c \in Clients : pc[c] = "idle"

Minted(t) == \E now \in 0 .. clock : t = IssueToken(OwnKey, OwnIssuer, DemoUser, now, WrittenTtl)

AllMinted == \A t \in issued : login /\ Minted(t)

\* A request past the gate.
Passed ==
    \A c \in Clients :
        /\ pc[c] # "idle" =>
             /\ Genuine(token[c], arrived[c])
             /\ subject[c] = token[c].claims.sub
             /\ subject[c] # None
        /\ pc[c] = "forwarding" => Routed(path[c])

\* A counter of Redis, and who waits for it, were past the gate.
Budget ==
    /\ \A s \in Named : count[<<"sub", s>>] + Cardinality(DecidingFor(s)) <= verified[s]
    /\ \A s \in refused : s \in Named /\ verified[s] > config.ratelimit.limit

IInv == Types /\ Booted /\ AllMinted /\ Passed /\ Budget /\ AuditAddsUp

-------------------------------------------------------------------------------
(***************************************************************************)
(* Files and tokens.                                                       *)
(***************************************************************************)
\* The defaults of a section and those of its keys agree.
LEMMA Numbers ==
    ASSUME file \in Files
    PROVE  /\ Parsed(file).auth.token_ttl_secs = WrittenTtl
           /\ WrittenTtl \in Nat
           /\ Parsed(file).ratelimit.limit \in Nat
  <1>1. Parsed(file).auth.token_ttl_secs = WrittenTtl
    BY DEF Parsed, Section, DefaultAuth, Or, WrittenTtl
  <1>2. WrittenTtl \in Nat
    BY FilesAssumption, TokenAssumption DEF WrittenTtl, Or
  <1>3. Parsed(file).ratelimit.limit \in Nat
    <2> DEFINE l == file.ratelimit
    <2>1. l = Absent \/ l \in [redis_url : Key(STRING), limit : Key(Nat), window_secs : Key(Nat)]
      BY FilesAssumption, Zenon DEF File, Key
    <2>2. l = Absent \/ l.limit \in Nat \cup {Absent}
      <3> HIDE DEF l
      <3> QED BY <2>1 DEF Key
    <2>3. Parsed(file).ratelimit.limit = IF l = Absent THEN 100 ELSE Or(l.limit, 100)
      BY DEF Parsed, Section, DefaultRateLimit
    <2> HIDE DEF l
    <2> QED BY <2>2, <2>3 DEF Or
  <1> QED BY <1>1, <1>2, <1>3

\* What verify_token has looked at when it says yes.
LEMMA Verified ==
    ASSUME NEW key, NEW t, NEW issuer, NEW now, VerifyToken(key, t, issuer, now) = "Ok",
           issuer # None
    PROVE  /\ t.shape /\ t.alg = "EdDSA" /\ t.signer = key /\ t.json
           /\ t.claims.iss = issuer /\ t.claims.exp # None /\ ~(now >= t.claims.exp)
           /\ t.claims.sub # None
  BY DEF VerifyToken

\* A bearer token is one that login handed out, or one of others.
LEMMA Bearers ==
    ASSUME NEW h \in Headers, BearerToken(h) # None
    PROVE  BearerToken(h) \in issued \cup Foreign
  <1>1. h # None
    BY DEF BearerToken
  <1>2. CASE h \in [scheme : {"Bearer ", "bearer "}, words : {<<t>> : t \in issued \cup Foreign}]
    <2>1. PICK t \in issued \cup Foreign : h.words = <<t>>
      BY <1>2
    <2>2. h.words[1] = t
      BY <2>1
    <2>3. BearerToken(h) = h.words[1]
      BY <1>1 DEF BearerToken
    <2> QED BY <2>2, <2>3
  <1>3. CASE h \in [scheme : {"Bearer "}, words : {<<>>} \cup {<<t, t>> : t \in issued \cup Foreign}]
    <2>1. h.words = <<>> \/ \E t : h.words = <<t, t>>
      BY <1>3
    <2>2. DOMAIN h.words # {1}
      <3>1. CASE h.words = <<>>
        BY <3>1
      <3>2. CASE \E t : h.words = <<t, t>>
        <4>1. 2 \in DOMAIN h.words
          BY <3>2
        <4> QED BY <4>1
      <3> QED BY <2>1, <3>1, <3>2
    <2> QED BY <1>1, <2>2 DEF BearerToken
  <1> QED BY <1>1, <1>2, <1>3 DEF Headers

\* The clock is a number within its bound.
LEMMA Clock == ASSUME IInv PROVE clock \in Nat /\ clock \in 0 .. MaxTime
  <1>1. clock \in 0 .. MaxTime
    BY Zenon DEF IInv, Types
  <1> QED BY <1>1, GatewayAssumption, TokenAssumption

\* Who passes the gate has a genuine token, and is named.
LEMMA Gate ==
    ASSUME IInv, phase = "serving", NEW h \in Headers, CheckBearer(auth, h, clock) # None
    PROVE  /\ Genuine(BearerToken(h), clock)
           /\ CheckBearer(auth, h, clock) = BearerToken(h).claims.sub
           /\ CheckBearer(auth, h, clock) \in Named
  <1> DEFINE t == BearerToken(h)
             s == CheckBearer(auth, h, clock)
  <1>1. /\ t # None /\ s = t.claims.sub
        /\ VerifyToken(auth.verifying_key, t, auth.trusted_issuer, clock) = "Ok"
    BY DEF CheckBearer
  <1>2. t \in issued \cup Foreign
    BY <1>1, Bearers
  <1>3. clock \in Nat /\ clock \in 0 .. MaxTime
    BY Clock
  <1> HIDE DEF t
  <1>0. OwnIssuer # None /\ Issuer # None
    BY GatewayAssumption
  <1>4. CASE login
    <2>1. auth.verifying_key = OwnKey /\ auth.trusted_issuer = OwnIssuer
      BY <1>4 DEF IInv, Booted
    <2>2. t.signer = OwnKey /\ t.claims.exp # None /\ ~(clock >= t.claims.exp) /\ t.claims.sub # None
      BY <1>0, <1>1, <2>1, Verified
    <2>3. t \in issued
      BY <1>2, <2>2, ForeignAssumption
    <2>4. PICK now \in 0 .. clock : t = IssueToken(OwnKey, OwnIssuer, DemoUser, now, WrittenTtl)
      BY <2>3 DEF IInv, AllMinted, Minted
    <2>5. /\ t.claims.iat = now /\ t.claims.sub = DemoUser
          /\ t.claims.exp = SaturatingAdd(now, WrittenTtl)
      BY <2>4 DEF IssueToken
    <2>6. WrittenTtl \in Nat
      BY Numbers DEF IInv, Types
    <2>7. t.claims.exp \in Nat /\ t.claims.exp <= now + WrittenTtl
      BY <1>3, <2>5, <2>6, TokenAssumption DEF SaturatingAdd
    <2>8. clock < t.claims.iat + WrittenTtl
      BY <1>3, <2>2, <2>5, <2>6, <2>7
    <2>9. Genuine(t, clock)
      BY <1>4, <2>3, <2>8 DEF Genuine
    <2> QED BY <1>1, <2>2, <2>5, <2>9 DEF Named, Subjects, t
  <1>5. CASE ~login
    <2>1. auth.verifying_key = IssuerKey /\ auth.trusted_issuer = Issuer
      BY <1>5 DEF IInv, Booted
    <2>2. /\ t.shape /\ t.alg = "EdDSA" /\ t.signer = IssuerKey /\ t.json /\ t.claims.iss = Issuer
          /\ t.claims.exp # None /\ ~(clock >= t.claims.exp) /\ t.claims.sub # None
      BY <1>0, <1>1, <2>1, Verified
    <2>3. t \in Foreign
      BY <1>2, <1>5 DEF IInv, AllMinted
    <2>4. t \in Vouched /\ t.claims.exp \in Nat /\ t.claims.sub \in Others
      BY <2>2, <2>3, ForeignAssumption
    <2>5. clock < t.claims.exp
      BY <1>3, <2>2, <2>4
    <2>6. Genuine(t, clock)
      BY <1>5, <2>4, <2>5 DEF Genuine
    <2> QED BY <1>1, <2>2, <2>4, <2>6 DEF Named, Subjects, t
  <1> QED BY <1>4, <1>5

-------------------------------------------------------------------------------
(***************************************************************************)
(* The sets of waiting clients.                                            *)
(***************************************************************************)
\* Who waits is finite, as the clients are.
LEMMA FiniteWaiting ==
    \A s : /\ IsFiniteSet(WaitingFor(s)) /\ Cardinality(WaitingFor(s)) \in Nat
           /\ IsFiniteSet(DecidingFor(s)) /\ Cardinality(DecidingFor(s)) \in Nat
           /\ Waiting(s) = Cardinality(WaitingFor(s))
  <1> SUFFICES ASSUME NEW s
               PROVE  /\ IsFiniteSet(WaitingFor(s)) /\ Cardinality(WaitingFor(s)) \in Nat
                      /\ IsFiniteSet(DecidingFor(s)) /\ Cardinality(DecidingFor(s)) \in Nat
                      /\ Waiting(s) = Cardinality(WaitingFor(s))
    OBVIOUS
  <1>1. WaitingFor(s) \subseteq Clients /\ DecidingFor(s) \subseteq Clients
    BY DEF WaitingFor, DecidingFor
  <1>2. IsFiniteSet(Clients)
    BY GatewayAssumption
  <1>3. Waiting(s) = Cardinality(WaitingFor(s))
    BY DEF Waiting, WaitingFor
  <1> QED BY <1>1, <1>2, <1>3, FS_Subset, FS_CardinalityType

\* A client's request begins to wait ...
LEMMA Enters ==
    ASSUME Types, NEW c \in Clients, NEW s \in Subjects, pc[c] = "idle",
           pc' = [pc EXCEPT ![c] = "deciding"], subject' = [subject EXCEPT ![c] = s]
    PROVE  \A r \in Subjects :
             /\ Waiting(r)' = Waiting(r) + (IF r = s THEN 1 ELSE 0)
             /\ Cardinality(DecidingFor(r)') = Cardinality(DecidingFor(r)) + (IF r = s THEN 1 ELSE 0)
  <1> SUFFICES ASSUME NEW r \in Subjects
               PROVE  /\ Waiting(r)' = Waiting(r) + (IF r = s THEN 1 ELSE 0)
                      /\ Cardinality(DecidingFor(r)') =
                           Cardinality(DecidingFor(r)) + (IF r = s THEN 1 ELSE 0)
    OBVIOUS
  <1>1. c \notin WaitingFor(r) /\ c \notin DecidingFor(r)
    BY DEF WaitingFor, DecidingFor
  <1>2. Waiting(r)' = Cardinality(WaitingFor(r)')
    BY DEF Waiting, WaitingFor
  <1>3. CASE r = s
    <2>1. WaitingFor(r)' = WaitingFor(r) \cup {c} /\ DecidingFor(r)' = DecidingFor(r) \cup {c}
      BY <1>3 DEF WaitingFor, DecidingFor, Types
    <2>2. /\ Cardinality(WaitingFor(r) \cup {c}) = Cardinality(WaitingFor(r)) + 1
          /\ Cardinality(DecidingFor(r) \cup {c}) = Cardinality(DecidingFor(r)) + 1
      BY Zenon, <1>1, FiniteWaiting, FS_AddElement
    <2> QED BY <1>2, <1>3, <2>1, <2>2, FiniteWaiting
  <1>4. CASE r # s
    <2>1. WaitingFor(r)' = WaitingFor(r) /\ DecidingFor(r)' = DecidingFor(r)
      BY <1>4 DEF WaitingFor, DecidingFor, Types
    <2> QED BY <1>2, <1>4, <2>1, FiniteWaiting
  <1> QED BY <1>3, <1>4

\* ... and is over.
LEMMA Leaves ==
    ASSUME Types, NEW c \in Clients, pc[c] # "idle", Done(c)
    PROVE  \A r \in Named :
             /\ Waiting(r)' = Waiting(r) - (IF r = subject[c] THEN 1 ELSE 0)
             /\ Cardinality(DecidingFor(r)') =
                  Cardinality(DecidingFor(r)) -
                      (IF r = subject[c] /\ pc[c] = "deciding" THEN 1 ELSE 0)
  <1> SUFFICES ASSUME NEW r \in Named
               PROVE  /\ Waiting(r)' = Waiting(r) - (IF r = subject[c] THEN 1 ELSE 0)
                      /\ Cardinality(DecidingFor(r)') =
                           Cardinality(DecidingFor(r)) -
                               (IF r = subject[c] /\ pc[c] = "deciding" THEN 1 ELSE 0)
    OBVIOUS
  <1>1. WaitingFor(r)' = WaitingFor(r) \ {c} /\ DecidingFor(r)' = DecidingFor(r) \ {c}
    BY DEF WaitingFor, DecidingFor, Types, Done, Named
  <1>2. Waiting(r)' = Cardinality(WaitingFor(r)')
    BY DEF Waiting, WaitingFor
  <1>3. /\ c \in WaitingFor(r) <=> r = subject[c]
        /\ c \in DecidingFor(r) <=> r = subject[c] /\ pc[c] = "deciding"
    BY DEF WaitingFor, DecidingFor
  <1>4. /\ Cardinality(WaitingFor(r) \ {c}) =
             IF c \in WaitingFor(r) THEN Cardinality(WaitingFor(r)) - 1
             ELSE Cardinality(WaitingFor(r))
        /\ Cardinality(DecidingFor(r) \ {c}) =
             IF c \in DecidingFor(r) THEN Cardinality(DecidingFor(r)) - 1
             ELSE Cardinality(DecidingFor(r))
    BY Zenon, FiniteWaiting, FS_RemoveElement
  <1> QED BY <1>1, <1>2, <1>3, <1>4, FiniteWaiting

-------------------------------------------------------------------------------
(***************************************************************************)
(* The steps of main.                                                      *)
(***************************************************************************)
\* Nobody waits and nothing is counted before the process serves.
LEMMA BootStep == ASSUME IInv, LoadConfig \/ LoadKeys \/ Wire PROVE IInv'
  <1>1. /\ UNCHANGED <<file, clock, issued, count, labels, refused>>
        /\ UNCHANGED <<pc, path, token, subject, arrived>>
        /\ UNCHANGED <<verified, logins, logged, left>>
    BY DEF LoadConfig, LoadKeys, Wire, Refuse, serving, request, audit
  <1>2. phase # "serving" /\ issued = {} /\ refused = {} /\ \A c \in Clients : pc[c] = "idle"
    BY DEF IInv, Booted, LoadConfig, LoadKeys, Wire
  <1>3. Types' /\ Booted'
    <2>1. CASE LoadConfig
      <3>1. login' = login /\ phase' \in {"refused", "keys"} /\ (phase' = "keys" => config' = Parsed(file))
        BY <2>1 DEF LoadConfig, Refuse
      <3> QED BY <1>1, <1>2, <3>1 DEF IInv, Types, Booted, Phases
    <2>2. CASE LoadKeys
      <3>1. CASE Refuse("BadKeyMaterial")
        BY <1>1, <1>2, <3>1 DEF IInv, Types, Booted, Phases, Refuse
      <3>2. CASE ~Refuse("BadKeyMaterial")
        <4>1. /\ phase = "keys" /\ phase' = "wiring" /\ config' = config
              /\ login' = IssuesOwnTokens(config.auth)
              /\ auth' = IF IssuesOwnTokens(config.auth)
                           THEN [verifying_key |-> OwnKey, trusted_issuer |-> OwnIssuer]
                           ELSE [verifying_key |-> IssuerKey, trusted_issuer |-> Issuer]
          BY <2>2, <3>2 DEF LoadKeys
        <4>2. login' \in BOOLEAN
          BY <4>1 DEF IssuesOwnTokens
        <4>3. Types'
          <5>1. phase' \in Phases
            BY <4>1 DEF Phases
          <5> QED BY Zenon, <1>1, <4>2, <5>1 DEF IInv, Types
        <4>4. Booted'
          BY <1>1, <1>2, <4>1 DEF IInv, Booted
        <4> QED BY <4>3, <4>4
      <3> QED BY <3>1, <3>2, Zenon
    <2>3. CASE Wire
      <3>1. /\ phase = "wiring" /\ phase' \in {"refused", "serving"}
            /\ config' = config /\ login' = login /\ auth' = auth
        BY <2>3 DEF Wire, Refuse
      <3> QED BY <1>1, <1>2, <3>1 DEF IInv, Types, Booted, Phases
    <2> QED BY <2>1, <2>2, <2>3, Zenon
  <1>4. AllMinted' /\ Passed'
    BY <1>1, <1>2 DEF AllMinted, Passed
  <1>5. Budget'
    BY <1>1, <1>2 DEF IInv, Budget, DecidingFor
  <1>6. AuditAddsUp'
    BY <1>1 DEF IInv, AuditAddsUp, Waiting
  <1> QED BY <1>3, <1>4, <1>5, <1>6 DEF IInv

-------------------------------------------------------------------------------
(***************************************************************************)
(* Steps of a process that serves.                                         *)
(***************************************************************************)
\* Once serving, main is over; what was genuine stays genuine.
LEMMA Serves ==
    ASSUME IInv, phase = "serving", UNCHANGED boot, UNCHANGED file, issued \subseteq issued'
    PROVE  /\ Booted'
           /\ \A t, time : Genuine(t, time) => Genuine(t, time)'
           /\ \A p : Routed(p) => Routed(p)'
  <1>1. UNCHANGED <<phase, config, error, auth, login, file>>
    BY DEF boot
  <1>2. Booted'
    BY <1>1 DEF IInv, Booted
  <1>3. \A t, time : Genuine(t, time) => Genuine(t, time)'
    BY <1>1 DEF Genuine, WrittenTtl
  <1>4. \A p : Routed(p) => Routed(p)'
    BY <1>1 DEF Routed
  <1> QED BY <1>2, <1>3, <1>4

\* A login adds a token with the lifetime that was written, and a line.
LEMMA LoginStep == ASSUME IInv, Login PROVE IInv'
  <1>1. /\ phase = "serving" /\ login /\ UNCHANGED boot /\ UNCHANGED <<file, clock, count, refused>>
        /\ UNCHANGED <<pc, path, token, subject, arrived>> /\ UNCHANGED <<verified, left>>
    BY DEF Login, Listening, request
  <1>2. UNCHANGED <<phase, config, error, auth, login>>
    BY <1>1 DEF boot
  <1>3. \/ logged' = [logged EXCEPT ![None] = @ + 1] /\ UNCHANGED <<issued, logins>>
        \/ /\ logged' = [logged EXCEPT ![DemoUser] = @ + 1] /\ logins' = logins + 1
           /\ issued' = issued \cup {IssueToken(OwnKey, OwnIssuer, DemoUser, clock,
                                                config.auth.token_ttl_secs)}
    BY DEF Login, Complete
  <1>4. Types'
    BY <1>1, <1>2, <1>3 DEF IInv, Types, Subjects
  <1>5. config.auth.token_ttl_secs = WrittenTtl /\ clock \in 0 .. clock /\ WrittenTtl' = WrittenTtl
    <2>1. config.auth.token_ttl_secs = WrittenTtl
      BY <1>1, Numbers DEF IInv, Types, Booted
    <2>2. clock \in 0 .. clock
      BY Clock
    <2> QED BY <1>1, <2>1, <2>2 DEF WrittenTtl
  <1>6. AllMinted'
    <2> SUFFICES ASSUME NEW t \in issued' PROVE login /\ Minted(t)'
      BY <1>2 DEF AllMinted
    <2>1. t \in issued \/ t = IssueToken(OwnKey, OwnIssuer, DemoUser, clock, WrittenTtl)
      BY <1>3, <1>5
    <2>2. Minted(t)
      BY <1>5, <2>1 DEF Minted, IInv, AllMinted
    <2> QED BY <1>1, <1>5, <2>2 DEF Minted
  <1>7. issued \subseteq issued'
    BY <1>3
  <1>8. Booted' /\ Passed'
    BY <1>1, <1>7, Serves DEF IInv, Passed
  <1>9. Budget'
    BY <1>1, <1>2 DEF IInv, Budget, DecidingFor
  <1>10. AuditAddsUp'
    <2>1. \A s : Waiting(s)' = Waiting(s) /\ Waiting(s) \in Nat
      BY Zenon, <1>1, FiniteWaiting DEF Waiting
    <2>2. ASSUME NEW s \in Named
          PROVE  verified[s] + (IF s = DemoUser THEN logins' ELSE 0)
                   = Waiting(s) + logged'[s] + left[s]
      <3>1. /\ verified[s] \in Nat /\ logged[s] \in Nat /\ left[s] \in Nat /\ logins \in Nat
            /\ s # None /\ s \in Subjects /\ None \in Subjects /\ DemoUser \in Subjects
        BY DEF Named, IInv, Types, Subjects
      <3>2. verified[s] + (IF s = DemoUser THEN logins ELSE 0) = Waiting(s) + logged[s] + left[s]
        BY DEF IInv, AuditAddsUp, Named
      <3>3. \/ logged'[s] = logged[s] /\ logins' = logins
            \/ /\ logged'[s] = (IF s = DemoUser THEN logged[s] + 1 ELSE logged[s])
               /\ logins' = logins + 1
        BY <1>3, <3>1 DEF IInv, Types
      <3> QED BY <2>1, <3>1, <3>2, <3>3
    <2> QED BY <1>1, <2>1, <2>2 DEF AuditAddsUp, Named
  <1> QED BY <1>4, <1>6, <1>8, <1>9, <1>10 DEF IInv

\* An answer without a subject: a 401, or one of the endpoints.
LEMMA AnonymousStep ==
    ASSUME IInv, phase = "serving", UNCHANGED boot,
           UNCHANGED <<file, clock, issued, count, refused, verified, logins, left>>,
           UNCHANGED request, logged' = [logged EXCEPT ![None] = @ + 1]
    PROVE  IInv'
  <1>1. UNCHANGED <<phase, config, error, auth, login>> /\ UNCHANGED <<pc, path, token, subject, arrived>>
    BY DEF boot, request
  <1>2. logged' \in [Subjects -> Nat] /\ \A s \in Named : logged'[s] = logged[s]
    BY DEF IInv, Types, Named, Subjects
  <1>3. Types'
    BY <1>1, <1>2 DEF IInv, Types
  <1>4. Booted' /\ Passed'
    BY <1>1, Serves DEF IInv, Passed
  <1>5. AllMinted'
    BY <1>1 DEF IInv, AllMinted, Minted, WrittenTtl
  <1>6. Budget'
    BY <1>1 DEF IInv, Budget, DecidingFor
  <1>7. AuditAddsUp'
    BY <1>1, <1>2 DEF IInv, AuditAddsUp, Waiting, Named
  <1> QED BY <1>3, <1>4, <1>5, <1>6, <1>7 DEF IInv

\* A request that enters under the subject s is one more verified request and
\* one more that waits: what is counted and audited still adds up.
LEMMA EnterCounts ==
    ASSUME IInv, NEW s, NEW r \in Named,
           Waiting(r)' = Waiting(r) + (IF r = s THEN 1 ELSE 0),
           Cardinality(DecidingFor(r)') = Cardinality(DecidingFor(r)) + (IF r = s THEN 1 ELSE 0),
           verified'[r] = verified[r] + (IF r = s THEN 1 ELSE 0)
    PROVE  /\ count[<<"sub", r>>] + Cardinality(DecidingFor(r)') <= verified'[r]
           /\ verified'[r] + (IF r = DemoUser THEN logins ELSE 0) = Waiting(r)' + logged[r] + left[r]
  <1>1. /\ verified[r] \in Nat /\ logged[r] \in Nat /\ left[r] \in Nat /\ logins \in Nat
        /\ count[<<"sub", r>>] \in Nat
    BY DEF Named, LimitKeys, IInv, Types
  <1>2. Waiting(r) \in Nat /\ Cardinality(DecidingFor(r)) \in Nat
    BY Zenon, FiniteWaiting
  <1>3. verified[r] + (IF r = DemoUser THEN logins ELSE 0) = Waiting(r) + logged[r] + left[r]
    BY Zenon DEF IInv, AuditAddsUp, Named
  <1>4. count[<<"sub", r>>] + Cardinality(DecidingFor(r)) <= verified[r]
    BY Zenon DEF IInv, Budget
  <1> QED BY <1>1, <1>2, <1>3, <1>4

\* The request past the gate carries a genuine token; the others are untouched.
LEMMA EnterPassed ==
    ASSUME IInv, NEW c \in Clients, NEW t, NEW now, UNCHANGED <<file, login, issued, config>>,
           Genuine(t, now), t.claims.sub # None,
           pc' = [pc EXCEPT ![c] = "deciding"],
           token' = [token EXCEPT ![c] = t],
           subject' = [subject EXCEPT ![c] = t.claims.sub],
           arrived' = [arrived EXCEPT ![c] = now],
           \A d \in Clients \ {c} : path'[d] = path[d]
    PROVE  Passed'
  <1>1. /\ pc \in [Clients -> {"idle", "deciding", "forwarding"}]
        /\ DOMAIN token = Clients /\ DOMAIN subject = Clients /\ DOMAIN arrived = Clients
    BY DEF IInv, Types
  <1> SUFFICES ASSUME NEW d \in Clients
               PROVE  /\ pc'[d] # "idle" => /\ Genuine(token[d], arrived[d])'
                                           /\ subject'[d] = token'[d].claims.sub
                                           /\ subject'[d] # None
                      /\ pc'[d] = "forwarding" => Routed(path[d])'
    BY DEF Passed
  <1>2. CASE d = c
    <2>1. /\ pc'[d] = "deciding" /\ token'[d] = t /\ subject'[d] = t.claims.sub
          /\ arrived'[d] = now
      BY <1>1, <1>2
    <2>2. Genuine(token[d], arrived[d])'
      BY <2>1 DEF Genuine, WrittenTtl
    <2> QED BY <2>1, <2>2
  <1>3. CASE d # c
    <2>1. /\ pc'[d] = pc[d] /\ token'[d] = token[d] /\ subject'[d] = subject[d]
          /\ arrived'[d] = arrived[d] /\ path'[d] = path[d]
      BY <1>1, <1>3
    <2>2. /\ pc[d] # "idle" => /\ Genuine(token[d], arrived[d])
                              /\ subject[d] = token[d].claims.sub /\ subject[d] # None
          /\ pc[d] = "forwarding" => Routed(path[d])
      BY Zenon DEF IInv, Passed
    <2>3. Genuine(token[d], arrived[d]) => Genuine(token[d], arrived[d])'
      BY <2>1 DEF Genuine, WrittenTtl
    <2>4. Routed(path[d]) => Routed(path[d])'
      BY <2>1 DEF Routed
    <2> QED BY <2>1, <2>2, <2>3, <2>4
  <1> QED BY <1>2, <1>3

\* A request that arrives is answered at once, or waits past the gate.
LEMMA ArriveStep ==
    ASSUME IInv, NEW c \in Clients, NEW p \in Paths, NEW h \in Headers, Arrive(c, p, h)
    PROVE  IInv'
  <1>1. PICK s : s = CheckBearer(auth, h, clock)
    OBVIOUS
  <1>2. PICK t : t = BearerToken(h)
    OBVIOUS
  <1>3. PICK now : now = clock
    OBVIOUS
  <1>4. /\ phase = "serving" /\ pc[c] = "idle"
        /\ UNCHANGED boot /\ UNCHANGED <<file, clock, issued, count, refused, logins, left>>
    BY DEF Arrive, Listening
  <1>5. CASE s = None
    <2>1. UNCHANGED <<request, verified>> /\ logged' = [logged EXCEPT ![None] = @ + 1]
      BY <1>1, <1>5 DEF Arrive, Complete
    <2> QED BY <1>4, <2>1, AnonymousStep
  <1>6. CASE s # None
    <2>1. Genuine(t, now) /\ s = t.claims.sub /\ s \in Named
      BY <1>1, <1>2, <1>3, <1>4, <1>6, Gate
    <2>2. /\ pc' = [pc EXCEPT ![c] = "deciding"]
          /\ path' = [path EXCEPT ![c] = p]
          /\ token' = [token EXCEPT ![c] = t]
          /\ subject' = [subject EXCEPT ![c] = s]
          /\ arrived' = [arrived EXCEPT ![c] = now]
          /\ verified' = [verified EXCEPT ![s] = @ + 1]
          /\ UNCHANGED logged
      BY <1>1, <1>2, <1>3, <1>6 DEF Arrive
    <2>3. UNCHANGED <<phase, config, error, auth, login>>
      BY Zenon, <1>4 DEF boot
    <2>4. now \in Nat /\ s \in Subjects /\ s # None
      BY Zenon, <1>3, <2>1, Clock DEF Named
    <2>5. Types'
      <3>1. /\ pc' \in [Clients -> {"idle", "deciding", "forwarding"}]
            /\ DOMAIN path' = Clients /\ DOMAIN token' = Clients
        BY <2>2 DEF IInv, Types
      <3>2. subject' \in [Clients -> Subjects] /\ arrived' \in [Clients -> Nat]
        BY <2>2, <2>4 DEF IInv, Types
      <3>3. verified' \in [Subjects -> Nat]
        BY <2>2, <2>4 DEF IInv, Types
      <3> QED BY Zenon, <1>4, <2>2, <2>3, <3>1, <3>2, <3>3 DEF IInv, Types
    <2>6. Booted'
      BY <1>4, Serves
    <2>7. Passed'
      <3>1. \A d \in Clients \ {c} : path'[d] = path[d]
        BY <2>2 DEF IInv, Types
      <3> QED BY Zenon, <1>4, <2>1, <2>2, <2>3, <2>4, <3>1, EnterPassed
    <2>8. AllMinted'
      BY <1>4, <2>3 DEF IInv, AllMinted, Minted, WrittenTtl
    <2>9. \A r \in Named :
             /\ Waiting(r)' = Waiting(r) + (IF r = s THEN 1 ELSE 0)
             /\ Cardinality(DecidingFor(r)') = Cardinality(DecidingFor(r)) + (IF r = s THEN 1 ELSE 0)
      BY Zenon, <1>4, <2>2, <2>4, Enters DEF IInv, Named
    <2>10. \A r \in Named : verified'[r] = verified[r] + (IF r = s THEN 1 ELSE 0)
      BY <2>2, <2>4 DEF IInv, Types, Named
    <2>11. ASSUME NEW r \in Named
           PROVE  /\ count[<<"sub", r>>] + Cardinality(DecidingFor(r)') <= verified'[r]
                  /\ verified'[r] + (IF r = DemoUser THEN logins ELSE 0)
                       = Waiting(r)' + logged[r] + left[r]
      BY Zenon, <2>9, <2>10, EnterCounts
    <2>12. Budget'
      <3>1. config.ratelimit.limit \in Nat
        BY <1>4, Numbers DEF IInv, Types, Booted
      <3>2. \A r \in refused : r \in Named /\ verified[r] > config.ratelimit.limit /\ verified[r] \in Nat
        BY DEF IInv, Types, Budget, Named
      <3>3. \A r \in refused : r \in Named /\ verified'[r] > config.ratelimit.limit
        BY <2>10, <3>1, <3>2
      <3> QED BY <1>4, <2>3, <2>11, <3>3 DEF Budget
    <2>13. AuditAddsUp'
      BY Zenon, <1>4, <2>2, <2>11 DEF AuditAddsUp, Named
    <2> QED BY <2>5, <2>6, <2>7, <2>8, <2>12, <2>13 DEF IInv
  <1> QED BY <1>5, <1>6

-------------------------------------------------------------------------------
(***************************************************************************)
(* What validate refuses.                                                  *)
(***************************************************************************)
\* Min of FiniteSetsExt, for sets of naturals.
LEMMA MinIs ==
    ASSUME NEW S \in SUBSET Nat, NEW m \in S, \A y \in S : m <= y
    PROVE  Min(S) = m
  <1>1. Min(S) \in S /\ \A y \in S : Min(S) <= y
    BY Zenon DEF Min
  <1>2. \A a, b \in Nat : (a <= b /\ b <= a) => a = b
    OBVIOUS
  <1> QED BY <1>1, <1>2, Zenon

\* A set of naturals that is not empty has its minimum.
LEMMA MinIn ==
    ASSUME NEW S \in SUBSET Nat, S # {}
    PROVE  Min(S) \in S
  <1>1. PICK m \in S : \A y \in S : m <= y
    BY LeastNat, Zenon
  <1> QED BY <1>1, MinIs, Zenon

\* The conditions of validate, without their order.
Sound(c) ==
    /\ c.auth.issuer = c.auth.issuer_public_key_pem
    /\ IssuesOwnTokens(c.auth) \/ c.auth.keys_dir
    /\ c.routes # <<>>
    /\ c.ratelimit.limit # 0 /\ c.ratelimit.window_secs # 0 /\ c.ratelimit.redis_url # ""
    /\ \A key \in DOMAIN c.breaker : c.breaker[key] # 0
    /\ \A i \in DOMAIN c.routes : CleanPrefix(c.routes[i].prefix) /\ AcceptedBackend(c.routes[i].backend)

\* What a check of validate says.
Outcome ==
    [bad : BOOLEAN,
     error : {"InvalidAuth", "NoRoutes", "InvalidRateLimit", "InvalidBreaker",
              "InvalidPrefix", "InvalidBackend"}]

\* The checks of the routes, two for each.
LEMMA RoutesChecked ==
    ASSUME NEW T, NEW routes \in Seq(T)
    PROVE  LET checks == RouteChecks(routes)
           IN  /\ checks \in Seq(Outcome)
               /\ (\A j \in DOMAIN checks : ~checks[j].bad) <=>
                    \A i \in DOMAIN routes : /\ CleanPrefix(routes[i].prefix)
                                             /\ AcceptedBackend(routes[i].backend)
  <1> DEFINE n == Len(routes)
             checks == RouteChecks(routes)
             Clear(i) == CleanPrefix(routes[i].prefix)
             Taken(i) == AcceptedBackend(routes[i].backend)
  <1>1. n \in Nat /\ DOMAIN routes = 1 .. n
    OBVIOUS
  <1>2. DOMAIN checks = 1 .. 2 * n
    BY DEF RouteChecks
  <1>3. \A j \in 1 .. 2 * n :
          checks[j] = IF j % 2 = 1 THEN [bad |-> ~Clear((j + 1) \div 2), error |-> "InvalidPrefix"]
                      ELSE [bad |-> ~Taken((j + 1) \div 2), error |-> "InvalidBackend"]
    BY Zenon DEF RouteChecks
  <1>4. \A i \in 1 .. n : /\ 2 * i - 1 \in 1 .. 2 * n /\ (2 * i - 1) % 2 = 1 /\ (2 * i - 1 + 1) \div 2 = i
                          /\ 2 * i \in 1 .. 2 * n /\ (2 * i) % 2 # 1 /\ (2 * i + 1) \div 2 = i
    BY <1>1
  <1>5. \A j \in 1 .. 2 * n : (j + 1) \div 2 \in 1 .. n
    BY <1>1
  <1> HIDE DEF checks, Clear, Taken
  <1>6. \A j \in 1 .. 2 * n : /\ checks[j] \in Outcome
                              /\ j % 2 = 1 => (checks[j].bad <=> ~Clear((j + 1) \div 2))
                              /\ j % 2 # 1 => (checks[j].bad <=> ~Taken((j + 1) \div 2))
    <2> SUFFICES ASSUME NEW j \in 1 .. 2 * n
                 PROVE  /\ checks[j] \in Outcome
                        /\ j % 2 = 1 => (checks[j].bad <=> ~Clear((j + 1) \div 2))
                        /\ j % 2 # 1 => (checks[j].bad <=> ~Taken((j + 1) \div 2))
      BY Zenon
    <2>1. \A b \in BOOLEAN, e \in {"InvalidPrefix", "InvalidBackend"} :
            LET check == [bad |-> b, error |-> e]
            IN  /\ check \in Outcome
                /\ check.bad = b
      BY DEF Outcome
    <2>2. CASE j % 2 = 1
      <3>1. checks[j] = [bad |-> ~Clear((j + 1) \div 2), error |-> "InvalidPrefix"]
        BY <1>3, <2>2, Zenon
      <3>2. (~Clear((j + 1) \div 2)) \in BOOLEAN
        BY Zenon
      <3> QED BY <2>1, <2>2, <3>1, <3>2, Zenon
    <2>3. CASE j % 2 # 1
      <3>1. checks[j] = [bad |-> ~Taken((j + 1) \div 2), error |-> "InvalidBackend"]
        BY <1>3, <2>3, Zenon
      <3>2. (~Taken((j + 1) \div 2)) \in BOOLEAN
        BY Zenon
      <3> QED BY <2>1, <2>3, <3>1, <3>2, Zenon
    <2> QED BY <2>2, <2>3, Zenon
  <1>7. checks \in Seq(Outcome)
    <2>1. checks = [j \in 1 .. 2 * n |-> checks[j]]
      BY <1>2, Zenon DEF checks, RouteChecks
    <2>2. 2 * n \in Nat
      BY <1>1
    <2> QED BY <1>6, <2>1, <2>2
  <1>8. ASSUME \A j \in 1 .. 2 * n : ~checks[j].bad, NEW i \in 1 .. n PROVE Clear(i) /\ Taken(i)
    <2>1. Clear(i)
      <3>1. ~checks[2 * i - 1].bad /\ (2 * i - 1) % 2 = 1 /\ 2 * i - 1 \in 1 .. 2 * n
        BY <1>4, <1>8, Zenon
      <3>2. Clear((2 * i - 1 + 1) \div 2)
        BY <1>6, <3>1, Zenon
      <3> QED BY <1>4, <3>2, Zenon
    <2>2. Taken(i)
      <3>1. ~checks[2 * i].bad /\ (2 * i) % 2 # 1 /\ 2 * i \in 1 .. 2 * n
        BY <1>4, <1>8, Zenon
      <3>2. Taken((2 * i + 1) \div 2)
        BY <1>6, <3>1, Zenon
      <3> QED BY <1>4, <3>2, Zenon
    <2> QED BY <2>1, <2>2, Zenon
  <1>9. ASSUME \A i \in 1 .. n : Clear(i) /\ Taken(i), NEW j \in 1 .. 2 * n PROVE ~checks[j].bad
    BY <1>5, <1>6, <1>9
  <1> QED BY <1>1, <1>2, <1>7, <1>8, <1>9 DEF checks, Clear, Taken

\* validate accepts what passes all its checks.
LEMMA ValidateAccepts ==
    ASSUME NEW T, NEW c, c.routes \in Seq(T)
    PROVE  Validate(c) = "Ok" <=> Sound(c)
  <1> DEFINE Result(b, e) == [bad |-> b, error |-> e]
             b1 == c.auth.issuer # c.auth.issuer_public_key_pem
             b2 == ~IssuesOwnTokens(c.auth) /\ ~c.auth.keys_dir
             b3 == c.routes = <<>>
             b4 == c.ratelimit.limit = 0
             b5 == c.ratelimit.window_secs = 0
             b6 == c.ratelimit.redis_url = ""
             b7 == \E key \in DOMAIN c.breaker : c.breaker[key] = 0
             r1 == Result(b1, "InvalidAuth")
             r2 == Result(b2, "InvalidAuth")
             r3 == Result(b3, "NoRoutes")
             r4 == Result(b4, "InvalidRateLimit")
             r5 == Result(b5, "InvalidRateLimit")
             r6 == Result(b6, "InvalidRateLimit")
             r7 == Result(b7, "InvalidBreaker")
             fixed == <<r1, r2, r3, r4, r5, r6, r7>>
             routed == RouteChecks(c.routes)
             checks == fixed \o routed
             failed == {i \in DOMAIN checks : checks[i].bad}
  <1>1. Checks(c) = checks
    BY Zenon DEF Checks
  <1>2. /\ b1 \in BOOLEAN /\ b2 \in BOOLEAN /\ b3 \in BOOLEAN /\ b4 \in BOOLEAN
        /\ b5 \in BOOLEAN /\ b6 \in BOOLEAN /\ b7 \in BOOLEAN
    BY Zenon
  <1>3. Sound(c) <=> /\ ~(b1 \/ b2 \/ b3 \/ b4 \/ b5 \/ b6 \/ b7)
                     /\ \A i \in DOMAIN c.routes : /\ CleanPrefix(c.routes[i].prefix)
                                                   /\ AcceptedBackend(c.routes[i].backend)
    BY Zenon DEF Sound
  <1> HIDE DEF b1, b2, b3, b4, b5, b6, b7
  <1>4. \A b \in BOOLEAN,
           e \in {"InvalidAuth", "NoRoutes", "InvalidRateLimit", "InvalidBreaker"} :
            Result(b, e) \in Outcome /\ Result(b, e).bad = b
    BY DEF Outcome
  <1> HIDE DEF Result
  <1>5. /\ fixed \in Seq(Outcome) /\ Len(fixed) = 7
        /\ (\A i \in 1 .. 7 : ~fixed[i].bad) <=> ~(b1 \/ b2 \/ b3 \/ b4 \/ b5 \/ b6 \/ b7)
    <2>1. /\ r1 \in Outcome /\ r2 \in Outcome /\ r3 \in Outcome /\ r4 \in Outcome
          /\ r5 \in Outcome /\ r6 \in Outcome /\ r7 \in Outcome
      BY <1>2, <1>4, Zenon
    <2>2. /\ r1.bad = b1 /\ r2.bad = b2 /\ r3.bad = b3 /\ r4.bad = b4
          /\ r5.bad = b5 /\ r6.bad = b6 /\ r7.bad = b7
      BY <1>2, <1>4, Zenon
    <2> HIDE DEF r1, r2, r3, r4, r5, r6, r7
    <2>3. fixed \in Seq(Outcome) /\ Len(fixed) = 7
      BY <2>1
    <2>4. /\ fixed[1] = r1 /\ fixed[2] = r2 /\ fixed[3] = r3 /\ fixed[4] = r4
          /\ fixed[5] = r5 /\ fixed[6] = r6 /\ fixed[7] = r7
      OBVIOUS
    <2> HIDE DEF fixed
    <2>5. \A i \in 1 .. 7 : i = 1 \/ i = 2 \/ i = 3 \/ i = 4 \/ i = 5 \/ i = 6 \/ i = 7
      OBVIOUS
    <2>6. /\ 1 \in 1 .. 7 /\ 2 \in 1 .. 7 /\ 3 \in 1 .. 7 /\ 4 \in 1 .. 7
          /\ 5 \in 1 .. 7 /\ 6 \in 1 .. 7 /\ 7 \in 1 .. 7
      OBVIOUS
    <2>7. (\A i \in 1 .. 7 : ~fixed[i].bad) <=>
            ~(r1.bad \/ r2.bad \/ r3.bad \/ r4.bad \/ r5.bad \/ r6.bad \/ r7.bad)
      BY <2>4, <2>5, <2>6, Zenon
    <2> QED BY <2>2, <2>3, <2>7, Zenon
  <1>6. /\ routed \in Seq(Outcome)
        /\ (\A j \in DOMAIN routed : ~routed[j].bad) <=>
             \A i \in DOMAIN c.routes : /\ CleanPrefix(c.routes[i].prefix)
                                        /\ AcceptedBackend(c.routes[i].backend)
    BY RoutesChecked, Zenon
  <1> HIDE DEF r1, r2, r3, r4, r5, r6, r7, fixed, routed
  <1>7. /\ checks \in Seq(Outcome)
        /\ (\A i \in DOMAIN checks : ~checks[i].bad) <=>
             (\A i \in 1 .. 7 : ~fixed[i].bad) /\ \A j \in DOMAIN routed : ~routed[j].bad
    <2>1. /\ checks \in Seq(Outcome) /\ DOMAIN checks = 1 .. Len(fixed) + Len(routed)
          /\ DOMAIN routed = 1 .. Len(routed) /\ Len(routed) \in Nat
          /\ \A i \in 1 .. Len(fixed) : checks[i] = fixed[i]
          /\ \A j \in 1 .. Len(routed) : checks[Len(fixed) + j] = routed[j]
      <3>1. fixed \in Seq(Outcome) /\ routed \in Seq(Outcome)
        BY <1>5, <1>6, Zenon
      <3> QED BY <3>1
    <2> HIDE DEF checks
    <2>2. \A i \in 1 .. 7 : checks[i] = fixed[i]
      BY <1>5, <2>1, Zenon
    <2>3. \A j \in 1 .. Len(routed) : checks[7 + j] = routed[j]
      BY <1>5, <2>1, Zenon
    <2>4. \A i \in 1 .. 7 : i \in DOMAIN checks
      BY <1>5, <2>1
    <2>5. \A j \in 1 .. Len(routed) : 7 + j \in DOMAIN checks
      BY <1>5, <2>1
    <2>6. \A i \in DOMAIN checks : i \in 1 .. 7 \/ \E j \in 1 .. Len(routed) : i = 7 + j
      <3> SUFFICES ASSUME NEW i \in DOMAIN checks, i \notin 1 .. 7
                   PROVE  \E j \in 1 .. Len(routed) : i = 7 + j
        BY Zenon
      <3>1. i - 7 \in 1 .. Len(routed) /\ i = 7 + (i - 7)
        BY <1>5, <2>1
      <3> QED BY <3>1, Zenon
    <2>7. ASSUME \A i \in DOMAIN checks : ~checks[i].bad
          PROVE  (\A i \in 1 .. 7 : ~fixed[i].bad) /\ \A j \in DOMAIN routed : ~routed[j].bad
      BY <2>1, <2>2, <2>3, <2>4, <2>5, <2>7, Zenon
    <2>8. ASSUME \A i \in 1 .. 7 : ~fixed[i].bad, \A j \in DOMAIN routed : ~routed[j].bad,
                 NEW i \in DOMAIN checks
          PROVE  ~checks[i].bad
      <3>1. CASE i \in 1 .. 7
        BY <2>2, <2>8, <3>1, Zenon
      <3>2. CASE \E j \in 1 .. Len(routed) : i = 7 + j
        <4>1. PICK j \in 1 .. Len(routed) : i = 7 + j
          BY <3>2, Zenon
        <4>2. checks[i] = routed[j] /\ j \in DOMAIN routed
          BY <2>1, <2>3, <4>1, Zenon
        <4> QED BY <2>8, <4>2, Zenon
      <3> QED BY <2>6, <3>1, <3>2, Zenon
    <2> QED BY <2>1, <2>7, <2>8, Zenon
  <1> HIDE DEF checks
  <1>8. failed = {} <=> Sound(c)
    BY <1>3, <1>5, <1>6, <1>7
  <1>9. ASSUME failed # {} PROVE checks[Min(failed)].error # "Ok"
    <2>1. failed \in SUBSET Nat
      BY <1>7
    <2>2. Min(failed) \in DOMAIN checks
      BY <1>9, <2>1, MinIn, Zenon
    <2>3. checks[Min(failed)] \in Outcome
      BY <1>7, <2>2
    <2> QED BY <2>3 DEF Outcome
  <1>10. Validate(c) = IF failed = {} THEN "Ok" ELSE checks[Min(failed)].error
    BY <1>1, Zenon DEF Validate
  <1> QED BY <1>8, <1>9, <1>10, Zenon

\* A key of a section is the one in the file, or its default.
LEMMA SectionKeys ==
    ASSUME NEW section, NEW default
    PROVE  /\ DOMAIN Section(section, default) = DOMAIN default
           /\ section = Absent => Section(section, default) = default
           /\ section # Absent => \A key \in DOMAIN default :
                Section(section, default)[key] = Or(section[key], default[key])
  BY Zenon DEF Section

\* The parts of a parsed file.
LEMMA ParsedParts ==
    ASSUME NEW f
    PROVE  /\ Parsed(f).routes = Or(f.routes, <<>>)
           /\ Parsed(f).auth = Section(f.auth, DefaultAuth)
           /\ Parsed(f).ratelimit = Section(f.ratelimit, DefaultRateLimit)
           /\ Parsed(f).breaker = Section(f.breaker, DefaultBreaker)
  BY Zenon DEF Parsed

\* What is written about authentication, against what it parses into.
LEMMA AuthWritten ==
    ASSUME NEW f \in File
    PROVE  LET parsed == Parsed(f).auth
           IN  (/\ parsed.issuer = parsed.issuer_public_key_pem
                /\ IssuesOwnTokens(parsed) \/ parsed.keys_dir) <=>
               ~(f.auth # Absent /\ f.auth.issuer # f.auth.issuer_public_key_pem) /\ ~ExternalWithoutDir(f)
  <1> DEFINE a == Parsed(f).auth
  <1>1. a = Section(f.auth, DefaultAuth)
    BY ParsedParts, Zenon
  <1>2. /\ DOMAIN DefaultAuth = {"keys_dir", "issuer", "issuer_public_key_pem", "token_ttl_secs"}
        /\ DefaultAuth.issuer = FALSE /\ DefaultAuth.issuer_public_key_pem = FALSE
    BY DEF DefaultAuth
  <1>3. CASE f.auth = Absent
    <2>1. a.issuer = FALSE /\ a.issuer_public_key_pem = FALSE
      BY <1>1, <1>2, <1>3, SectionKeys, Zenon
    <2> HIDE DEF a
    <2> QED BY <1>3, <2>1, Zenon DEF IssuesOwnTokens, ExternalWithoutDir, a
  <1>4. CASE f.auth # Absent
    <2>1. f.auth \in [keys_dir : BOOLEAN, issuer : BOOLEAN, issuer_public_key_pem : BOOLEAN,
                      token_ttl_secs : Key(Nat)]
      BY <1>4, Zenon DEF File, Key
    <2>2. /\ f.auth.keys_dir \in BOOLEAN /\ f.auth.issuer \in BOOLEAN
          /\ f.auth.issuer_public_key_pem \in BOOLEAN
      BY <2>1
    <2>3. \A b \in BOOLEAN : \A d : Or(b, d) = b
      BY ConfigAssumption, Zenon DEF Or
    <2>4. /\ a.keys_dir = f.auth.keys_dir /\ a.issuer = f.auth.issuer
          /\ a.issuer_public_key_pem = f.auth.issuer_public_key_pem
      <3>1. \A key \in DOMAIN DefaultAuth : a[key] = Or(f.auth[key], DefaultAuth[key])
        <4>1. a = [key \in DOMAIN DefaultAuth |-> Or(f.auth[key], DefaultAuth[key])]
          BY <1>1, <1>4, Zenon DEF Section
        <4> HIDE DEF a
        <4> QED BY <4>1, Zenon
      <3>2. /\ a.keys_dir = Or(f.auth.keys_dir, DefaultAuth.keys_dir)
            /\ a.issuer = Or(f.auth.issuer, DefaultAuth.issuer)
            /\ a.issuer_public_key_pem = Or(f.auth.issuer_public_key_pem, DefaultAuth.issuer_public_key_pem)
        BY <1>2, <3>1, Zenon
      <3> QED BY <2>2, <2>3, <3>2, Zenon
    <2> HIDE DEF a
    <2> QED BY <1>4, <2>2, <2>4, Zenon DEF IssuesOwnTokens, ExternalWithoutDir, a
  <1> QED BY <1>3, <1>4, Zenon

\* A number in the file, or its default, is zero when it is written as zero.
LEMMA NumberWritten ==
    ASSUME NEW n \in Key(Nat), NEW d \in Nat \ {0}
    PROVE  Or(n, d) \in Nat /\ (Or(n, d) = 0 <=> n = 0)
  <1>1. CASE n = Absent
    BY <1>1, ConfigAssumption DEF Or
  <1>2. CASE n # Absent
    BY <1>2 DEF Or, Key
  <1> QED BY <1>1, <1>2

\* What is written about the limits.
LEMMA LimitsWritten ==
    ASSUME NEW f \in File, f.ratelimit # Absent => f.ratelimit.redis_url # Absent
    PROVE  LET limits == Parsed(f).ratelimit
           IN  /\ limits.limit \in Nat /\ limits.window_secs \in Nat
               /\ Zeroes(f.ratelimit) = {} <=>
                    limits.limit # 0 /\ limits.window_secs # 0 /\ limits.redis_url # ""
  <1> DEFINE l == Parsed(f).ratelimit
             w == f.ratelimit
             Names == {"redis_url", "limit", "window_secs"}
  <1>1. l = Section(w, DefaultRateLimit)
    BY ParsedParts, Zenon
  <1>2. /\ DOMAIN DefaultRateLimit = Names
        /\ DefaultRateLimit.limit = 100 /\ DefaultRateLimit.window_secs = 60
        /\ DefaultRateLimit.redis_url = "redis://"
    BY DEF DefaultRateLimit
  <1>3. CASE w = Absent
    <2>1. l.limit = 100 /\ l.window_secs = 60 /\ l.redis_url = "redis://"
      <3>1. l = DefaultRateLimit
        BY <1>1, <1>3, SectionKeys, Zenon
      <3> QED BY <1>2, <3>1, Zenon
    <2>2. Zeroes(w) = {}
      BY <1>3, Zenon DEF Zeroes
    <2> HIDE DEF l
    <2>3. /\ l.limit \in Nat /\ l.window_secs \in Nat
          /\ l.limit # 0 /\ l.window_secs # 0 /\ l.redis_url # ""
      BY <2>1
    <2> QED BY <2>2, <2>3, Zenon DEF l
  <1>4. CASE w # Absent
    <2>1. w \in [redis_url : Key(STRING), limit : Key(Nat), window_secs : Key(Nat)]
      BY <1>4, Zenon DEF File, Key
    <2> HIDE DEF l, w
    <2>2. DOMAIN w = Names /\ w.limit \in Key(Nat) /\ w.window_secs \in Key(Nat)
      BY <2>1
    <2>3. /\ l.limit = Or(w.limit, 100) /\ l.window_secs = Or(w.window_secs, 60)
          /\ l.redis_url = Or(w.redis_url, "redis://")
      <3>1. \A key \in Names : l[key] = Or(w[key], DefaultRateLimit[key])
        <4>1. l = [key \in Names |-> Or(w[key], DefaultRateLimit[key])]
          BY <1>1, <1>2, <1>4, Zenon DEF Section
        <4> QED BY <4>1, Zenon
      <3>2. /\ l.limit = Or(w.limit, DefaultRateLimit.limit)
            /\ l.window_secs = Or(w.window_secs, DefaultRateLimit.window_secs)
            /\ l.redis_url = Or(w.redis_url, DefaultRateLimit.redis_url)
        BY <3>1, Zenon
      <3> QED BY <1>2, <3>2, Zenon
    <2>4. l.redis_url = w.redis_url
      BY <1>4, <2>3, Zenon DEF Or, w
    <2>5. 100 \in Nat \ {0} /\ 60 \in Nat \ {0}
      OBVIOUS
    <2>6. /\ l.limit \in Nat /\ (l.limit = 0 <=> w.limit = 0)
          /\ l.window_secs \in Nat /\ (l.window_secs = 0 <=> w.window_secs = 0)
      <3>1. Or(w.limit, 100) \in Nat /\ (Or(w.limit, 100) = 0 <=> w.limit = 0)
        BY <2>2, <2>5, NumberWritten
      <3>2. Or(w.window_secs, 60) \in Nat /\ (Or(w.window_secs, 60) = 0 <=> w.window_secs = 0)
        BY <2>2, <2>5, NumberWritten
      <3> QED BY <2>3, <3>1, <3>2, Zenon
    <2>7. Zeroes(w) = {} <=> w.redis_url # "" /\ w.limit # 0 /\ w.window_secs # 0
      <3>1. Zeroes(w) = {key \in Names : w[key] = IF key = "redis_url" THEN "" ELSE 0}
        BY <1>4, <2>2, Zenon DEF Zeroes
      <3> QED BY <3>1
    <2> QED BY <2>4, <2>6, <2>7, Zenon DEF l, w
  <1> QED BY <1>3, <1>4, Zenon

\* What is written about the breaker.
LEMMA BreakerWritten ==
    ASSUME NEW f \in File
    PROVE  LET breaker == Parsed(f).breaker
           IN  /\ \A key \in DOMAIN breaker : breaker[key] \in Nat
               /\ Zeroes(f.breaker) = {} <=> \A key \in DOMAIN breaker : breaker[key] # 0
  <1> DEFINE b == Parsed(f).breaker
             w == f.breaker
             Names == {"failure_threshold", "cooldown_secs", "timeout_secs"}
  <1>1. b = Section(w, DefaultBreaker)
    BY ParsedParts, Zenon
  <1>2. /\ DOMAIN DefaultBreaker = Names
        /\ \A key \in Names : DefaultBreaker[key] \in Nat \ {0}
    BY DEF DefaultBreaker
  <1>3. CASE w = Absent
    <2>1. b = DefaultBreaker
      BY <1>1, <1>3, Zenon DEF Section
    <2>2. Zeroes(w) = {}
      BY <1>3, Zenon DEF Zeroes
    <2> HIDE DEF b, w
    <2>3. \A key \in DOMAIN b : b[key] \in Nat /\ b[key] # 0
      BY <1>2, <2>1
    <2> QED BY <2>2, <2>3, Zenon DEF b, w
  <1>4. CASE w # Absent
    <2>1. w \in [failure_threshold : Key(Nat), cooldown_secs : Key(Nat), timeout_secs : Key(Nat)]
      BY <1>4, Zenon DEF File, Key
    <2> HIDE DEF b, w
    <2>2. DOMAIN w = Names /\ \A key \in Names : w[key] \in Key(Nat)
      BY <2>1
    <2>3. b = [key \in Names |-> Or(w[key], DefaultBreaker[key])]
      BY <1>1, <1>2, <1>4, Zenon DEF Section
    <2>4. DOMAIN b = Names /\ \A key \in Names : b[key] \in Nat /\ (b[key] = 0 <=> w[key] = 0)
      <3>1. ASSUME NEW key \in Names
            PROVE  Or(w[key], DefaultBreaker[key]) \in Nat
                   /\ (Or(w[key], DefaultBreaker[key]) = 0 <=> w[key] = 0)
        BY <1>2, <2>2, NumberWritten
      <3> QED BY <2>3, <3>1, Zenon
    <2>5. Zeroes(w) = {key \in Names : w[key] = 0}
      <3>1. Zeroes(w) = {key \in Names : w[key] = IF key = "redis_url" THEN "" ELSE 0}
        BY <1>4, <2>2, Zenon DEF Zeroes
      <3>2. \A key \in Names : key # "redis_url"
        OBVIOUS
      <3> QED BY <3>1, <3>2, Zenon
    <2> QED BY <2>4, <2>5, Zenon DEF b, w
  <1> QED BY <1>3, <1>4, Zenon

\* What is written about the routes.
LEMMA RoutesWritten ==
    ASSUME NEW f \in File
    PROVE  LET routes == Parsed(f).routes
           IN  /\ routes \in Seq([prefix : Seq(STRING), backend : Seq(STRING)])
               /\ routes = <<>> <=> WrittenRoutes(f) = {}
               /\ WrittenRoutes(f) = {routes[i] : i \in DOMAIN routes}
  <1> DEFINE rs == Parsed(f).routes
             Route == [prefix : Seq(STRING), backend : Seq(STRING)]
  <1>1. rs = Or(f.routes, <<>>)
    BY ParsedParts, Zenon
  <1>2. f.routes \in Seq(Route) \cup {Absent}
    BY Zenon DEF File, Key
  <1> HIDE DEF rs, Route
  <1>3. rs \in Seq(Route) /\ WrittenRoutes(f) = {rs[i] : i \in DOMAIN rs}
    <2>1. CASE f.routes = Absent
      <3>1. rs = <<>>
        BY <1>1, <2>1, Zenon DEF Or
      <3>2. rs \in Seq(Route) /\ DOMAIN rs = {}
        BY <3>1
      <3> QED BY <1>1, <3>2, Zenon DEF WrittenRoutes
    <2>2. CASE f.routes # Absent
      <3>1. rs = f.routes /\ rs \in Seq(Route)
        BY <1>1, <1>2, <2>2, Zenon DEF Or
      <3> QED BY <1>1, <3>1, Zenon DEF WrittenRoutes
    <2> QED BY <2>1, <2>2, Zenon
  <1>4. rs = <<>> <=> DOMAIN rs = {}
    BY <1>3
  <1> QED BY <1>3, <1>4, Zenon DEF rs, Route

\* validate accepts no other scheme than the two.
LEMMA AcceptedIsHttp ==
    ASSUME NEW url \in Seq(STRING), AcceptedBackend(url)
    PROVE  HttpUrl(url)
  <1>1. Len(url) >= 3 /\ Len(url) \in Nat
    BY DEF AcceptedBackend
  <1>2. PICK scheme \in {"http:", "https:"} : SubSeq(url, 1, 3) = <<scheme, "/", "/">>
    BY Zenon DEF AcceptedBackend
  <1>3. /\ SubSeq(url, 1, 3)[1] = url[1] /\ SubSeq(url, 1, 3)[2] = url[2]
        /\ SubSeq(url, 1, 3)[3] = url[3]
    BY <1>1
  <1>4. /\ <<scheme, "/", "/">>[1] = scheme /\ <<scheme, "/", "/">>[2] = "/"
        /\ <<scheme, "/", "/">>[3] = "/"
    OBVIOUS
  <1> QED BY <1>1, <1>2, <1>3, <1>4, Zenon DEF HttpUrl

\* validate accepts every URL of the two schemes that has a host: the scheme,
\* two slashes and one more character are longer than "http://".
LEMMA AbsoluteIsAccepted ==
    ASSUME NEW url \in Seq(STRING), AbsoluteUrl(url)
    PROVE  AcceptedBackend(url)
  <1> DEFINE At(s) == {i \in DOMAIN url : url[i] = s}
  <1>1. /\ Len(url) >= 4 /\ Len(url) \in Nat /\ DOMAIN url = 1 .. Len(url)
        /\ url[1] \in {"http:", "https:"} /\ url[2] = "/" /\ url[3] = "/"
    BY DEF AbsoluteUrl, HttpUrl
  <1>2. SubSeq(url, 1, 3) = <<url[1], "/", "/">>
    <2> DEFINE t == SubSeq(url, 1, 3)
               u == <<url[1], "/", "/">>
    <2>1. /\ t = [i \in 1 .. 3 |-> t[i]]
          /\ t[1] = url[1] /\ t[2] = url[2] /\ t[3] = url[3]
      BY <1>1
    <2>2. u = [i \in 1 .. 3 |-> u[i]] /\ u[1] = url[1] /\ u[2] = "/" /\ u[3] = "/"
      OBVIOUS
    <2> HIDE DEF t, u
    <2>3. \A i \in 1 .. 3 : t[i] = u[i]
      BY <1>1, <2>1, <2>2
    <2> QED BY <2>1, <2>2, <2>3, Zenon DEF t, u
  <1>3. ASSUME NEW s PROVE Cardinality(At(s)) \in Nat /\ (url[1] = s => Cardinality(At(s)) >= 1)
    <2>1. IsFiniteSet(1 .. Len(url))
      BY <1>1, FS_Interval
    <2>2. IsFiniteSet(At(s))
      <3>1. At(s) \subseteq 1 .. Len(url)
        BY <1>1, Zenon
      <3> QED BY <2>1, <3>1, FS_Subset, Zenon
    <2>3. Cardinality(At(s)) \in Nat
      BY <2>2, FS_CardinalityType, Zenon
    <2>4. ASSUME url[1] = s PROVE Cardinality(At(s)) # 0
      <3>1. 1 \in At(s)
        BY <1>1, <2>4
      <3> QED BY <2>2, <3>1, FS_EmptySet, Zenon
    <2> HIDE DEF At
    <2> QED BY <2>3, <2>4
  <1>4. UrlLen(url) = Len(url) + 4 * Cardinality(At("http:")) + 5 * Cardinality(At("https:"))
    BY Zenon DEF UrlLen
  <1>5. /\ Cardinality(At("http:")) \in Nat /\ Cardinality(At("https:")) \in Nat
        /\ Cardinality(At("http:")) >= 1 \/ Cardinality(At("https:")) >= 1
    BY <1>1, <1>3, Zenon
  <1> HIDE DEF At
  <1>6. UrlLen(url) > 7
    BY <1>1, <1>4, <1>5
  <1>7. Len(url) >= 3
    BY <1>1
  <1> QED BY <1>1, <1>2, <1>6, <1>7, Zenon DEF AcceptedBackend

\* from_toml accepts a file exactly if nothing in it is wrong, it does not ask
\* for an external issuer without keys_dir, and validate takes its backends.
LEMMA FromTomlAccepts ==
    ASSUME NEW f \in File
    PROVE  FromToml(f) = "Ok" <=>
             /\ ~Wrong(f) /\ ~ExternalWithoutDir(f)
             /\ \A r \in WrittenRoutes(f) : AcceptedBackend(r.backend)
  <1> DEFINE c == Parsed(f)
             Dirty(r) == r.prefix = <<>> \/ ~(Range(r.prefix) \subseteq Clean)
  <1>1. CASE ~Parses(f)
    <2>1. FromToml(f) # "Ok"
      <3>1. FromToml(f) = "Parse"
        BY <1>1, Zenon DEF FromToml
      <3> QED BY <3>1
    <2>2. Wrong(f)
      BY <1>1, Zenon DEF Parses, Wrong
    <2> QED BY <2>1, <2>2, Zenon
  <1>2. CASE Parses(f)
    <2>1. FromToml(f) = "Ok" <=> Sound(c)
      <3>1. c.routes \in Seq([prefix : Seq(STRING), backend : Seq(STRING)])
        BY RoutesWritten, Zenon
      <3>2. Validate(c) = "Ok" <=> Sound(c)
        BY <3>1, ValidateAccepts, Zenon
      <3>3. FromToml(f) = Validate(c)
        BY <1>2, Zenon DEF FromToml
      <3> QED BY <3>2, <3>3, Zenon
    <2>2. ~f.unknown_key /\ (f.ratelimit # Absent => f.ratelimit.redis_url # Absent)
      BY <1>2, Zenon DEF Parses
    <2>3. (c.auth.issuer = c.auth.issuer_public_key_pem /\ (IssuesOwnTokens(c.auth) \/ c.auth.keys_dir))
            <=> ~(f.auth # Absent /\ f.auth.issuer # f.auth.issuer_public_key_pem) /\ ~ExternalWithoutDir(f)
      BY AuthWritten, Zenon
    <2>4. Zeroes(f.ratelimit) = {} <=>
            c.ratelimit.limit # 0 /\ c.ratelimit.window_secs # 0 /\ c.ratelimit.redis_url # ""
      BY <2>2, LimitsWritten, Zenon
    <2>5. Zeroes(f.breaker) = {} <=> \A key \in DOMAIN c.breaker : c.breaker[key] # 0
      BY BreakerWritten, Zenon
    <2>6. c.routes = <<>> <=> WrittenRoutes(f) = {}
      BY RoutesWritten, Zenon
    <2>7. (\A i \in DOMAIN c.routes : CleanPrefix(c.routes[i].prefix) /\ AcceptedBackend(c.routes[i].backend))
            <=> /\ ~\E r \in WrittenRoutes(f) : Dirty(r)
                /\ \A r \in WrittenRoutes(f) : AcceptedBackend(r.backend)
      <3>1. WrittenRoutes(f) = {c.routes[i] : i \in DOMAIN c.routes}
        BY RoutesWritten, Zenon
      <3>2. \A r : CleanPrefix(r.prefix) <=> ~Dirty(r)
        BY Zenon DEF CleanPrefix, Range
      <3> HIDE DEF c, Dirty
      <3> QED BY <3>1, <3>2, Zenon
    <2>8. Wrong(f) <=> \/ f.unknown_key \/ WrittenRoutes(f) = {}
                       \/ \E r \in WrittenRoutes(f) : Dirty(r)
                       \/ f.auth # Absent /\ f.auth.issuer # f.auth.issuer_public_key_pem
                       \/ f.ratelimit # Absent /\ f.ratelimit.redis_url = Absent
                       \/ Zeroes(f.ratelimit) # {} \/ Zeroes(f.breaker) # {}
      BY Zenon DEF Wrong
    <2> HIDE DEF c, Dirty
    <2> QED BY <2>1, <2>2, <2>3, <2>4, <2>5, <2>6, <2>7, <2>8, Zenon DEF Sound
  <1> QED BY <1>1, <1>2, Zenon

-------------------------------------------------------------------------------
(***************************************************************************)
(* Paths and backends.                                                     *)
(***************************************************************************)
\* A path put together from a slash, a prefix and a rest.
LEMMA SlashFirst ==
    ASSUME NEW R, NEW x \in R, NEW s \in Seq(R), NEW t \in Seq(R)
    PROVE  LET p == <<x>> \o s \o t
           IN  /\ p \in Seq(R) /\ Len(p) = 1 + Len(s) + Len(t) /\ DOMAIN p = 1 .. 1 + Len(s) + Len(t)
               /\ p[1] = x
               /\ \A i \in 1 .. Len(s) : p[i + 1] = s[i]
               /\ t # <<>> => p[Len(s) + 2] = t[1] /\ p[Len(p)] = t[Len(t)]
  <1> DEFINE u == <<x>>
             q == u \o s
             p == q \o t
  <1>1. u \in Seq(R) /\ Len(u) = 1 /\ u[1] = x /\ Len(s) \in Nat /\ Len(t) \in Nat
    OBVIOUS
  <1> HIDE DEF u
  <1>2. /\ q \in Seq(R) /\ Len(q) = Len(u) + Len(s)
        /\ \A i \in 1 .. Len(u) : q[i] = u[i]
        /\ \A i \in 1 .. Len(s) : q[Len(u) + i] = s[i]
    <2>1. u \in Seq(R)
      BY <1>1, Zenon
    <2>2. q \in Seq(R)
      BY <2>1
    <2>3. Len(q) = Len(u) + Len(s)
      BY <2>1
    <2>4. \A i \in 1 .. Len(u) : q[i] = u[i]
      BY <2>1
    <2>5. \A i \in 1 .. Len(s) : q[Len(u) + i] = s[i]
      BY <2>1
    <2> QED BY <2>2, <2>3, <2>4, <2>5, Zenon
  <1>3. /\ Len(q) = 1 + Len(s) /\ q[1] = x
        /\ \A i \in 1 .. Len(s) : q[i + 1] = s[i]
    <2> HIDE DEF q
    <2> QED BY <1>1, <1>2
  <1> HIDE DEF q
  <1>4. /\ p \in Seq(R) /\ Len(p) = Len(q) + Len(t)
        /\ \A i \in 1 .. Len(q) : p[i] = q[i]
        /\ \A i \in 1 .. Len(t) : p[Len(q) + i] = t[i]
    <2>1. q \in Seq(R)
      BY <1>2, Zenon
    <2>2. p \in Seq(R)
      BY <2>1
    <2>3. Len(p) = Len(q) + Len(t)
      BY <2>1
    <2>4. \A i \in 1 .. Len(q) : p[i] = q[i]
      BY <2>1
    <2>5. \A i \in 1 .. Len(t) : p[Len(q) + i] = t[i]
      BY <2>1
    <2> QED BY <2>2, <2>3, <2>4, <2>5, Zenon
  <1> HIDE DEF p
  <1>5. t # <<>> => 1 \in 1 .. Len(t)
    OBVIOUS
  <1>6. p \in Seq(R) /\ Len(p) = 1 + Len(s) + Len(t) /\ DOMAIN p = 1 .. 1 + Len(s) + Len(t)
    BY <1>1, <1>3, <1>4
  <1>7. p[1] = x /\ \A i \in 1 .. Len(s) : p[i + 1] = s[i]
    BY <1>1, <1>3, <1>4
  <1>8. t # <<>> => p[Len(s) + 2] = t[1] /\ p[Len(p)] = t[Len(t)]
    <2>1. t # <<>> => Len(t) \in 1 .. Len(t)
      OBVIOUS
    <2> QED BY <1>1, <1>3, <1>4, <1>5, <2>1
  <1> QED BY <1>6, <1>7, <1>8, Zenon DEF p, q, u

\* A path with a slash, a clean prefix, and nothing or another slash behind it
\* has that prefix, as a label too where there is another slash.
LEMMA PrefixOf ==
    ASSUME NEW Char, NEW prefix \in Seq(Char), CleanPrefix(prefix), NEW p \in Seq(Char),
           Len(p) >= Len(prefix) + 1, p[1] = "/", \A i \in 1 .. Len(prefix) : p[i + 1] = prefix[i],
           Len(p) >= Len(prefix) + 2 => p[Len(prefix) + 2] = "/"
    PROVE  Prefix(p) = prefix /\ (Len(p) >= Len(prefix) + 2 => LimitedLabel(p) = prefix)
  <1> DEFINE n == Len(prefix)
             t == Trimmed(p)
             starts == {Len(p) + 1} \cup {i \in DOMAIN p : p[i] # "/"}
  <1>1. n \in Nat /\ n >= 1 /\ DOMAIN prefix = 1 .. n
    BY DEF CleanPrefix
  <1>2. \A i \in 1 .. n : prefix[i] # "/"
    BY <1>1, ConfigAssumption, Zenon DEF CleanPrefix
  <1>3. Len(p) \in Nat /\ Len(p) >= n + 1 /\ DOMAIN p = 1 .. Len(p)
    OBVIOUS
  <1>4. /\ p[1] = "/"
        /\ \A i \in 1 .. n : p[i + 1] = prefix[i]
        /\ Len(p) >= n + 2 => p[n + 2] = "/"
    BY Zenon
  <1> HIDE DEF n
  <1>5. Min(starts) = 2
    <2>1. starts \in SUBSET Nat
      BY <1>3
    <2>2. 2 \in starts
      <3>1. p[2] = prefix[1] /\ 1 \in 1 .. n /\ 2 \in DOMAIN p
        BY <1>1, <1>3, <1>4
      <3> QED BY <1>2, <3>1
    <2>3. \A i \in starts : 2 <= i
      BY <1>1, <1>3, <1>4
    <2> QED BY <2>1, <2>2, <2>3, MinIs, Zenon
  <1>6. t = SubSeq(p, 2, Len(p))
    BY <1>5, Zenon DEF Trimmed
  <1>7. /\ t \in Seq(Char) /\ Len(t) = Len(p) - 1 /\ DOMAIN t = 1 .. Len(p) - 1
        /\ \A i \in 1 .. Len(p) - 1 : t[i] = p[i + 1]
    BY <1>1, <1>3, <1>6
  <1> HIDE DEF t
  <1>8. \A i \in 1 .. n : t[i] = prefix[i]
    <2>1. \A i \in 1 .. n : i \in 1 .. Len(p) - 1
      BY <1>1, <1>3
    <2> QED BY <1>4, <1>7, <2>1, Zenon
  <1>9. Slashes(p) = {i \in DOMAIN t : t[i] = "/"}
    BY Zenon DEF Slashes, t
  <1>10. CASE Len(p) = n + 1
    <2>1. Slashes(p) = {}
      BY <1>1, <1>2, <1>7, <1>8, <1>9, <1>10
    <2>2. t = prefix
      BY <1>1, <1>7, <1>8, <1>10 DEF n
    <2>3. ~(Len(p) >= n + 2)
      BY <1>1, <1>10
    <2> QED BY <2>1, <2>2, <2>3, Zenon DEF Prefix, t, n
  <1>11. CASE Len(p) >= n + 2
    <2>1. n + 1 \in Slashes(p)
      BY <1>1, <1>3, <1>4, <1>7, <1>9, <1>11
    <2>2. Slashes(p) \in SUBSET Nat /\ \A i \in Slashes(p) : n + 1 <= i
      BY <1>1, <1>2, <1>3, <1>7, <1>8, <1>9
    <2>3. Min(Slashes(p)) = n + 1
      BY <2>1, <2>2, MinIs, Zenon
    <2>4. Slashes(p) # {} /\ Prefix(p) = SubSeq(t, 1, n)
      <3>1. Slashes(p) # {}
        BY <2>1, Zenon
      <3>2. Min(Slashes(p)) - 1 = n
        BY <1>1, <2>3
      <3> QED BY <3>1, <3>2, Zenon DEF Prefix, t
    <2>5. SubSeq(t, 1, n) = prefix
      BY <1>1, <1>3, <1>7, <1>8, <1>11 DEF n
    <2> QED BY <2>4, <2>5, Zenon DEF LimitedLabel
  <1>12. Len(p) = n + 1 \/ Len(p) >= n + 2
    <2>1. \A a, b \in Nat : a >= b + 1 => a = b + 1 \/ a >= b + 2
      OBVIOUS
    <2> QED BY <1>1, <1>3, <2>1, Zenon
  <1> QED BY <1>10, <1>11, <1>12, Zenon

\* A path put together from a slash, a clean prefix, and a rest.
LEMMA PrefixRoutes ==
    ASSUME NEW Char, "/" \in Char, NEW prefix \in Seq(Char), CleanPrefix(prefix),
           NEW rest \in Seq(Char), rest = <<>> \/ rest[1] = "/"
    PROVE  Prefix(<<"/">> \o prefix \o rest) = prefix
  <1> DEFINE p == <<"/">> \o prefix \o rest
  <1>1. /\ p \in Seq(Char) /\ Len(p) = 1 + Len(prefix) + Len(rest) /\ p[1] = "/"
        /\ \A i \in 1 .. Len(prefix) : p[i + 1] = prefix[i]
        /\ rest # <<>> => p[Len(prefix) + 2] = rest[1]
    BY SlashFirst
  <1> HIDE DEF p
  <1>2. Len(prefix) \in Nat /\ Len(rest) \in Nat /\ (Len(rest) >= 1 => rest # <<>>)
    OBVIOUS
  <1>3. Len(p) >= Len(prefix) + 1
    BY <1>1, <1>2
  <1>4. Len(p) >= Len(prefix) + 2 => p[Len(prefix) + 2] = "/"
    BY <1>1, <1>2
  <1>5. Prefix(p) = prefix
    BY <1>1, <1>3, <1>4, PrefixOf, Zenon
  <1> QED BY <1>5 DEF p

\* A path that a route is served at.
LEMMA RootLabel ==
    ASSUME NEW Char, "/" \in Char, NEW prefix \in Seq(Char), CleanPrefix(prefix), NEW p \in Seq(Char),
           LET root == <<"/">> \o prefix \o <<"/">>
           IN  Len(p) >= Len(root) /\ SubSeq(p, 1, Len(root)) = root
    PROVE  LimitedLabel(p) = prefix
  <1> DEFINE n == Len(prefix)
  <1>1. PICK last \in Seq(Char) : last = <<"/">>
    <2>1. <<"/">> \in Seq(Char)
      OBVIOUS
    <2> QED BY <2>1, Zenon
  <1> DEFINE root == <<"/">> \o prefix \o last
  <1>2. /\ Len(p) >= Len(root) /\ SubSeq(p, 1, Len(root)) = root /\ Len(p) \in Nat
        /\ Len(last) = 1 /\ last[1] = "/" /\ last # <<>> /\ n \in Nat
    BY <1>1
  <1>3. /\ Len(root) = 1 + n + Len(last) /\ root[1] = "/"
        /\ \A i \in 1 .. n : root[i + 1] = prefix[i]
        /\ last # <<>> => root[n + 2] = last[1]
    BY SlashFirst
  <1> HIDE DEF root, n
  <1>4. Len(root) = n + 2 /\ root[n + 2] = "/" /\ Len(p) >= n + 2 /\ Len(p) >= n + 1
    BY <1>2, <1>3
  <1>5. \A i \in 1 .. n + 2 : p[i] = root[i]
    <2>1. \A i \in 1 .. n + 2 : SubSeq(p, 1, n + 2)[i] = p[i]
      BY <1>2, <1>4
    <2> QED BY <1>2, <1>4, <2>1, Zenon
  <1>6. /\ 1 \in 1 .. n + 2 /\ n + 2 \in 1 .. n + 2
        /\ \A i \in 1 .. n : i + 1 \in 1 .. n + 2
    BY <1>2
  <1>7. p[1] = "/" /\ p[n + 2] = "/" /\ \A i \in 1 .. n : p[i + 1] = prefix[i]
    BY <1>3, <1>4, <1>5, <1>6, Zenon
  <1> QED BY <1>4, <1>7, PrefixOf, Zenon DEF n

\* Sequences of fewer characters.
LEMMA Widen ==
    ASSUME NEW T, NEW U, T \subseteq U, NEW s \in Seq(T)
    PROVE  s \in Seq(U)
  OBVIOUS

\* What ServingIsUsable puts behind a prefix.
LEMMA Rests ==
    ASSUME NEW Char, "/" \in Char, "x" \in Char, "login" \in Char,
           NEW rest \in {<<>>, <<"/">>, <<"/", "login">>, <<"/", "x", "/">>}
    PROVE  /\ rest \in Seq(Char) /\ (rest = <<>> \/ rest[1] = "/")
           /\ rest \notin {<<>>, <<"/", "login">>} => rest # <<>> /\ rest[Len(rest)] = "/"
  <1>1. CASE rest = <<>>
    BY <1>1
  <1>2. CASE rest = <<"/">>
    BY <1>2
  <1>3. CASE rest = <<"/", "login">>
    BY <1>3
  <1>4. CASE rest = <<"/", "x", "/">>
    BY <1>4
  <1> QED BY <1>1, <1>2, <1>3, <1>4

\* No endpoint ends in a slash.
LEMMA EndpointsEnd ==
    ASSUME NEW p \in Endpoints
    PROVE  p[Len(p)] # "/"
  <1>1. \/ \E name \in {"healthz", "readyz", "metrics"} : p = <<"/", name>>
        \/ p = <<"/", "auth", "/", "login">>
    BY Zenon DEF Endpoints
  <1>2. ASSUME NEW name, p = <<"/", name>>, name # "/" PROVE p[Len(p)] # "/"
    BY <1>2
  <1>3. ASSUME p = <<"/", "auth", "/", "login">> PROVE p[Len(p)] # "/"
    BY <1>3
  <1>4. \A name \in {"healthz", "readyz", "metrics"} : name # "/"
    OBVIOUS
  <1> QED BY <1>1, <1>2, <1>3, <1>4, Zenon

\* Behind a slash, a path ends where its rest does.
LEMMA LastOfRest ==
    ASSUME NEW R, NEW x \in R, NEW s \in Seq(R), NEW t \in Seq(R), t # <<>>
    PROVE  LET p == <<x>> \o s \o t IN p[Len(p)] = t[Len(t)]
  BY SlashFirst

\* A path under a clean prefix leads to it, and is no endpoint with these two
\* exceptions.
LEMMA RouteReached ==
    ASSUME NEW prefix \in Seq(STRING), CleanPrefix(prefix),
           NEW rest \in {<<>>, <<"/">>, <<"/", "login">>, <<"/", "x", "/">>}
    PROVE  LET p == <<"/">> \o prefix \o rest
           IN  /\ p \in Endpoints => rest \in {<<>>, <<"/", "login">>}
               /\ Prefix(p) = prefix
  <1> DEFINE Char == STRING \cup {"/", "x", "login"}
             p == <<"/">> \o prefix \o rest
  <1>1. "/" \in Char /\ "x" \in Char /\ "login" \in Char /\ STRING \subseteq Char
    BY Zenon
  <1> HIDE DEF Char
  <1>2. prefix \in Seq(Char)
    BY <1>1, Widen, Zenon
  <1>3. /\ rest \in Seq(Char) /\ (rest = <<>> \/ rest[1] = "/")
        /\ rest \notin {<<>>, <<"/", "login">>} => rest # <<>> /\ rest[Len(rest)] = "/"
    BY <1>1, Rests, Zenon
  <1>4. Prefix(p) = prefix
    BY <1>1, <1>2, <1>3, PrefixRoutes, Zenon
  <1>5. ASSUME rest # <<>> PROVE p[Len(p)] = rest[Len(rest)]
    <2>1. "/" \in Char /\ rest \in Seq(Char)
      BY <1>1, <1>3, Zenon
    <2>2. \A s, t \in Seq(Char) : t # <<>> =>
            LET q == <<"/">> \o s \o t IN q[Len(q)] = t[Len(t)]
      BY <2>1, LastOfRest
    <2> QED BY <1>2, <1>5, <2>1, <2>2, Zenon
  <1>6. p \in Endpoints => p[Len(p)] # "/"
    BY EndpointsEnd, Zenon
  <1> HIDE DEF p
  <1>7. p \in Endpoints => rest \in {<<>>, <<"/", "login">>}
    BY <1>3, <1>5, <1>6, Zenon
  <1> QED BY <1>4, <1>7, Zenon DEF p

\* A bounded set of naturals that is not empty has its maximum.
LEMMA MaxIn ==
    ASSUME NEW n \in Nat, NEW S \in SUBSET (0 .. n), S # {}
    PROVE  Max(S) \in S /\ \A y \in S : Max(S) >= y
  <1> DEFINE T == {n - x : x \in S}
  <1>1. T \in SUBSET Nat /\ T # {}
    <2>1. \A x \in S : n - x \in Nat
      OBVIOUS
    <2> QED BY <2>1, Zenon
  <1>2. PICK k \in T : \A m \in T : k <= m
    BY <1>1, LeastNat, Zenon
  <1>3. PICK x \in S : k = n - x
    BY <1>2
  <1>4. \A y \in S : x >= y
    BY <1>2, <1>3
  <1> QED BY <1>4, Zenon DEF Max

\* What validate leaves of an absolute URL is one, and ends in no slash.
LEMMA BaseUrl ==
    ASSUME NEW url \in Seq(STRING), AbsoluteUrl(url)
    PROVE  LET base == TrimEnd(url) IN AbsoluteUrl(base) /\ base[Len(base)] # "/"
  <1> DEFINE S == {0} \cup {i \in DOMAIN url : url[i] # "/"}
             m == Max(S)
             base == SubSeq(url, 1, m)
  <1>1. /\ Len(url) >= 4 /\ Len(url) \in Nat /\ DOMAIN url = 1 .. Len(url) /\ url[4] # "/"
        /\ url[1] \in {"http:", "https:"} /\ url[2] = "/" /\ url[3] = "/"
    BY DEF AbsoluteUrl, HttpUrl
  <1>2. S \in SUBSET (0 .. Len(url)) /\ 4 \in S
    BY <1>1
  <1>3. m \in S /\ m >= 4
    BY <1>1, <1>2, MaxIn, Zenon
  <1> HIDE DEF m
  <1>4. m \in 4 .. Len(url) /\ url[m] # "/"
    BY <1>1, <1>2, <1>3
  <1>5. TrimEnd(url) = base
    BY Zenon DEF TrimEnd, m
  <1>6. /\ Len(base) = m /\ base[m] = url[m]
        /\ base[1] = url[1] /\ base[2] = url[2] /\ base[3] = url[3] /\ base[4] = url[4]
    BY <1>1, <1>4
  <1>7. Len(base) >= 3 /\ Len(base) >= 4
    BY <1>4, <1>6
  <1> HIDE DEF base
  <1> QED BY <1>1, <1>4, <1>5, <1>6, <1>7, Zenon DEF AbsoluteUrl, HttpUrl

-------------------------------------------------------------------------------
(***************************************************************************)
(* Start-up.                                                               *)
(***************************************************************************)
\* What main has examined and built in each phase.
Started ==
    /\ file \in Files
    /\ phase \in Phases
    /\ phase = "config" => config = None
    /\ phase \in {"keys", "wiring", "serving"} => FromToml(file) = "Ok" /\ config = Parsed(file)
    /\ phase \in {"wiring", "serving"} =>
         \/ login /\ auth = [verifying_key |-> OwnKey, trusted_issuer |-> OwnIssuer]
         \/ ~login /\ auth = [verifying_key |-> IssuerKey, trusted_issuer |-> Issuer]
    /\ phase = "refused" =>
         \/ error = "Unreadable"
         \/ FromToml(file) = "Ok" /\ config = Parsed(file)
         \/ FromToml(file) # "Ok" /\ config = None

\* Only main changes what it has started with.
LEMMA ServingKeeps ==
    ASSUME [Next]_vars
    PROVE  LoadConfig \/ LoadKeys \/ Wire \/ UNCHANGED <<boot, file>>
  <1>1. ASSUME Login PROVE UNCHANGED <<boot, file>>
    BY <1>1, Zenon DEF Login
  <1>2. ASSUME NEW p \in Paths, Endpoint(p) PROVE UNCHANGED <<boot, file>>
    BY <1>2, Zenon DEF Endpoint
  <1>3. ASSUME NEW c \in Clients, NEW p \in Paths, NEW h \in Headers, Arrive(c, p, h)
        PROVE  UNCHANGED <<boot, file>>
    BY <1>3, Zenon DEF Arrive
  <1>4. ASSUME NEW c \in Clients, Limited(c) \/ Allowed(c) \/ Forwarded(c) \/ Disconnect(c)
        PROVE  UNCHANGED <<boot, file>>
    BY <1>4, Zenon DEF Limited, Allowed, Forwarded, Disconnect
  <1>5. ASSUME Tick PROVE UNCHANGED <<boot, file>>
    BY <1>5, Zenon DEF Tick
  <1>6. ASSUME UNCHANGED vars PROVE UNCHANGED <<boot, file>>
    BY <1>6, Zenon DEF vars
  <1> QED BY <1>1, <1>2, <1>3, <1>4, <1>5, <1>6, Zenon DEF Next

\* Started holds whatever main does, and nobody else touches it.
LEMMA StartedAlways == Spec => []Started
  <1>1. ASSUME Init PROVE Started
    BY <1>1 DEF Init, Started, Phases
  <1>2. ASSUME Started, [Next]_vars PROVE Started'
    <2>1. CASE LoadConfig
      <3>1. phase = "config" /\ config = None /\ file' = file /\ file \in Files
        BY <1>2, <2>1, Zenon DEF LoadConfig, Started, Refuse, serving
      <3>2. CASE Refuse("Unreadable")
        BY <3>1, <3>2, Zenon DEF Refuse, Started, Phases
      <3>3. CASE FromToml(file) # "Ok" /\ Refuse(FromToml(file))
        BY <3>1, <3>3, Zenon DEF Refuse, Started, Phases
      <3>4. CASE FromToml(file) = "Ok" /\ phase' = "keys" /\ config' = Parsed(file)
        BY <3>1, <3>4 DEF Started, Phases
      <3> QED BY <2>1, <3>2, <3>3, <3>4, Zenon DEF LoadConfig
    <2>2. CASE LoadKeys
      <3>1. /\ phase = "keys" /\ config' = config /\ file' = file /\ file \in Files
            /\ FromToml(file) = "Ok" /\ config = Parsed(file)
        BY <1>2, <2>2, Zenon DEF LoadKeys, Started, Refuse, serving
      <3>2. CASE Refuse("BadKeyMaterial")
        BY <3>1, <3>2 DEF Refuse, Started, Phases
      <3>3. CASE ~Refuse("BadKeyMaterial")
        <4>1. /\ phase' = "wiring"
              /\ \/ login' /\ auth' = [verifying_key |-> OwnKey, trusted_issuer |-> OwnIssuer]
                 \/ ~login' /\ auth' = [verifying_key |-> IssuerKey, trusted_issuer |-> Issuer]
          BY <2>2, <3>3, Zenon DEF LoadKeys
        <4> QED BY <3>1, <4>1 DEF Started, Phases
      <3> QED BY <3>2, <3>3
    <2>3. CASE Wire
      <3>1. /\ phase = "wiring" /\ config' = config /\ file' = file /\ file \in Files
            /\ auth' = auth /\ login' = login
            /\ FromToml(file) = "Ok" /\ config = Parsed(file)
            /\ \/ login /\ auth = [verifying_key |-> OwnKey, trusted_issuer |-> OwnIssuer]
               \/ ~login /\ auth = [verifying_key |-> IssuerKey, trusted_issuer |-> Issuer]
        BY <1>2, <2>3, Zenon DEF Wire, Started, Refuse, serving
      <3>2. phase' \in {"serving", "refused"}
        BY <2>3, Zenon DEF Wire, Refuse
      <3> QED BY <3>1, <3>2 DEF Started, Phases
    <2>4. CASE UNCHANGED <<boot, file>>
      BY <1>2, <2>4 DEF Started, boot
    <2> QED BY <1>2, <2>1, <2>2, <2>3, <2>4, ServingKeeps, Zenon
  <1> QED BY <1>1, <1>2, PTL DEF Spec

\* What a serving process knows of its configuration.
LEMMA Accepted ==
    ASSUME Started, phase = "serving"
    PROVE  /\ Parses(file) /\ Sound(config)
           /\ \A i \in DOMAIN config.routes :
                /\ config.routes[i].prefix \in Seq(STRING) /\ CleanPrefix(config.routes[i].prefix)
                /\ config.routes[i].backend \in Seq(STRING)
  <1> DEFINE Route == [prefix : Seq(STRING), backend : Seq(STRING)]
  <1>1. file \in File /\ FromToml(file) = "Ok" /\ config = Parsed(file)
    BY FilesAssumption, Zenon DEF Started
  <1>2. config.routes \in Seq(Route)
    BY <1>1, RoutesWritten, Zenon
  <1>3. Parses(file)
    <2>1. "Parse" # "Ok"
      OBVIOUS
    <2> QED BY <1>1, <2>1, Zenon DEF FromToml
  <1>4. Sound(config)
    <2>1. Validate(config) = "Ok"
      BY <1>1, <1>3, Zenon DEF FromToml
    <2> QED BY <1>2, <2>1, ValidateAccepts, Zenon
  <1>5. \A r \in Route : r.prefix \in Seq(STRING) /\ r.backend \in Seq(STRING)
    OBVIOUS
  <1> HIDE DEF Route
  <1>6. \A i \in DOMAIN config.routes : config.routes[i] \in Route
    BY <1>2
  <1> QED BY <1>3, <1>4, <1>5, <1>6, Zenon DEF Sound

\* What main refuses is refused for something written in the file, whatever
\* that leaves out, and what it accepts has nothing forbidden in it but backends
\* without a host: FromTomlAccepts, for the file that main has examined.
THEOREM RefusalsAreForWhatIsWritten == Spec => []RefusedForWhatIsWritten
  <1>1. ASSUME Started PROVE RefusedForWhatIsWritten
    <2> SUFFICES ASSUME Examined
                 PROVE  IF config = None
                          THEN \/ Wrong(file) \/ ExternalWithoutDir(file)
                               \/ \E r \in WrittenRoutes(file) : ~AbsoluteUrl(r.backend)
                          ELSE /\ ~Wrong(file) /\ ~ExternalWithoutDir(file)
                               /\ \A r \in WrittenRoutes(file) : HttpUrl(r.backend)
      BY Zenon DEF RefusedForWhatIsWritten
    <2>1. file \in File /\ Parsed(file) # None
      BY <1>1, FilesAssumption, NoneAssumption, Zenon DEF Started
    <2>2. FromToml(file) = "Ok" <=>
            /\ ~Wrong(file) /\ ~ExternalWithoutDir(file)
            /\ \A r \in WrittenRoutes(file) : AcceptedBackend(r.backend)
      BY <2>1, FromTomlAccepts, Zenon
    <2>3. \A r \in WrittenRoutes(file) : r.backend \in Seq(STRING)
      <3> DEFINE Route == [prefix : Seq(STRING), backend : Seq(STRING)]
                 rs == Parsed(file).routes
      <3>1. rs \in Seq(Route) /\ WrittenRoutes(file) = {rs[i] : i \in DOMAIN rs}
        BY <2>1, RoutesWritten, Zenon
      <3>2. \A r \in Route : r.backend \in Seq(STRING)
        OBVIOUS
      <3> HIDE DEF rs, Route
      <3>3. \A i \in DOMAIN rs : rs[i] \in Route
        BY <3>1
      <3> QED BY <3>1, <3>2, <3>3, Zenon
    <2>4. \A r \in WrittenRoutes(file) : /\ AcceptedBackend(r.backend) => HttpUrl(r.backend)
                                         /\ AbsoluteUrl(r.backend) => AcceptedBackend(r.backend)
      BY <2>3, AcceptedIsHttp, AbsoluteIsAccepted, Zenon
    <2>5. \/ FromToml(file) = "Ok" /\ config = Parsed(file)
          \/ FromToml(file) # "Ok" /\ config = None
      BY <1>1, Zenon DEF Started, Phases, Examined
    <2> QED BY <2>1, <2>2, <2>4, <2>5, Zenon
  <1> QED BY <1>1, StartedAlways, PTL

\* What main serves with has passed validate, so its key and its limits are
\* usable as they are, no endpoint hides a route, every other path under a
\* configured prefix leads to it, and trimming leaves the host of a backend.
THEOREM ServingIsAlwaysUsable == Spec => []ServingIsUsable
  <1>1. ASSUME Started PROVE ServingIsUsable
    <2> SUFFICES ASSUME phase = "serving"
                 PROVE  /\ auth # None
                        /\ login <=> auth.verifying_key = OwnKey
                        /\ {config.ratelimit.limit, config.ratelimit.window_secs} \subseteq Nat \ {0}
                        /\ \A key \in DOMAIN config.breaker : config.breaker[key] \in Nat \ {0}
                        /\ config.routes # <<>>
                        /\ \A i \in DOMAIN config.routes,
                              rest \in {<<>>, <<"/">>, <<"/", "login">>, <<"/", "x", "/">>} :
                             LET p == <<"/">> \o config.routes[i].prefix \o rest
                             IN  IF p \in Endpoints THEN rest \in {<<>>, <<"/", "login">>}
                                 ELSE Prefix(p) = config.routes[i].prefix
                        /\ \A i \in DOMAIN config.routes :
                             LET base == Backends(config)[config.routes[i].prefix]
                             IN  AbsoluteUrl(config.routes[i].backend) =>
                                   AbsoluteUrl(base) /\ base[Len(base)] # "/"
      BY Zenon DEF ServingIsUsable
    <2>1. /\ file \in File /\ config = Parsed(file)
          /\ \/ login /\ auth = [verifying_key |-> OwnKey, trusted_issuer |-> OwnIssuer]
             \/ ~login /\ auth = [verifying_key |-> IssuerKey, trusted_issuer |-> Issuer]
      BY <1>1, FilesAssumption, Zenon DEF Started
    <2>3. Parses(file) /\ Sound(config)
      BY <1>1, Accepted, Zenon
    <2>4. auth # None /\ (login <=> auth.verifying_key = OwnKey)
      <3>1. auth \in AuthStates
        BY <2>1 DEF AuthStates
      <3>2. auth # None
        BY <3>1, NoneAssumption, Zenon
      <3> QED BY <2>1, <3>2, GatewayAssumption
    <2>5. {config.ratelimit.limit, config.ratelimit.window_secs} \subseteq Nat \ {0}
      <3>1. file.ratelimit # Absent => file.ratelimit.redis_url # Absent
        BY <2>3, Zenon DEF Parses
      <3>2. config.ratelimit.limit \in Nat /\ config.ratelimit.window_secs \in Nat
        BY <2>1, <3>1, LimitsWritten, Zenon
      <3> QED BY <2>3, <3>2, Zenon DEF Sound
    <2>6. \A key \in DOMAIN config.breaker : config.breaker[key] \in Nat \ {0}
      <3>1. \A key \in DOMAIN config.breaker : config.breaker[key] \in Nat
        BY <2>1, BreakerWritten, Zenon
      <3> QED BY <2>3, <3>1, Zenon DEF Sound
    <2>7. \A i \in DOMAIN config.routes :
            /\ config.routes[i].prefix \in Seq(STRING) /\ CleanPrefix(config.routes[i].prefix)
            /\ config.routes[i].backend \in Seq(STRING)
      BY <1>1, Accepted, Zenon
    <2>8. ASSUME NEW i \in DOMAIN config.routes,
                 NEW rest \in {<<>>, <<"/">>, <<"/", "login">>, <<"/", "x", "/">>}
          PROVE  LET p == <<"/">> \o config.routes[i].prefix \o rest
                 IN  /\ p \in Endpoints => rest \in {<<>>, <<"/", "login">>}
                     /\ Prefix(p) = config.routes[i].prefix
      <3>1. config.routes[i].prefix \in Seq(STRING) /\ CleanPrefix(config.routes[i].prefix)
        BY <2>7, Zenon
      <3> QED BY <3>1, RouteReached, Zenon
    <2>9. ASSUME NEW i \in DOMAIN config.routes, AbsoluteUrl(config.routes[i].backend)
          PROVE  LET base == Backends(config)[config.routes[i].prefix]
                 IN  AbsoluteUrl(base) /\ base[Len(base)] # "/"
      <3> DEFINE rs == config.routes
                 at == CHOOSE j \in DOMAIN rs : rs[j].prefix = rs[i].prefix
      <3>1. Backends(config) = [q \in {rs[j].prefix : j \in DOMAIN rs} |->
                                  TrimEnd(rs[CHOOSE j \in DOMAIN rs : rs[j].prefix = q].backend)]
        BY Zenon DEF Backends
      <3>2. Backends(config)[rs[i].prefix] = TrimEnd(rs[at].backend)
        BY <3>1, Zenon
      <3>3. at \in DOMAIN rs /\ rs[at].prefix = rs[i].prefix
        BY Zenon
      <3>4. \A j, k \in DOMAIN rs : rs[j].prefix = rs[k].prefix => j = k
        <4>1. file \in Files /\ rs = Or(file.routes, <<>>)
          BY <1>1, <2>1, ParsedParts, Zenon DEF Started
        <4>2. rs # <<>>
          BY <2>3, Zenon DEF Sound
        <4>3. rs = file.routes
          BY <4>1, <4>2, Zenon DEF Or
        <4> QED BY <4>1, <4>3, RoutesAssumption, Zenon
      <3> HIDE DEF at
      <3>5. at = i
        BY <3>3, <3>4, Zenon
      <3> QED BY <2>7, <2>9, <3>2, <3>5, BaseUrl, Zenon
    <2> QED BY <2>3, <2>4, <2>5, <2>6, <2>8, <2>9, Zenon DEF Sound
  <1> QED BY <1>1, StartedAlways, PTL
==============================================================================
