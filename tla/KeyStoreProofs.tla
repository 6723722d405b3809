--------------------------- MODULE KeyStoreProofs ----------------------------
(***************************************************************************)
(* Proofs about KeyStore, for any number of processes, keys, crashes, and  *)
(* any lifetime.                                                           *)
(***************************************************************************)
EXTENDS KeyStore, TLAPS

Stages == {"down", "generated", "truncated", "written", "publishing", "running"}

\* The inductive part of the type invariant: keys in use have been generated.
KeysGenerated ==
    /\ \A g \in Gateways : key[g] # None => key[g] \in used
    /\ private \in Keys => private \in used

(***************************************************************************)
(* Without a race there is at most one creator, and what it has done so    *)
(* far decides what the private file is; from then on the private file is  *)
(* the key of everyone and of every token.                                 *)
(***************************************************************************)
OneKey ==
    /\ \A g, h \in Gateways : Creating(g) /\ Creating(h) => g = h
    /\ \A g \in Gateways :
         /\ pc[g] = "generated" => private = Absent
         /\ pc[g] = "truncated" => private = Torn
         /\ pc[g] \in {"written", "publishing", "running"} => private \in Keys /\ key[g] = private
    /\ \A t \in tokens : t.signer \in Keys /\ t.signer = private
    /\ public \in Keys => public = private

IInv == TypeOK /\ KeysGenerated /\ (~raced => OneKey)

\* What login issues carries the key that signed it and the time of issue.
LEMMA IssuedToken ==
    ASSUME NEW k, NEW now
    PROVE  /\ Issued(k, now).signer = k
           /\ Issued(k, now).claims.iat = now
           /\ Issued(k, now).claims.exp = SaturatingAdd(now, Ttl)
  BY DEF Issued, IssueToken

\* Before the last representable second a token that login issued verifies
\* under its key for exactly its lifetime: the saturated expiry is never early.
LEMMA LifetimeIsExact ==
    ASSUME NEW k \in Keys, NEW now \in Nat, NEW time \in Nat, time < U64Max
    PROVE  VerifyToken(k, Issued(k, now), Issuer, time) = "Ok" <=> time < now + Ttl
  <1> DEFINE t == Issued(k, now)
  <1>1. /\ t.shape /\ t.alg = "EdDSA" /\ t.signer = k /\ t.json
        /\ t.claims.iss = Issuer /\ t.claims.sub = DemoUser
        /\ t.claims.exp = SaturatingAdd(now, Ttl)
    BY DEF Issued, IssueToken
  <1>2. /\ SaturatingAdd(now, Ttl) \in Nat
        /\ time < SaturatingAdd(now, Ttl) <=> time < now + Ttl
    BY TokenAssumption, KeyStoreAssumption DEF SaturatingAdd
  <1>3. t.claims.exp # None /\ t.claims.sub # None
    BY <1>1, <1>2, TokenAssumption, KeyStoreAssumption
  <1> HIDE DEF t
  <1>4. VerifyToken(k, t, Issuer, time) = IF time >= t.claims.exp THEN "Expired" ELSE "Ok"
    BY <1>1, <1>3 DEF VerifyToken
  <1>5. VerifyToken(k, t, Issuer, time) = "Ok" <=> time < now + Ttl
    BY <1>1, <1>2, <1>4
  <1> QED BY <1>5 DEF t

-------------------------------------------------------------------------------
\* Before the first start there is nothing on the volume to disagree.
LEMMA InitInv == Init => IInv
  <1> SUFFICES ASSUME Init PROVE IInv
    OBVIOUS
  <1> USE KeyStoreAssumption, TokenAssumption
  <1>1. TypeOK
    <2>1. clock \in 0 .. MaxTime /\ crashes \in 0 .. MaxCrashes
      BY DEF Init
    <2>2. /\ pc \in [Gateways -> Stages]
          /\ key \in [Gateways -> Keys \cup {None}]
          /\ \A g \in Gateways : pc[g] = "down" <=> key[g] = None
      BY DEF Init, Stages
    <2>3. raced \in BOOLEAN
      BY DEF Init
    <2> QED BY <2>1, <2>2, <2>3 DEF Init, TypeOK, Stages
  <1>2. KeysGenerated
    BY DEF Init, KeysGenerated
  <1>3. OneKey
    BY DEF Init, OneKey, Creating
  <1> QED BY <1>1, <1>2, <1>3 DEF IInv

\* Steps of one process keep the type invariant.
LEMMA NextType == IInv /\ [Next]_vars => TypeOK' /\ KeysGenerated'
  <1> SUFFICES ASSUME IInv, [Next]_vars PROVE TypeOK' /\ KeysGenerated'
    OBVIOUS
  <1> USE KeyStoreAssumption, TokenAssumption
  <1>1. TypeOK /\ KeysGenerated
    BY DEF IInv
  <1>2. CASE Next
    <2>1. ASSUME NEW g \in Gateways, Load(g) PROVE TypeOK' /\ KeysGenerated'
      BY <1>1, <2>1 DEF Load, files, TypeOK, KeysGenerated
    <2>2. ASSUME NEW g \in Gateways, Generate(g) PROVE TypeOK' /\ KeysGenerated'
      BY <1>1, <2>2 DEF Generate, files, TypeOK, KeysGenerated
    <2>3. ASSUME NEW g \in Gateways, Refuse(g) PROVE TypeOK' /\ KeysGenerated'
      BY <1>1, <2>3 DEF Refuse, vars, files, TypeOK, KeysGenerated
    <2>4. ASSUME NEW g \in Gateways, OpenPrivate(g) PROVE TypeOK' /\ KeysGenerated'
      BY <1>1, <2>4 DEF OpenPrivate, Step, TypeOK, KeysGenerated
    <2>5. ASSUME NEW g \in Gateways, WritePrivate(g) PROVE TypeOK' /\ KeysGenerated'
      BY <1>1, <2>5 DEF WritePrivate, Step, TypeOK, KeysGenerated
    <2>6. ASSUME NEW g \in Gateways, OpenPublic(g) PROVE TypeOK' /\ KeysGenerated'
      BY <1>1, <2>6 DEF OpenPublic, Step, TypeOK, KeysGenerated
    <2>7. ASSUME NEW g \in Gateways, WritePublic(g) PROVE TypeOK' /\ KeysGenerated'
      BY <1>1, <2>7 DEF WritePublic, Step, TypeOK, KeysGenerated
    <2>8. ASSUME NEW g \in Gateways, Crash(g) PROVE TypeOK' /\ KeysGenerated'
      BY <1>1, <2>8 DEF Crash, files, TypeOK, KeysGenerated
    <2>9. ASSUME NEW g \in Gateways, Login(g) PROVE TypeOK' /\ KeysGenerated'
      <3>1. key[g] \in used
        BY <1>1, <2>9 DEF Login, TypeOK, KeysGenerated
      <3>2. clock \in 0 .. clock
        BY <1>1 DEF TypeOK
      <3> QED BY <1>1, <2>9, <3>1, <3>2 DEF Login, files, TypeOK, KeysGenerated
    <2>10. CASE Tick
      <3>1. \A now \in 0 .. clock : now \in 0 .. clock'
        BY <1>1, <2>10 DEF Tick, TypeOK
      <3>2. clock' \in 0 .. MaxTime
        BY <1>1, <2>10 DEF Tick, TypeOK
      <3> QED BY <1>1, <2>10, <3>1, <3>2 DEF Tick, files, TypeOK, KeysGenerated
    <2> QED BY <1>2, <2>1, <2>2, <2>3, <2>4, <2>5, <2>6, <2>7, <2>8, <2>9, <2>10 DEF Next, Boot
  <1>3. CASE UNCHANGED vars
    BY <1>1, <1>3 DEF vars, files, TypeOK, KeysGenerated
  <1> QED BY <1>2, <1>3

\* Steps of one process keep the private file the only key there is.
LEMMA NextOneKey == IInv /\ [Next]_vars /\ ~raced' => OneKey'
  <1> SUFFICES ASSUME IInv, [Next]_vars, ~raced' PROVE OneKey'
    OBVIOUS
  <1> USE KeyStoreAssumption, TokenAssumption
  <1>1. TypeOK /\ KeysGenerated
    BY DEF IInv
  <1>2. CASE Next
    <2>0. ~raced
      BY <1>1, <1>2 DEF Next, Boot, Load, Generate, Refuse, OpenPrivate, WritePrivate, OpenPublic,
            WritePublic, Step, Crash, Login, Tick, vars, TypeOK
    <2>00. OneKey
      BY <2>0 DEF IInv
    <2>1. ASSUME NEW g \in Gateways, Load(g) PROVE OneKey'
      BY <1>1, <2>00, <2>1 DEF Load, files, TypeOK, OneKey, Creating
    <2>2. ASSUME NEW g \in Gateways, Generate(g) PROVE OneKey'
      <3>1. \A h \in Gateways : ~Creating(h)
        BY <2>2 DEF Generate
      <3> QED BY <1>1, <2>00, <2>2, <3>1 DEF Generate, files, TypeOK, OneKey, Creating
    <2>3. ASSUME NEW g \in Gateways, Refuse(g) PROVE OneKey'
      BY <2>00, <2>3 DEF Refuse, vars, files, OneKey, Creating
    <2>4. ASSUME NEW g \in Gateways, OpenPrivate(g) PROVE OneKey'
      BY <1>1, <2>00, <2>4 DEF OpenPrivate, Step, TypeOK, OneKey, Creating
    <2>5. ASSUME NEW g \in Gateways, WritePrivate(g) PROVE OneKey'
      BY <1>1, <2>00, <2>5 DEF WritePrivate, Step, TypeOK, OneKey, Creating
    <2>6. ASSUME NEW g \in Gateways, OpenPublic(g) PROVE OneKey'
      BY <1>1, <2>00, <2>6 DEF OpenPublic, Step, TypeOK, OneKey, Creating
    <2>7. ASSUME NEW g \in Gateways, WritePublic(g) PROVE OneKey'
      BY <1>1, <2>00, <2>7 DEF WritePublic, Step, TypeOK, OneKey, Creating
    <2>8. ASSUME NEW g \in Gateways, Crash(g) PROVE OneKey'
      BY <1>1, <2>00, <2>8 DEF Crash, files, TypeOK, OneKey, Creating
    <2>9. ASSUME NEW g \in Gateways, Login(g) PROVE OneKey'
      <3>1. Issued(key[g], clock).signer = private /\ private \in Keys
        BY <2>00, <2>9, IssuedToken DEF Login, OneKey
      <3> QED BY <2>00, <2>9, <3>1 DEF Login, files, OneKey, Creating
    <2>10. CASE Tick
      BY <2>00, <2>10 DEF Tick, files, OneKey, Creating
    <2> QED BY <1>2, <2>1, <2>2, <2>3, <2>4, <2>5, <2>6, <2>7, <2>8, <2>9, <2>10 DEF Next, Boot
  <1>3. CASE UNCHANGED vars
    BY <1>3 DEF vars, files, IInv, OneKey, Creating
  <1> QED BY <1>2, <1>3

\* IInv holds whatever starts, crashes and restarts there are.
LEMMA Invariance == Spec => []IInv
  <1>1. IInv /\ [Next]_vars => IInv'
    BY NextType, NextOneKey DEF IInv
  <1> QED BY InitInv, <1>1, PTL DEF Spec

-------------------------------------------------------------------------------
\* Every reachable state is well typed, and every token was issued with a key
\* that some first boot generated and at a time that has come.
THEOREM TypeCorrect == Spec => []TypeOK
  <1>1. IInv => TypeOK
    BY DEF IInv
  <1> QED BY <1>1, Invariance, PTL

\* load_or_create_signing_key and verify_token: without a race on the first
\* boot, every serving process accepts every issued token for exactly its
\* lifetime, across crashes and restarts.
THEOREM TokensAlwaysSurvive == Spec => []TokensSurviveRestarts
  <1>1. IInv => TokensSurviveRestarts
    <2> SUFFICES ASSUME IInv, ~raced, clock < U64Max,
                        NEW g \in Gateways, NEW t \in tokens, pc[g] = "running"
                 PROVE  Verifies(g, t) <=> clock < t.claims.iat + Ttl
      BY DEF TokensSurviveRestarts
    <2>1. PICK k \in used, now \in 0 .. clock : t = Issued(k, now)
      BY DEF IInv, TypeOK
    <2>2. k \in Keys /\ now \in Nat /\ clock \in Nat
      BY <2>1 DEF IInv, TypeOK
    <2>3. key[g] = k
      BY <2>1, IssuedToken DEF IInv, OneKey
    <2>4. t.claims.iat = now
      BY <2>1, IssuedToken
    <2> QED BY <2>1, <2>2, <2>3, <2>4, LifetimeIsExact DEF Verifies
  <1> QED BY <1>1, Invariance, PTL

\* A complete public key file belongs to the private key on disk, wherever the
\* first boot crashed.
THEOREM PublicFileIsRight == Spec => []PublicFileNeverLies
  <1>1. IInv => PublicFileNeverLies
    BY DEF IInv, OneKey, PublicFileNeverLies
  <1> QED BY <1>1, Invariance, PTL

\* Without a race no step of any process overwrites a complete private key.
THEOREM KeyIsKept == Spec => KeyNeverOverwritten
  <1>1. IInv /\ [Next]_vars => [(private \in Keys /\ private' # private) => raced]_vars
    <2> SUFFICES ASSUME IInv, Next, private \in Keys, private' # private, ~raced
                 PROVE  FALSE
      BY DEF vars
    <2>1. PICK g \in Gateways : OpenPrivate(g) \/ WritePrivate(g)
      BY DEF Next, Boot, Load, Generate, Refuse, OpenPublic, WritePublic, Crash, Login, Tick,
             vars, files
    <2> QED BY <2>1, KeyStoreAssumption DEF IInv, OneKey, OpenPrivate, WritePrivate, Step
  <1> QED BY <1>1, Invariance, PTL DEF Spec, KeyNeverOverwritten
==============================================================================
