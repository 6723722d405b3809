-------------------------------- MODULE Token --------------------------------
(***************************************************************************)
(* Bearer tokens (core/src/auth.rs, middleware_auth.rs) as operators.  A   *)
(* token is what verify_token takes it apart into: is it three non-empty   *)
(* segments, the algorithm its header declares, the key whose signature it *)
(* carries, are the claims JSON, and the claims.  None stands for what is  *)
(* missing, has the wrong type or, for a signature, is no key's.           *)
(***************************************************************************)
EXTENDS Integers

CONSTANTS
    U64Max,     \* u64::MAX
    None        \* Option::None

ASSUME TokenAssumption == U64Max \in Nat \ {0} /\ None \notin Nat

\* Mutant: the sum wraps.
SaturatingAddWraps(a, b) == (a + b) % (U64Max + 1)

\* u64::saturating_add
SaturatingAdd(a, b) == IF a + b > U64Max THEN U64Max ELSE a + b

\* issue_token
IssueToken(key, issuer, subject, now, ttl) ==
    [shape  |-> TRUE,
     alg    |-> "EdDSA",
     signer |-> key,
     json   |-> TRUE,
     claims |-> [sub |-> subject, iss |-> issuer, iat |-> now,
                 exp |-> SaturatingAdd(now, ttl)]]

\* Mutant: the issuer is not looked at.
VerifyTokenAnyIssuer(key, t, issuer, now) ==
    IF ~t.shape THEN "MalformedToken"
    ELSE IF t.alg # "EdDSA" THEN "BadHeader"
    ELSE IF t.signer # key THEN "BadSignature"
    ELSE IF ~t.json \/ t.claims.exp = None THEN "BadClaims"
    ELSE IF now >= t.claims.exp THEN "Expired"
    ELSE IF t.claims.sub = None THEN "BadClaims"
    ELSE "Ok"

\* verify_token: the AuthError of the first check that fails, or "Ok".
VerifyToken(key, t, issuer, now) ==
    IF ~t.shape THEN "MalformedToken"
    ELSE IF t.alg # "EdDSA" THEN "BadHeader"
    ELSE IF t.signer # key THEN "BadSignature"
    ELSE IF ~t.json THEN "BadClaims"
    ELSE IF issuer # None /\ t.claims.iss # issuer THEN "WrongIssuer"
    ELSE IF t.claims.exp = None THEN "BadClaims"
    ELSE IF now >= t.claims.exp THEN "Expired"
    ELSE IF t.claims.sub = None THEN "BadClaims"
    ELSE "Ok"

\* bearer_token, on an Authorization header that is absent (or not text), or a
\* scheme ("Bearer " to the letter, or anything else) and the words after it.
BearerToken(header) ==
    IF header = None THEN None
    ELSE IF header.scheme = "Bearer " /\ DOMAIN header.words = {1} THEN header.words[1]
    ELSE None

\* check_bearer: the verified subject, or None for a 401.
CheckBearer(auth, header, now) ==
    LET t == BearerToken(header)
    IN  IF t = None THEN None
        ELSE IF VerifyToken(auth.verifying_key, t, auth.trusted_issuer, now) # "Ok" THEN None
        ELSE t.claims.sub
==============================================================================
