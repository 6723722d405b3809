------------------------------ MODULE KeyStore ------------------------------
(***************************************************************************)
(* The signing key on the keys volume (core/src/auth.rs,                   *)
(* load_or_create_signing_key) and the tokens signed with it: gateway      *)
(* processes that boot, create the key on first boot, issue and verify     *)
(* tokens, crash anywhere and are started again.                           *)
(*                                                                         *)
(* std::fs::write is two steps, open-and-truncate and write: between them  *)
(* the file is there and empty, for other processes and after a crash.     *)
(***************************************************************************)
EXTENDS Token

CONSTANTS
    Gateways,   \* gateway processes that share the keys directory
    Keys,       \* Ed25519 keypairs; as many as first boots may generate
    Issuer,     \* OWN_ISSUER
    DemoUser,   \* the subject of every token
    Ttl,        \* auth.token_ttl_secs, in ticks
    MaxTime,    \* bound on the clock
    MaxCrashes, \* bound on the crashes
    Absent,     \* no such file
    Torn        \* the file exists and holds no valid PEM

ASSUME KeyStoreAssumption ==
    /\ Ttl \in Nat
    /\ MaxTime \in 0 .. U64Max
    /\ MaxCrashes \in Nat
    /\ {Absent, Torn, None} \cap Keys = {}
    /\ DemoUser # None

VARIABLES
    private,    \* signing_key.pem
    public,     \* signing_key.pub.pem
    pc,         \* per process: down, the steps of a first boot, running
    key,        \* per process: the key it holds in memory
    used,       \* keys generated so far
    tokens,     \* tokens issued
    clock,
    crashes,
    raced       \* history: two processes were creating the key together

files == <<private, public>>
vars == <<files, pc, key, used, tokens, clock, crashes, raced>>

\* What login makes with key k at a time.
Issued(k, now) == IssueToken(k, Issuer, DemoUser, now, Ttl)

Creating(g) == pc[g] \in {"generated", "truncated", "written", "publishing"}

TypeOK ==
    /\ {private, public} \subseteq Keys \cup {Absent, Torn}
    /\ pc \in [Gateways -> {"down", "generated", "truncated", "written", "publishing", "running"}]
    /\ key \in [Gateways -> Keys \cup {None}]
    /\ used \subseteq Keys
    /\ \A t \in tokens : \E k \in used, now \in 0 .. clock : t = Issued(k, now)
    /\ clock \in 0 .. MaxTime
    /\ crashes \in 0 .. MaxCrashes
    /\ raced \in BOOLEAN
    /\ \A g \in Gateways : pc[g] = "down" <=> key[g] = None

Init ==
    /\ private = Absent
    /\ public = Absent
    /\ pc = [g \in Gateways |-> "down"]
    /\ key = [g \in Gateways |-> None]
    /\ used = {}
    /\ tokens = {}
    /\ clock = 0
    /\ crashes = 0
    /\ raced = FALSE

-------------------------------------------------------------------------------
(***************************************************************************)
(* load_or_create_signing_key.                                             *)
(***************************************************************************)
\* Mutant: a boot that also insists on the public file.
LoadNeedsPublic(g) ==
    /\ pc[g] = "down"
    /\ private \in Keys
    /\ public \in Keys
    /\ pc' = [pc EXCEPT ![g] = "running"]
    /\ key' = [key EXCEPT ![g] = private]
    /\ UNCHANGED <<files, used, tokens, clock, crashes, raced>>

\* The file is read and parsed: the process serves with the key in it.
Load(g) ==
    /\ pc[g] = "down"
    /\ private \in Keys
    /\ pc' = [pc EXCEPT ![g] = "running"]
    /\ key' = [key EXCEPT ![g] = private]
    /\ UNCHANGED <<files, used, tokens, clock, crashes, raced>>

\* Mutant: a key is generated whether or not there is one.
GenerateAlways(g) ==
    /\ pc[g] = "down"
    /\ pc' = [pc EXCEPT ![g] = "generated"]
    /\ \E k \in Keys \ used :
         /\ key' = [key EXCEPT ![g] = k]
         /\ used' = used \cup {k}
    /\ raced' = (raced \/ \E h \in Gateways : Creating(h))
    /\ UNCHANGED <<files, tokens, clock, crashes>>

\* NotFound: generate a key, in memory for now.
Generate(g) ==
    /\ pc[g] = "down"
    /\ private = Absent
    /\ pc' = [pc EXCEPT ![g] = "generated"]
    /\ \E k \in Keys \ used :
         /\ key' = [key EXCEPT ![g] = k]
         /\ used' = used \cup {k}
    /\ raced' = (raced \/ \E h \in Gateways : Creating(h))
    /\ UNCHANGED <<files, tokens, clock, crashes>>

\* Anything else is BadKeyMaterial: main exits, and whatever starts the
\* process starts it again.
Refuse(g) ==
    /\ pc[g] = "down"
    /\ private = Torn
    /\ UNCHANGED vars

\* A process goes from one step of the first boot to the next.
Step(g, from, to) ==
    /\ pc[g] = from
    /\ pc' = [pc EXCEPT ![g] = to]
    /\ UNCHANGED <<key, used, tokens, clock, crashes, raced>>

\* Mutant: the public file is written first.
OpenPrivateAfterPublic(g) ==
    /\ Step(g, "generated", "truncated")
    /\ private' = Torn
    /\ public' = key[g]

\* create_dir_all, then open the private file: created, or truncated.
OpenPrivate(g) ==
    /\ Step(g, "generated", "truncated")
    /\ private' = Torn
    /\ UNCHANGED public

WritePrivate(g) ==
    /\ Step(g, "truncated", "written")
    /\ private' = key[g]
    /\ UNCHANGED public

OpenPublic(g) ==
    /\ Step(g, "written", "publishing")
    /\ public' = Torn
    /\ UNCHANGED private

WritePublic(g) ==
    /\ Step(g, "publishing", "running")
    /\ public' = key[g]
    /\ UNCHANGED private

\* The process dies: killed, or exiting on a failed write of the first boot.
Crash(g) ==
    /\ pc[g] # "down"
    /\ crashes < MaxCrashes
    /\ crashes' = crashes + 1
    /\ pc' = [pc EXCEPT ![g] = "down"]
    /\ key' = [key EXCEPT ![g] = None]
    /\ UNCHANGED <<files, used, tokens, clock, raced>>

-------------------------------------------------------------------------------
(***************************************************************************)
(* Tokens.                                                                 *)
(***************************************************************************)
\* Mutant: the token is dated one lifetime ahead.
LoginAhead(g) ==
    /\ pc[g] = "running"
    /\ tokens' = tokens \cup {Issued(key[g], clock + Ttl)}
    /\ UNCHANGED <<files, pc, key, used, clock, crashes, raced>>

\* POST /auth/login with the demo credentials.
Login(g) ==
    /\ pc[g] = "running"
    /\ tokens' = tokens \cup {Issued(key[g], clock)}
    /\ UNCHANGED <<files, pc, key, used, clock, crashes, raced>>

\* check_bearer, on a request that carries t.
Verifies(g, t) == VerifyToken(key[g], t, Issuer, clock) = "Ok"

Tick ==
    /\ clock < MaxTime
    /\ clock' = clock + 1
    /\ UNCHANGED <<files, pc, key, used, tokens, crashes, raced>>

Boot(g) ==
    \/ Load(g) \/ Generate(g) \/ Refuse(g)
    \/ OpenPrivate(g) \/ WritePrivate(g) \/ OpenPublic(g) \/ WritePublic(g)

Next ==
    \/ \E g \in Gateways : Boot(g) \/ Crash(g) \/ Login(g)
    \/ Tick

Spec == Init /\ [][Next]_vars

\* A process that is down is started again (the orchestrator), and one that
\* boots goes on.
FairSpec == Spec /\ \A g \in Gateways : WF_vars(Boot(g))

-------------------------------------------------------------------------------
(***************************************************************************)
(* Safety.                                                                 *)
(***************************************************************************)
\* "Restarting reuses the same keys, so issued tokens survive restarts": unless
\* two processes created the key at the same time, every process that serves
\* accepts every token for exactly its lifetime, whoever issued it, before
\* however many crashes, wherever they happened - up to the last second that
\* 64 bits can hold, where the expiry saturates.
TokensSurviveRestarts ==
    (~raced /\ clock < U64Max) =>
        \A g \in Gateways, t \in tokens :
            pc[g] = "running" => (Verifies(g, t) <=> clock < t.claims.iat + Ttl)

\* The public key file is never wrong, only missing or torn: a complete one
\* belongs to the private key on disk, unless the key was created by two
\* processes at once.
PublicFileNeverLies == ~raced => (public \in Keys => public = private)

\* A key that has signed a token is never lost from the disk without a race:
\* a step that overwrites the private file finds it empty or absent.
KeyNeverOverwritten == [][(private \in Keys /\ private' # private) => raced]_vars

-------------------------------------------------------------------------------
(***************************************************************************)
(* Liveness.                                                               *)
(***************************************************************************)
\* Once crashes stop every process ends up serving, for good - unless a crash
\* during the first boot left a torn private file, which nothing repairs.
EventuallyServing ==
    \/ <>[](\A g \in Gateways : pc[g] = "running")
    \/ <>[](private = Torn)
==============================================================================
