------------------------------- MODULE Gateway -------------------------------
(***************************************************************************)
(* The gateway process as a whole: main (gateway/src/main.rs) reads its    *)
(* configuration, loads key material, wires the parts together and serves; *)
(* requests then pass the request-id middleware, the bearer gate, the rate *)
(* limiter, routing and the breaker of their route (router.rs,             *)
(* proxy_fallback), and POST /auth/login issues tokens.                    *)
(*                                                                         *)
(* The parts appear through what they promise each other.  RateLimiter has *)
(* the inside of decide: here it counts a key up within one window, or     *)
(* fails open.  Forward has the inside of forward: here a request is       *)
(* refused by the breaker, or is at the backend until it is answered.      *)
(***************************************************************************)
EXTENDS Config, Token, Functions

CONSTANTS
    Files,          \* the configuration files a process may find
    Clients,        \* connections
    Paths,          \* request paths
    Foreign,        \* tokens and non-tokens that this gateway did not issue
    Vouched,        \* those of them that the external issuer stands by
    OwnKey,         \* the key on the keys volume
    IssuerKey,      \* the external issuer's key
    OwnIssuer,      \* "ratewall"
    Issuer,         \* auth.issuer
    DemoUser,       \* the subject that login issues tokens for
    Others,         \* the external issuer's subjects
    MaxTime,        \* bound on the clock
    MaxRequests     \* bound on the requests

Subjects == Others \cup {DemoUser, None}

\* What login hands out.
OwnTokens ==
    [shape : {TRUE}, alg : {"EdDSA"}, signer : {OwnKey}, json : {TRUE},
     claims : [sub : {DemoUser}, iss : {OwnIssuer}, iat : 0 .. MaxTime, exp : 0 .. U64Max]]

ASSUME GatewayAssumption ==
    /\ MaxTime \in 0 .. U64Max
    /\ MaxRequests \in Nat
    /\ IsFiniteSet(Clients)
    /\ None \notin {DemoUser, OwnIssuer, Issuer}
    /\ OwnKey # IssuerKey

\* MaxRequests bounds a sum over the subjects.
ASSUME OthersAssumption == IsFiniteSet(Others)

\* AuthState
AuthStates == [verifying_key : {OwnKey, IssuerKey}, trusted_issuer : {OwnIssuer, Issuer}]

\* None is neither a token nor a header, a configuration, an AuthState or a path.
ASSUME NoneAssumption ==
    /\ None \notin OwnTokens \cup {[scheme |-> "Bearer ", words |-> <<t>>] : t \in OwnTokens}
    /\ None \notin {Parsed(f) : f \in Files} \cup AuthStates \cup Paths

\* A path is text.
ASSUME PathsAssumption == Paths \subseteq Seq(STRING)

\* token_ttl_secs is a u64.
ASSUME FilesAssumption ==
    \A f \in Files :
        /\ f \in File
        /\ f.auth # Absent => f.auth.token_ttl_secs \in {Absent} \cup 0 .. U64Max

\* [routes] is a table: no prefix has two backends.
ASSUME RoutesAssumption ==
    \A f \in Files : \A i, j \in DOMAIN Or(f.routes, <<>>) :
        f.routes[i].prefix = f.routes[j].prefix => i = j

\* Only this gateway signs with its key.  The external issuer stands by every
\* complete token that it has signed under its name.
ASSUME ForeignAssumption ==
    \A t \in Foreign :
        /\ t.claims.sub \in Others \cup {None}
        /\ t.claims.exp \in {None} \cup 0 .. U64Max
        /\ t.signer # OwnKey
        /\ (/\ t.shape /\ t.alg = "EdDSA" /\ t.signer = IssuerKey /\ t.json
            /\ t.claims.iss = Issuer /\ t.claims.exp # None /\ t.claims.sub # None) => t \in Vouched

VARIABLES
    phase,      \* main: "config", "keys", "wiring", "serving" or "refused"
    file,       \* the file on disk
    config,     \* the parsed configuration
    error,      \* why main refused to start
    auth,       \* AuthState: verifying_key and trusted_issuer
    login,      \* the login router is mounted
    clock,      \* unix_now
    issued,     \* tokens handed out by login
    count,      \* Redis: the counter of each limit key in this window
    labels,     \* 429s: the path, and the prefix that counted it
    pc, path, token, subject,   \* per client: the request it waits for
    arrived,    \* history, per client: the time when it passed the gate
    verified,   \* history, per subject: requests that the gate let through
    logins,     \* history: tokens requested and handed out
    refused,    \* history: subjects that were sent a 429
    logged,     \* per subject: "request complete" lines
    left        \* history, per subject: clients that did not wait

boot == <<phase, config, error, auth, login>>
request == <<pc, path, token, subject, arrived>>
audit == <<verified, logins, logged, left>>
vars == <<boot, file, clock, issued, count, labels, refused, request, audit>>

Phases == {"config", "keys", "wiring", "serving", "refused"}

TypeOK ==
    /\ phase \in Phases
    /\ file \in Files
    /\ config \in {None, Parsed(file)}
    /\ auth \in {None} \cup AuthStates
    /\ login \in BOOLEAN
    /\ clock \in 0 .. MaxTime
    /\ issued \subseteq OwnTokens
    /\ \A k \in DOMAIN count : count[k] \in 0 .. MaxRequests
    /\ \A c \in Clients :
         /\ pc[c] \in {"idle", "deciding", "forwarding"}
         /\ path[c] \in Paths \cup {None}
         /\ subject[c] \in Subjects
         /\ arrived[c] \in 0 .. MaxTime
         /\ pc[c] = "idle" <=> path[c] = None
    /\ logins \in 0 .. MaxRequests
    /\ refused \subseteq Subjects
    /\ {verified, logged, left} \subseteq [Subjects -> 0 .. MaxRequests]

Init ==
    /\ phase = "config"
    /\ file \in Files
    /\ config = None
    /\ error = "none"
    /\ auth = None
    /\ login = FALSE
    /\ clock = 0
    /\ issued = {}
    /\ count = [k \in {<<"ip", None>>} \cup ({"sub"} \X (Subjects \ {None})) |-> 0]
    /\ labels = {}
    /\ pc = [c \in Clients |-> "idle"]
    /\ path = [c \in Clients |-> None]
    /\ token = [c \in Clients |-> None]
    /\ subject = [c \in Clients |-> None]
    /\ arrived = [c \in Clients |-> 0]
    /\ verified = [s \in Subjects |-> 0]
    /\ logins = 0
    /\ refused = {}
    /\ logged = [s \in Subjects |-> 0]
    /\ left = [s \in Subjects |-> 0]

-------------------------------------------------------------------------------
(***************************************************************************)
(* main.                                                                   *)
(***************************************************************************)
serving == <<file, clock, issued, count, labels, refused, request, audit>>

\* exit(1), or a panic, with the reason.
Refuse(why) ==
    /\ phase' = "refused"
    /\ error' = why
    /\ UNCHANGED <<config, auth, login, serving>>

\* The file is read, parsed and validated.  It may also be unreadable.
LoadConfig ==
    /\ phase = "config"
    /\ \/ Refuse("Unreadable")
       \/ FromToml(file) # "Ok" /\ Refuse(FromToml(file))
       \/ /\ FromToml(file) = "Ok"
          /\ phase' = "keys"
          /\ config' = Parsed(file)
          /\ UNCHANGED <<error, auth, login, serving>>

\* Key material: the own signing key (KeyStore), or the issuer's public key.
\* Any error ends the process.
LoadKeys ==
    /\ phase = "keys"
    /\ \/ Refuse("BadKeyMaterial")
       \/ /\ auth' = IF IssuesOwnTokens(config.auth)
                       THEN [verifying_key |-> OwnKey, trusted_issuer |-> OwnIssuer]
                       ELSE [verifying_key |-> IssuerKey, trusted_issuer |-> Issuer]
          /\ login' = IssuesOwnTokens(config.auth)
          /\ phase' = "wiring"
          /\ UNCHANGED <<config, error, serving>>

\* RateLimiter::connect only fails on a URL that is none; binding the port may
\* fail.  Then the routes, breakers and endpoints are there.
Wire ==
    /\ phase = "wiring"
    /\ \/ config.ratelimit.redis_url # "redis://" /\ Refuse("InvalidRedisUrl")
       \/ config.ratelimit.redis_url = "redis://" /\ Refuse("PortTaken")
       \/ /\ config.ratelimit.redis_url = "redis://"
          /\ phase' = "serving"
          /\ UNCHANGED <<config, error, auth, login, serving>>

-------------------------------------------------------------------------------
(***************************************************************************)
(* Requests.                                                               *)
(***************************************************************************)
\* Mutant: the subject is not recorded on the span.
CompleteAnonymously(s) == logged' = [logged EXCEPT ![None] = @ + 1]

\* request_id_and_trace, on the way out: the line "request complete", with the
\* subject that record_subject left on the span.
Complete(s) == logged' = [logged EXCEPT ![s] = @ + 1]

\* The connection is free for another request.
Done(c) ==
    /\ pc' = [pc EXCEPT ![c] = "idle"]
    /\ path' = [path EXCEPT ![c] = None]
    /\ token' = [token EXCEPT ![c] = None]
    /\ subject' = [subject EXCEPT ![c] = None]
    /\ arrived' = [arrived EXCEPT ![c] = 0]

Waiting(s) == Cardinality({c \in Clients : pc[c] # "idle" /\ subject[c] = s})

\* The requests that came in, per subject.
Load == [s \in Subjects |-> Waiting(s) + logged[s] + left[s]]

\* Another request may come in.
Listening ==
    /\ phase = "serving"
    /\ SumFunctionOnSet(Load, Subjects) < MaxRequests

\* build_router and main: paths with a handler of their own.
Endpoints ==
    {<<"/", name>> : name \in {"healthz", "readyz", "metrics"}}
        \cup {<<"/", "auth", "/", "login">> : x \in {login} \cap {TRUE}}

\* healthz, readyz and metrics_endpoint ask for no token.  What the last two
\* read is in Readiness and Metrics.
Endpoint(p) ==
    /\ Listening
    /\ p \in Endpoints
    /\ Complete(None)
    /\ UNCHANGED <<boot, file, clock, issued, count, labels, refused, request,
                   verified, logins, left>>

\* What a client may send in the Authorization header: nothing, the right
\* scheme or another, and no token, one, or two.
Headers ==
    LET tokens == issued \cup Foreign
    IN  {None} \cup [scheme : {"Bearer ", "bearer "}, words : {<<t>> : t \in tokens}]
               \cup [scheme : {"Bearer "}, words : {<<>>} \cup {<<t, t>> : t \in tokens}]

\* POST /auth/login: a 401, or a token for the demo user.
Login ==
    /\ Listening
    /\ login
    /\ \/ Complete(None) /\ UNCHANGED <<issued, logins>>
       \/ /\ issued' = issued \cup {IssueToken(OwnKey, OwnIssuer, DemoUser, clock,
                                               config.auth.token_ttl_secs)}
          /\ logins' = logins + 1
          /\ Complete(DemoUser)
    /\ UNCHANGED <<boot, file, clock, count, labels, refused, request, verified, left>>

\* A request for the fallback: a 401, or on to the limiter.
Arrive(c, p, h) ==
    LET s == CheckBearer(auth, h, clock)
    IN  /\ Listening
        /\ pc[c] = "idle"
        /\ p \notin Endpoints
        /\ IF s = None
             THEN Complete(None) /\ UNCHANGED <<request, verified>>
             ELSE /\ pc' = [pc EXCEPT ![c] = "deciding"]
                  /\ path' = [path EXCEPT ![c] = p]
                  /\ token' = [token EXCEPT ![c] = BearerToken(h)]
                  /\ subject' = [subject EXCEPT ![c] = s]
                  /\ arrived' = [arrived EXCEPT ![c] = clock]
                  /\ verified' = [verified EXCEPT ![s] = @ + 1]
                  /\ UNCHANGED logged
        /\ UNCHANGED <<boot, file, clock, issued, count, labels, refused, logins, left>>

\* Mutant: everybody shares the key of the unauthenticated.
LimitKeyUnkeyed(s) == <<"ip", None>>

\* limit_key(subject, "unkeyed")
LimitKey(s) == IF s = None THEN <<"ip", None>> ELSE <<"sub", s>>

\* Mutant: a refusal is counted once more.
LimitedTwice(c) ==
    LET key == LimitKey(subject[c])
    IN  /\ pc[c] = "deciding"
        /\ count[key] + 1 > config.ratelimit.limit
        /\ count' = [count EXCEPT ![key] = @ + 2]
        /\ labels' = labels \cup {[path |-> path[c], label |-> LimitedLabel(path[c])]}
        /\ refused' = refused \cup {subject[c]}
        /\ Complete(subject[c])
        /\ Done(c)
        /\ UNCHANGED <<boot, file, clock, issued, verified, logins, left>>

\* decide returned Limit: 429, counted under a label made from the path.
Limited(c) ==
    LET key == LimitKey(subject[c])
    IN  /\ pc[c] = "deciding"
        /\ count[key] + 1 > config.ratelimit.limit
        /\ count' = [count EXCEPT ![key] = @ + 1]
        /\ labels' = labels \cup {[path |-> path[c], label |-> LimitedLabel(path[c])]}
        /\ refused' = refused \cup {subject[c]}
        /\ Complete(subject[c])
        /\ Done(c)
        /\ UNCHANGED <<boot, file, clock, issued, verified, logins, left>>

\* Not an empty prefix, and backend_for has one.
Routed(p) == Prefix(p) # <<>> /\ Prefix(p) \in DOMAIN Backends(config)

\* decide returned Allow, or Open and Redis may have counted.  Without a route
\* the answer is a 404; with one forward answers at once (an open circuit) or
\* calls the backend.
Allowed(c) ==
    LET key == LimitKey(subject[c])
        counted == [count EXCEPT ![key] = @ + 1]
    IN  /\ pc[c] = "deciding"
        /\ \/ count[key] + 1 <= config.ratelimit.limit /\ count' = counted
           \/ count' \in {count, counted}
        /\ \/ Complete(subject[c]) /\ Done(c)
           \/ /\ Routed(path[c])
              /\ pc' = [pc EXCEPT ![c] = "forwarding"]
              /\ UNCHANGED <<path, token, subject, arrived, logged>>
        /\ UNCHANGED <<boot, file, clock, issued, labels, refused, verified, logins, left>>

\* The call to the backend is over, with whatever status.
Forwarded(c) ==
    /\ pc[c] = "forwarding"
    /\ Complete(subject[c])
    /\ Done(c)
    /\ UNCHANGED <<boot, file, clock, issued, count, labels, refused, verified, logins, left>>

\* The client leaves and the handler is dropped at its await, middleware and
\* all: no line is written.  Redis may count the request all the same.
Disconnect(c) ==
    /\ pc[c] # "idle"
    /\ \/ UNCHANGED count
       \/ pc[c] = "deciding" /\ count' = [count EXCEPT ![LimitKey(subject[c])] = @ + 1]
    /\ left' = [left EXCEPT ![subject[c]] = @ + 1]
    /\ Done(c)
    /\ UNCHANGED <<boot, file, clock, issued, labels, refused, verified, logins, logged>>

Tick ==
    /\ phase = "serving"
    /\ clock < MaxTime
    /\ clock' = clock + 1
    /\ UNCHANGED <<boot, file, issued, count, labels, refused, request, audit>>

Next ==
    \/ LoadConfig \/ LoadKeys \/ Wire
    \/ Login
    \/ \E p \in Paths : Endpoint(p)
    \/ \E c \in Clients :
         \/ \E p \in Paths, h \in Headers : Arrive(c, p, h)
         \/ Limited(c) \/ Allowed(c) \/ Forwarded(c) \/ Disconnect(c)
    \/ Tick

Spec == Init /\ [][Next]_vars

-------------------------------------------------------------------------------
(***************************************************************************)
(* Correctness.                                                            *)
(***************************************************************************)
\* auth.token_ttl_secs as the operator wrote it or, unwritten, 15 minutes.
WrittenTtl == IF file.auth = Absent THEN 900 ELSE Or(file.auth.token_ttl_secs, 900)

\* Tokens that were good at a time, whatever verify_token says: from login and
\* within their lifetime, or vouched for by the external issuer and not expired.
Genuine(t, time) ==
    IF login THEN t \in issued /\ time < t.claims.iat + WrittenTtl
    ELSE t \in Vouched /\ time < t.claims.exp

\* A request is only ever at a backend of the route table, under the subject of
\* a token that was genuine when the request arrived - however long it waited
\* for the limiter since.
OnlyGenuineReachBackends ==
    \A c \in Clients : pc[c] = "forwarding" =>
        /\ Genuine(token[c], arrived[c])
        /\ subject[c] = token[c].claims.sub
        /\ \E i \in DOMAIN config.routes : Prefix(path[c]) = config.routes[i].prefix

\* What login hands out opens the gate of the same process for as long as the
\* operator wants, up to the end of 64-bit time: the key, the issuer, the clock
\* and the lifetime, by default too, agree between issuing and verifying.
LoginTokensOpenTheGate ==
    \A t \in issued :
        (clock < t.claims.iat + WrittenTtl /\ clock < U64Max) =>
            CheckBearer(auth, [scheme |-> "Bearer ", words |-> <<t>>], clock) = DemoUser

\* Nobody pays for others: a subject that was sent a 429 has made more requests
\* than the limit itself, past the gate and since the window began.  Neither
\* other subjects nor rejected tokens nor logins use up its budget.
NobodyPaysForOthers ==
    \A s \in refused : verified[s] > config.ratelimit.limit

\* The audit adds up (middleware.rs): every authenticated request, and every
\* login, is in progress, has a "request complete" line that names its subject,
\* or lost its client while it waited.
AuditAddsUp ==
    \A s \in Subjects \ {None} :
        verified[s] + (IF s = DemoUser THEN logins ELSE 0) = Waiting(s) + logged[s] + left[s]

\* Keys of a section that the file has, with the value zero or an empty text.
Zeroes(section) ==
    IF section = Absent THEN {}
    ELSE {key \in DOMAIN section : section[key] = IF key = "redis_url" THEN "" ELSE 0}

\* A URL of the two schemes; an absolute one has a host too.
HttpUrl(url) ==
    Len(url) >= 3 /\ url[1] \in {"http:", "https:"} /\ url[2] = "/" /\ url[3] = "/"

AbsoluteUrl(url) == HttpUrl(url) /\ Len(url) >= 4 /\ url[4] # "/"

WrittenRoutes(f) == {f.routes[i] : i \in DOMAIN Or(f.routes, <<>>)}

\* What the documents forbid a file to say about anything but backends
\* (ADR-0003:19-23, ADR-0004:35, the messages of validate): what is written
\* in it, not what it parses into.
Wrong(f) ==
    \/ f.unknown_key
    \/ WrittenRoutes(f) = {}
    \/ \E r \in WrittenRoutes(f) : r.prefix = <<>> \/ ~(Range(r.prefix) \subseteq Clean)
    \/ f.auth # Absent /\ f.auth.issuer # f.auth.issuer_public_key_pem
    \/ f.ratelimit # Absent /\ f.ratelimit.redis_url = Absent
    \/ Zeroes(f.ratelimit) # {}
    \/ Zeroes(f.breaker) # {}

\* An external issuer, as src/README.md:189-194 sets it up.
ExternalWithoutDir(f) ==
    f.auth # Absent /\ f.auth.issuer /\ f.auth.issuer_public_key_pem /\ ~f.auth.keys_dir

\* main has read the file and made up its mind about it.
Examined == phase # "config" /\ error # "Unreadable"

\* main refuses a configuration only for something that is written in it: what
\* is left out gets a default that validates, whether the key or the whole
\* section is missing.  And what it accepts has nothing in it that is forbidden,
\* apart from backends of a right scheme that name no host.  An external issuer
\* without keys_dir is refused, although it is documented (StartsAsDocumented).
RefusedForWhatIsWritten ==
    Examined =>
        IF config = None
          THEN \/ Wrong(file) \/ ExternalWithoutDir(file)
               \/ \E r \in WrittenRoutes(file) : ~AbsoluteUrl(r.backend)
          ELSE /\ ~Wrong(file) /\ ~ExternalWithoutDir(file)
               /\ \A r \in WrittenRoutes(file) : HttpUrl(r.backend)

\* The documents on what main refuses: exactly the above and, ADR-0003:24, a
\* "backend that is not an absolute http(s) URL".  An external issuer is set up
\* with "`issuer` + `issuer_public_key_pem`" (ADR-0004:33-34) and nothing else.
StartsAsDocumented ==
    Examined =>
        (config = None <=> \/ Wrong(file)
                           \/ \E r \in WrittenRoutes(file) : ~AbsoluteUrl(r.backend))

\* A serving process has a verifying key, mounts login just when it can sign,
\* and has the positive limits that RateLimiter and Forward assume.  A path
\* under a configured prefix goes to that prefix, with a rest or without,
\* unless an endpoint has this very path; that is never more than the bare
\* prefix (healthz) or its login (auth), so no endpoint hides a route.  A
\* backend that names a host still does when validate is through with it, and
\* has one slash between its base URL and the rest.
ServingIsUsable ==
    phase = "serving" =>
        /\ auth # None
        /\ login <=> auth.verifying_key = OwnKey
        /\ {config.ratelimit.limit, config.ratelimit.window_secs} \subseteq Nat \ {0}
        /\ \A key \in DOMAIN config.breaker : config.breaker[key] \in Nat \ {0}
        /\ config.routes # <<>>
        /\ \A i \in DOMAIN config.routes,
              rest \in {<<>>, <<"/">>, <<"/", "login">>, <<"/", "x", "/">>} :
             LET p == <<"/">> \o config.routes[i].prefix \o rest
             IN  IF p \in Endpoints THEN rest \in {<<>>, <<"/", "login">>}
                 ELSE Prefix(p) = config.routes[i].prefix
        /\ \A i \in DOMAIN config.routes :
             LET base == Backends(config)[config.routes[i].prefix]
             IN  AbsoluteUrl(config.routes[i].backend) =>
                   AbsoluteUrl(base) /\ base[Len(base)] # "/"

\* router.rs:192-194, "so the rejection lands on the route's own counters": a
\* 429 for a path that a route is "Served at", /{prefix}/* (config.rs:183), is
\* counted under its prefix.
RejectionsLandOnTheRoute ==
    \A l \in labels : \A i \in DOMAIN config.routes :
        LET root == <<"/">> \o config.routes[i].prefix \o <<"/">>
        IN  (Len(l.path) >= Len(root) /\ SubSeq(l.path, 1, Len(root)) = root) =>
              l.label = config.routes[i].prefix
==============================================================================
