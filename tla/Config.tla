-------------------------------- MODULE Config -------------------------------
(***************************************************************************)
(* The configuration (core/src/config.rs) as operators: what from_toml     *)
(* makes of a file, which files validate refuses, and the route table it   *)
(* returns.                                                                *)
(*                                                                         *)
(* A file is a record of its sections; a section, or a key of one, may be  *)
(* Absent.  Routes come in the order of the BTreeMap they are in, and no   *)
(* two have the same prefix.  Prefixes and paths are sequences of          *)
(* characters, of which Clean are letters, digits, - and _.  So are        *)
(* backend URLs, where "http:" and "https:" count as one character.        *)
(***************************************************************************)
EXTENDS Integers, Sequences, FiniteSets, FiniteSetsExt

CONSTANTS
    Clean,      \* characters that a prefix may have
    Absent      \* a section or key that the file does not have

\* validate wants prefixes of letters, digits, - and _: no slash is Clean.
ASSUME ConfigAssumption ==
    /\ "/" \notin Clean
    /\ Absent \notin Nat \cup BOOLEAN

\* What serde takes a file for: a key that is there has a value of its type.
Key(values) == values \cup {Absent}

File ==
    [unknown_key : BOOLEAN,
     routes    : Key(Seq([prefix : Seq(STRING), backend : Seq(STRING)])),
     auth      : Key([keys_dir : BOOLEAN, issuer : BOOLEAN, issuer_public_key_pem : BOOLEAN,
                      token_ttl_secs : Key(Nat)]),
     ratelimit : Key([redis_url : Key(STRING), limit : Key(Nat), window_secs : Key(Nat)]),
     breaker   : Key([failure_threshold : Key(Nat), cooldown_secs : Key(Nat),
                      timeout_secs : Key(Nat)])]

Or(value, default) == IF value = Absent THEN default ELSE value

\* The default_* functions and the manual Default impls, which must agree.
DefaultAuth == [keys_dir |-> FALSE, issuer |-> FALSE, issuer_public_key_pem |-> FALSE,
                token_ttl_secs |-> 900]

DefaultRateLimit == [redis_url |-> "redis://", limit |-> 100, window_secs |-> 60]

\* Mutant: #[derive(Default)].
DefaultBreakerDerived == [failure_threshold |-> 0, cooldown_secs |-> 0, timeout_secs |-> 0]

DefaultBreaker == [failure_threshold |-> 5, cooldown_secs |-> 30, timeout_secs |-> 15]

\* A section: its own keys, where the file has them.
Section(section, default) ==
    IF section = Absent THEN default
    ELSE [key \in DOMAIN default |-> Or(section[key], default[key])]

\* toml::from_str with deny_unknown_fields.  Only redis_url has no default of
\* its own: a [ratelimit] section must have it.
Parses(file) ==
    /\ ~file.unknown_key
    /\ file.ratelimit # Absent => file.ratelimit.redis_url # Absent

\* GatewayConfig
Parsed(file) ==
    [routes    |-> Or(file.routes, <<>>),
     auth      |-> Section(file.auth, DefaultAuth),
     ratelimit |-> Section(file.ratelimit, DefaultRateLimit),
     breaker   |-> Section(file.breaker, DefaultBreaker)]

IssuesOwnTokens(auth) == ~auth.issuer /\ ~auth.issuer_public_key_pem

-------------------------------------------------------------------------------
(***************************************************************************)
(* validate.                                                               *)
(***************************************************************************)
\* Mutant: any non-empty prefix will do.
CleanPrefixNonEmpty(prefix) == prefix # <<>>

CleanPrefix(prefix) == prefix # <<>> /\ \A i \in DOMAIN prefix : prefix[i] \in Clean

\* Bytes of a URL's text.
UrlLen(url) == Len(url) + 4 * Cardinality({i \in DOMAIN url : url[i] = "http:"})
                        + 5 * Cardinality({i \in DOMAIN url : url[i] = "https:"})

\* An http:// or https:// URL, longer than "http://".
AcceptedBackend(url) ==
    /\ Len(url) >= 3
    /\ SubSeq(url, 1, 3) \in {<<scheme, "/", "/">> : scheme \in {"http:", "https:"}}
    /\ UrlLen(url) > 7

\* trim_end_matches('/')
TrimEnd(url) == SubSeq(url, 1, Max({0} \cup {i \in DOMAIN url : url[i] # "/"}))

\* The checks of one route after the other.
RouteChecks(routes) ==
    [i \in 1 .. 2 * Len(routes) |->
        LET r == routes[(i + 1) \div 2]
        IN  IF i % 2 = 1 THEN [bad |-> ~CleanPrefix(r.prefix), error |-> "InvalidPrefix"]
            ELSE [bad |-> ~AcceptedBackend(r.backend), error |-> "InvalidBackend"]]

\* All checks, in the order of the code, with the ConfigError of each.
Checks(config) ==
    LET auth == config.auth
        limits == config.ratelimit
        breaker == config.breaker
    IN  <<[bad |-> auth.issuer # auth.issuer_public_key_pem,           error |-> "InvalidAuth"],
          [bad |-> ~IssuesOwnTokens(auth) /\ ~auth.keys_dir,           error |-> "InvalidAuth"],
          [bad |-> config.routes = <<>>,                               error |-> "NoRoutes"],
          [bad |-> limits.limit = 0,                                   error |-> "InvalidRateLimit"],
          [bad |-> limits.window_secs = 0,                             error |-> "InvalidRateLimit"],
          [bad |-> limits.redis_url = "",                              error |-> "InvalidRateLimit"],
          [bad |-> \E key \in DOMAIN breaker : breaker[key] = 0,       error |-> "InvalidBreaker"]>>
        \o RouteChecks(config.routes)

Validate(config) ==
    LET checks == Checks(config)
        failed == {i \in DOMAIN checks : checks[i].bad}
    IN  IF failed = {} THEN "Ok" ELSE checks[Min(failed)].error

\* from_toml
FromToml(file) == IF Parses(file) THEN Validate(Parsed(file)) ELSE "Parse"

\* The routes that validate returns, as ProxyState::new keeps them: prefix to
\* backend base URL.
Backends(config) ==
    LET routes == config.routes
    IN  [p \in {routes[i].prefix : i \in DOMAIN routes} |->
            TrimEnd(routes[CHOOSE i \in DOMAIN routes : routes[i].prefix = p].backend)]

-------------------------------------------------------------------------------
(***************************************************************************)
(* Paths (router.rs, proxy_fallback).                                      *)
(***************************************************************************)
\* trim_start_matches('/')
Trimmed(path) ==
    SubSeq(path, Min({Len(path) + 1} \cup {i \in DOMAIN path : path[i] # "/"}), Len(path))

Slashes(path) == {i \in DOMAIN Trimmed(path) : Trimmed(path)[i] = "/"}

\* What is in front of the next slash, or everything.
Prefix(path) ==
    IF Slashes(path) = {} THEN Trimmed(path)
    ELSE SubSeq(Trimmed(path), 1, Min(Slashes(path)) - 1)

\* Mutant: the slash in front is not trimmed.
LimitedLabelUntrimmed(path) ==
    SubSeq(path, 1, Min({Len(path) + 1} \cup {i \in DOMAIN path : path[i] = "/"}) - 1)

\* The label of a 429: the same, but nothing where there is no next slash.
LimitedLabel(path) == IF Slashes(path) = {} THEN <<>> ELSE Prefix(path)
==============================================================================
