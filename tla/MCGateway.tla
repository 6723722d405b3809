------------------------------ MODULE MCGateway ------------------------------
(***************************************************************************)
(* Configuration files, paths and tokens for Gateway.                      *)
(***************************************************************************)
EXTENDS Gateway, TLC

Symmetry == Permutations(Clients)

CleanChars == {"crm", "x", "healthz", "auth", "login"}

Crm == [prefix |-> <<"crm">>, backend |-> <<"http:", "/", "/", "x">>]

\* The smallest file that is accepted.
Minimal == [unknown_key |-> FALSE, routes |-> <<Crm>>, auth |-> Absent, ratelimit |-> Absent,
            breaker |-> Absent]

\* Limits low enough to be reached.
Limits == [redis_url |-> "redis://", limit |-> 1, window_secs |-> Absent]
Tight == [Minimal EXCEPT !.ratelimit = Limits]

Auth == [keys_dir : BOOLEAN, issuer : BOOLEAN, issuer_public_key_pem : BOOLEAN,
         token_ttl_secs : {Absent, 0, 1, 1000}]
External == [keys_dir |-> TRUE, issuer |-> TRUE, issuer_public_key_pem |-> TRUE,
             token_ttl_secs |-> Absent]

Prefixes == {<<>>, <<"crm">>, <<"crm", "/", "x">>, <<"crm", "%">>, <<"healthz">>, <<"auth">>}
Urls == {<<s, "/", "/">> \o rest : s \in {"http:", "https:", "ftp:"},
                                   rest \in {<<>>, <<"/">>, <<"x">>, <<"x", "/">>}} \cup {<<>>, <<"x">>}

\* Every section varied by itself.
FilesOfAllKinds ==
    {Minimal, [Minimal EXCEPT !.unknown_key = TRUE]}
    \cup {[Minimal EXCEPT !.routes = rs] :
            rs \in {Absent, <<>>} \cup {<<[prefix |-> p, backend |-> Crm.backend]>> : p \in Prefixes}
                    \cup {<<Crm, [prefix |-> <<"x">>, backend |-> u]>> : u \in Urls}}
    \cup {[Tight EXCEPT !.auth = a] : a \in Auth}
    \cup {[Minimal EXCEPT !.ratelimit = r] :
            r \in [redis_url : {Absent, "", "redis://", "nonsense"}, limit : {Absent, 0, 1},
                   window_secs : {Absent, 0}]}
    \cup {[Minimal EXCEPT !.breaker = b] :
            b \in [failure_threshold : {Absent, 0, 1}, cooldown_secs : {Absent, 0},
                   timeout_secs : {Absent, 0}]}

SomePaths == {<<"/">>, <<"/", "crm">>, <<"/", "crm", "/", "x">>, <<"/", "healthz">>}

Alice == "alice"
Bob == "bob"

\* A token of the external issuer.
Signed(sub, iss, exp) ==
    [shape |-> TRUE, alg |-> "EdDSA", signer |-> IssuerKey, json |-> TRUE,
     claims |-> [sub |-> sub, iss |-> iss, iat |-> 0, exp |-> exp]]

Good == {Signed(Alice, Issuer, 0), Signed(Alice, Issuer, 1), Signed(Bob, Issuer, U64Max)}

\* Each with one thing wrong, for each check of verify_token.
Bad == {[Signed(Alice, Issuer, 2) EXCEPT !.shape = FALSE],
        [Signed(Alice, Issuer, 2) EXCEPT !.alg = "none"],
        [Signed(Alice, Issuer, 2) EXCEPT !.signer = None],
        [Signed(Alice, Issuer, 2) EXCEPT !.json = FALSE],
        Signed(Alice, "another", 2), Signed(Alice, Issuer, None),
        Signed(None, Issuer, 2)}

GoodAndBad == Good \cup Bad
==============================================================================
