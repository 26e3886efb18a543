---------------------------- MODULE MCJwtDecoder ----------------------------
(***************************************************************************)
(* Services with two issuers in sixteen configurations, and every token of *)
(* a small world.                                                          *)
(***************************************************************************)
EXTENDS JwtDecoding

MCIssuers(audience) ==
    <<[ISSUER |-> "first", SECRET_KEY |-> "symmetric", AUDIENCE |-> audience],
      [ISSUER |-> "later", SECRET_KEY |-> "second", AUDIENCE |-> "other"]>>

MCSettings ==
    {[JWT_PUBLIC_SIGNING_JWK_SET |-> key_set, JWT_ISSUERS |-> MCIssuers(audience),
      DeprecatedIssuer |-> MCIssuers(audience)[1], JWT_VERIFY_EXPIRATION |-> expiration,
      JWT_VERIFY_AUDIENCE |-> verified, JWT_LEEWAY |-> 1, JWT_SUPPORTED_VERSION |-> 1] :
        key_set \in {None, {"asymmetric"}}, audience \in {None, "service"},
        expiration \in BOOLEAN, verified \in BOOLEAN}

MCTokens ==
    [key : Keys \cup {None}, readable : BOOLEAN, exp : {None, 2, 3}, iat : {None, 0, 1},
     nbf : {None, 1, 2}, iss : {"first", "later", None}, aud : SUBSET {"service", "other"},
     version : {None, 1, 2}, username : Users, email : {None}]

=============================================================================
