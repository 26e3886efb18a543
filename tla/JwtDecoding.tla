----------------------------- MODULE JwtDecoding -----------------------------
(***************************************************************************)
(* What jwt_decode_handler makes of one token while the clock runs, in a   *)
(* service with any of several configurations, next to what the            *)
(* documentation promises of it.                                           *)
(***************************************************************************)
EXTENDS Naturals, Sequences

CONSTANTS
    None,       \* Python's None, an absent claim, an unset setting
    Keys,       \* every signing key in the world
    Users,      \* the usernames
    Emails,     \* the e-mail addresses
    Settings,   \* the configurations a service may have
    Tokens,     \* the tokens that may be shown to the decoder
    MaxTime     \* bound: the clock stops here

VARIABLES
    settings,   \* the configuration of the service
    tok,        \* a token
    now         \* the clock

vars == <<settings, tok, now>>

D == INSTANCE JwtDecoder WITH
    JWT_PUBLIC_SIGNING_JWK_SET <- settings.JWT_PUBLIC_SIGNING_JWK_SET,
    JWT_ISSUERS <- settings.JWT_ISSUERS,
    DeprecatedIssuer <- settings.DeprecatedIssuer,
    JWT_VERIFY_EXPIRATION <- settings.JWT_VERIFY_EXPIRATION,
    JWT_VERIFY_AUDIENCE <- settings.JWT_VERIFY_AUDIENCE,
    JWT_LEEWAY <- settings.JWT_LEEWAY,
    JWT_SUPPORTED_VERSION <- settings.JWT_SUPPORTED_VERSION

SettingsType ==
    [JWT_PUBLIC_SIGNING_JWK_SET : {None} \cup ((SUBSET Keys) \ {{}}),
     JWT_ISSUERS : Seq(D!IssuerType),
     DeprecatedIssuer : D!IssuerType,
     JWT_VERIFY_EXPIRATION : BOOLEAN,
     JWT_VERIFY_AUDIENCE : BOOLEAN,
     JWT_LEEWAY : Nat,
     JWT_SUPPORTED_VERSION : Nat]

ASSUME DecodingAssumption ==
    /\ None \notin Keys \cup Users \cup Emails \cup Nat \cup STRING
    /\ Settings \subseteq SettingsType
    /\ Tokens \subseteq D!TokenType
    /\ MaxTime \in Nat

Init == settings \in Settings /\ tok \in Tokens /\ now = 0

Tick ==
    /\ now < MaxTime
    /\ now' = now + 1
    /\ UNCHANGED <<settings, tok>>

Next == Tick

Spec == Init /\ [][Next]_vars

-----------------------------------------------------------------------------
\* What the service has configured.
HasAsymmetricKeys == settings.JWT_PUBLIC_SIGNING_JWK_SET # None
FirstIssuer == D!get_first_jwt_issuer
IssuerNames == {D!get_jwt_issuers[i].ISSUER : i \in DOMAIN D!get_jwt_issuers}
SigningKeys(symmetric) ==
    settings.JWT_PUBLIC_SIGNING_JWK_SET
        \cup {k \in Keys : symmetric /\ k = FirstIssuer.SECRET_KEY}

\* Signed by a key of the service, for its audience, and in its time.
Verified(symmetric) ==
    /\ tok.key \in SigningKeys(symmetric)
    /\ FirstIssuer.AUDIENCE # None => FirstIssuer.AUDIENCE \in tok.aud
    /\ tok.exp # None => now < tok.exp
    /\ \A begin \in {tok.iat, tok.nbf} \ {None} : begin <= now

ClaimsInOrder ==
    /\ tok.exp # None /\ tok.iat # None
    /\ settings.JWT_VERIFY_EXPIRATION => now < tok.exp + settings.JWT_LEEWAY
    /\ settings.JWT_VERIFY_AUDIENCE =>
           \/ FirstIssuer.AUDIENCE = None /\ tok.aud = {}
           \/ FirstIssuer.AUDIENCE \in tok.aud
    /\ tok.iss \in IssuerNames
    /\ \/ tok.version = None /\ D!StartingVersion <= settings.JWT_SUPPORTED_VERSION
       \/ tok.version \in 0..settings.JWT_SUPPORTED_VERSION

\* Without JWT_PUBLIC_SIGNING_JWK_SET the first of the decodes has no key to fail
\* with, and only the claims decide.
Good(symmetric) ==
    tok.readable /\ ClaimsInOrder /\ (HasAsymmetricKeys => Verified(symmetric))

AcceptedAt(symmetric, time) == D!jwt_decode_handler(tok, symmetric, time)

\* The signature is verified in one call and the claims in another, with options
\* of their own; together they accept exactly the tokens signed by an asymmetric
\* key, or by the secret of the first issuer where that is asked for, whose claims
\* are all in order (decoder.py:71-74, 213-267, 304-332, 340-378).
AcceptsExactlyGoodTokens ==
    \A symmetric \in BOOLEAN : AcceptedAt(symmetric, now) <=> Good(symmetric)

\* A token that was accepted and has been refused since is not accepted again, by
\* either handler: the views and permissions that decode it once more later in a
\* request can lose it, never get it back.  And the asymmetric-only handler, which
\* they use on what the other has accepted, accepts nothing else, and nothing that is
\* signed by a symmetric key (decoder.py:102-112, 304-309, 340-354).
LapseIsFinal ==
    /\ \A symmetric \in BOOLEAN : \A refused \in 0..now, accepted \in 0..now :
         /\ accepted < refused
         /\ AcceptedAt(symmetric, accepted) /\ ~AcceptedAt(symmetric, refused)
         => ~AcceptedAt(symmetric, now)
    /\ AcceptedAt(FALSE, now) =>
         /\ AcceptedAt(TRUE, now)
         /\ HasAsymmetricKeys => tok.key \in settings.JWT_PUBLIC_SIGNING_JWK_SET

=============================================================================
