----------------------------- MODULE JwtDecoder -----------------------------
(***************************************************************************)
(* auth/jwt/decoder.py and the issuer settings it reads (settings.py).     *)
(*                                                                         *)
(* A token is a record of the facts the decoder tells apart: the key that  *)
(* signed it, whether it can be unpacked at all, and its claims.  Python's *)
(* None, an absent claim and an unset setting are all the value None.      *)
(* Versions are compared by their major number, as the code does.          *)
(***************************************************************************)
EXTENDS Naturals, Sequences

CONSTANTS
    None,                   \* Python's None, an absent claim, an unset setting
    Keys,                   \* every signing key in the world
    Users,                  \* the usernames
    Emails,                 \* the e-mail addresses
    JWT_PUBLIC_SIGNING_JWK_SET, \* the configured asymmetric keys, or None
    JWT_ISSUERS,            \* the configured list of issuers, possibly empty
    DeprecatedIssuer,       \* JWT_ISSUER, JWT_SECRET_KEY, JWT_AUDIENCE
    JWT_VERIFY_EXPIRATION,
    JWT_VERIFY_AUDIENCE,
    JWT_LEEWAY,
    JWT_SUPPORTED_VERSION

\* JwtTokenVersion.starting_version: what an unversioned token is taken for.
StartingVersion == 1

IssuerType == [ISSUER : STRING, SECRET_KEY : Keys \cup {None}, AUDIENCE : STRING \cup {None}]

TokenType ==
    [key      : Keys \cup {None},   \* None: no key verifies the signature
     readable : BOOLEAN,            \* FALSE: jwt.decode cannot unpack it
     exp      : Nat \cup {None},
     iat      : Nat \cup {None},
     nbf      : Nat \cup {None},
     iss      : STRING \cup {None},
     aud      : SUBSET STRING,
     version  : Nat \cup {None},
     username : Users \cup {None},  \* preferred_username or username
     email    : Emails \cup {None}]

ASSUME DecoderAssumption ==
    /\ None \notin Keys \cup Users \cup Emails \cup Nat \cup STRING
    /\ JWT_PUBLIC_SIGNING_JWK_SET = None \/ JWT_PUBLIC_SIGNING_JWK_SET \in (SUBSET Keys) \ {{}}
    /\ JWT_ISSUERS \in Seq(IssuerType)
    /\ DeprecatedIssuer \in IssuerType
    /\ JWT_VERIFY_EXPIRATION \in BOOLEAN
    /\ JWT_VERIFY_AUDIENCE \in BOOLEAN
    /\ JWT_LEEWAY \in Nat
    /\ JWT_SUPPORTED_VERSION \in Nat

-----------------------------------------------------------------------------
(* settings.py *)

get_jwt_issuers == IF JWT_ISSUERS # <<>> THEN JWT_ISSUERS ELSE <<DeprecatedIssuer>>

get_first_jwt_issuer == get_jwt_issuers[1]

-----------------------------------------------------------------------------
(* PyJWT, as decoder.py uses it *)

\* The exp check of jwt.decode: a token is expired from exp + leeway on.
ExpiredAt(tok, now, leeway) == tok.exp # None /\ tok.exp + leeway <= now

\* Its iat and nbf checks, which are on by default where the signature is verified
\* and off where it is not (ImmatureSignatureError).
ImmatureAt(tok, now) ==
    \/ tok.iat # None /\ now < tok.iat
    \/ tok.nbf # None /\ now < tok.nbf

-----------------------------------------------------------------------------
(* decoder.py *)

get_verification_jwk_key_set(asymmetric_keys, secret_key) ==
    (IF asymmetric_keys = None THEN {} ELSE asymmetric_keys)
        \cup ({secret_key} \ {None})

\* A fault: the signature is verified with the leeway of the claims.
verify_with_leeway(tok, key_set, aud, now) ==
    \/ key_set = {}
    \/ /\ tok.readable
       /\ tok.key \in key_set
       /\ ~ExpiredAt(tok, now, JWT_LEEWAY) /\ ~ImmatureAt(tok, now)
       /\ aud # None => aud \in tok.aud

\* The loop stops at the first key that verifies the token and raises only
\* what the last key raised, so the order of the keys does not matter; with no
\* key at all it runs no iteration and raises nothing.  The options leave the checks
\* of iat and nbf at PyJWT's default.
verify_jwk_signature_using_keyset(tok, key_set, aud, now) ==
    \/ key_set = {}
    \/ /\ tok.readable
       /\ tok.key \in key_set
       /\ ~ExpiredAt(tok, now, 0) /\ ~ImmatureAt(tok, now)
       /\ aud # None => aud \in tok.aud

\* A fault: decode_symmetric_token is not passed on.
verify_with_every_key(tok, jwt_issuer, decode_symmetric_token, now) ==
    verify_jwk_signature_using_keyset(tok,
        get_verification_jwk_key_set(JWT_PUBLIC_SIGNING_JWK_SET, jwt_issuer.SECRET_KEY),
        jwt_issuer.AUDIENCE, now)

\* First with the asymmetric keys alone, then with every key.
verify_jwt_signature(tok, jwt_issuer, decode_symmetric_token, now) ==
    LET secret_key == IF decode_symmetric_token THEN jwt_issuer.SECRET_KEY ELSE None
    IN  \E secret \in {None, secret_key} :
            verify_jwk_signature_using_keyset(tok,
                get_verification_jwk_key_set(JWT_PUBLIC_SIGNING_JWK_SET, secret),
                jwt_issuer.AUDIENCE, now)

\* The second, unsigned decode: required claims, expiry with the leeway, the
\* audience when the setting asks for it, and the issuer checked by hand.
decode_and_verify_token(tok, jwt_issuer, now) ==
    /\ tok.readable
    /\ tok.exp # None /\ tok.iat # None
    /\ JWT_VERIFY_EXPIRATION => ~ExpiredAt(tok, now, JWT_LEEWAY)
    /\ JWT_VERIFY_AUDIENCE =>
           IF jwt_issuer.AUDIENCE = None THEN tok.aud = {} ELSE jwt_issuer.AUDIENCE \in tok.aud
    /\ \E i \in DOMAIN get_jwt_issuers : get_jwt_issuers[i].ISSUER = tok.iss

\* _set_token_defaults raises for a version newer than the supported one.
VersionSupported(tok) ==
    (IF tok.version = None THEN StartingVersion ELSE tok.version) <= JWT_SUPPORTED_VERSION

\* jwt_decode_handler returns a payload, or raises.
jwt_decode_handler(tok, decode_symmetric_token, now) ==
    /\ verify_jwt_signature(tok, get_first_jwt_issuer, decode_symmetric_token, now)
    /\ decode_and_verify_token(tok, get_first_jwt_issuer, now)
    /\ VersionSupported(tok)

\* unsafe_jwt_decode_handler returns a payload, or raises.
unsafe_jwt_decode_handler(tok) == tok.readable /\ VersionSupported(tok)

=============================================================================
