------------------------- MODULE JwtDecodingProofs -------------------------
(***************************************************************************)
(* Which tokens jwt_decode_handler accepts, and when, for every token and  *)
(* every configuration, with or without asymmetric keys.                   *)
(***************************************************************************)
EXTENDS JwtDecoding, TLAPS

TypeOK == settings \in SettingsType /\ tok \in D!TokenType /\ now \in Nat

LEMMA Typed == Spec => []TypeOK
<1>1. Init => TypeOK
  BY DecodingAssumption DEF Init, TypeOK
<1>2. TypeOK /\ [Next]_vars => TypeOK'
  BY DEF TypeOK, Next, Tick, vars
<1> QED
  BY <1>1, <1>2, PTL DEF Spec

-----------------------------------------------------------------------------
(* The first issuer and its secret *)

LEMMA FirstIssuerTyped ==
    ASSUME TypeOK
    PROVE  FirstIssuer \in D!IssuerType
<1>1. settings.JWT_ISSUERS \in Seq(D!IssuerType) /\ settings.DeprecatedIssuer \in D!IssuerType
  BY DEF TypeOK, SettingsType
<1>2. D!get_jwt_issuers \in Seq(D!IssuerType) /\ D!get_jwt_issuers # <<>>
  BY <1>1 DEF D!get_jwt_issuers
<1> QED
  BY <1>2 DEF FirstIssuer, D!get_first_jwt_issuer

\* The key sets of both attempts together are the configured keys, and neither
\* is empty; without configured keys the first one is.
LEMMA KeysOfAttempts ==
    ASSUME TypeOK, NEW symmetric \in BOOLEAN
    PROVE  LET secret_key == IF symmetric THEN FirstIssuer.SECRET_KEY ELSE None
               KeySet(secret) ==
                   D!get_verification_jwk_key_set(settings.JWT_PUBLIC_SIGNING_JWK_SET, secret)
           IN  /\ HasAsymmetricKeys =>
                    /\ KeySet(None) = settings.JWT_PUBLIC_SIGNING_JWK_SET
                    /\ KeySet(secret_key) = SigningKeys(symmetric)
                    /\ KeySet(None) # {} /\ KeySet(secret_key) # {}
               /\ ~HasAsymmetricKeys => KeySet(None) = {}
<1>1. HasAsymmetricKeys => settings.JWT_PUBLIC_SIGNING_JWK_SET \in (SUBSET Keys) \ {{}}
  BY DEF HasAsymmetricKeys, TypeOK, SettingsType
<1>2. FirstIssuer.SECRET_KEY \in Keys \cup {None} /\ None \notin Keys
  BY FirstIssuerTyped, DecodingAssumption DEF D!IssuerType
<1> QED
  BY <1>1, <1>2 DEF D!get_verification_jwk_key_set, SigningKeys, HasAsymmetricKeys

-----------------------------------------------------------------------------
(* Both decodes as one predicate *)

\* The signature phase: some attempt succeeds if and only if the last would.  It
\* verifies the times, with no leeway, and the audience if one is configured.
LEMMA SignatureVerified ==
    ASSUME TypeOK, NEW symmetric \in BOOLEAN, NEW time
    PROVE  D!verify_jwt_signature(tok, FirstIssuer, symmetric, time) <=>
             (HasAsymmetricKeys =>
                 /\ tok.readable
                 /\ tok.key \in SigningKeys(symmetric)
                 /\ ~D!ExpiredAt(tok, time, 0) /\ ~D!ImmatureAt(tok, time)
                 /\ FirstIssuer.AUDIENCE # None => FirstIssuer.AUDIENCE \in tok.aud)
<1>1. settings.JWT_PUBLIC_SIGNING_JWK_SET \subseteq SigningKeys(symmetric)
  BY DEF SigningKeys
<1> QED
  BY <1>1, KeysOfAttempts DEF D!verify_jwt_signature, D!verify_jwk_signature_using_keyset

\* What the clock decides, with the types of the claims.
LEMMA TimesOfToken ==
    ASSUME TypeOK
    PROVE  /\ tok.exp \in Nat \cup {None} /\ tok.iat \in Nat \cup {None}
           /\ tok.nbf \in Nat \cup {None} /\ tok.version \in Nat \cup {None}
           /\ None \notin Nat
           /\ settings.JWT_LEEWAY \in Nat /\ settings.JWT_SUPPORTED_VERSION \in Nat
  BY DecodingAssumption DEF TypeOK, SettingsType, D!TokenType

\* Whoever passed the signature phase has not expired with the leeway either.
LEMMA LeewayBuysNothing ==
    ASSUME TypeOK, NEW time \in Nat
    PROVE  /\ ~D!ExpiredAt(tok, time, 0) <=> (tok.exp # None => time < tok.exp)
           /\ ~D!ExpiredAt(tok, time, settings.JWT_LEEWAY) <=>
                (tok.exp # None => time < tok.exp + settings.JWT_LEEWAY)
           /\ ~D!ImmatureAt(tok, time) <=> \A begin \in {tok.iat, tok.nbf} \ {None} : begin <= time
<1>1. ~D!ExpiredAt(tok, time, 0) <=> (tok.exp # None => time < tok.exp)
  BY TimesOfToken DEF D!ExpiredAt
<1>2. ~D!ExpiredAt(tok, time, settings.JWT_LEEWAY) <=>
        (tok.exp # None => time < tok.exp + settings.JWT_LEEWAY)
  BY TimesOfToken DEF D!ExpiredAt
<1>3. ~D!ImmatureAt(tok, time) <=>
        (tok.iat # None => tok.iat <= time) /\ (tok.nbf # None => tok.nbf <= time)
  BY TimesOfToken DEF D!ImmatureAt
<1> QED
  BY <1>1, <1>2, <1>3

LEMMA VersionIsSupported ==
    ASSUME TypeOK
    PROVE  D!VersionSupported(tok) <=>
             \/ tok.version = None /\ D!StartingVersion <= settings.JWT_SUPPORTED_VERSION
             \/ tok.version \in 0..settings.JWT_SUPPORTED_VERSION
  BY TimesOfToken DEF D!VersionSupported, D!StartingVersion

LEMMA ClaimsDecoded ==
    ASSUME TypeOK
    PROVE  /\ D!decode_and_verify_token(tok, FirstIssuer, now)
           /\ D!VersionSupported(tok)
           <=> tok.readable /\ ClaimsInOrder
<1>1. None \notin STRING /\ FirstIssuer.AUDIENCE \in STRING \cup {None} /\ tok.aud \subseteq STRING
  BY FirstIssuerTyped, DecodingAssumption DEF D!IssuerType, D!TokenType, TypeOK
<1>2. now \in Nat
  BY DEF TypeOK
<1>3. (IF FirstIssuer.AUDIENCE = None THEN tok.aud = {} ELSE FirstIssuer.AUDIENCE \in tok.aud)
        <=> \/ FirstIssuer.AUDIENCE = None /\ tok.aud = {}
            \/ FirstIssuer.AUDIENCE \in tok.aud
  BY <1>1
<1>4. tok.iss \in IssuerNames <=>
        \E i \in DOMAIN D!get_jwt_issuers : D!get_jwt_issuers[i].ISSUER = tok.iss
  BY DEF IssuerNames
<1> QED
  BY <1>2, <1>3, <1>4, LeewayBuysNothing, VersionIsSupported
     DEF D!decode_and_verify_token, ClaimsInOrder

LEMMA AcceptsGood ==
    ASSUME TypeOK, NEW symmetric \in BOOLEAN
    PROVE  AcceptedAt(symmetric, now) <=> Good(symmetric)
<1>1. now \in Nat
  BY DEF TypeOK
<1>2. D!verify_jwt_signature(tok, FirstIssuer, symmetric, now) /\ tok.readable
        <=> tok.readable /\ (HasAsymmetricKeys => Verified(symmetric))
  BY <1>1, SignatureVerified, LeewayBuysNothing DEF Verified
<1> QED
  BY <1>2, ClaimsDecoded
     DEF AcceptedAt, D!jwt_decode_handler, Good, FirstIssuer, D!decode_and_verify_token

\* For every token and every configuration, the decodes with their different
\* options accept exactly the tokens in order, whatever the leeway and whether or
\* not JWT_VERIFY_EXPIRATION is set (decoder.py:71-74, 213-267, 304-332, 340-378).
THEOREM ExactlyGoodAccepted == Spec => []AcceptsExactlyGoodTokens
<1>1. TypeOK => AcceptsExactlyGoodTokens
  BY AcceptsGood DEF AcceptsExactlyGoodTokens
<1> QED
  BY <1>1, Typed, PTL

-----------------------------------------------------------------------------
(* As time passes *)

\* The times at which a token is accepted have no gap: what is accepted before and
\* after is accepted in between.
LEMMA AcceptedBetween ==
    ASSUME TypeOK, NEW symmetric \in BOOLEAN,
           NEW earlier \in Nat, NEW time \in Nat, NEW later \in Nat,
           earlier <= time, time <= later,
           AcceptedAt(symmetric, earlier), AcceptedAt(symmetric, later)
    PROVE  AcceptedAt(symmetric, time)
<1>1. ~D!ImmatureAt(tok, earlier) => ~D!ImmatureAt(tok, time)
  BY TimesOfToken DEF D!ImmatureAt
<1>2. ASSUME NEW leeway \in Nat, ~D!ExpiredAt(tok, later, leeway)
      PROVE  ~D!ExpiredAt(tok, time, leeway)
  BY <1>2, TimesOfToken DEF D!ExpiredAt
<1>3. D!verify_jwt_signature(tok, FirstIssuer, symmetric, time)
  BY <1>1, <1>2, SignatureVerified DEF AcceptedAt, D!jwt_decode_handler, FirstIssuer
<1>4. D!decode_and_verify_token(tok, FirstIssuer, time)
  BY <1>2, TimesOfToken
     DEF AcceptedAt, D!jwt_decode_handler, D!decode_and_verify_token, FirstIssuer
<1> QED
  BY <1>3, <1>4 DEF AcceptedAt, D!jwt_decode_handler, FirstIssuer

LEMMA AsymmetricAccepted ==
    ASSUME TypeOK, AcceptedAt(FALSE, now)
    PROVE  /\ AcceptedAt(TRUE, now)
           /\ HasAsymmetricKeys => tok.key \in settings.JWT_PUBLIC_SIGNING_JWK_SET
<1>1. Good(FALSE)
  BY AcceptsGood
<1>2. Good(TRUE)
  BY <1>1 DEF Good, Verified, SigningKeys
<1>3. HasAsymmetricKeys => tok.key \in settings.JWT_PUBLIC_SIGNING_JWK_SET
  BY <1>1 DEF Good, Verified, SigningKeys
<1> QED
  BY <1>2, <1>3, AcceptsGood

\* A token that has lapsed stays refused, and one that the asymmetric-only handler
\* accepts is accepted by the other and signed by an asymmetric key, for every token
\* and whatever is configured, with issue and begin times that lie in the future too
\* (decoder.py:102-112, 304-309, 340-354).
THEOREM LapsedForGood == Spec => []LapseIsFinal
<1>1. ASSUME TypeOK, NEW symmetric \in BOOLEAN,
             NEW refused \in 0..now, NEW accepted \in 0..now, accepted < refused,
             AcceptedAt(symmetric, accepted), AcceptedAt(symmetric, now)
      PROVE  AcceptedAt(symmetric, refused)
  <2>1. now \in Nat
    BY <1>1 DEF TypeOK
  <2>2. accepted \in Nat /\ refused \in Nat /\ accepted <= refused /\ refused <= now
    BY <1>1, <2>1
  <2> QED
    BY <1>1, <2>1, <2>2, AcceptedBetween
<1>2. TypeOK => LapseIsFinal
  BY <1>1, AsymmetricAccepted DEF LapseIsFinal
<1> QED
  BY <1>2, Typed, PTL

=============================================================================
