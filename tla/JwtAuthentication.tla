------------------------- MODULE JwtAuthentication -------------------------
(***************************************************************************)
(* auth/jwt/authentication.py: what one call of JwtAuthentication.         *)
(* authenticate decides, as an operator of what it reads.                  *)
(*                                                                         *)
(* A request carries a token in the JWT Authorization header, the two      *)
(* halves of a split JWT cookie, a full JWT cookie, a session login, and   *)
(* the fact whether Django's CSRF check would let it through.              *)
(***************************************************************************)
EXTENDS JwtDecoder

CONSTANTS
    Anonymous,                  \* AnonymousUser
    LazyJwt,                    \* request.user while it is the unresolved
                                \* SimpleLazyObject of JwtAuthCookieMiddleware
    ENABLE_SET_REQUEST_USER_FOR_JWT_COOKIE,
    ENABLE_JWT_AND_LMS_USER_EMAIL_MATCH,
    EmailIsMapped               \* JWT_PAYLOAD_USER_ATTRIBUTE_MAPPING has 'email'

AuthenticatorClasses == {"jwt", "session", "session_inactive"}

AuthResults == {"n/a", "success-auth-header", "success-cookie", "forgiven-failure",
                "failed-auth-header", "user-mismatch-failure",
                "user-mismatch-enforced-failure"}

ASSUME AuthenticationAssumption ==
    /\ {None, Anonymous, LazyJwt} \cap Users = {}
    /\ None \notin AuthenticatorClasses \cup AuthResults
    /\ Anonymous # LazyJwt /\ None # Anonymous /\ None # LazyJwt
    /\ ENABLE_SET_REQUEST_USER_FOR_JWT_COOKIE \in BOOLEAN
    /\ ENABLE_JWT_AND_LMS_USER_EMAIL_MATCH \in BOOLEAN
    /\ EmailIsMapped \in BOOLEAN

\* login stands for the permission LoginRedirectIfUnauthenticated, composed for lists
\* with a composed permission (one made with & | ~) ahead of any such.
ViewType ==
    [auth : Seq(AuthenticatorClasses), permission : {"any", "authenticated", "login", "composed"}]

MaybeToken == TokenType \cup {None}

RequestType ==
    [resolves  : BOOLEAN,               \* the URL resolves to a view
     header    : MaybeToken,
     payload   : MaybeToken,            \* the split cookies hold the halves
     signature : MaybeToken,            \* of these tokens
     full      : MaybeToken,
     session   : Users \cup {None},     \* the user logged in by the session
     csrf      : BOOLEAN,               \* the CSRF check passes
     view      : ViewType]

OutcomeType ==
    [kind : {"none", "user", "raise", "crash"}, user : Users \cup {None}, attr : AuthResults]

-----------------------------------------------------------------------------
(* drf-jwt, as authentication.py uses it *)

\* get_token_from_request: the header wins over the cookie.
TokenOf(r, cookie) == IF r.header # None THEN r.header ELSE cookie

-----------------------------------------------------------------------------
(* authentication.py *)

\* A fault: whatever comes with a header is not a cookie.
WithoutHeader(r, cookie) == cookie # None /\ r.header = None

\* Compares the tokens, so a header that repeats the cookie counts as the cookie.
is_authenticating_with_jwt_cookie(r, cookie) == cookie # None /\ TokenOf(r, cookie) = cookie

\* _get_unsafe_jwt_cookie_username_and_lms_user_id: None when the cookie
\* cannot be decoded, and also when its version is not supported.
UnsafeUsername(cookie) ==
    IF cookie # None /\ unsafe_jwt_decode_handler(cookie) THEN cookie.username ELSE None

\* Faults: a cookie that names nobody matches everybody, or the names are not compared.
MismatchOfKnownNames(cookie, requestUser, jwtUserSet) ==
    ~jwtUserSet /\ requestUser \in Users /\ UnsafeUsername(cookie) \notin {None, requestUser}

AnySessionMismatches(cookie, requestUser, jwtUserSet) ==
    ~jwtUserSet /\ requestUser \in Users

\* _is_jwt_cookie_and_session_user_mismatch, of the user of the Django request.
SessionMismatch(cookie, requestUser, jwtUserSet) ==
    ~jwtUserSet /\ requestUser \in Users /\ requestUser # UnsafeUsername(cookie)

\* super().authenticate finds a token that decodes and names a user, whom
\* authenticate_credentials then looks up.
Decodes(r, cookie, now) ==
    LET tok == TokenOf(r, cookie)
    IN  tok # None /\ jwt_decode_handler(tok, TRUE, now) /\ tok.username # None

\* The address of the user object once the claims have been copied to it.
Copied(tok, address) == IF EmailIsMapped /\ tok.email # None THEN tok.email ELSE address

\* A fault: the addresses are not compared.
SecondDecodeSucceeds(r, cookie, address, now) == jwt_decode_handler(TokenOf(r, cookie), TRUE, now)

\* _is_jwt_and_lms_user_email_mismatch decodes the token a second time, and compares
\* the address of the user object, not the one that is stored by now.
EmailMatches(r, cookie, address, now) ==
    LET tok == TokenOf(r, cookie)
    IN  jwt_decode_handler(tok, TRUE, now) /\ Copied(tok, address) = tok.email

\* The exception is the raw PyJWT error of the second decode, which the REST
\* framework does not turn into a response.
SecondDecodeRaises(r, cookie, found, now) ==
    /\ ENABLE_JWT_AND_LMS_USER_EMAIL_MATCH
    /\ found
    /\ ~jwt_decode_handler(TokenOf(r, cookie), TRUE, now)

\* The try block of authenticate reaches its end or its mismatch check.  The user
\* was found with this address.
Succeeds(r, cookie, found, address, now) ==
    /\ found
    /\ ENABLE_JWT_AND_LMS_USER_EMAIL_MATCH => EmailMatches(r, cookie, address, now)
    /\ is_authenticating_with_jwt_cookie(r, cookie) => r.csrf

Outcome(kind, u, attr) == [kind |-> kind, user |-> u, attr |-> attr]

\* A fault: the exception of a header is reported and not raised again.
HeaderForgiven(byCookie, mismatch, reraise) ==
    IF byCookie /\ mismatch
        THEN Outcome(reraise, None, "user-mismatch-failure")
        ELSE Outcome("none", None, IF byCookie THEN "forgiven-failure" ELSE "failed-auth-header")

\* The except block of all but the enforced mismatch: the failure of a cookie is
\* forgiven unless the session has another user.
FailureOutcome(byCookie, mismatch, reraise) ==
    IF byCookie /\ ~mismatch
        THEN Outcome("none", None, "forgiven-failure")
        ELSE Outcome(reraise, None, IF byCookie THEN "user-mismatch-failure" ELSE "failed-auth-header")

\* authenticate, of a request whose JWT cookie and request.user are given, once the
\* account of its token was found (and saved, where need be) or not.
JwtAuthenticate(r, cookie, requestUser, jwtUserSet, found, address, now) ==
    LET tok      == TokenOf(r, cookie)
        byCookie == is_authenticating_with_jwt_cookie(r, cookie)
        succeeds == Succeeds(r, cookie, found, address, now)
        mismatch == SessionMismatch(cookie, requestUser, jwtUserSet)
        reraise  == IF SecondDecodeRaises(r, cookie, found, now) THEN "crash" ELSE "raise"
    IN  CASE tok = None                        -> Outcome("none", None, "n/a")
          [] succeeds /\ ~byCookie             -> Outcome("user", tok.username, "success-auth-header")
          [] succeeds /\ byCookie /\ mismatch /\ ENABLE_SET_REQUEST_USER_FOR_JWT_COOKIE
                                               -> Outcome("raise", None, "user-mismatch-enforced-failure")
          [] succeeds /\ byCookie /\ ~(mismatch /\ ENABLE_SET_REQUEST_USER_FOR_JWT_COOKIE)
                                               -> Outcome("user", tok.username, "success-cookie")
          [] tok # None /\ ~succeeds           -> FailureOutcome(byCookie, mismatch, reraise)

\* authenticate got as far as the mismatch check and read request.user there.
ReadsRequestUser(r, cookie, jwtUserSet) ==
    is_authenticating_with_jwt_cookie(r, cookie) /\ ~jwtUserSet

=============================================================================
