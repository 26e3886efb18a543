------------------------- MODULE JwtPipelineProofs -------------------------
(***************************************************************************)
(* What holds of JwtPipeline for every set of users, tokens, views and     *)
(* requests, every issuer configuration and every bound on the clock.      *)
(***************************************************************************)
EXTENDS JwtPipeline, TLAPS

-----------------------------------------------------------------------------
(* The token, the middleware and the cache *)

\* Only tokens that are there have claims to look at.
LEMMA TokenOfType ==
    ASSUME NEW r \in RequestType, NEW c \in MaybeToken
    PROVE  TokenOf(r, c) \in MaybeToken
BY DEF RequestType, TokenOf

\* The middleware makes a token of two halves.
LEMMA ReconstitutedType ==
    ASSUME NEW r \in RequestType
    PROVE  Reconstituted(r) \in MaybeToken
<1>1. r.payload \in MaybeToken /\ r.signature \in MaybeToken /\ r.full \in MaybeToken
    BY DEF RequestType
<1>2. CASE r.payload # None /\ r.signature # None
    <2>1. r.payload \in TokenType
        BY <1>1, <1>2 DEF MaybeToken
    <2>2. [r.payload EXCEPT !.key = None] \in TokenType
        BY <2>1 DEF TokenType
    <2>3. QED
        BY <1>2, <2>1, <2>2 DEF Reconstituted, Join, MaybeToken
<1>3. QED
    BY <1>1, <1>2 DEF Reconstituted

LEMMA SessionUserType ==
    ASSUME NEW r \in RequestType
    PROVE  SessionUser(r) \in Users \cup {Anonymous}
BY DEF SessionUser, RequestType

LEMMA ClearedCacheType ==
    ASSUME cache \in CacheType
    PROVE  ClearedCache \in CacheType
BY DEF ClearedCache, EmptyCache, CacheType

LEMMA NoneIsNoName ==
    None \notin {"jwt", "session", "session_inactive", "forgiven-failure", "failed-auth-header"}
BY AuthenticationAssumption DEF AuthenticatorClasses, AuthResults

-----------------------------------------------------------------------------
(* The running call of authenticate *)

\* The token that counts verified at some time since the request arrived.
Verified == \E time \in since..now : jwt_decode_handler(TokenOf(req, cookie), TRUE, time)

\* The lazy user is being resolved, or JwtAuthentication is the view's next.
CallPlace ==
    \/ /\ user = LazyJwt /\ UserIsWanted
       /\ cache.jwtUser = None /\ HasJwtAuthentication(req.view)
    \/ NextAuthenticatorIs("jwt")

\* An account is looked up for a token that verified.
CallToken ==
    /\ TokenOf(req, cookie) \in TokenType /\ TokenOf(req, cookie) # None
    /\ TokenOf(req, cookie).username \in Users
    /\ call.read \in call.held
    /\ Verified

CallInv ==
    /\ pc # "idle" => since <= now
    /\ call # None => CallPlace
    /\ call # None /\ call.found => CallToken

\* What has been found by the look-up.
LEMMA LookUpFinds ==
    ASSUME TypeOK, CallInv, pc # "idle", NEW dbOk \in BOOLEAN, LookUpAccount(dbOk)
    PROVE  /\ call' \in CallType
           /\ call'.found => /\ TokenOf(req, cookie) \in TokenType /\ TokenOf(req, cookie) # None
                             /\ TokenOf(req, cookie).username \in Users
                             /\ call'.read \in call'.held
                             /\ Verified
<1> DEFINE tok == TokenOf(req, cookie)
<1>1. req \in RequestType /\ cookie \in MaybeToken
    BY DEF TypeOK
<1>2. CASE Decodes(req, cookie, now) /\ dbOk
    <2>1. /\ tok \in TokenType /\ tok # None
          /\ tok.username \in Users /\ jwt_decode_handler(tok, TRUE, now)
        <3>1. tok \in TokenType
            BY <1>1, <1>2, TokenOfType DEF Decodes, MaybeToken
        <3>2. QED
            BY <1>2, <3>1 DEF Decodes, TokenType
    <2>2. call' = [found |-> TRUE, read |-> email[tok.username], held |-> {email[tok.username]}]
        BY <1>2 DEF LookUpAccount
    <2>3. email[tok.username] \in Emails
        BY <2>1 DEF TypeOK
    <2>4. Verified
        <3>1. now \in since..now
            BY DEF CallInv, TypeOK
        <3>2. QED
            BY <2>1, <3>1 DEF Verified
    <2> HIDE DEF tok
    <2>5. call' \in CallType
        BY <2>2, <2>3 DEF CallType
    <2>6. call'.read \in call'.held
        BY <2>2
    <2>7. QED
        BY <2>1, <2>4, <2>5, <2>6 DEF tok
<1>3. CASE ~(Decodes(req, cookie, now) /\ dbOk)
    <2>1. call' = [found |-> FALSE, read |-> None, held |-> {}]
        BY <1>3 DEF LookUpAccount
    <2>2. QED
        BY <2>1 DEF CallType
<1>4. QED
    BY <1>2, <1>3

\* The claims leave the user with an address.
LEMMA CopiedType ==
    ASSUME NEW tok \in TokenType, NEW address \in Emails
    PROVE  Copied(tok, address) \in Emails
BY DEF Copied, TokenType

LEMMA SaveType ==
    ASSUME TypeOK, CallInv, call # None, NEW save \in SaveResults, SaveAccount(save)
    PROVE  email' \in [Users -> Emails]
<1>1. CASE save = "saved"
    <2>1. call.found /\ call \in CallType
        BY <1>1 DEF SaveAccount, TypeOK
    <2>2. CallToken
        BY <2>1 DEF CallInv
    <2>3. call.read \in Emails
        BY <2>1, <2>2 DEF CallToken, CallType
    <2>4. Copied(TokenOf(req, cookie), call.read) \in Emails
        BY <2>2, <2>3, CopiedType DEF CallToken
    <2>5. email' = [email EXCEPT ![TokenOf(req, cookie).username] = Copied(TokenOf(req, cookie), call.read)]
        BY <1>1 DEF SaveAccount
    <2>6. QED
        BY <2>4, <2>5 DEF TypeOK
<1>2. CASE save # "saved"
    BY <1>2 DEF SaveAccount, TypeOK
<1>3. QED
    BY <1>1, <1>2

-----------------------------------------------------------------------------
(* What a call of authenticate returns *)

\* The token that counts names u, and decodes at least without verification.
Names(r, c, u) ==
    /\ TokenOf(r, c) # None /\ TokenOf(r, c).username = u
    /\ unsafe_jwt_decode_handler(TokenOf(r, c))

\* The token that counts is in the header only.
ByHeader(r, c) == TokenOf(r, c) # None /\ ~is_authenticating_with_jwt_cookie(r, c)

Mismatched ==
    is_authenticating_with_jwt_cookie(req, cookie) /\ SessionMismatch(cookie, user, cache.jwtUserSet)

\* authenticate returns None, an exception, or a user it has every reason for.
LEMMA CallReports ==
    ASSUME TypeOK, CallInv, call # None, NEW save \in SaveResults
    PROVE  LET outcome == OutcomeOfCall(save)
           IN  /\ outcome \in OutcomeType
               /\ outcome.kind = "user" =>
                      /\ call.found /\ save # "failed"
                      /\ outcome.user = TokenOf(req, cookie).username /\ outcome.user \in Users
                      /\ Names(req, cookie, outcome.user) /\ Verified
                      /\ req.csrf \/ req.header \notin {None, cookie}
                      /\ outcome.attr \in {"success-auth-header", "success-cookie"}
                      /\ ENABLE_SET_REQUEST_USER_FOR_JWT_COOKIE => ~Mismatched
                      /\ ENABLE_JWT_AND_LMS_USER_EMAIL_MATCH =>
                             EmailMatches(req, cookie, call.read, now)
               /\ outcome.attr = "forgiven-failure" =>
                      is_authenticating_with_jwt_cookie(req, cookie) /\ ~Mismatched
               /\ outcome.attr = "failed-auth-header" =>
                      outcome.kind \in {"raise", "crash"} /\ ByHeader(req, cookie)
               /\ outcome.kind = "none" => ~ByHeader(req, cookie)
               /\ outcome.kind = "crash" => ByHeader(req, cookie) \/ Mismatched
<1> DEFINE outcome  == OutcomeOfCall(save)
           found    == call.found /\ save # "failed"
           succeeds == Succeeds(req, cookie, found, call.read, now)
           byCookie == is_authenticating_with_jwt_cookie(req, cookie)
           mismatch == SessionMismatch(cookie, user, cache.jwtUserSet)
           u        == TokenOf(req, cookie).username
<1>1. CASE TokenOf(req, cookie) = None
    <2>1. outcome = Outcome("none", None, "n/a")
        BY <1>1 DEF OutcomeOfCall, JwtAuthenticate, Succeeds, CallInv, CallToken
    <2>2. QED
        BY <1>1, <2>1 DEF Outcome, OutcomeType, AuthResults, ByHeader
<1>2. CASE TokenOf(req, cookie) # None /\ succeeds
    <2>1. call.found /\ save # "failed"
        BY <1>2 DEF Succeeds
    <2>2. CallToken
        BY <2>1 DEF CallInv
    <2>3. u \in Users /\ Verified /\ Names(req, cookie, u)
        <3>1. PICK time \in since..now : jwt_decode_handler(TokenOf(req, cookie), TRUE, time)
            BY <2>2 DEF CallToken, Verified
        <3>2. unsafe_jwt_decode_handler(TokenOf(req, cookie))
            BY <3>1 DEF jwt_decode_handler, unsafe_jwt_decode_handler, decode_and_verify_token
        <3>3. QED
            BY <2>2, <3>2 DEF CallToken, Names
    <2>4. ENABLE_JWT_AND_LMS_USER_EMAIL_MATCH => EmailMatches(req, cookie, call.read, now)
        BY <1>2 DEF Succeeds
    <2>5. req.csrf \/ req.header \notin {None, cookie}
        BY <1>2 DEF Succeeds, is_authenticating_with_jwt_cookie, TokenOf
    <2>6. \/ /\ outcome \in {Outcome("user", u, a) : a \in {"success-auth-header", "success-cookie"}}
             /\ ENABLE_SET_REQUEST_USER_FOR_JWT_COOKIE => ~(byCookie /\ mismatch)
          \/ outcome = Outcome("raise", None, "user-mismatch-enforced-failure")
        BY <1>2 DEF OutcomeOfCall, JwtAuthenticate
    <2> HIDE DEF outcome, byCookie, mismatch, u
    <2>7. \/ /\ outcome \in OutcomeType
             /\ outcome.kind = "user" /\ outcome.user = u
             /\ outcome.attr \in {"success-auth-header", "success-cookie"}
             /\ ENABLE_SET_REQUEST_USER_FOR_JWT_COOKIE => ~(byCookie /\ mismatch)
          \/ /\ outcome \in OutcomeType
             /\ outcome.kind = "raise" /\ outcome.attr = "user-mismatch-enforced-failure"
        BY <2>3, <2>6 DEF Outcome, OutcomeType, AuthResults
    <2>8. QED
        BY <2>1, <2>3, <2>4, <2>5, <2>7 DEF outcome, byCookie, mismatch, u, Mismatched
<1>3. CASE TokenOf(req, cookie) # None /\ ~succeeds
    <2>1. PICK reraise \in {"raise", "crash"} : outcome = FailureOutcome(byCookie, mismatch, reraise)
        BY <1>3 DEF OutcomeOfCall, JwtAuthenticate
    <2> HIDE DEF outcome, byCookie, mismatch
    <2>2. /\ outcome \in OutcomeType
          /\ \/ byCookie /\ ~mismatch /\ outcome.kind = "none" /\ outcome.attr = "forgiven-failure"
             \/ byCookie /\ mismatch /\ outcome.kind = reraise /\ outcome.attr = "user-mismatch-failure"
             \/ ~byCookie /\ outcome.kind = reraise /\ outcome.attr = "failed-auth-header"
        BY <2>1 DEF FailureOutcome, Outcome, OutcomeType, AuthResults
    <2>3. QED
        BY <1>3, <2>2 DEF outcome, byCookie, mismatch, Mismatched, ByHeader
<1>4. QED
    BY <1>1, <1>2, <1>3

\* A user named by the cookie itself is the one an unsafe decode finds.
LEMMA NamedByCookie ==
    ASSUME NEW r, NEW c, NEW u, is_authenticating_with_jwt_cookie(r, c), Names(r, c, u)
    PROVE  UnsafeUsername(c) = u
BY DEF is_authenticating_with_jwt_cookie, Names, UnsafeUsername

-----------------------------------------------------------------------------
(* Type correctness *)

\* Whatever an authenticator of the view returned, the types are kept.
AuthenticatorTyped ==
    /\ pc \in Stages \ {"idle"}
    /\ user \in Users \cup {Anonymous, LazyJwt}
    /\ remaining \in Seq(AuthenticatorClasses)
    /\ authenticator \in AuthenticatorClasses \cup {None}
    /\ response \in Responses

LEMMA AuthenticatorStepType ==
    ASSUME TypeOK, pc = "authenticate", remaining # <<>>,
           \/ \E class \in AuthenticatorClasses, u \in Users : Authenticated(class, u)
           \/ TryNext \/ Rejected \/ Crashed
    PROVE  AuthenticatorTyped'
<1>1. ASSUME NEW class \in AuthenticatorClasses, NEW u \in Users, Authenticated(class, u)
      PROVE  AuthenticatorTyped'
    BY <1>1 DEF Authenticated, TypeOK, Stages, AuthenticatorTyped
<1>2. CASE TryNext
    BY <1>2 DEF TryNext, TypeOK, Stages, AuthenticatorTyped
<1>3. CASE Rejected
    BY <1>3 DEF Rejected, TypeOK, Stages, Responses, AuthenticatorTyped
<1>4. CASE Crashed
    BY <1>4 DEF Crashed, TypeOK, Stages, Responses, AuthenticatorTyped
<1>5. QED
    BY <1>1, <1>2, <1>3, <1>4

\* What a step of the view does with the outcome of authenticate.
LEMMA JwtStepCases ==
    ASSUME NEW save \in SaveResults, RunJwtAuthentication(save)
    PROVE  \/ /\ OutcomeOfCall(save).kind = "user"
              /\ Authenticated("jwt", OutcomeOfCall(save).user)
           \/ OutcomeOfCall(save).kind = "none" /\ TryNext
           \/ OutcomeOfCall(save).kind = "raise" /\ Rejected
           \/ OutcomeOfCall(save).kind = "crash" /\ Crashed
BY DEF RunJwtAuthentication

LEMMA TypeInit == Init => TypeOK /\ CallInv
<1> SUFFICES ASSUME Init PROVE TypeOK /\ CallInv
    OBVIOUS
<1>1. cache \in CacheType
    BY DEF Init, EmptyCache, CacheType
<1>2. remaining \in Seq(AuthenticatorClasses)
    BY DEF Init
<1>3. cookie \in MaybeToken
    BY DEF Init, MaybeToken
<1>4. TypeOK
    BY <1>1, <1>2, <1>3 DEF Init, TypeOK, Stages, Responses
<1>5. CallInv
    BY DEF Init, CallInv
<1>6. QED
    BY <1>4, <1>5

LEMMA TypeStep == TypeOK /\ CallInv /\ [Next]_vars => TypeOK'
<1> SUFFICES ASSUME TypeOK, CallInv, [Next]_vars PROVE TypeOK'
    OBVIOUS
<1> USE DEF TypeOK, Stages
<1>1. CASE Tick
    BY <1>1 DEF Tick
<1>2. ASSUME NEW u \in Users, NEW e \in Emails, ChangeEmail(u, e) PROVE TypeOK'
    <2>1. call' \in CallType \cup {None}
        <3>1. CASE CallIsAbout(u)
            <4>1. call \in CallType
                BY <3>1 DEF CallIsAbout
            <4>2. [call EXCEPT !.held = @ \cup {e}] \in CallType
                BY <4>1 DEF CallType
            <4>3. QED
                BY <1>2, <3>1, <4>2 DEF ChangeEmail
        <3>2. CASE ~CallIsAbout(u)
            BY <1>2, <3>2 DEF ChangeEmail
        <3>3. QED
            BY <3>1, <3>2
    <2>2. QED
        BY <1>2, <2>1 DEF ChangeEmail
<1>3. ASSUME NEW r \in Requests, Begin(r) PROVE TypeOK'
    <2>1. r \in RequestType
        BY PipelineAssumption
    <2>2. r.full \in MaybeToken
        BY <2>1 DEF RequestType
    <2>3. QED
        BY <1>3, <2>1, <2>2, SessionUserType, ClearedCacheType DEF Begin, Responses
<1>4. CASE RedirectProcessView
    <2>1. cache' \in CacheType /\ response' \in Responses
        BY <1>4 DEF RedirectProcessView, CacheType, Responses
    <2>2. QED
        BY <1>4, <2>1 DEF RedirectProcessView
<1>5. CASE CookieProcessView
    <2>1. cache' \in CacheType
        BY <1>5 DEF CookieProcessView, CacheType, SetsRequestUser
    <2>2. cookie' \in MaybeToken
        BY <1>5, ReconstitutedType DEF CookieProcessView
    <2>3. QED
        BY <1>5, <2>1, <2>2 DEF CookieProcessView
<1>6. CASE MiddlewareReadsUser
    BY <1>6 DEF MiddlewareReadsUser
<1>7. CASE CachedUserFromJwt
    BY <1>7 DEF CachedUserFromJwt, CacheType
<1>8. CASE NoUserFromJwt
    BY <1>8 DEF NoUserFromJwt, CacheType
<1>9. ASSUME NEW dbOk \in BOOLEAN, StartUserFromJwt(dbOk) PROVE TypeOK'
    <2>1. pc # "idle"
        BY <1>9 DEF StartUserFromJwt, UserIsWanted
    <2>2. call' \in CallType
        BY <1>9, <2>1, LookUpFinds DEF StartUserFromJwt
    <2>3. QED
        BY <1>9, <2>2 DEF StartUserFromJwt
<1>10. ASSUME NEW save \in SaveResults, UserFromJwt(save) PROVE TypeOK'
    <2>1. call # None /\ SaveAccount(save) /\ UNCHANGED <<pc, now, req, since, cookie>>
        BY <1>10 DEF UserFromJwt
    <2>2. /\ OutcomeOfCall(save).attr \in AuthResults
          /\ OutcomeOfCall(save).kind = "user" => OutcomeOfCall(save).user \in Users
        BY <2>1, CallReports DEF OutcomeType
    <2>3. email' \in [Users -> Emails]
        BY <2>1, SaveType
    <2>4. user' \in Users \cup {Anonymous} /\ attr' \in AuthResults /\ reentered' \in BOOLEAN
        BY <1>10, <2>2 DEF UserFromJwt, UserOrAnonymous
    <2>5. cache' \in CacheType
        BY <1>10, <2>4 DEF UserFromJwt, CacheType
    <2>6. QED
        BY <1>10, <2>3, <2>4, <2>5 DEF UserFromJwt
<1>11. CASE EnterView
    <2>1. req.view.auth \in Seq(AuthenticatorClasses)
        BY <1>11 DEF EnterView, LeaveMiddleware, RequestType, ViewType
    <2>2. QED
        BY <1>11, <2>1 DEF EnterView, LeaveMiddleware
<1>12. CASE NotAcceptable
    BY <1>12 DEF NotAcceptable, LeaveMiddleware, Responses
<1>13. CASE RaisesEarly
    BY <1>13 DEF RaisesEarly, LeaveMiddleware, Responses
<1>14. ASSUME NEW dbOk \in BOOLEAN, StartJwtAuthentication(dbOk) PROVE TypeOK'
    <2>1. pc # "idle"
        BY <1>14 DEF StartJwtAuthentication, NextAuthenticatorIs
    <2>2. call' \in CallType
        BY <1>14, <2>1, LookUpFinds DEF StartJwtAuthentication
    <2>3. QED
        BY <1>14, <2>2 DEF StartJwtAuthentication
<1>15. ASSUME NEW save \in SaveResults, RunJwtAuthentication(save) PROVE TypeOK'
    <2>1. /\ pc = "authenticate" /\ remaining # <<>>
          /\ call # None /\ SaveAccount(save) /\ attr' = OutcomeOfCall(save).attr
        BY <1>15 DEF RunJwtAuthentication, NextAuthenticatorIs
    <2>2. /\ OutcomeOfCall(save).attr \in AuthResults
          /\ OutcomeOfCall(save).kind = "user" => OutcomeOfCall(save).user \in Users
        BY <2>1, CallReports DEF OutcomeType
    <2>3. email' \in [Users -> Emails]
        BY <2>1, SaveType
    <2>4. AuthenticatorTyped'
        BY <1>15, <2>1, <2>2, JwtStepCases, AuthenticatorStepType DEF AuthenticatorClasses
    <2>5. QED
        BY <1>15, <2>1, <2>2, <2>3, <2>4 DEF RunJwtAuthentication, AuthenticatorTyped
<1>16. ASSUME NEW class \in {"session", "session_inactive"}, RunSessionAuthentication(class) PROVE TypeOK'
    <2>1. pc = "authenticate" /\ remaining # <<>>
        BY <1>16 DEF RunSessionAuthentication, NextAuthenticatorIs
    <2>2. (user \in Users /\ Authenticated(class, user)) \/ TryNext \/ Rejected
        BY <1>16 DEF RunSessionAuthentication
    <2>3. AuthenticatorTyped'
        BY <2>1, <2>2, AuthenticatorStepType DEF AuthenticatorClasses
    <2>4. QED
        BY <1>16, <2>1, <2>3 DEF RunSessionAuthentication, AuthenticatorTyped
<1>17. CASE NotAuthenticated
    BY <1>17 DEF NotAuthenticated
<1>18. CASE CheckPermission
    BY <1>18 DEF CheckPermission, Responses
<1>19. CASE ViewRaises
    BY <1>19 DEF ViewRaises, Crashed, Responses
<1>20. CASE ProcessException
    BY <1>20, ClearedCacheType DEF ProcessException
<1>21. CASE ProcessResponse
    BY <1>21 DEF ProcessResponse, Responses
<1>22. CASE EndRequest
    BY <1>22, ClearedCacheType DEF EndRequest, Responses, MaybeToken
<1>23. CASE UNCHANGED vars
    BY <1>23 DEF vars
<1>24. QED
    BY <1>1, <1>2, <1>3, <1>4, <1>5, <1>6, <1>7, <1>8, <1>9, <1>10, <1>11, <1>12,
       <1>13, <1>14, <1>15, <1>16, <1>17, <1>18, <1>19, <1>20, <1>21, <1>22, <1>23 DEF Next

\* A call that runs keeps its place: nothing else about its request happens then.
LEMMA CallStep == TypeOK /\ CallInv /\ [Next]_vars => CallInv'
<1> SUFFICES ASSUME TypeOK, CallInv, [Next]_vars PROVE CallInv'
    OBVIOUS
<1>t. now \in Nat /\ since \in Nat
    BY DEF TypeOK
\* No call runs in most of the steps.
<1>n. ASSUME call = None, call' = None, now' = now, since' = since, pc # "idle" PROVE CallInv'
    BY <1>n DEF CallInv
<1>1. CASE Tick
    <2>1. Verified => Verified'
        <3>1. UNCHANGED <<req, cookie, since>> /\ now' = now + 1
            BY <1>1 DEF Tick
        <3>2. since..now \subseteq since..now'
            BY <1>t, <3>1
        <3>3. QED
            BY <3>1, <3>2 DEF Verified
    <2>2. CallToken => CallToken'
        BY <1>1, <2>1 DEF Tick, CallToken
    <2>3. CallPlace => CallPlace'
        BY <1>1 DEF Tick, CallPlace, UserIsWanted, NextAuthenticatorIs
    <2>4. QED
        BY <1>1, <1>t, <2>2, <2>3 DEF Tick, CallInv
<1>2. ASSUME NEW u \in Users, NEW e \in Emails, ChangeEmail(u, e) PROVE CallInv'
    <2>1. UNCHANGED <<pc, now, req, since, cookie, user, cache, remaining>>
        BY <1>2 DEF ChangeEmail
    <2>2. CallPlace' = CallPlace
        BY <2>1 DEF CallPlace, UserIsWanted, NextAuthenticatorIs
    <2>3. call' # None => call # None
        BY <1>2 DEF ChangeEmail, CallIsAbout
    <2>4. ASSUME call' # None, call'.found PROVE CallToken'
        <3>1. call \in CallType
            BY <2>3, <2>4 DEF TypeOK
        <3>2. call'.found = call.found /\ call'.read = call.read /\ call.held \subseteq call'.held
            BY <1>2, <3>1 DEF ChangeEmail, CallType
        <3>3. CallToken
            BY <2>3, <2>4, <3>2 DEF CallInv
        <3>4. Verified'
            BY <2>1, <3>3 DEF CallToken, Verified
        <3>5. QED
            BY <2>1, <3>2, <3>3, <3>4 DEF CallToken
    <2>5. QED
        BY <2>1, <2>2, <2>3, <2>4 DEF CallInv
<1>3. ASSUME NEW r \in Requests, Begin(r) PROVE CallInv'
    <2>1. call = None
        BY <1>3 DEF Begin, CallInv, CallPlace, UserIsWanted, NextAuthenticatorIs
    <2>2. QED
        BY <1>3, <1>t, <2>1 DEF Begin, CallInv
<1>4. CASE RedirectProcessView
    BY <1>4, <1>n DEF RedirectProcessView, CallInv, CallPlace, UserIsWanted, NextAuthenticatorIs
<1>5. CASE CookieProcessView
    BY <1>5, <1>n DEF CookieProcessView, CallInv, CallPlace, UserIsWanted, NextAuthenticatorIs
<1>6. CASE MiddlewareReadsUser
    BY <1>6, <1>n DEF MiddlewareReadsUser, CallInv, CallPlace, NextAuthenticatorIs
<1>7. CASE CachedUserFromJwt
    BY <1>7, <1>n DEF CachedUserFromJwt, CallInv, CallPlace, UserIsWanted, NextAuthenticatorIs
<1>8. CASE NoUserFromJwt
    BY <1>8, <1>n DEF NoUserFromJwt, CallInv, CallPlace, UserIsWanted, NextAuthenticatorIs
<1>9. ASSUME NEW dbOk \in BOOLEAN, StartUserFromJwt(dbOk) PROVE CallInv'
    <2>1. /\ pc # "idle" /\ CallPlace /\ LookUpAccount(dbOk)
          /\ UNCHANGED <<pc, now, req, since, cookie, user, cache, remaining>>
        BY <1>9 DEF StartUserFromJwt, UserIsWanted, CallPlace
    <2>2. CallPlace'
        BY <2>1 DEF CallPlace, UserIsWanted, NextAuthenticatorIs
    <2>3. call'.found => CallToken'
        BY <2>1, LookUpFinds DEF CallToken, Verified
    <2>4. QED
        BY <2>1, <2>2, <2>3 DEF CallInv
<1>10. ASSUME NEW save \in SaveResults, UserFromJwt(save) PROVE CallInv'
    BY <1>10 DEF UserFromJwt, CallInv
<1>11. CASE EnterView
    BY <1>11, <1>n DEF EnterView, LeaveMiddleware
<1>12. CASE NotAcceptable
    BY <1>12, <1>n DEF NotAcceptable, LeaveMiddleware
<1>13. CASE RaisesEarly
    BY <1>13, <1>n DEF RaisesEarly, LeaveMiddleware
<1>14. ASSUME NEW dbOk \in BOOLEAN, StartJwtAuthentication(dbOk) PROVE CallInv'
    <2>1. /\ pc # "idle" /\ CallPlace /\ LookUpAccount(dbOk)
          /\ UNCHANGED <<pc, now, req, since, cookie, user, cache, remaining>>
        BY <1>14 DEF StartJwtAuthentication, NextAuthenticatorIs, CallPlace
    <2>2. CallPlace'
        BY <2>1 DEF CallPlace, UserIsWanted, NextAuthenticatorIs
    <2>3. call'.found => CallToken'
        BY <2>1, LookUpFinds DEF CallToken, Verified
    <2>4. QED
        BY <2>1, <2>2, <2>3 DEF CallInv
<1>15. ASSUME NEW save \in SaveResults, RunJwtAuthentication(save) PROVE CallInv'
    BY <1>15 DEF RunJwtAuthentication, NextAuthenticatorIs, CallInv
<1>16. ASSUME NEW class \in {"session", "session_inactive"}, RunSessionAuthentication(class) PROVE CallInv'
    BY <1>16, <1>n DEF RunSessionAuthentication, CallInv, CallPlace, NextAuthenticatorIs
<1>17. CASE NotAuthenticated
    BY <1>17, <1>n DEF NotAuthenticated, CallInv, CallPlace, UserIsWanted, NextAuthenticatorIs
<1>18. CASE CheckPermission
    BY <1>18, <1>n DEF CheckPermission, CallInv, CallPlace, UserIsWanted, NextAuthenticatorIs
<1>19. CASE ViewRaises
    BY <1>19, <1>n DEF ViewRaises, CallInv, CallPlace, UserIsWanted, NextAuthenticatorIs
<1>20. CASE ProcessException
    BY <1>20, <1>n DEF ProcessException
<1>21. CASE ProcessResponse
    BY <1>21, <1>n DEF ProcessResponse
<1>22. CASE EndRequest
    BY <1>22 DEF EndRequest, CallInv, CallPlace, UserIsWanted, NextAuthenticatorIs
<1>23. CASE UNCHANGED vars
    BY <1>23 DEF vars, CallInv, CallPlace, CallToken, Verified, UserIsWanted, NextAuthenticatorIs
<1>24. QED
    BY <1>1, <1>2, <1>3, <1>4, <1>5, <1>6, <1>7, <1>8, <1>9, <1>10, <1>11, <1>12,
       <1>13, <1>14, <1>15, <1>16, <1>17, <1>18, <1>19, <1>20, <1>21, <1>22, <1>23 DEF Next

LEMMA Typed == Spec => [](TypeOK /\ CallInv)
BY TypeInit, TypeStep, CallStep, PTL DEF Spec

\* Every stage of every request finds each variable with a value of its type; in
\* particular a request is there whenever the worker is not idle.
THEOREM TypeCorrect == Spec => []TypeOK
BY Typed, PTL


-----------------------------------------------------------------------------
(* CSRF *)

\* Until the cookie is the one the view will see, nobody has authenticated: what
\* makes CsrfUnlessHeader survive the arrival of a request and its middleware.
CsrfInv ==
    /\ CsrfUnlessHeader
    /\ pc \in {"idle", "redirect_middleware", "cookie_middleware"} => authenticator = None

LEMMA CsrfStep == TypeOK /\ CallInv /\ CsrfInv /\ [Next]_vars => CsrfInv'
<1> SUFFICES ASSUME TypeOK, CallInv, CsrfInv, [Next]_vars PROVE CsrfInv'
    OBVIOUS
<1> USE DEF CsrfInv, CsrfUnlessHeader
<1>1. CASE Tick
    BY <1>1 DEF Tick
<1>2. ASSUME NEW u \in Users, NEW e \in Emails, ChangeEmail(u, e) PROVE CsrfInv'
    BY <1>2 DEF ChangeEmail
<1>3. ASSUME NEW r \in Requests, Begin(r) PROVE CsrfInv'
    BY <1>3 DEF Begin
<1>4. CASE RedirectProcessView
    BY <1>4 DEF RedirectProcessView
<1>5. CASE CookieProcessView
    BY <1>5 DEF CookieProcessView
<1>6. CASE MiddlewareReadsUser
    BY <1>6 DEF MiddlewareReadsUser
<1>7. CASE CachedUserFromJwt
    BY <1>7 DEF CachedUserFromJwt
<1>8. CASE NoUserFromJwt
    BY <1>8 DEF NoUserFromJwt
<1>9. ASSUME NEW dbOk \in BOOLEAN, StartUserFromJwt(dbOk) PROVE CsrfInv'
    BY <1>9 DEF StartUserFromJwt
<1>10. ASSUME NEW save \in SaveResults, UserFromJwt(save) PROVE CsrfInv'
    BY <1>10 DEF UserFromJwt
<1>11. CASE EnterView
    BY <1>11 DEF EnterView, LeaveMiddleware
<1>12. CASE NotAcceptable
    BY <1>12 DEF NotAcceptable, LeaveMiddleware
<1>13. CASE RaisesEarly
    BY <1>13 DEF RaisesEarly, LeaveMiddleware
<1>14. ASSUME NEW dbOk \in BOOLEAN, StartJwtAuthentication(dbOk) PROVE CsrfInv'
    BY <1>14 DEF StartJwtAuthentication
<1>15. ASSUME NEW save \in SaveResults, RunJwtAuthentication(save) PROVE CsrfInv'
    <2>1. pc = "authenticate" /\ call # None /\ UNCHANGED <<req, cookie>>
        BY <1>15 DEF RunJwtAuthentication, NextAuthenticatorIs
    <2>2. OutcomeOfCall(save).kind = "user" => req.csrf \/ req.header \notin {None, cookie}
        BY <2>1, CallReports
    <2>3. \/ OutcomeOfCall(save).kind = "user" /\ Authenticated("jwt", OutcomeOfCall(save).user)
          \/ TryNext \/ Rejected \/ Crashed
        BY <1>15, JwtStepCases
    <2>4. QED
        BY <2>1, <2>2, <2>3 DEF Authenticated, TryNext, Rejected, Crashed
<1>16. ASSUME NEW class \in {"session", "session_inactive"}, RunSessionAuthentication(class) PROVE CsrfInv'
    <2>1. pc = "authenticate" /\ UNCHANGED <<req, cookie>>
        BY <1>16 DEF RunSessionAuthentication, NextAuthenticatorIs
    <2>2. TryNext \/ Rejected \/ (req.csrf /\ Authenticated(class, user))
        BY <1>16 DEF RunSessionAuthentication
    <2>3. QED
        BY <2>1, <2>2 DEF Authenticated, TryNext, Rejected
<1>17. CASE NotAuthenticated
    BY <1>17 DEF NotAuthenticated
<1>18. CASE CheckPermission
    BY <1>18 DEF CheckPermission
<1>19. CASE ViewRaises
    BY <1>19 DEF ViewRaises, Crashed
<1>20. CASE ProcessException
    BY <1>20 DEF ProcessException
<1>21. CASE ProcessResponse
    BY <1>21 DEF ProcessResponse
<1>22. CASE EndRequest
    BY <1>22 DEF EndRequest
<1>23. CASE UNCHANGED vars
    BY <1>23 DEF vars
<1>24. QED
    BY <1>1, <1>2, <1>3, <1>4, <1>5, <1>6, <1>7, <1>8, <1>9, <1>10, <1>11, <1>12,
       <1>13, <1>14, <1>15, <1>16, <1>17, <1>18, <1>19, <1>20, <1>21, <1>22, <1>23 DEF Next

\* No view's request is ever authenticated by cookies, those of the session or of
\* the JWT, a header that repeats the JWT cookie included, unless it passed the
\* CSRF check.
THEOREM CsrfEnforced == Spec => []CsrfUnlessHeader
<1>1. Init => CsrfInv
    BY DEF Init, CsrfInv, CsrfUnlessHeader
<1>2. CsrfInv => CsrfUnlessHeader
    BY DEF CsrfInv
<1>3. QED
    BY <1>1, <1>2, CsrfStep, Typed, PTL DEF Spec

-----------------------------------------------------------------------------
(* The lazy request.user *)

ByJwtCookie == is_authenticating_with_jwt_cookie(req, cookie)

\* An exception ahead of authentication has emptied the cache, both flags included.
Emptied ==
    /\ HasRequestCacheMiddleware /\ response = "raised_early"
    /\ pc \in {"process_response", "done"} /\ ~cache.loginRequired

\* While request.user is lazy and a cookie counts, the flag that keeps the mismatch
\* check away from it is up, or the cache was emptied; other exceptions do not leave
\* request.user lazy, unless a header counts.
LazyInv ==
    /\ reentered => Emptied
    /\ user = LazyJwt => cache.jwtUserSet \/ ~ByJwtCookie \/ Emptied
    /\ pc \in {"idle", "redirect_middleware", "cookie_middleware", "permission"} => user # LazyJwt
    /\ pc = "process_exception" /\ user = LazyJwt /\ ByJwtCookie => response = "raised_early"

LEMMA LazyStep == TypeOK /\ CallInv /\ LazyInv /\ [Next]_vars => LazyInv'
<1> SUFFICES ASSUME TypeOK, CallInv, LazyInv, [Next]_vars PROVE LazyInv'
    OBVIOUS
<1> USE DEF LazyInv, Emptied
<1>u. LazyJwt \notin Users /\ LazyJwt # Anonymous
    BY AuthenticationAssumption
<1>f. ASSUME UNCHANGED <<req, cookie>> PROVE ByJwtCookie' = ByJwtCookie
    BY <1>f DEF ByJwtCookie
<1>1. CASE Tick
    BY <1>1, <1>f DEF Tick
<1>2. ASSUME NEW u \in Users, NEW e \in Emails, ChangeEmail(u, e) PROVE LazyInv'
    BY <1>2, <1>f DEF ChangeEmail
<1>3. ASSUME NEW r \in Requests, Begin(r) PROVE LazyInv'
    <2>1. user' \in Users \cup {Anonymous}
        BY <1>3, PipelineAssumption, SessionUserType DEF Begin
    <2>2. QED
        BY <1>3, <1>u, <2>1 DEF Begin
<1>4. CASE RedirectProcessView
    BY <1>4 DEF RedirectProcessView
<1>5. CASE CookieProcessView
    <2>1. user' = LazyJwt => cache'.jwtUserSet
        BY <1>5 DEF CookieProcessView, TypeOK, CacheType
    <2>2. QED
        BY <1>5, <2>1 DEF CookieProcessView
<1>6. CASE MiddlewareReadsUser
    BY <1>6, <1>f DEF MiddlewareReadsUser
<1>7. CASE CachedUserFromJwt
    BY <1>7, <1>u DEF CachedUserFromJwt, TypeOK, CacheType
<1>8. CASE NoUserFromJwt
    BY <1>8, <1>u DEF NoUserFromJwt, TypeOK, CacheType
<1>9. ASSUME NEW dbOk \in BOOLEAN, StartUserFromJwt(dbOk) PROVE LazyInv'
    BY <1>9, <1>f DEF StartUserFromJwt
<1>10. ASSUME NEW save \in SaveResults, UserFromJwt(save) PROVE LazyInv'
    <2>1. call # None /\ user = LazyJwt /\ UNCHANGED <<pc, req, cookie, response>>
        BY <1>10 DEF UserFromJwt
    <2>2. OutcomeOfCall(save).kind = "user" => OutcomeOfCall(save).user \in Users
        BY <2>1, CallReports
    <2>3. user' \in Users \cup {Anonymous}
        BY <1>10, <2>2 DEF UserFromJwt, UserOrAnonymous
    <2>4. reentered' => Emptied
        BY <1>10, <2>1 DEF UserFromJwt, ReadsRequestUser, ByJwtCookie
    <2>5. cache'.loginRequired = cache.loginRequired
        BY <1>10 DEF UserFromJwt, TypeOK, CacheType
    <2>6. QED
        BY <1>u, <2>1, <2>3, <2>4, <2>5
<1>11. CASE EnterView
    BY <1>11, <1>f DEF EnterView, LeaveMiddleware
<1>12. CASE NotAcceptable
    BY <1>12, <1>f DEF NotAcceptable, LeaveMiddleware
<1>13. CASE RaisesEarly
    BY <1>13, <1>f DEF RaisesEarly, LeaveMiddleware
<1>14. ASSUME NEW dbOk \in BOOLEAN, StartJwtAuthentication(dbOk) PROVE LazyInv'
    BY <1>14, <1>f DEF StartJwtAuthentication
<1>15. ASSUME NEW save \in SaveResults, RunJwtAuthentication(save) PROVE LazyInv'
    <2>1. pc = "authenticate" /\ call # None /\ UNCHANGED <<req, cookie, cache, reentered>>
        BY <1>15 DEF RunJwtAuthentication, NextAuthenticatorIs
    <2>2. OutcomeOfCall(save).kind = "user" => OutcomeOfCall(save).user \in Users
        BY <2>1, CallReports
    <2>3. OutcomeOfCall(save).kind = "crash" => ~ByJwtCookie \/ user \in Users
        BY <2>1, CallReports DEF ByHeader, Mismatched, SessionMismatch, ByJwtCookie
    <2>4. \/ OutcomeOfCall(save).kind = "user" /\ Authenticated("jwt", OutcomeOfCall(save).user)
          \/ TryNext \/ Rejected
          \/ OutcomeOfCall(save).kind = "crash" /\ Crashed
        BY <1>15, JwtStepCases
    <2>5. QED
        BY <1>u, <1>f, <2>1, <2>2, <2>3, <2>4 DEF Authenticated, TryNext, Rejected, Crashed
<1>16. ASSUME NEW class \in {"session", "session_inactive"}, RunSessionAuthentication(class) PROVE LazyInv'
    <2>1. pc = "authenticate" /\ user # LazyJwt /\ reentered' = reentered
        BY <1>16 DEF RunSessionAuthentication, NextAuthenticatorIs
    <2>2. TryNext \/ Rejected \/ Authenticated(class, user)
        BY <1>16 DEF RunSessionAuthentication
    <2>3. QED
        BY <1>u, <2>1, <2>2 DEF Authenticated, TryNext, Rejected
<1>17. CASE NotAuthenticated
    BY <1>17, <1>u DEF NotAuthenticated
<1>18. CASE CheckPermission
    BY <1>18 DEF CheckPermission
<1>19. CASE ViewRaises
    BY <1>19 DEF ViewRaises, Crashed
<1>20. CASE ProcessException
    <2>1. cache' = IF HasRequestCacheMiddleware THEN EmptyCache ELSE cache
        BY <1>20 DEF ProcessException, ClearedCache
    <2>2. HasRequestCacheMiddleware => ~cache'.loginRequired
        BY <2>1 DEF EmptyCache
    <2>3. QED
        BY <1>20, <1>f, <2>1, <2>2 DEF ProcessException
<1>21. CASE ProcessResponse
    BY <1>21, <1>f DEF ProcessResponse
<1>22. CASE EndRequest
    BY <1>22, <1>u DEF EndRequest
<1>23. CASE UNCHANGED vars
    BY <1>23, <1>f DEF vars
<1>24. QED
    BY <1>1, <1>2, <1>3, <1>4, <1>5, <1>6, <1>7, <1>8, <1>9, <1>10, <1>11, <1>12,
       <1>13, <1>14, <1>15, <1>16, <1>17, <1>18, <1>19, <1>20, <1>21, <1>22, <1>23 DEF Next

\* Resolving the lazy request.user asks for request.user again in one case only, that
\* of a view that raises ahead of authentication; without RequestCacheMiddleware never.
THEOREM LazyUserNeverReentered == Spec => []NoLazyReentry
<1>1. Init => LazyInv
    BY AuthenticationAssumption DEF Init, LazyInv
<1>2. LazyInv => NoLazyReentry
    BY DEF LazyInv, Emptied, NoLazyReentry
<1>3. QED
    BY <1>1, <1>2, LazyStep, Typed, PTL DEF Spec

-----------------------------------------------------------------------------
(* Credentials *)

\* The request gives reason to take its user for u.
Credential(u) ==
    \/ u = req.session
    \/ TokenOf(req, cookie) # None /\ TokenOf(req, cookie).username = u /\ Verified

\* The cached user needs a credential too, since it becomes request.user; and
\* before the cookie is reconstituted nobody is cached, since the cookie changes.
CredentialInv ==
    pc # "idle" =>
        /\ user \in Users => Credential(user)
        /\ cache.jwtUser \in Users => Credential(cache.jwtUser)
        /\ pc \in {"redirect_middleware", "cookie_middleware"} =>
               cache.jwtUser = None /\ user = SessionUser(req)

\* A user that authenticate returned has one.
LEMMA ReturnedHasCredential ==
    ASSUME TypeOK, CallInv, call # None, NEW save \in SaveResults, OutcomeOfCall(save).kind = "user"
    PROVE  Credential(OutcomeOfCall(save).user)
BY CallReports DEF Names, Credential

LEMMA CredentialStep ==
    ASSUME HasRequestCacheMiddleware
    PROVE  TypeOK /\ CallInv /\ CredentialInv /\ [Next]_vars => CredentialInv'
<1> SUFFICES ASSUME TypeOK, CallInv, CredentialInv, [Next]_vars PROVE CredentialInv'
    OBVIOUS
<1>f. ASSUME UNCHANGED <<req, since, cookie, now>>, NEW u
      PROVE  Credential(u)' = Credential(u)
    BY <1>f DEF Credential, Verified
<1>e. cache = [cache EXCEPT !.jwtUser = cache.jwtUser] /\ None \notin Users
    BY DecoderAssumption DEF TypeOK, CacheType
<1>k. ClearedCache.jwtUser = None
    BY DEF ClearedCache, EmptyCache
<1>1. CASE Tick
    <2>1. UNCHANGED <<req, since, cookie, pc, user, cache>> /\ now' = now + 1
        BY <1>1 DEF Tick
    <2>2. Verified => Verified'
        <3>1. since..now \subseteq since..now'
            BY <2>1 DEF TypeOK
        <3>2. QED
            BY <2>1, <3>1 DEF Verified
    <2>3. \A u : Credential(u) => Credential(u)'
        BY <2>1, <2>2 DEF Credential
    <2>4. SessionUser(req)' = SessionUser(req)
        BY <2>1
    <2>5. QED
        BY <2>1, <2>3, <2>4 DEF CredentialInv
<1>2. ASSUME NEW u \in Users, NEW e \in Emails, ChangeEmail(u, e) PROVE CredentialInv'
    BY <1>2, <1>f DEF ChangeEmail, CredentialInv
<1>3. ASSUME NEW r \in Requests, Begin(r) PROVE CredentialInv'
    <2>1. user' = SessionUser(r) /\ req' = r /\ cache'.jwtUser = None
        BY <1>3, <1>k DEF Begin
    <2>2. user' \in Users => Credential(user)'
        BY <2>1, AuthenticationAssumption DEF SessionUser, Credential
    <2>3. SessionUser(req)' = SessionUser(r)
        BY <2>1 DEF SessionUser
    <2>4. QED
        BY <1>e, <2>1, <2>2, <2>3 DEF CredentialInv
<1>4. CASE RedirectProcessView
    <2>1. cache'.jwtUser = cache.jwtUser
        BY <1>4 DEF RedirectProcessView, TypeOK, CacheType
    <2>2. SessionUser(req)' = SessionUser(req)
        BY <1>4 DEF RedirectProcessView, SessionUser
    <2>3. UNCHANGED <<req, since, cookie, now, user>> /\ pc = "redirect_middleware"
        BY <1>4 DEF RedirectProcessView
    <2>4. QED
        BY <1>f, <2>1, <2>2, <2>3 DEF CredentialInv
<1>5. CASE CookieProcessView
    <2>1. cache'.jwtUser = None
        BY <1>5 DEF CookieProcessView, CredentialInv, TypeOK, CacheType
    <2>2. user' \in Users => user' = req.session
        BY <1>5, AuthenticationAssumption DEF CookieProcessView, CredentialInv, SessionUser
    <2>3. req' = req /\ pc = "cookie_middleware" /\ pc' = "middleware"
        BY <1>5 DEF CookieProcessView
    <2>4. user' \in Users => Credential(user)'
        BY <2>2, <2>3 DEF Credential
    <2>5. QED
        BY <1>e, <2>1, <2>3, <2>4 DEF CredentialInv
<1>6. CASE MiddlewareReadsUser
    BY <1>6, <1>f DEF MiddlewareReadsUser, CredentialInv
<1>7. CASE CachedUserFromJwt
    BY <1>7, <1>f DEF CachedUserFromJwt, UserIsWanted, CredentialInv
<1>8. CASE NoUserFromJwt
    <2>1. user' = Anonymous /\ cache'.jwtUser = Anonymous /\ UNCHANGED <<pc, req, since, cookie, now>>
        BY <1>8 DEF NoUserFromJwt, TypeOK, CacheType
    <2>2. pc \notin {"redirect_middleware", "cookie_middleware"}
        BY <1>8 DEF NoUserFromJwt, UserIsWanted
    <2>3. QED
        BY <2>1, <2>2, AuthenticationAssumption DEF CredentialInv
<1>9. ASSUME NEW dbOk \in BOOLEAN, StartUserFromJwt(dbOk) PROVE CredentialInv'
    BY <1>9, <1>f DEF StartUserFromJwt, UserIsWanted, CredentialInv
<1>10. ASSUME NEW save \in SaveResults, UserFromJwt(save) PROVE CredentialInv'
    <2>1. /\ pc' = pc /\ pc \notin {"redirect_middleware", "cookie_middleware"}
          /\ call # None /\ UNCHANGED <<req, since, cookie, now>>
        BY <1>10 DEF UserFromJwt, UserIsWanted
    <2>2. user' = Anonymous \/ (OutcomeOfCall(save).kind = "user" /\ user' = OutcomeOfCall(save).user)
        BY <1>10 DEF UserFromJwt, UserOrAnonymous
    <2>3. user' \in Users => Credential(user')
        BY <2>1, <2>2, ReturnedHasCredential, AuthenticationAssumption
    <2>4. cache'.jwtUser = user'
        BY <1>10 DEF UserFromJwt, TypeOK, CacheType
    <2>5. QED
        BY <2>1, <2>3, <2>4, <1>f DEF CredentialInv
<1>11. CASE EnterView
    BY <1>11, <1>f DEF EnterView, LeaveMiddleware, CredentialInv
<1>12. CASE NotAcceptable
    BY <1>12, <1>f DEF NotAcceptable, LeaveMiddleware, CredentialInv
<1>13. CASE RaisesEarly
    BY <1>13, <1>f DEF RaisesEarly, LeaveMiddleware, CredentialInv
<1>14. ASSUME NEW dbOk \in BOOLEAN, StartJwtAuthentication(dbOk) PROVE CredentialInv'
    BY <1>14, <1>f DEF StartJwtAuthentication, NextAuthenticatorIs, CredentialInv
<1>15. ASSUME NEW save \in SaveResults, RunJwtAuthentication(save) PROVE CredentialInv'
    <2>1. pc = "authenticate" /\ call # None /\ UNCHANGED <<req, since, cookie, now, cache>>
        BY <1>15 DEF RunJwtAuthentication, NextAuthenticatorIs
    <2>2. OutcomeOfCall(save).kind = "user" => Credential(OutcomeOfCall(save).user)
        BY <2>1, ReturnedHasCredential
    <2>3. \/ OutcomeOfCall(save).kind = "user" /\ Authenticated("jwt", OutcomeOfCall(save).user)
          \/ TryNext \/ Rejected \/ Crashed
        BY <1>15, JwtStepCases
    <2>4. user' \in Users => Credential(user')
        BY <2>1, <2>2, <2>3, AuthenticationAssumption
        DEF Authenticated, TryNext, Rejected, Crashed, CredentialInv
    <2>5. pc' \notin {"redirect_middleware", "cookie_middleware"}
        BY <2>1, <2>3 DEF Authenticated, TryNext, Rejected, Crashed
    <2>6. QED
        BY <2>1, <2>4, <2>5, <1>f DEF CredentialInv
<1>16. ASSUME NEW class \in {"session", "session_inactive"}, RunSessionAuthentication(class)
       PROVE  CredentialInv'
    <2>1. pc = "authenticate" /\ UNCHANGED <<req, since, cookie, now, cache>>
        BY <1>16 DEF RunSessionAuthentication, NextAuthenticatorIs
    <2>2. TryNext \/ Rejected \/ Authenticated(class, user)
        BY <1>16 DEF RunSessionAuthentication
    <2>3. user' \in {user, Anonymous} /\ pc' \in {"authenticate", "permission", "process_response"}
        BY <2>1, <2>2 DEF TryNext, Rejected, Authenticated
    <2>4. QED
        BY <2>1, <2>3, <1>f, AuthenticationAssumption DEF CredentialInv
<1>17. CASE NotAuthenticated
    BY <1>17, <1>f, AuthenticationAssumption DEF NotAuthenticated, CredentialInv
<1>18. CASE CheckPermission
    BY <1>18, <1>f DEF CheckPermission, CredentialInv
<1>19. CASE ViewRaises
    BY <1>19, <1>f DEF ViewRaises, Crashed, CredentialInv
<1>20. CASE ProcessException
    BY <1>20, <1>f, <1>e, <1>k DEF ProcessException, CredentialInv
<1>21. CASE ProcessResponse
    BY <1>21, <1>f DEF ProcessResponse, CredentialInv
<1>22. CASE EndRequest
    BY <1>22 DEF EndRequest, CredentialInv
<1>23. CASE UNCHANGED vars
    BY <1>23, <1>f DEF vars, CredentialInv
<1>24. QED
    BY <1>1, <1>2, <1>3, <1>4, <1>5, <1>6, <1>7, <1>8, <1>9, <1>10, <1>11, <1>12,
       <1>13, <1>14, <1>15, <1>16, <1>17, <1>18, <1>19, <1>20, <1>21, <1>22, <1>23 DEF Next

\* In a service that installs RequestCacheMiddleware, request.user is never
\* anybody but whom the request itself proves, by its session or by a token that
\* verified while the request was served.
THEOREM UserIsProved ==
    ASSUME HasRequestCacheMiddleware
    PROVE  Spec => []UserHasCredential
<1>1. Init => CredentialInv
    BY DEF Init, CredentialInv
<1>2. TypeOK /\ CredentialInv => UserHasCredential
    BY DEF CredentialInv, Credential, Verified, UserHasCredential
<1>3. TypeOK /\ CallInv /\ CredentialInv /\ [Next]_vars => CredentialInv'
    BY CredentialStep
<1>4. QED
    BY <1>1, <1>2, <1>3, Typed, PTL DEF Spec

-----------------------------------------------------------------------------
(* What holds of a request as a whole in a service that installs           *)
(* RequestCacheMiddleware: who its user is at every stage, where its JWT   *)
(* led, and where it is redirected.                                        *)

Early  == {"redirect_middleware", "cookie_middleware"}
Middle == {"middleware", "authenticate"}
Late   == {"permission", "process_exception", "process_response", "done"}

\* JwtAuthentication has still to be called by the view.
JwtPending ==
    \/ pc = "middleware" /\ HasJwtAuthentication(req.view)
    \/ pc = "authenticate" /\ \E i \in DOMAIN remaining : remaining[i] = "jwt"

AsksForLogin == req.view.permission = "login"

EarlyInv ==
    /\ user = SessionUser(req) /\ middlewareUser = None
    /\ authenticator = None /\ attr = None /\ response = "none"
    /\ ~cache.jwtUserSet /\ cache.jwtUser = None
    /\ pc = "redirect_middleware" => ~cache.loginRequired

\* The flag tells whether request.user is that of the session or of the JWT. A
\* header that failed for the lazy user has still to fail in the view.
MiddleInv ==
    /\ authenticator = None /\ response = "none"
    /\ ~cache.jwtUserSet => user = SessionUser(req)
    /\ cache.jwtUserSet /\ user \in Users => Names(req, cookie, user)
    /\ user = LazyJwt => cache.jwtUser = None
    /\ middlewareUser \in Users => user = middlewareUser
    /\ attr = "forgiven-failure" /\ user \in Users => user = UnsafeUsername(cookie)
    /\ attr = "failed-auth-header" => user = Anonymous /\ JwtPending
    /\ HasJwtAuthentication(req.view) => JwtPending \/ ~ByHeader(req, cookie)

SameUser ==
    ENABLE_SET_REQUEST_USER_FOR_JWT_COOKIE /\ req.header = None
        /\ {middlewareUser, user} \subseteq Users
    => middlewareUser = user

\* A view that did not get to its permission can leave the user lazy, for the
\* middleware on the way out to resolve.
LeftLazy ==
    /\ pc # "permission" /\ response \in {"error", "not_acceptable", "raised_early"}
    /\ authenticator = None /\ cache.jwtUser = None /\ middlewareUser \notin Users

Excepted == response \in {"error", "raised_early"}

\* What the redirect middleware has answered, or will.
Redirects ==
    /\ pc = "process_response" =>
           /\ response # "redirect"
           /\ Excepted => ~cache.loginRequired
           /\ ~Excepted => (cache.loginRequired <=> req.resolves /\ AsksForLogin)
    /\ pc = "done" /\ ~Excepted =>
           (response = "redirect" <=> req.resolves /\ AsksForLogin /\ user = Anonymous)

LateInv ==
    /\ user = LazyJwt => LeftLazy
    /\ pc = "permission" => response = "none" /\ attr # "failed-auth-header"
    /\ pc = "process_exception" => Excepted
    /\ attr = "failed-auth-header" =>
           /\ authenticator = None
           /\ response \in {"rejected", "redirect", "error", "not_acceptable", "raised_early"}
    /\ attr = "forgiven-failure" /\ authenticator \in {"session", "session_inactive"}
           => user = UnsafeUsername(cookie)
    /\ SameUser
    /\ Redirects

RequestInv ==
    /\ pc = "idle" =>
           user = Anonymous /\ middlewareUser = None /\ authenticator = None /\ attr = None
    /\ pc \in Early => EarlyInv
    /\ pc \in Middle => MiddleInv
    /\ pc \in Late => LateInv
    /\ pc \in Early \cup Middle \cup {"permission"} => req.resolves
    /\ pc \in {"cookie_middleware", "permission"} \cup Middle => (cache.loginRequired <=> AsksForLogin)

\* A step that leaves a request where it is leaves the invariant alone.
LEMMA Unmoved ==
    ASSUME RequestInv, UNCHANGED <<pc, req, cookie, user, cache, remaining, authenticator, attr,
                                   response, middlewareUser>>
    PROVE  RequestInv'
BY DEF RequestInv, EarlyInv, MiddleInv, LateInv, LeftLazy, Excepted, Redirects, SameUser,
       JwtPending, AsksForLogin

-----------------------------------------------------------------------------
(* What the authenticators of the view do to the invariant *)

\* The authenticators that are left after one that is not JwtAuthentication
\* include it if they did before.
LEMMA JwtStaysPending ==
    ASSUME NEW s \in Seq(AuthenticatorClasses), s # <<>>, Head(s) # "jwt",
           \E i \in DOMAIN s : s[i] = "jwt"
    PROVE  \E i \in DOMAIN Tail(s) : Tail(s)[i] = "jwt"
<1>1. PICK i \in DOMAIN s : s[i] = "jwt"
    OBVIOUS
<1>2. i \in 2..Len(s)
    BY <1>1
<1>3. i - 1 \in DOMAIN Tail(s) /\ Tail(s)[i - 1] = "jwt"
    BY <1>1, <1>2
<1>4. QED
    BY <1>3

\* Whoever the request names before the view has chosen, a cookie that does not
\* mismatch names as well.
LEMMA CookieNamesUser ==
    ASSUME pc \in Middle, MiddleInv, user \in Users, ByJwtCookie, ~Mismatched
    PROVE  user = UnsafeUsername(cookie)
<1>1. CASE cache.jwtUserSet
    BY <1>1, NamedByCookie DEF MiddleInv, ByJwtCookie
<1>2. CASE ~cache.jwtUserSet
    BY <1>2 DEF SessionMismatch, Mismatched, ByJwtCookie
<1>3. QED
    BY <1>1, <1>2

\* Resolving the lazy user: the header's failure is left for the view to meet,
\* and a cookie's user is the one its claims name.
LEMMA LazyUserStep ==
    ASSUME TypeOK, CallInv, RequestInv, NEW save \in SaveResults, UserFromJwt(save)
    PROVE  RequestInv'
<1>1. /\ pc \in {"middleware", "authenticate", "process_exception", "process_response"}
      /\ user = LazyJwt /\ pc' = pc /\ call # None
      /\ UNCHANGED <<req, cookie, remaining, authenticator, response, middlewareUser>>
    BY DEF UserFromJwt, UserIsWanted
<1>2. cache \in CacheType
    BY DEF TypeOK
<1>3. /\ cache'.jwtUserSet = cache.jwtUserSet
      /\ cache'.loginRequired = cache.loginRequired
    BY <1>2 DEF UserFromJwt, CacheType
<1>4. /\ user' \in Users => Names(req, cookie, user') /\ attr' \notin {"forgiven-failure", "failed-auth-header"}
      /\ user' \in Users \cup {Anonymous}
      /\ attr' = "failed-auth-header" => ByHeader(req, cookie)
    <2>1. /\ OutcomeOfCall(save).kind = "user" =>
                 /\ OutcomeOfCall(save).user \in Users
                 /\ Names(req, cookie, OutcomeOfCall(save).user)
                 /\ OutcomeOfCall(save).attr \in {"success-auth-header", "success-cookie"}
          /\ OutcomeOfCall(save).attr = "failed-auth-header" => ByHeader(req, cookie)
        BY <1>1, CallReports
    <2>2. /\ user' = UserOrAnonymous(OutcomeOfCall(save)) \/ user' = Anonymous
          /\ attr' = OutcomeOfCall(save).attr
        BY DEF UserFromJwt
    <2>3. QED
        BY <2>1, <2>2, AuthenticationAssumption DEF UserOrAnonymous
<1>5. JwtPending' = JwtPending /\ AsksForLogin' = AsksForLogin
    BY <1>1 DEF JwtPending, AsksForLogin
<1>6. CASE pc \in Middle
    <2>1. MiddleInv /\ req.resolves /\ (cache.loginRequired <=> AsksForLogin)
        BY <1>6 DEF RequestInv
    <2>2. cache.jwtUserSet /\ middlewareUser \notin Users
        <3>1. req \in RequestType
            BY <1>1 DEF TypeOK
        <3>2. QED
            BY <1>1, <2>1, <3>1, SessionUserType, AuthenticationAssumption DEF MiddleInv
    <2>3. ByHeader(req, cookie) => JwtPending
        <3>1. HasJwtAuthentication(req.view)
            BY <1>1, <1>6 DEF CallInv, CallPlace, NextAuthenticatorIs, UserFromJwt, UserIsWanted, Middle
        <3>2. QED
            BY <2>1, <3>1 DEF MiddleInv
    <2>4. MiddleInv'
        BY <1>1, <1>3, <1>4, <1>5, <2>1, <2>2, <2>3, AuthenticationAssumption DEF MiddleInv
    <2>5. QED
        BY <1>1, <1>3, <1>5, <1>6, <2>1, <2>4 DEF RequestInv, Early, Middle, Late
<1>7. CASE pc \in Late
    <2>1. LateInv /\ LeftLazy
        BY <1>1, <1>7 DEF RequestInv, LateInv
    <2>2. user' # LazyJwt /\ SameUser'
        BY <1>1, <1>4, <2>1, AuthenticationAssumption DEF LeftLazy, SameUser
    <2>3. Redirects'
        BY <1>1, <1>3, <1>5, <2>1 DEF Redirects, Excepted, LateInv
    <2>4. LateInv'
        BY <1>1, <2>1, <2>2, <2>3, NoneIsNoName DEF LateInv, LeftLazy, Excepted
    <2>5. QED
        BY <1>1, <1>7, <2>4 DEF RequestInv, Early, Middle, Late
<1>8. QED
    BY <1>1, <1>6, <1>7 DEF Middle, Late

\* For a view without JwtAuthentication it is the anonymous user.
LEMMA NoLazyUserStep ==
    ASSUME TypeOK, RequestInv, NoUserFromJwt
    PROVE  RequestInv'
<1>1. /\ pc \in {"middleware", "authenticate", "process_exception", "process_response"}
      /\ user = LazyJwt /\ user' = Anonymous /\ pc' = pc /\ ~HasJwtAuthentication(req.view)
      /\ UNCHANGED <<req, cookie, remaining, authenticator, attr, response, middlewareUser>>
    BY DEF NoUserFromJwt, UserIsWanted
<1>2. /\ cache'.jwtUserSet = cache.jwtUserSet
      /\ cache'.loginRequired = cache.loginRequired
    BY DEF NoUserFromJwt, TypeOK, CacheType
<1>3. JwtPending' = JwtPending /\ AsksForLogin' = AsksForLogin
    BY <1>1 DEF JwtPending, AsksForLogin
<1>4. CASE pc \in Middle
    <2>1. MiddleInv /\ req.resolves /\ (cache.loginRequired <=> AsksForLogin)
        BY <1>4 DEF RequestInv
    <2>2. cache.jwtUserSet /\ middlewareUser \notin Users
        <3>1. req \in RequestType
            BY <1>1 DEF TypeOK
        <3>2. QED
            BY <1>1, <2>1, <3>1, SessionUserType, AuthenticationAssumption DEF MiddleInv
    <2>3. MiddleInv'
        BY <1>1, <1>2, <1>3, <2>1, <2>2, AuthenticationAssumption DEF MiddleInv
    <2>4. QED
        BY <1>1, <1>2, <1>3, <1>4, <2>1, <2>3 DEF RequestInv, Early, Middle, Late
<1>5. CASE pc \in Late
    <2>1. LateInv /\ LeftLazy
        BY <1>1, <1>5 DEF RequestInv, LateInv
    <2>2. user' # LazyJwt /\ SameUser'
        BY <1>1, <2>1, AuthenticationAssumption DEF LeftLazy, SameUser
    <2>3. Redirects'
        BY <1>1, <1>2, <1>3, <2>1 DEF Redirects, Excepted, LateInv
    <2>4. LateInv'
        BY <1>1, <2>1, <2>2, <2>3, NoneIsNoName DEF LateInv, LeftLazy, Excepted
    <2>5. QED
        BY <1>1, <1>5, <2>4 DEF RequestInv, Early, Middle, Late
<1>6. QED
    BY <1>1, <1>4, <1>5 DEF Middle, Late

LEMMA SessionStep ==
    ASSUME TypeOK, RequestInv,
           NEW class \in {"session", "session_inactive"}, RunSessionAuthentication(class)
    PROVE  RequestInv'
<1>1. /\ pc = "authenticate" /\ remaining # <<>> /\ Head(remaining) # "jwt" /\ user # LazyJwt
      /\ UNCHANGED <<req, cookie, attr, middlewareUser, cache>>
    BY DEF RunSessionAuthentication, NextAuthenticatorIs
<1>2. MiddleInv /\ req.resolves /\ (cache.loginRequired <=> AsksForLogin)
    BY <1>1 DEF RequestInv, Middle
<1>3. remaining \in Seq(AuthenticatorClasses)
    BY DEF TypeOK
<1>4. AsksForLogin' = AsksForLogin
    BY <1>1 DEF AsksForLogin
<1>5. ASSUME TryNext PROVE RequestInv'
    <2>1. JwtPending => JwtPending'
        BY <1>1, <1>3, <1>5, JwtStaysPending DEF JwtPending, TryNext
    <2>2. MiddleInv'
        BY <1>1, <1>2, <1>5, <2>1 DEF MiddleInv, TryNext
    <2>3. QED
        BY <1>1, <1>2, <1>4, <1>5, <2>2 DEF RequestInv, TryNext, Early, Middle, Late
<1>6. ASSUME user \in Users, Rejected PROVE RequestInv'
    <2>1. attr # "failed-auth-header" /\ authenticator = None
        BY <1>2, <1>6, AuthenticationAssumption DEF MiddleInv
    <2>2. Redirects'
        BY <1>1, <1>2, <1>4, <1>6 DEF Rejected, Redirects, Excepted
    <2>3. LateInv'
        BY <1>1, <1>2, <1>6, <2>1, <2>2, AuthenticationAssumption, NoneIsNoName
        DEF Rejected, LateInv, SameUser
    <2>4. QED
        BY <1>6, <2>3 DEF Rejected, RequestInv, Early, Middle, Late
<1>7. ASSUME user \in Users, Authenticated(class, user) PROVE RequestInv'
    <2>1. /\ attr # "failed-auth-header"
          /\ attr = "forgiven-failure" => user = UnsafeUsername(cookie)
          /\ middlewareUser \in Users => middlewareUser = user
        BY <1>2, <1>7, AuthenticationAssumption DEF MiddleInv
    <2>2. LateInv'
        BY <1>1, <1>2, <1>7, <2>1, AuthenticationAssumption
        DEF Authenticated, MiddleInv, LateInv, SameUser, Redirects
    <2>3. QED
        BY <1>1, <1>2, <1>4, <1>7, <2>2 DEF Authenticated, RequestInv, Early, Middle, Late
<1>8. QED
    BY <1>5, <1>6, <1>7 DEF RunSessionAuthentication

\* The lemma that joins the middleware and the view: whatever the JWT leads to,
\* it leads to no other user than the one already seen.
LEMMA JwtAuthenticationStep ==
    ASSUME TypeOK, CallInv, RequestInv, NEW save \in SaveResults, RunJwtAuthentication(save)
    PROVE  RequestInv'
<1> DEFINE outcome == OutcomeOfCall(save)
<1>1. pc = "authenticate" /\ call # None /\ UNCHANGED <<req, cookie, cache, middlewareUser>>
    BY DEF RunJwtAuthentication, NextAuthenticatorIs
<1>2. MiddleInv /\ req.resolves /\ (cache.loginRequired <=> AsksForLogin)
    BY <1>1 DEF RequestInv, Middle
<1>3. AsksForLogin' = AsksForLogin
    BY <1>1 DEF AsksForLogin
<1>4. /\ outcome.kind = "user" =>
             /\ outcome.user \in Users /\ Names(req, cookie, outcome.user)
             /\ outcome.attr \in {"success-auth-header", "success-cookie"}
             /\ ENABLE_SET_REQUEST_USER_FOR_JWT_COOKIE => ~Mismatched
      /\ outcome.attr = "forgiven-failure" => ByJwtCookie /\ ~Mismatched
      /\ outcome.attr = "failed-auth-header" => outcome.kind \in {"raise", "crash"}
      /\ outcome.kind = "none" => ~ByHeader(req, cookie)
    BY <1>1, CallReports DEF ByJwtCookie
<1>5. ByJwtCookie /\ ~Mismatched /\ user \in Users => user = UnsafeUsername(cookie)
    BY <1>1, <1>2, CookieNamesUser DEF Middle
<1>6. Names(req, cookie, outcome.user) /\ req.header = None => ByJwtCookie
    BY DEF Names, is_authenticating_with_jwt_cookie, TokenOf, ByJwtCookie
<1>7. Names(req, cookie, outcome.user) /\ ByJwtCookie => UnsafeUsername(cookie) = outcome.user
    BY NamedByCookie DEF ByJwtCookie
<1>8. attr' = outcome.attr
    BY DEF RunJwtAuthentication
<1>9. \/ outcome.kind = "user" /\ Authenticated("jwt", outcome.user)
      \/ outcome.kind = "none" /\ TryNext
      \/ Rejected \/ Crashed
    BY JwtStepCases
<1> HIDE DEF outcome
<1>10. ASSUME outcome.kind = "user", Authenticated("jwt", outcome.user) PROVE RequestInv'
    <2>1. /\ user' = outcome.user /\ authenticator' = "jwt" /\ pc' = "permission"
          /\ UNCHANGED response
        BY <1>10 DEF Authenticated
    <2>2. SameUser'
        BY <1>1, <1>2, <1>4, <1>5, <1>6, <1>7, <1>10, <2>1 DEF SameUser, MiddleInv
    <2>3. LateInv'
        BY <1>2, <1>4, <1>8, <1>10, <2>1, <2>2, AuthenticationAssumption DEF LateInv, MiddleInv, Redirects
    <2>4. QED
        BY <1>1, <1>2, <1>3, <2>1, <2>3 DEF RequestInv, Early, Middle, Late
<1>11. ASSUME outcome.kind = "none", TryNext PROVE RequestInv'
    <2>1. attr' # "failed-auth-header" /\ ~ByHeader(req, cookie)
        BY <1>4, <1>8, <1>11
    <2>2. attr' = "forgiven-failure" /\ user \in Users => user = UnsafeUsername(cookie)
        BY <1>4, <1>5, <1>8
    <2>3. MiddleInv'
        BY <1>1, <1>2, <1>11, <2>1, <2>2 DEF MiddleInv, TryNext
    <2>4. QED
        BY <1>1, <1>2, <1>3, <1>11, <2>3 DEF RequestInv, TryNext, Early, Middle, Late
<1>12. ASSUME Rejected PROVE RequestInv'
    <2>1. Redirects'
        BY <1>1, <1>2, <1>3, <1>12 DEF Rejected, Redirects, Excepted
    <2>2. LateInv'
        BY <1>1, <1>2, <1>12, <2>1, AuthenticationAssumption, NoneIsNoName
        DEF Rejected, LateInv, MiddleInv, SameUser
    <2>3. QED
        BY <1>12, <2>2 DEF Rejected, RequestInv, Early, Middle, Late
<1>13. ASSUME Crashed PROVE RequestInv'
    <2>1. /\ pc' = "process_exception" /\ response' = "error"
          /\ UNCHANGED <<user, authenticator, cache, middlewareUser, req>>
        BY <1>1, <1>13 DEF Crashed
    <2>2. (user = LazyJwt => LeftLazy)' /\ Excepted' /\ SameUser'
        BY <1>2, <2>1, AuthenticationAssumption DEF MiddleInv, LeftLazy, Excepted, SameUser
    <2>3. LateInv'
        BY <1>2, <2>1, <2>2, NoneIsNoName DEF LateInv, MiddleInv, Redirects
    <2>4. QED
        BY <2>1, <2>3 DEF RequestInv, Early, Middle, Late
<1>14. QED
    BY <1>9, <1>10, <1>11, <1>12, <1>13

-----------------------------------------------------------------------------
(* The invariant is inductive *)

\* The middleware takes over a request whose user is that of the session.
LEMMA CookieStep ==
    ASSUME TypeOK, RequestInv, CookieProcessView
    PROVE  RequestInv'
<1>1. /\ pc = "cookie_middleware" /\ pc' = "middleware"
      /\ UNCHANGED <<req, authenticator, attr, response, middlewareUser>>
    BY DEF CookieProcessView
<1>2. EarlyInv /\ req.resolves /\ (cache.loginRequired <=> AsksForLogin)
    BY <1>1 DEF RequestInv, Early
<1>3. /\ cache'.jwtUser = None /\ cache'.loginRequired = cache.loginRequired
      /\ cache'.jwtUserSet <=> SetsRequestUser(req)
    BY <1>2 DEF CookieProcessView, EarlyInv, TypeOK, CacheType
<1>4. user' = IF SetsRequestUser(req) THEN LazyJwt ELSE SessionUser(req)
    BY <1>2 DEF CookieProcessView, EarlyInv
<1>5. None \notin Users
    BY DecoderAssumption
<1>6. MiddleInv'
    <2>1. HasJwtAuthentication(req.view) => JwtPending'
        BY <1>1 DEF JwtPending
    <2>2. cache'.jwtUserSet => user' = LazyJwt
        BY <1>3, <1>4
    <2>3. ~cache'.jwtUserSet => user' = SessionUser(req)
        BY <1>3, <1>4
    <2>4. QED
        BY <1>1, <1>2, <1>3, <1>5, <2>1, <2>2, <2>3, NoneIsNoName, AuthenticationAssumption
        DEF MiddleInv, EarlyInv
<1>7. QED
    BY <1>1, <1>2, <1>3, <1>6 DEF RequestInv, Early, Middle, Late, AsksForLogin

\* A view answers or raises ahead of authentication, with what the middleware left.
LEMMA EarlyAnswerStep ==
    ASSUME RequestInv, NotAcceptable \/ RaisesEarly
    PROVE  RequestInv'
<1>1. /\ pc = "middleware"
      /\ UNCHANGED <<req, cookie, user, cache, authenticator, attr, middlewareUser>>
      /\ \/ pc' = "process_response" /\ response' = "not_acceptable"
         \/ pc' = "process_exception" /\ response' = "raised_early"
    BY DEF NotAcceptable, RaisesEarly, LeaveMiddleware
<1>2. MiddleInv /\ req.resolves /\ (cache.loginRequired <=> AsksForLogin)
    BY <1>1 DEF RequestInv, Middle
<1>3. (user = LazyJwt => LeftLazy)' /\ SameUser'
    BY <1>1, <1>2, AuthenticationAssumption DEF MiddleInv, LeftLazy, SameUser
<1>4. Redirects' /\ (pc' = "process_exception" => Excepted')
    BY <1>1, <1>2 DEF Redirects, Excepted, AsksForLogin
<1>5. LateInv'
    BY <1>1, <1>2, <1>3, <1>4, NoneIsNoName DEF LateInv, MiddleInv
<1>6. QED
    BY <1>1, <1>5 DEF RequestInv, Early, Middle, Late

\* Whoever raised, the request cache is empty when the responses are processed.
LEMMA ExceptionStep ==
    ASSUME HasRequestCacheMiddleware, RequestInv, ProcessException
    PROVE  RequestInv'
<1>1. /\ pc = "process_exception" /\ pc' = "process_response" /\ cache' = EmptyCache
      /\ UNCHANGED <<req, cookie, user, authenticator, attr, response, middlewareUser>>
    BY DEF ProcessException, ClearedCache
<1>2. LateInv /\ Excepted
    BY <1>1 DEF RequestInv, LateInv, Late
<1>3. Redirects'
    BY <1>1, <1>2 DEF Redirects, Excepted, EmptyCache
<1>4. (user = LazyJwt => LeftLazy)' /\ SameUser'
    BY <1>1, <1>2 DEF LateInv, LeftLazy, SameUser, EmptyCache
<1>5. LateInv'
    BY <1>1, <1>2, <1>3, <1>4 DEF LateInv
<1>6. QED
    BY <1>1, <1>5 DEF RequestInv, Early, Middle, Late

LEMMA RequestStep ==
    ASSUME HasRequestCacheMiddleware
    PROVE  TypeOK /\ CallInv /\ RequestInv /\ [Next]_vars => RequestInv'
<1> SUFFICES ASSUME TypeOK, CallInv, RequestInv, [Next]_vars PROVE RequestInv'
    OBVIOUS
<1> USE DEF Early, Middle, Late
<1>1. CASE Tick
    BY <1>1, Unmoved DEF Tick
<1>2. ASSUME NEW u \in Users, NEW e \in Emails, ChangeEmail(u, e) PROVE RequestInv'
    BY <1>2, Unmoved DEF ChangeEmail
<1>3. ASSUME NEW r \in Requests, Begin(r) PROVE RequestInv'
    <2>1. cache' = EmptyCache /\ user' = SessionUser(r) /\ req' = r /\ r \in RequestType
          /\ UNCHANGED <<attr, authenticator, middlewareUser>>
        BY <1>3, PipelineAssumption DEF Begin, ClearedCache
    <2>2. middlewareUser = None /\ authenticator = None /\ attr = None
        BY <1>3 DEF Begin, RequestInv
    <2>3. CASE r.resolves
        <3>1. EarlyInv'
            BY <1>3, <2>1, <2>2, <2>3 DEF Begin, EarlyInv, EmptyCache
        <3>2. QED
            BY <1>3, <2>1, <2>3, <3>1 DEF Begin, RequestInv
    <2>4. CASE ~r.resolves
        <3>1. user' # LazyJwt /\ ~cache'.loginRequired
            BY <2>1, SessionUserType, AuthenticationAssumption DEF EmptyCache
        <3>2. Redirects'
            BY <1>3, <2>1, <2>4, <3>1 DEF Begin, Redirects, Excepted
        <3>3. LateInv'
            BY <1>3, <2>1, <2>2, <2>4, <3>1, <3>2, NoneIsNoName, DecoderAssumption
            DEF Begin, LateInv, SameUser
        <3>4. QED
            BY <1>3, <2>4, <3>3 DEF Begin, RequestInv
    <2>5. QED
        BY <2>3, <2>4
<1>4. CASE RedirectProcessView
    <2>1. /\ pc = "redirect_middleware" /\ EarlyInv /\ req.resolves
          /\ UNCHANGED <<req, cookie, user, authenticator, attr, middlewareUser>>
        BY <1>4 DEF RedirectProcessView, RequestInv
    <2>2. CASE req.view.permission = "composed"
        <3>1. pc' = "process_response" /\ response' = "middleware_error" /\ cache' = cache
            BY <1>4, <2>2 DEF RedirectProcessView
        <3>2. Redirects'
            BY <2>1, <2>2, <3>1 DEF Redirects, Excepted, AsksForLogin, EarlyInv
        <3>3. user # LazyJwt
            <4>1. req \in RequestType
                BY <2>1 DEF TypeOK
            <4>2. QED
                BY <2>1, <4>1, SessionUserType, AuthenticationAssumption DEF EarlyInv
        <3>4. LateInv'
            BY <2>1, <3>1, <3>2, <3>3, NoneIsNoName, DecoderAssumption DEF LateInv, EarlyInv, SameUser
        <3>5. QED
            BY <3>1, <3>4 DEF RequestInv
    <2>3. CASE req.view.permission # "composed"
        <3>1. /\ cache'.loginRequired = AsksForLogin
              /\ cache'.jwtUserSet = cache.jwtUserSet /\ cache'.jwtUser = cache.jwtUser
              /\ pc' = "cookie_middleware" /\ response' = response
            BY <1>4, <2>3 DEF RedirectProcessView, TypeOK, CacheType, AsksForLogin
        <3>2. EarlyInv'
            BY <2>1, <3>1 DEF EarlyInv
        <3>3. QED
            BY <2>1, <3>1, <3>2 DEF RequestInv, AsksForLogin
    <2>4. QED
        BY <2>2, <2>3
<1>5. CASE CookieProcessView
    BY <1>5, CookieStep
<1>6. CASE MiddlewareReadsUser
    <2>1. MiddleInv'
        BY <1>6 DEF MiddlewareReadsUser, RequestInv, MiddleInv, JwtPending
    <2>2. QED
        BY <1>6, <2>1 DEF MiddlewareReadsUser, RequestInv, AsksForLogin
<1>7. CASE CachedUserFromJwt
    <2>1. pc \in Middle \cup Late /\ user = LazyJwt /\ cache.jwtUser # None
        BY <1>7 DEF CachedUserFromJwt, UserIsWanted
    <2>2. QED
        BY <2>1 DEF RequestInv, MiddleInv, LateInv, LeftLazy
<1>8. CASE NoUserFromJwt
    BY <1>8, NoLazyUserStep
<1>9. ASSUME NEW dbOk \in BOOLEAN, StartUserFromJwt(dbOk) PROVE RequestInv'
    BY <1>9, Unmoved DEF StartUserFromJwt
<1>10. ASSUME NEW save \in SaveResults, UserFromJwt(save) PROVE RequestInv'
    BY <1>10, LazyUserStep
<1>11. CASE EnterView
    <2>1. MiddleInv'
        BY <1>11 DEF EnterView, LeaveMiddleware, RequestInv, MiddleInv, JwtPending, HasJwtAuthentication
    <2>2. QED
        BY <1>11, <2>1 DEF EnterView, LeaveMiddleware, RequestInv, AsksForLogin
<1>12. CASE NotAcceptable
    BY <1>12, EarlyAnswerStep
<1>13. CASE RaisesEarly
    BY <1>13, EarlyAnswerStep
<1>14. ASSUME NEW dbOk \in BOOLEAN, StartJwtAuthentication(dbOk) PROVE RequestInv'
    BY <1>14, Unmoved DEF StartJwtAuthentication
<1>15. ASSUME NEW save \in SaveResults, RunJwtAuthentication(save) PROVE RequestInv'
    BY <1>15, JwtAuthenticationStep
<1>16. ASSUME NEW class \in {"session", "session_inactive"}, RunSessionAuthentication(class)
       PROVE  RequestInv'
    BY <1>16, SessionStep
<1>17. CASE NotAuthenticated
    <2>1. attr # "failed-auth-header"
        BY <1>17 DEF NotAuthenticated, RequestInv, MiddleInv, JwtPending
    <2>2. LateInv'
        BY <1>17, <2>1, NoneIsNoName, AuthenticationAssumption
        DEF NotAuthenticated, RequestInv, MiddleInv, LateInv, SameUser, Redirects
    <2>3. QED
        BY <1>17, <2>2 DEF NotAuthenticated, RequestInv, AsksForLogin
<1>18. CASE CheckPermission
    <2>1. LateInv'
        BY <1>18 DEF CheckPermission, RequestInv, LateInv, LeftLazy, SameUser, Redirects, Excepted, AsksForLogin
    <2>2. QED
        BY <1>18, <2>1 DEF CheckPermission, RequestInv
<1>19. CASE ViewRaises
    <2>1. LateInv'
        BY <1>19 DEF ViewRaises, Crashed, RequestInv, LateInv, LeftLazy, SameUser, Redirects, Excepted
    <2>2. QED
        BY <1>19, <2>1 DEF ViewRaises, Crashed, RequestInv
<1>20. CASE ProcessException
    BY <1>20, ExceptionStep
<1>21. CASE ProcessResponse
    <2>1. LateInv /\ pc = "process_response" /\ pc' = "done" /\ UNCHANGED <<req, cookie, user, cache,
              authenticator, attr, middlewareUser>>
        BY <1>21 DEF ProcessResponse, RequestInv
    <2>2. response' = IF cache.loginRequired /\ user = Anonymous THEN "redirect" ELSE response
        BY <1>21 DEF ProcessResponse
    <2>3. Redirects'
        BY <2>1, <2>2 DEF LateInv, Redirects, Excepted, AsksForLogin
    <2>4. (user = LazyJwt => LeftLazy)' /\ SameUser'
        BY <2>1, <2>2, AuthenticationAssumption DEF LateInv, LeftLazy, SameUser
    <2>5. LateInv'
        BY <2>1, <2>2, <2>3, <2>4 DEF LateInv
    <2>6. QED
        BY <2>1, <2>5 DEF RequestInv
<1>22. CASE EndRequest
    BY <1>22 DEF EndRequest, RequestInv
<1>23. CASE UNCHANGED vars
    BY <1>23, Unmoved DEF vars
<1>24. QED
    BY <1>1, <1>2, <1>3, <1>4, <1>5, <1>6, <1>7, <1>8, <1>9, <1>10, <1>11, <1>12,
       <1>13, <1>14, <1>15, <1>16, <1>17, <1>18, <1>19, <1>20, <1>21, <1>22, <1>23 DEF Next

LEMMA RequestInvariant ==
    ASSUME HasRequestCacheMiddleware
    PROVE  Spec => [](TypeOK /\ CallInv /\ RequestInv)
<1>1. Init => RequestInv
    BY DEF Init, RequestInv, Early, Middle, Late
<1>2. TypeOK /\ CallInv /\ RequestInv /\ [Next]_vars => RequestInv'
    BY RequestStep
<1>3. QED
    BY <1>1, <1>2, Typed, PTL DEF Spec

-----------------------------------------------------------------------------
(* What follows *)

\* In a service that installs RequestCacheMiddleware, a JWT header that failed
\* is the end of authentication, also where the failure was first met lazily by
\* a middleware (authentication.py:94-95, 168-169).
THEOREM HeaderFailureIsFinal ==
    ASSUME HasRequestCacheMiddleware
    PROVE  Spec => []FailedHeaderIsFinal
<1>1. ASSUME TypeOK, RequestInv PROVE FailedHeaderIsFinal
    <2>1. pc \in Late => LateInv
        BY <1>1 DEF RequestInv
    <2>2. pc = "permission" => attr # "failed-auth-header"
        BY <2>1 DEF LateInv, Late
    <2>3. QED
        BY <2>1, <2>2 DEF LateInv, Late, FailedHeaderIsFinal
<1>2. QED
    BY <1>1, RequestInvariant, PTL

\* A forgiven JWT cookie is never followed by a session authentication of
\* somebody else than the user it names (authentication.py:159-166).
THEOREM ForgivingKeepsUser ==
    ASSUME HasRequestCacheMiddleware
    PROVE  Spec => []ForgivenCookieKeepsUser
<1>1. ASSUME TypeOK, RequestInv PROVE ForgivenCookieKeepsUser
    <2>1. authenticator = None \/ pc \in Late
        BY <1>1 DEF TypeOK, Stages, RequestInv, EarlyInv, MiddleInv, Early, Middle, Late
    <2>2. QED
        BY <1>1, <2>1, NoneIsNoName DEF RequestInv, LateInv, ForgivenCookieKeepsUser
<1>2. QED
    BY <1>1, RequestInvariant, PTL

\* The user another middleware saw is the user of the view
\* (ADR 0002, authentication.py:130-136).
THEOREM IdentityIsKept ==
    ASSUME HasRequestCacheMiddleware
    PROVE  Spec => []NoIdentitySwitch
<1>1. ASSUME TypeOK, RequestInv PROVE NoIdentitySwitch
    <2>1. CASE pc \in Early
        BY <1>1, <2>1, DecoderAssumption DEF RequestInv, EarlyInv, NoIdentitySwitch
    <2>2. CASE pc \in Middle
        BY <1>1, <2>2 DEF RequestInv, MiddleInv, NoIdentitySwitch
    <2>3. CASE pc \in Late
        BY <1>1, <2>3 DEF RequestInv, LateInv, SameUser, NoIdentitySwitch
    <2>4. QED
        BY <1>1, <2>1, <2>2, <2>3 DEF TypeOK, Stages, Early, Middle, Late, NoIdentitySwitch
<1>2. QED
    BY <1>1, RequestInvariant, PTL

\* A request is redirected exactly when its view asks for login and nobody was
\* authenticated (middleware.py:129-145, 159-166).
THEOREM RedirectIsExact ==
    ASSUME HasRequestCacheMiddleware
    PROVE  Spec => []RedirectExactlyAnonymousLogin
<1>1. TypeOK /\ RequestInv => RedirectExactlyAnonymousLogin
    BY DEF RequestInv, LateInv, Late, Redirects, Excepted, AsksForLogin, RedirectExactlyAnonymousLogin
<1>2. QED
    BY <1>1, RequestInvariant, PTL

\* A step that makes request.user the user of a JWT.
TakesJwtUser ==
    user' \in Users /\ (user = LazyJwt \/ (authenticator = None /\ authenticator' = "jwt"))

\* Only two actions do: whatever else touches request.user keeps it or makes it
\* anonymous, and nobody is left in the cache to be taken from there.
LEMMA TakersOfJwtUser ==
    ASSUME TypeOK, RequestInv, Next, TakesJwtUser
    PROVE  \E save \in SaveResults : UserFromJwt(save) \/ RunJwtAuthentication(save)
<1> USE AuthenticationAssumption DEF TakesJwtUser
<1>1. ~Tick /\ ~RedirectProcessView /\ ~CookieProcessView /\ ~MiddlewareReadsUser /\ ~NoUserFromJwt
    BY NoneIsNoName DEF Tick, RedirectProcessView, CookieProcessView, MiddlewareReadsUser, NoUserFromJwt
<1>2. ~EnterView /\ ~NotAcceptable /\ ~RaisesEarly
    BY NoneIsNoName DEF EnterView, NotAcceptable, RaisesEarly
<1>3. \A u \in Users, e \in Emails : ~ChangeEmail(u, e)
    BY NoneIsNoName DEF ChangeEmail
<1>4. \A r \in Requests : ~Begin(r)
    BY NoneIsNoName DEF Begin, RequestInv
<1>5. ~CachedUserFromJwt
    BY DEF CachedUserFromJwt, UserIsWanted, RequestInv, MiddleInv, LateInv, LeftLazy, Middle, Late
<1>6. \A dbOk \in BOOLEAN : ~StartUserFromJwt(dbOk) /\ ~StartJwtAuthentication(dbOk)
    BY NoneIsNoName DEF StartUserFromJwt, StartJwtAuthentication
<1>7. \A class \in {"session", "session_inactive"} : ~RunSessionAuthentication(class)
    BY NoneIsNoName DEF RunSessionAuthentication, TryNext, Rejected, Authenticated
<1>8. ~NotAuthenticated /\ ~CheckPermission /\ ~ViewRaises
    BY NoneIsNoName DEF NotAuthenticated, CheckPermission, ViewRaises, Crashed
<1>9. ~ProcessException /\ ~ProcessResponse /\ ~EndRequest
    BY NoneIsNoName DEF ProcessException, ProcessResponse, EndRequest
<1>10. QED
    BY <1>1, <1>2, <1>3, <1>4, <1>5, <1>6, <1>7, <1>8, <1>9 DEF Next

\* What such a step finds in the call that it ends.
TokensAddressWasStored ==
    /\ call # None /\ call.found
    /\ TokenOf(req, cookie).username = user'
    /\ TokenOf(req, cookie).email \in call.held \cup {email'[user']}

LEMMA EmailStep ==
    ASSUME TypeOK, CallInv, RequestInv, Next, TakesJwtUser, ENABLE_JWT_AND_LMS_USER_EMAIL_MATCH
    PROVE  TokensAddressWasStored
<1> DEFINE tok == TokenOf(req, cookie)
<1>1. PICK save \in SaveResults : UserFromJwt(save) \/ RunJwtAuthentication(save)
    BY TakersOfJwtUser
<1>2. call # None /\ SaveAccount(save)
    BY <1>1 DEF UserFromJwt, RunJwtAuthentication
<1>3. OutcomeOfCall(save).kind = "user" /\ user' = OutcomeOfCall(save).user
    <2>1. CASE UserFromJwt(save)
        BY <2>1, AuthenticationAssumption DEF UserFromJwt, UserOrAnonymous, TakesJwtUser
    <2>2. CASE RunJwtAuthentication(save)
        <3>1. user # LazyJwt \/ ~TryNext
            BY AuthenticationAssumption DEF TryNext, TakesJwtUser
        <3>2. QED
            BY <2>2, <3>1, JwtStepCases, NoneIsNoName, AuthenticationAssumption
            DEF Authenticated, TryNext, Rejected, Crashed, TakesJwtUser
    <2>3. QED
        BY <1>1, <2>1, <2>2
<1>4. /\ call.found /\ save # "failed"
      /\ user' = tok.username
      /\ EmailMatches(req, cookie, call.read, now)
    BY <1>2, <1>3, CallReports
<1>5. Copied(tok, call.read) = tok.email /\ call.read \in call.held
    BY <1>2, <1>4 DEF EmailMatches, CallInv, CallToken
<1>6. CASE save = "not_needed"
    BY <1>2, <1>4, <1>5, <1>6 DEF SaveAccount, TokensAddressWasStored
<1>7. CASE save = "saved"
    <2>1. email' = [email EXCEPT ![tok.username] = tok.email]
        BY <1>2, <1>5, <1>7 DEF SaveAccount
    <2>2. email'[user'] = tok.email
        BY <1>4, <2>1 DEF TypeOK, TakesJwtUser
    <2>3. QED
        BY <1>2, <1>4, <2>2 DEF TokensAddressWasStored
<1>8. QED
    BY <1>4, <1>6, <1>7 DEF SaveResults

\* With the e-mail check on, the address of a token whose user is taken was stored for
\* that user at some moment since the row was read, whoever else writes to it
\* (authentication.py:113-119, 179, 331-346).
THEOREM JwtUserHasEmailOfToken ==
    ASSUME HasRequestCacheMiddleware
    PROVE  Spec => JwtUserHasTokenEmail
<1>1. TypeOK /\ CallInv /\ RequestInv /\ [Next]_vars =>
          [/\ ENABLE_JWT_AND_LMS_USER_EMAIL_MATCH
           /\ user' \in Users
           /\ user = LazyJwt \/ (authenticator = None /\ authenticator' = "jwt")
           => /\ call # None /\ call.found
              /\ TokenOf(req, cookie).username = user'
              /\ TokenOf(req, cookie).email \in call.held \cup {email'[user']}]_vars
    BY EmailStep DEF TakesJwtUser, TokensAddressWasStored
<1>2. QED
    BY <1>1, RequestInvariant, PTL DEF Spec, JwtUserHasTokenEmail

-----------------------------------------------------------------------------
(* One's own cookie *)

\* An active user's browser sends the JWT cookie of that same user, and the view
\* accepts sessions.
OwnCookie ==
    /\ req.resolves /\ req.csrf /\ req.header = None
    /\ req.session \in Users \ InactiveUsers
    /\ cookie # None /\ UnsafeUsername(cookie) = req.session
    /\ \E i \in DOMAIN req.view.auth : req.view.auth[i] # "jwt"

\* The answers to requests that were not authenticated.
Unasked == {"not_acceptable", "raised_early", "middleware_error"}

\* The user is there from the session on and stays; the view always has an
\* authenticator left that takes it.
OwnInv ==
    /\ pc \in Middle /\ OwnCookie => user = req.session /\ ~cache.jwtUserSet
    /\ pc = "authenticate" /\ OwnCookie => \E i \in DOMAIN remaining : remaining[i] # "jwt"
    /\ pc \in Late /\ OwnCookie => user = req.session /\ (response \in Unasked \/ authenticator # None)

\* JwtAuthentication either takes the same user or passes on.
LEMMA OwnCookieIsNoFailure ==
    ASSUME OwnCookie, user = req.session, NEW save
    PROVE  \/ OutcomeOfCall(save).kind = "none"
           \/ OutcomeOfCall(save).kind = "user" /\ OutcomeOfCall(save).user = req.session
<1>1. TokenOf(req, cookie) = cookie /\ is_authenticating_with_jwt_cookie(req, cookie)
    BY DEF OwnCookie, TokenOf, is_authenticating_with_jwt_cookie
<1>2. ~SessionMismatch(cookie, user, cache.jwtUserSet)
    BY DEF OwnCookie, SessionMismatch
<1>3. OutcomeOfCall(save)
          \in {Outcome("user", cookie.username, "success-cookie"), Outcome("none", None, "forgiven-failure")}
    <2>1. cookie # None
        BY DEF OwnCookie
    <2>2. QED
        BY <1>1, <1>2, <2>1 DEF OutcomeOfCall, JwtAuthenticate, FailureOutcome
<1>4. cookie.username = req.session
    BY DecoderAssumption DEF OwnCookie, UnsafeUsername
<1>5. QED
    BY <1>3, <1>4 DEF Outcome

\* Passing on from JwtAuthentication leaves the others.
LEMMA OthersStay ==
    ASSUME NEW s \in Seq(AuthenticatorClasses), s # <<>>, Head(s) = "jwt",
           \E i \in DOMAIN s : s[i] # "jwt"
    PROVE  \E i \in DOMAIN Tail(s) : Tail(s)[i] # "jwt"
<1>1. PICK i \in DOMAIN s : s[i] # "jwt"
    OBVIOUS
<1>2. i \in 2..Len(s)
    BY <1>1
<1>3. i - 1 \in DOMAIN Tail(s) /\ Tail(s)[i - 1] # "jwt"
    BY <1>1, <1>2
<1>4. QED
    BY <1>3

LEMMA OwnJwtStep ==
    ASSUME TypeOK, OwnInv, NEW save \in SaveResults, RunJwtAuthentication(save)
    PROVE  OwnInv'
<1>1. /\ pc = "authenticate" /\ remaining # <<>> /\ Head(remaining) = "jwt"
      /\ UNCHANGED <<req, cookie, cache>>
    BY DEF RunJwtAuthentication, NextAuthenticatorIs
<1>2. OwnCookie' <=> OwnCookie
    BY <1>1 DEF OwnCookie
<1> SUFFICES ASSUME OwnCookie PROVE OwnInv'
    BY <1>2 DEF OwnInv
<1>3. /\ user = req.session /\ ~cache.jwtUserSet
      /\ \E i \in DOMAIN remaining : remaining[i] # "jwt"
    BY <1>1 DEF OwnInv, Middle
<1>4. \/ OutcomeOfCall(save).kind = "none"
      \/ OutcomeOfCall(save).kind = "user" /\ OutcomeOfCall(save).user = req.session
    BY <1>3, OwnCookieIsNoFailure
<1>5. CASE OutcomeOfCall(save).kind = "user" /\ Authenticated("jwt", OutcomeOfCall(save).user)
    <2>1. user' = req.session /\ authenticator' = "jwt" /\ pc' = "permission"
        BY <1>4, <1>5 DEF Authenticated
    <2>2. QED
        BY <1>1, <2>1, NoneIsNoName DEF OwnInv, Middle, Late
<1>6. CASE OutcomeOfCall(save).kind = "none" /\ TryNext
    <2>1. remaining \in Seq(AuthenticatorClasses)
        BY DEF TypeOK
    <2>2. \E i \in DOMAIN Tail(remaining) : Tail(remaining)[i] # "jwt"
        BY <1>1, <1>3, <2>1, OthersStay
    <2>3. QED
        BY <1>1, <1>3, <1>6, <2>2 DEF TryNext, OwnInv, Middle, Late
<1>7. QED
    BY <1>4, <1>5, <1>6, JwtStepCases

LEMMA OwnStep ==
    ASSUME HasRequestCacheMiddleware
    PROVE  TypeOK /\ RequestInv /\ OwnInv /\ [Next]_vars => OwnInv'
<1> SUFFICES ASSUME TypeOK, RequestInv, OwnInv, [Next]_vars PROVE OwnInv'
    OBVIOUS
<1> USE DEF Middle, Late, Unasked
<1>f. ASSUME UNCHANGED <<req, cookie>> PROVE OwnCookie' <=> OwnCookie
    BY <1>f DEF OwnCookie
<1>u. ASSUME UNCHANGED <<pc, req, cookie, user, cache, remaining, authenticator, response>> PROVE OwnInv'
    BY <1>u, <1>f DEF OwnInv
\* A user that is not lazy is not resolved.
<1>l. ASSUME user = LazyJwt, UserIsWanted, pc' = pc, UNCHANGED <<req, cookie>> PROVE OwnInv'
    <2>1. ~OwnCookie
        BY <1>l, AuthenticationAssumption DEF UserIsWanted, OwnInv, OwnCookie
    <2>2. QED
        BY <1>l, <1>f, <2>1 DEF OwnInv
\* Nobody but the session has set request.user when the middleware is called.
<1>e. ASSUME pc \in Early, OwnCookie \/ OwnCookie', req' = req PROVE user = req.session /\ ~SetsRequestUser(req)
    <2>1. SessionUser(req) = req.session /\ req.session # Anonymous
        BY <1>e, DecoderAssumption, AuthenticationAssumption DEF OwnCookie, SessionUser
    <2>2. QED
        BY <1>e, <2>1 DEF RequestInv, EarlyInv, SetsRequestUser
<1>1. CASE Tick
    BY <1>1, <1>u DEF Tick
<1>2. ASSUME NEW u \in Users, NEW e \in Emails, ChangeEmail(u, e) PROVE OwnInv'
    BY <1>2, <1>u DEF ChangeEmail
<1>3. ASSUME NEW r \in Requests, Begin(r) PROVE OwnInv'
    BY <1>3 DEF Begin, OwnInv, OwnCookie
<1>4. CASE RedirectProcessView
    <2>1. /\ pc \in Early /\ UNCHANGED <<req, cookie, user>>
          /\ pc' = "cookie_middleware" \/ (pc' = "process_response" /\ response' = "middleware_error")
        BY <1>4 DEF RedirectProcessView, Early
    <2>2. OwnCookie' => user' = req'.session
        BY <1>e, <2>1
    <2>3. QED
        BY <2>1, <2>2 DEF OwnInv
<1>5. CASE CookieProcessView
    <2>1. req' = req /\ pc = "cookie_middleware" /\ pc \in Early /\ pc' = "middleware"
        BY <1>5 DEF CookieProcessView, Early
    <2> SUFFICES ASSUME OwnCookie' PROVE OwnInv'
        BY <2>1 DEF OwnInv
    <2>2. user = req.session /\ ~SetsRequestUser(req) /\ ~cache.jwtUserSet
        BY <1>e, <2>1 DEF RequestInv, EarlyInv
    <2>3. QED
        BY <1>5, <2>1, <2>2 DEF CookieProcessView, OwnInv, TypeOK, CacheType
<1>6. CASE MiddlewareReadsUser
    BY <1>6, <1>u DEF MiddlewareReadsUser
<1>7. CASE CachedUserFromJwt
    BY <1>7, <1>l DEF CachedUserFromJwt
<1>8. CASE NoUserFromJwt
    BY <1>8, <1>l DEF NoUserFromJwt
<1>9. ASSUME NEW dbOk \in BOOLEAN, StartUserFromJwt(dbOk) PROVE OwnInv'
    BY <1>9, <1>u DEF StartUserFromJwt
<1>10. ASSUME NEW save \in SaveResults, UserFromJwt(save) PROVE OwnInv'
    BY <1>10, <1>l DEF UserFromJwt
<1>11. CASE EnterView
    BY <1>11, <1>f DEF EnterView, LeaveMiddleware, OwnInv, OwnCookie
<1>12. CASE NotAcceptable
    BY <1>12, <1>f DEF NotAcceptable, LeaveMiddleware, OwnInv
<1>13. CASE RaisesEarly
    BY <1>13, <1>f DEF RaisesEarly, LeaveMiddleware, OwnInv
<1>14. ASSUME NEW dbOk \in BOOLEAN, StartJwtAuthentication(dbOk) PROVE OwnInv'
    BY <1>14, <1>u DEF StartJwtAuthentication
<1>15. ASSUME NEW save \in SaveResults, RunJwtAuthentication(save) PROVE OwnInv'
    BY <1>15, OwnJwtStep
<1>16. ASSUME NEW class \in {"session", "session_inactive"}, RunSessionAuthentication(class)
       PROVE  OwnInv'
    <2>1. pc = "authenticate" /\ UNCHANGED <<req, cookie>>
        BY <1>16 DEF RunSessionAuthentication, NextAuthenticatorIs
    <2> SUFFICES ASSUME OwnCookie PROVE OwnInv'
        BY <1>f, <2>1 DEF OwnInv
    <2>2. user = req.session /\ req.csrf /\ user \in Users \ InactiveUsers
        BY <2>1 DEF OwnInv, OwnCookie
    <2>3. Authenticated(class, user)
        BY <1>16, <2>2 DEF RunSessionAuthentication
    <2>4. QED
        BY <2>1, <2>2, <2>3, NoneIsNoName DEF Authenticated, OwnInv
<1>17. CASE NotAuthenticated
    <2>1. ~OwnCookie
        BY <1>17 DEF NotAuthenticated, OwnInv
    <2>2. QED
        BY <1>17, <1>f, <2>1 DEF NotAuthenticated, OwnInv
<1>18. CASE CheckPermission
    BY <1>18, <1>f DEF CheckPermission, OwnInv, RequestInv, LateInv
<1>19. CASE ViewRaises
    BY <1>19, <1>f DEF ViewRaises, Crashed, OwnInv, RequestInv, LateInv
<1>20. CASE ProcessException
    BY <1>20, <1>f DEF ProcessException, OwnInv
<1>21. CASE ProcessResponse
    <2>1. OwnCookie => user # Anonymous
        BY <1>21, AuthenticationAssumption DEF ProcessResponse, OwnInv, OwnCookie
    <2>2. QED
        BY <1>21, <1>f, <2>1 DEF ProcessResponse, OwnInv
<1>22. CASE EndRequest
    BY <1>22 DEF EndRequest, OwnInv
<1>23. CASE UNCHANGED vars
    BY <1>23, <1>u DEF vars
<1>24. QED
    BY <1>1, <1>2, <1>3, <1>4, <1>5, <1>6, <1>7, <1>8, <1>9, <1>10, <1>11, <1>12,
       <1>13, <1>14, <1>15, <1>16, <1>17, <1>18, <1>19, <1>20, <1>21, <1>22, <1>23 DEF Next

\* An active user whose browser sends that user's own JWT cookie, in whatever
\* state the token is and whether the database answers or not, is authenticated
\* by every view that accepts sessions and gets to authenticate (authentication.py:90-92).
THEOREM OwnCookieIsHarmless ==
    ASSUME HasRequestCacheMiddleware
    PROVE  Spec => []OwnCookieNeverLocksOut
<1>1. Init => OwnInv
    BY DEF Init, OwnInv, Middle, Late
<1>2. TypeOK /\ RequestInv /\ OwnInv /\ [Next]_vars => OwnInv'
    BY OwnStep
<1>3. OwnInv => OwnCookieNeverLocksOut
    BY DEF OwnInv, OwnCookie, Late, Unasked, OwnCookieNeverLocksOut
<1>4. QED
    BY <1>1, <1>2, <1>3, RequestInvariant, PTL DEF Spec
=============================================================================
