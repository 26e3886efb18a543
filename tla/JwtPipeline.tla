---------------------------- MODULE JwtPipeline ----------------------------
(***************************************************************************)
(* One worker thread of a Django service serving requests in turn, from    *)
(* the middleware of auth/jwt/middleware.py to the authenticators and the  *)
(* permission of a REST framework view and back.                           *)
(*                                                                         *)
(* The middleware and JwtAuthentication talk to each other through         *)
(* request.user, the cookies of the request and the request cache, which   *)
(* belongs to the thread and is emptied by RequestCacheMiddleware where a  *)
(* service installs it.  Meanwhile time passes and users change e-mail.    *)
(***************************************************************************)
EXTENDS JwtAuthentication

CONSTANTS
    InactiveUsers,              \* accounts that are not activated
    HasRequestCacheMiddleware,  \* the service installs RequestCacheMiddleware
    Requests,                   \* the requests that may arrive
    MaxTime                     \* bound: the clock stops here

ASSUME PipelineAssumption ==
    /\ InactiveUsers \subseteq Users
    /\ HasRequestCacheMiddleware \in BOOLEAN
    /\ Requests \subseteq RequestType
    /\ MaxTime \in Nat

VARIABLES
    pc,             \* the stage the request has reached
    now,            \* the clock
    email,          \* the e-mail address stored for each user
    req,            \* the request being served
    since,          \* when it arrived
    cookie,         \* request.COOKIES[jwt_cookie_name()]
    user,           \* request.user of the Django request
    cache,          \* the request cache of the thread
    remaining,      \* the authenticators the view has still to try
    call,           \* what a running authenticate() has found, or None
    authenticator,  \* request.successful_authenticator
    attr,           \* the custom attribute jwt_auth_result
    response,       \* what the worker answers
    middlewareUser, \* history: the user another middleware saw, if it looked
    reentered       \* history: resolving request.user read request.user

vars == <<pc, now, email, req, since, cookie, user, cache, remaining, call,
          authenticator, attr, response, middlewareUser, reentered>>

Stages == {"idle", "redirect_middleware", "cookie_middleware", "middleware", "authenticate",
           "permission", "process_exception", "process_response", "done"}

\* not_acceptable and raised_early are what a view answers before it authenticates,
\* middleware_error what is answered for an exception of the redirect middleware.
Responses == {"none", "ok", "denied", "rejected", "redirect", "error", "not_found",
              "not_acceptable", "raised_early", "middleware_error"}

\* found: the token was decoded and the row of its user read, with the address read.
\* held (history): the addresses that the row has had since it was read.
CallType == [found : BOOLEAN, read : Emails \cup {None}, held : SUBSET Emails]

SaveResults == {"not_needed", "saved", "failed"}

\* jwtUserSet: _is_request_user_for_jwt_set; jwtUser: _cached_jwt_user;
\* loginRequired: login_required_found.
CacheType ==
    [jwtUserSet : BOOLEAN, jwtUser : Users \cup {Anonymous, None}, loginRequired : BOOLEAN]

EmptyCache == [jwtUserSet |-> FALSE, jwtUser |-> None, loginRequired |-> FALSE]

\* What RequestCacheMiddleware leaves of the cache, if the service has it.
ClearedCache == IF HasRequestCacheMiddleware THEN EmptyCache ELSE cache

SessionUser(r) == IF r.session = None THEN Anonymous ELSE r.session

Init ==
    /\ pc = "idle"
    /\ now = 0
    /\ email \in [Users -> Emails]
    /\ req = None /\ since = 0 /\ cookie = None
    /\ user = Anonymous
    /\ cache = EmptyCache
    /\ remaining = <<>> /\ call = None
    /\ authenticator = None /\ attr = None
    /\ response = "none"
    /\ middlewareUser = None
    /\ reentered = FALSE

-----------------------------------------------------------------------------
(* The world around the worker *)

Tick ==
    /\ now < MaxTime
    /\ now' = now + 1
    /\ UNCHANGED <<pc, email, req, since, cookie, user, cache, remaining, call,
                   authenticator, attr, response, middlewareUser, reentered>>

CallIsAbout(u) == call # None /\ call.found /\ TokenOf(req, cookie).username = u

\* Another worker, or other code of the service.
ChangeEmail(u, e) ==
    /\ email' = [email EXCEPT ![u] = e]
    /\ call' = IF CallIsAbout(u) THEN [call EXCEPT !.held = @ \cup {e}] ELSE call
    /\ UNCHANGED <<pc, now, req, since, cookie, user, cache, remaining,
                   authenticator, attr, response, middlewareUser, reentered>>

-----------------------------------------------------------------------------
(* On the way in *)

\* A request arrives: RequestCacheMiddleware empties the cache and
\* AuthenticationMiddleware sets request.user from the session.  A URL that
\* does not resolve is answered before any process_view is called.
Begin(r) ==
    /\ pc = "idle"
    /\ req' = r /\ since' = now
    /\ cookie' = r.full
    /\ user' = SessionUser(r)
    /\ cache' = ClearedCache
    /\ pc' = IF r.resolves THEN "redirect_middleware" ELSE "process_response"
    /\ response' = IF r.resolves THEN "none" ELSE "not_found"
    /\ UNCHANGED <<now, email, remaining, call, authenticator, attr, middlewareUser, reentered>>

\* JwtRedirectToLoginIfUnauthenticatedMiddleware.process_view.  issubclass raises for
\* a composed permission, which is not a class; no later process_view is called then,
\* and no process_exception.
RedirectProcessView ==
    /\ pc = "redirect_middleware"
    /\ IF req.view.permission = "composed"
         THEN pc' = "process_response" /\ response' = "middleware_error" /\ UNCHANGED cache
         ELSE /\ cache' = [cache EXCEPT !.loginRequired = (req.view.permission = "login")]
              /\ pc' = "cookie_middleware"
              /\ UNCHANGED response
    /\ UNCHANGED <<now, email, req, since, cookie, user, remaining, call,
                   authenticator, attr, middlewareUser, reentered>>

\* Two halves make a cookie; only halves of one token make one that verifies.
Join(payload, signature) ==
    IF payload = signature THEN payload ELSE [payload EXCEPT !.key = None]

Reconstituted(r) ==
    IF r.payload # None /\ r.signature # None THEN Join(r.payload, r.signature) ELSE r.full

\* The middleware makes request.user the lazy user of the JWT cookie.
SetsRequestUser(r) ==
    /\ Reconstituted(r) # None
    /\ ENABLE_SET_REQUEST_USER_FOR_JWT_COOKIE
    /\ SessionUser(r) = Anonymous

\* Faults: the flag is forgotten, or raised where the session has the user.
CookieWithoutFlag ==
    /\ pc = "cookie_middleware"
    /\ cookie' = Reconstituted(req)
    /\ user' = IF SetsRequestUser(req) THEN LazyJwt ELSE user
    /\ pc' = "middleware"
    /\ UNCHANGED <<now, email, req, since, cache, remaining, call,
                   authenticator, attr, response, middlewareUser, reentered>>

CookieAlwaysFlagged ==
    /\ pc = "cookie_middleware"
    /\ cookie' = Reconstituted(req)
    /\ cache' = [cache EXCEPT !.jwtUserSet =
                     @ \/ (ENABLE_SET_REQUEST_USER_FOR_JWT_COOKIE /\ cookie' # None)]
    /\ user' = IF SetsRequestUser(req) THEN LazyJwt ELSE user
    /\ pc' = "middleware"
    /\ UNCHANGED <<now, email, req, since, remaining, call,
                   authenticator, attr, response, middlewareUser, reentered>>

\* JwtAuthCookieMiddleware.process_view
CookieProcessView ==
    /\ pc = "cookie_middleware"
    /\ cookie' = Reconstituted(req)
    /\ cache' = [cache EXCEPT !.jwtUserSet = @ \/ SetsRequestUser(req)]
    /\ user' = IF SetsRequestUser(req) THEN LazyJwt ELSE user
    /\ pc' = "middleware"
    /\ UNCHANGED <<now, email, req, since, remaining, call,
                   authenticator, attr, response, middlewareUser, reentered>>

\* The process_view of some other middleware looks at request.user.
MiddlewareReadsUser ==
    /\ pc = "middleware"
    /\ user # LazyJwt
    /\ middlewareUser' = user
    /\ UNCHANGED <<pc, now, email, req, since, cookie, user, cache, remaining, call,
                   authenticator, attr, response, reentered>>

-----------------------------------------------------------------------------
(* One call of JwtAuthentication.authenticate, in two steps *)

\* The token is decoded, and get_or_create reads the row of its user.
LookUpAccount(dbOk) ==
    LET found   == Decodes(req, cookie, now) /\ dbOk
        address == email[TokenOf(req, cookie).username]
    IN  call' = IF found THEN [found |-> TRUE, read |-> address, held |-> {address}]
                         ELSE [found |-> FALSE, read |-> None, held |-> {}]

\* user.save() is called if the copied claims changed the user object, here or in
\* other attributes; it writes all of it.  (What is stored between the save and the
\* comparison is not read again, so the two are one step.)
SaveAccount(save) ==
    LET tok     == TokenOf(req, cookie)
        address == Copied(tok, call.read)
    IN  /\ save = "not_needed" \/ call.found
        /\ call.found /\ save = "not_needed" => address = call.read
        /\ email' = IF save = "saved" THEN [email EXCEPT ![tok.username] = address] ELSE email

\* The rest: the second decode, the comparison, CSRF and the mismatch check.
OutcomeOfCall(save) ==
    JwtAuthenticate(req, cookie, user, cache.jwtUserSet,
                    call.found /\ save # "failed", call.read, now)

-----------------------------------------------------------------------------
(* The lazy user *)

\* Somebody is about to look at request.user: a process_view or, on the way out, a
\* process_exception or process_response of any middleware (RequestCustomAttributes-
\* Middleware has them all), or a session authenticator of the view.
UserIsWanted ==
    \/ pc \in {"middleware", "process_exception", "process_response"}
    \/ pc = "authenticate" /\ remaining # <<>> /\ Head(remaining) # "jwt"

\* _get_cached_user_from_jwt, when the cache holds a user.
CachedUserFromJwt ==
    /\ user = LazyJwt
    /\ UserIsWanted
    /\ cache.jwtUser # None
    /\ user' = cache.jwtUser
    /\ UNCHANGED <<pc, now, email, req, since, cookie, cache, remaining, call,
                   authenticator, attr, response, middlewareUser, reentered>>

HasJwtAuthentication(view) == \E i \in DOMAIN view.auth : view.auth[i] = "jwt"

\* It calls _get_user_from_jwt, for a view without a JwtAuthentication class.
NoUserFromJwt ==
    /\ user = LazyJwt
    /\ UserIsWanted
    /\ cache.jwtUser = None
    /\ ~HasJwtAuthentication(req.view)
    /\ user' = Anonymous
    /\ cache' = [cache EXCEPT !.jwtUser = Anonymous]
    /\ UNCHANGED <<pc, now, email, req, since, cookie, remaining, call,
                   authenticator, attr, response, middlewareUser, reentered>>

\* And for a view with one, which authenticates.
StartUserFromJwt(dbOk) ==
    /\ user = LazyJwt
    /\ UserIsWanted
    /\ cache.jwtUser = None
    /\ HasJwtAuthentication(req.view)
    /\ call = None
    /\ LookUpAccount(dbOk)
    /\ UNCHANGED <<pc, now, email, req, since, cookie, user, cache, remaining,
                   authenticator, attr, response, middlewareUser, reentered>>

\* Faults: a failure returns None, or the user that the cookie names.
UserOrNone(outcome) == outcome.user

UserOrClaimed(outcome) ==
    IF outcome.kind = "user" THEN outcome.user ELSE UnsafeUsername(cookie)

\* _get_user_from_jwt: no exception leaves it, and a failure is the anonymous user.
UserOrAnonymous(outcome) == IF outcome.kind = "user" THEN outcome.user ELSE Anonymous

\* What _get_user_from_jwt returns is cached.  If authenticate reads request.user it
\* resolves it within itself, until Python's recursion limit: what comes of that is
\* the outcome or an exception.
UserFromJwt(save) ==
    LET outcome == OutcomeOfCall(save)
        reads   == ReadsRequestUser(req, cookie, cache.jwtUserSet)
    IN  /\ user = LazyJwt
        /\ UserIsWanted
        /\ call # None
        /\ SaveAccount(save)
        /\ user' = UserOrAnonymous(outcome) \/ (reads /\ user' = Anonymous)
        /\ cache' = [cache EXCEPT !.jwtUser = user']
        /\ attr' = outcome.attr
        /\ reentered' = (reentered \/ reads)
        /\ call' = None
        /\ UNCHANGED <<pc, now, req, since, cookie, remaining, authenticator, response, middlewareUser>>

-----------------------------------------------------------------------------
(* The view *)

LeaveMiddleware == pc = "middleware" /\ call = None

EnterView ==
    /\ LeaveMiddleware
    /\ remaining' = req.view.auth
    /\ pc' = "authenticate"
    /\ UNCHANGED <<now, email, req, since, cookie, user, cache, call,
                   authenticator, attr, response, middlewareUser, reentered>>

\* The REST framework answers before it authenticates: it cannot agree with the
\* client on a media type or a version.
NotAcceptable ==
    /\ LeaveMiddleware
    /\ response' = "not_acceptable"
    /\ pc' = "process_response"
    /\ UNCHANGED <<now, email, req, since, cookie, user, cache, remaining, call,
                   authenticator, attr, middlewareUser, reentered>>

\* The view raises before the REST framework authenticates, in a decorator of it or
\* in a dispatch of its own.
RaisesEarly ==
    /\ LeaveMiddleware
    /\ response' = "raised_early"
    /\ pc' = "process_exception"
    /\ UNCHANGED <<now, email, req, since, cookie, user, cache, remaining, call,
                   authenticator, attr, middlewareUser, reentered>>

NextAuthenticatorIs(class) ==
    pc = "authenticate" /\ remaining # <<>> /\ Head(remaining) = class

\* An authenticator returned u: the REST framework sets it on both requests.
Authenticated(class, u) ==
    /\ authenticator' = class
    /\ user' = u
    /\ pc' = "permission"
    /\ remaining' = <<>>
    /\ UNCHANGED response

\* It returned None.
TryNext ==
    /\ remaining' = Tail(remaining)
    /\ UNCHANGED <<pc, user, authenticator, response>>

\* It raised an APIException: the user becomes anonymous and the view answers.
Rejected ==
    /\ user' = Anonymous
    /\ response' = "rejected"
    /\ pc' = "process_response"
    /\ remaining' = <<>>
    /\ UNCHANGED authenticator

\* Any other exception: request.user stays as it is.
Crashed ==
    /\ response' = "error"
    /\ pc' = "process_exception"
    /\ remaining' = <<>>
    /\ UNCHANGED <<user, authenticator>>

StartJwtAuthentication(dbOk) ==
    /\ NextAuthenticatorIs("jwt")
    /\ call = None
    /\ LookUpAccount(dbOk)
    /\ UNCHANGED <<pc, now, email, req, since, cookie, user, cache, remaining,
                   authenticator, attr, response, middlewareUser, reentered>>

RunJwtAuthentication(save) ==
    LET outcome == OutcomeOfCall(save)
    IN  /\ NextAuthenticatorIs("jwt")
        /\ call # None
        /\ SaveAccount(save)
        /\ \/ outcome.kind = "user" /\ Authenticated("jwt", outcome.user)
           \/ outcome.kind = "none" /\ TryNext
           \/ outcome.kind = "raise" /\ Rejected
           \/ outcome.kind = "crash" /\ Crashed
        /\ attr' = outcome.attr
        /\ call' = None
        /\ UNCHANGED <<now, req, since, cookie, cache, middlewareUser, reentered>>

\* A fault: the session authenticator does not enforce CSRF.
SessionWithoutCsrf(class) ==
    /\ NextAuthenticatorIs(class)
    /\ user # LazyJwt
    /\ LET loggedIn == user \in (IF class = "session" THEN Users \ InactiveUsers ELSE Users)
       IN  \/ ~loggedIn /\ TryNext
           \/ loggedIn /\ Authenticated(class, user)
    /\ UNCHANGED <<now, email, req, since, cookie, cache, call, attr, middlewareUser, reentered>>

\* SessionAuthentication asks for an active user; AllowInactiveUser does not.
RunSessionAuthentication(class) ==
    /\ NextAuthenticatorIs(class)
    /\ user # LazyJwt
    /\ LET loggedIn == user \in (IF class = "session" THEN Users \ InactiveUsers ELSE Users)
       IN  \/ ~loggedIn /\ TryNext
           \/ loggedIn /\ ~req.csrf /\ Rejected
           \/ loggedIn /\ req.csrf /\ Authenticated(class, user)
    /\ UNCHANGED <<now, email, req, since, cookie, cache, call, attr, middlewareUser, reentered>>

\* No authenticator is left.
NotAuthenticated ==
    /\ pc = "authenticate"
    /\ remaining = <<>>
    /\ user' = Anonymous
    /\ pc' = "permission"
    /\ UNCHANGED <<now, email, req, since, cookie, cache, remaining, call,
                   authenticator, attr, response, middlewareUser, reentered>>

Permitted == req.view.permission = "any" \/ user # Anonymous

CheckPermission ==
    /\ pc = "permission"
    /\ response' = IF Permitted THEN "ok" ELSE "denied"
    /\ pc' = "process_response"
    /\ UNCHANGED <<now, email, req, since, cookie, user, cache, remaining, call,
                   authenticator, attr, middlewareUser, reentered>>

\* The body of the view raises.
ViewRaises ==
    /\ pc = "permission"
    /\ Permitted
    /\ Crashed
    /\ UNCHANGED <<now, email, req, since, cookie, cache, call, attr, middlewareUser, reentered>>

-----------------------------------------------------------------------------
(* On the way out *)

\* The hooks of the outermost middleware come last: the process_exception of
\* RequestCacheMiddleware empties the cache before any process_response.
ProcessException ==
    /\ pc = "process_exception"
    /\ call = None
    /\ cache' = ClearedCache
    /\ pc' = "process_response"
    /\ UNCHANGED <<now, email, req, since, cookie, user, remaining, call,
                   authenticator, attr, response, middlewareUser, reentered>>

\* A fault: whoever was authenticated is redirected too.
RedirectsEverybody ==
    /\ pc = "process_response"
    /\ call = None
    /\ cache.loginRequired => user # LazyJwt
    /\ response' = IF cache.loginRequired THEN "redirect" ELSE response
    /\ pc' = "done"
    /\ UNCHANGED <<now, email, req, since, cookie, user, cache, remaining, call,
                   authenticator, attr, middlewareUser, reentered>>

\* JwtRedirectToLoginIfUnauthenticatedMiddleware.process_response
ProcessResponse ==
    /\ pc = "process_response"
    /\ call = None
    /\ cache.loginRequired => user # LazyJwt
    /\ response' = IF cache.loginRequired /\ user = Anonymous THEN "redirect" ELSE response
    /\ pc' = "done"
    /\ UNCHANGED <<now, email, req, since, cookie, user, cache, remaining, call,
                   authenticator, attr, middlewareUser, reentered>>

\* The worker drops the request; RequestCacheMiddleware, the outermost
\* middleware, empties the cache.
EndRequest ==
    /\ pc = "done"
    /\ pc' = "idle"
    /\ cache' = ClearedCache
    /\ req' = None /\ since' = 0 /\ cookie' = None /\ user' = Anonymous
    /\ authenticator' = None /\ attr' = None /\ response' = "none"
    /\ middlewareUser' = None /\ reentered' = FALSE
    /\ UNCHANGED <<now, email, remaining, call>>

-----------------------------------------------------------------------------
Next ==
    \/ Tick
    \/ \E u \in Users, e \in Emails : ChangeEmail(u, e)
    \/ \E r \in Requests : Begin(r)
    \/ RedirectProcessView
    \/ CookieProcessView
    \/ MiddlewareReadsUser
    \/ CachedUserFromJwt
    \/ NoUserFromJwt
    \/ \E dbOk \in BOOLEAN : StartUserFromJwt(dbOk) \/ StartJwtAuthentication(dbOk)
    \/ \E save \in SaveResults : UserFromJwt(save) \/ RunJwtAuthentication(save)
    \/ EnterView
    \/ NotAcceptable
    \/ RaisesEarly
    \/ \E class \in {"session", "session_inactive"} : RunSessionAuthentication(class)
    \/ NotAuthenticated
    \/ CheckPermission
    \/ ViewRaises
    \/ ProcessException
    \/ ProcessResponse
    \/ EndRequest

Spec == Init /\ [][Next]_vars

-----------------------------------------------------------------------------
(* Properties *)

TypeOK ==
    /\ pc \in Stages
    /\ now \in Nat
    /\ email \in [Users -> Emails]
    /\ req \in RequestType \cup {None}
    /\ pc # "idle" => req \in RequestType
    /\ since \in Nat
    /\ cookie \in MaybeToken
    /\ user \in Users \cup {Anonymous, LazyJwt}
    /\ cache \in CacheType
    /\ remaining \in Seq(AuthenticatorClasses)
    /\ call \in CallType \cup {None}
    /\ authenticator \in AuthenticatorClasses \cup {None}
    /\ attr \in AuthResults \cup {None}
    /\ response \in Responses
    /\ middlewareUser \in Users \cup {Anonymous, None}
    /\ reentered \in BOOLEAN

\* A user the cookies of the browser authenticate (the JWT cookie or the
\* session) has passed the CSRF check; only a JWT header that the browser did not
\* copy from the cookie needs none (authentication.py:121-126, 255-261,
\* session/authentication.py:47).
CsrfUnlessHeader ==
    authenticator # None =>
        req.csrf \/ (authenticator = "jwt" /\ req.header \notin {None, cookie})

\* Whoever request.user names at any stage, lazily cached users included, the
\* request itself carries the proof: the session login, or a token that named
\* the user and verified at some time since the request arrived.  A user cached
\* for an earlier request of the thread has neither (middleware.py:265-276).
UserHasCredential ==
    pc # "idle" /\ user \in Users =>
        \/ user = req.session
        \/ LET tok == TokenOf(req, cookie)
           IN  /\ tok # None /\ tok.username = user
               /\ \E time \in since..now : jwt_decode_handler(tok, TRUE, time)

\* Resolving the lazy request.user never reads request.user, which would
\* resolve it again without end: the mismatch check of JwtAuthentication is
\* skipped because the middleware set the flag first (authentication.py:286-290).
\* The one exception is a view that raises before it authenticates: then the flag is
\* gone, with the request cache, when a process_response asks for the user.
NoLazyReentry == reentered => HasRequestCacheMiddleware /\ response = "raised_early"

\* With the toggle on, the user a middleware saw and the user the view
\* authenticated are never two different people, however the token's state
\* changed in between, unless a JWT header overrides the cookies
\* (ADR 0002, authentication.py:130-136).
NoIdentitySwitch ==
    ENABLE_SET_REQUEST_USER_FOR_JWT_COOKIE /\ pc # "idle" /\ req.header = None
        /\ {middlewareUser, user} \subseteq Users
    => middlewareUser = user

\* A JWT cookie that failed and was forgiven never leads to a session
\* authentication of somebody else than the user it names
\* (authentication.py:159-166, ADR 0002).
ForgivenCookieKeepsUser ==
    attr = "forgiven-failure" /\ authenticator \in {"session", "session_inactive"}
    => user = UnsafeUsername(cookie)

\* A JWT header that failed is the end of authentication: no later
\* authenticator succeeds and the view's body is not reached, even for a
\* browser that is logged in (authentication.py:94-95, 168-169).
FailedHeaderIsFinal ==
    attr = "failed-auth-header"
        /\ pc \in {"permission", "process_exception", "process_response", "done"}
    => /\ authenticator = None
       /\ response \in {"rejected", "redirect", "error", "not_acceptable", "raised_early"}

\* An expired, premature, unverifiable or database-stricken JWT cookie never keeps
\* out the very user whose session it accompanies, if the view accepts sessions and
\* gets to authenticate (authentication.py:90-92).
OwnCookieNeverLocksOut ==
    /\ pc = "done" /\ req.resolves /\ req.csrf /\ req.header = None
    /\ response \notin {"not_acceptable", "raised_early", "middleware_error"}
    /\ req.session \in Users \ InactiveUsers
    /\ cookie # None /\ UnsafeUsername(cookie) = req.session
    /\ \E i \in DOMAIN req.view.auth : req.view.auth[i] # "jwt"
    => authenticator # None /\ user = req.session

\* A request is redirected to login exactly when its own view asks for login
\* and nobody was authenticated, unless an exception escaped: the flag read on
\* the way out is the one this request cached on the way in
\* (middleware.py:129-145, 159-166).
RedirectExactlyAnonymousLogin ==
    pc = "done" /\ response \notin {"error", "raised_early"} =>
        (response = "redirect" <=>
            req.resolves /\ req.view.permission = "login" /\ user = Anonymous)

\* With ENABLE_JWT_AND_LMS_USER_EMAIL_MATCH, whoever becomes request.user by a JWT,
\* for a middleware or for the view, has had the address of the token stored at some
\* moment since authenticate read the row, however the addresses of users and the
\* state of the token changed meanwhile; not necessarily at the end, since the object
\* compared is the one that was read (authentication.py:113-119, 179, 331-346).
JwtUserHasTokenEmail ==
    [][/\ ENABLE_JWT_AND_LMS_USER_EMAIL_MATCH
       /\ user' \in Users
       /\ user = LazyJwt \/ (authenticator = None /\ authenticator' = "jwt")
       => /\ call # None /\ call.found
          /\ TokenOf(req, cookie).username = user'
          /\ TokenOf(req, cookie).email \in call.held \cup {email'[user']}]_vars

\* What the redirect middleware says of itself: it only affects endpoints using the
\* LoginRedirectIfUnauthenticated permission class (middleware.py:109).
OnlyLoginViewsAffected ==
    response \in {"redirect", "middleware_error"} => req.view.permission = "login"

=============================================================================
