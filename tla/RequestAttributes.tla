------------------------- MODULE RequestAttributes -------------------------
(***************************************************************************)
(* RequestCustomAttributesMiddleware on a thread that serves one request   *)
(* after the other, behind RequestCacheMiddleware and after the            *)
(* middleware that authenticates.  Its four hooks look at request.user,    *)
(* which changes on the way; the first hook that finds a user is kept in   *)
(* the request cache, and what is known of the request is reported by the  *)
(* hooks on the way out: twice, if there was an exception.                 *)
(***************************************************************************)
CONSTANTS
    Users,      \* the authenticated users
    Role,       \* "superuser", "staff" or None, of each user
    None

\* The header has no credentials, two parts of which the first is the scheme,
\* or some other number of parts; cookie: the JWT cookie is among the cookies.
Request ==
    [authorization : {None, "jwt", "bearer", "malformed"}, cookie : BOOLEAN]

\* What request.user may be; NoUser if there is no such attribute, or it is None.
NoUser == "no user"
Anonymous == "anonymous"
RequestUser == Users \cup {NoUser, Anonymous}

Hooks == {"process_request", "process_view", "process_exception", "process_response"}

NoAttributes == [guess |-> None, user_id |-> None, found |-> None, role |-> None]

ASSUME AttributesAssumption ==
    /\ Role \in [Users -> {None, "superuser", "staff"}]
    /\ Users \cap {NoUser, Anonymous, None} = {}
    /\ None \notin Hooks \cup Request

VARIABLES
    pc,         \* the hook that runs next
    request,    \* the request
    user,       \* request.user
    cached,     \* the hook in the request cache of the thread
    attributes, \* the custom attributes of the request
    first,      \* history: the first hook that the user was there for
    raised      \* history: the view raised an exception

vars == <<pc, request, user, cached, attributes, first, raised>>

Init ==
    /\ pc = "idle" /\ request = None /\ user = NoUser
    /\ cached = None /\ attributes = NoAttributes
    /\ first = None /\ raised = FALSE

-----------------------------------------------------------------------------
\* RequestCacheMiddleware empties the cache of the thread, and the
\* authentication middleware, if there is one, sets the user.
Begin(r, u) ==
    /\ pc = "idle"
    /\ request' = r /\ user' = u
    /\ cached' = None /\ attributes' = NoAttributes
    /\ first' = None /\ raised' = FALSE
    /\ pc' = "process_request"

Authenticated == user \in Users

\* A fault: the last hook that finds the user is kept.
CacheLast(hook) == cached' = IF Authenticated THEN hook ELSE cached

\* _cache_if_authenticated_user_found_in_middleware
Cache(hook) == cached' = IF cached = None /\ Authenticated THEN hook ELSE cached

Sees(hook) == first' = IF first = None /\ Authenticated THEN hook ELSE first

\* A fault: the header is looked at before the user.
GuessFromHeader ==
    IF request.authorization \in {"jwt", "bearer"} THEN request.authorization
    ELSE IF user = NoUser THEN "no-user"
    ELSE IF user = Anonymous THEN "unauthenticated" ELSE "session-or-other"

Guess ==
    IF user = NoUser THEN "no-user"
    ELSE IF user = Anonymous THEN "unauthenticated"
    ELSE IF request.authorization = "malformed" THEN "other-token-type"
    ELSE IF request.authorization # None THEN request.authorization
    ELSE IF request.cookie THEN "jwt-cookie" ELSE "session-or-other"

\* A fault: the id is not looked at.
UserIdOfAny == IF user = NoUser THEN attributes.user_id ELSE user

UserId == IF Authenticated THEN user ELSE attributes.user_id

UserRole ==
    IF Authenticated /\ Role[user] # None THEN Role[user] ELSE attributes.role

FoundHook == IF cached' # None THEN cached' ELSE attributes.found

\* _set_all_request_attributes: an attribute that has no value keeps the one
\* that was reported before.
SetAll ==
    attributes' = [guess |-> Guess, user_id |-> UserId, role |-> UserRole, found |-> FoundHook]

\* The request goes on to the view, or is answered before it: by a middleware,
\* or because the URL does not resolve.
ProcessRequest ==
    /\ pc = "process_request"
    /\ Cache("process_request") /\ Sees("process_request")
    /\ pc' \in {"before process_view", "process_response"}
    /\ UNCHANGED <<request, user, attributes, raised>>

\* The process_view of a middleware further out, which may set the user: the
\* one that puts the user of the JWT cookie there.
SetsUser(u) ==
    /\ pc = "before process_view"
    /\ user' \in {user, u}
    /\ pc' = "process_view"
    /\ UNCHANGED <<request, cached, attributes, first, raised>>

ProcessView ==
    /\ pc = "process_view"
    /\ Cache("process_view") /\ Sees("process_view")
    /\ pc' \in {"view", "process_response"}
    /\ UNCHANGED <<request, user, attributes, raised>>

\* The view authenticates, logs in or logs out, and may raise.
View(u) ==
    /\ pc = "view"
    /\ user' \in {user, u}
    /\ raised' \in BOOLEAN
    /\ pc' = IF raised' THEN "process_exception" ELSE "process_response"
    /\ UNCHANGED <<request, cached, attributes, first>>

\* A fault: nothing is reported before the response.
ProcessExceptionUnreported ==
    /\ pc = "process_exception"
    /\ Cache("process_exception") /\ Sees("process_exception")
    /\ pc' = "exception"
    /\ UNCHANGED <<request, user, attributes, raised>>

ProcessException ==
    /\ pc = "process_exception"
    /\ Cache("process_exception") /\ Sees("process_exception")
    /\ SetAll
    /\ pc' = "exception"
    /\ UNCHANGED <<request, user, raised>>

\* RequestCacheMiddleware, which is further out, empties the cache after that.
CacheProcessException ==
    /\ pc = "exception"
    /\ cached' = None
    /\ pc' = "process_response"
    /\ UNCHANGED <<request, user, attributes, first, raised>>

\* The cache keeps its value until the next request.
ProcessResponse ==
    /\ pc = "process_response"
    /\ Cache("process_response") /\ Sees("process_response")
    /\ SetAll
    /\ pc' = "idle"
    /\ UNCHANGED <<request, user, raised>>

Next ==
    \/ \E r \in Request, u \in RequestUser : Begin(r, u)
    \/ ProcessRequest
    \/ \E u \in Users : SetsUser(u)
    \/ ProcessView
    \/ \E u \in RequestUser : View(u)
    \/ ProcessException \/ CacheProcessException \/ ProcessResponse

Spec == Init /\ [][Next]_vars

-----------------------------------------------------------------------------
(* Properties *)

\* The attributes of a request have been reported.
Reported == pc = "idle" /\ request # None

TypeOK ==
    /\ pc \in Hooks \cup {"idle", "before process_view", "view", "exception"}
    /\ request \in {None} \cup Request
    /\ pc # "idle" => request # None
    /\ user \in RequestUser
    /\ {cached, first, attributes.found} \subseteq Hooks \cup {None}
    /\ attributes.user_id \in Users \cup {None}
    /\ attributes.guess \in {None, "no-user", "unauthenticated", "jwt", "bearer", "other-token-type",
                             "jwt-cookie", "session-or-other"}
    /\ attributes.role \in {None, "superuser", "staff"}
    /\ raised \in BOOLEAN

\* Without an exception the hook that is reported is the very first one of this
\* request that saw a user: no later one, and none of an earlier request of the
\* thread (middleware.py:200-207).
FirstHookReported == Reported /\ ~raised => attributes.found = first

\* With an exception too a hook is reported exactly if some hook saw a user,
\* although the cache is emptied between the two reports (middleware.py:189).
ReportedIffSeen == Reported => ((attributes.found = None) <=> (first = None))

\* The guess, the id and the role are of one and the same user, also when they
\* are reported twice (middleware.py:88-93).
AttributesAgree ==
    Reported =>
        /\ (attributes.user_id = None) <=> attributes.guess \in {"no-user", "unauthenticated"}
        /\ attributes.user_id # None => attributes.user_id = user /\ attributes.role = Role[user]
        /\ attributes.user_id = None => attributes.role = None

=============================================================================
