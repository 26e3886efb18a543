----------------------------- MODULE JwtAccess -----------------------------
(***************************************************************************)
(* The permission JWT_RESTRICTED_APPLICATION_OR_USER_ACCESS:               *)
(*                                                                         *)
(*   IsAuthenticated & (                                                   *)
(*     NotJwtRestrictedApplication & (IsStaff | IsUserInUrl)               *)
(*     | JwtRestrictedApplication & JwtHasScope                            *)
(*       & JwtHasContentOrgFilterForRequestedCourse                        *)
(*       & JwtHasUserFilterForRequestedUser )                              *)
(*                                                                         *)
(* The REST framework evaluates the operands in this order and stops as    *)
(* soon as it can.  Each that looks at a claim decodes request.auth again, *)
(* and the token may expire from one to the next.                          *)
(***************************************************************************)
EXTENDS Integers, Sequences

CONSTANTS
    Usernames,
    Lower,      \* str.lower on usernames
    Scopes,
    Orgs,       \* organizations of courses
    Requests,   \* the requests that a view with this permission may see
    MaxTime,    \* bound: the clock stops here
    None        \* the empty string; a claim, parameter or token that is absent

\* "type:value" of the filters claim; pair: splitting at ":" gives two parts.
Filter ==
    [type : {"content_org"}, value : Orgs \cup {None}, pair : BOOLEAN]
        \cup [type : {"user"}, value : Usernames \cup {"me", None}, pair : BOOLEAN]

Token ==
    [exp : Nat, restricted : {None} \cup BOOLEAN, scopes : {None} \cup SUBSET Scopes,
     filters : {None} \cup Seq(Filter)]

\* kwarg, query: the username in the URL's path and in its query string; org:
\* that of the course_id in the path; required: required_scopes of the view.
Request ==
    [by : {"anonymous", "session", "jwt"}, username : Usernames \cup {None}, staff : BOOLEAN,
     auth : {None} \cup Token, kwarg : Usernames \cup {None}, query : Usernames \cup {None},
     org : Orgs \cup {None}, required : SUBSET Scopes]

ASSUME AccessAssumption ==
    /\ Lower \in [Usernames -> Usernames] /\ \A n \in Usernames : Lower[Lower[n]] = Lower[n]
    /\ None \notin Usernames \cup Orgs \cup {"allowed", "denied", "error"}
    /\ Requests \subseteq Request /\ None \notin Requests
    /\ \A r \in Requests : (r.by = "jwt") <=> (r.auth # None)
    /\ \A r \in Requests : (r.by = "anonymous") <=> (r.username = None)
    /\ MaxTime \in Nat

VARIABLES
    pc,         \* the operand that is evaluated next
    now,        \* the clock
    request,    \* the request
    began,      \* history: when the evaluation began
    answer      \* "allowed", "denied", or "error" if an exception escaped

vars == <<pc, now, request, began, answer>>

Init ==
    /\ pc = "idle" /\ now = 0 /\ request = None /\ began = 0 /\ answer = None

-----------------------------------------------------------------------------
(* The claims of a token *)

\* A fault: the claims are read without verifying the token.
DecodesUnverified(time) == request.auth # None

DecodesAt(time) == request.auth # None /\ time < request.auth.exp

decode_jwt_is_restricted(token) == token.restricted # None /\ token.restricted
decode_jwt_scopes(token) == IF token.scopes = None THEN {} ELSE token.scopes
decode_jwt_filters(token) == IF token.filters = None THEN <<>> ELSE token.filters

LowerOf(name) == IF name = None THEN None ELSE Lower[name]

get_username_param(r) == LowerOf(IF r.kwarg # None THEN r.kwarg ELSE r.query)

-----------------------------------------------------------------------------
Tick ==
    /\ now < MaxTime
    /\ now' = now + 1
    /\ UNCHANGED <<pc, request, began, answer>>

\* The request has been authenticated: its token decodes.  One request is
\* enough, since the permissions keep nothing from one to the next.
Authenticate(r) ==
    /\ pc = "idle" /\ request = None
    /\ r.by = "jwt" => now < r.auth.exp
    /\ request' = r
    /\ pc' = "IsAuthenticated"
    /\ UNCHANGED <<now, began, answer>>

Continue(next) == pc' = next /\ UNCHANGED <<now, request, began, answer>>

Answer(a) == pc' = "idle" /\ answer' = a /\ UNCHANGED <<now, request, began>>

IsAuthenticated ==
    /\ pc = "IsAuthenticated"
    /\ began' = now
    /\ pc' = IF request.by = "anonymous" THEN "idle" ELSE "NotJwtRestricted"
    /\ answer' = IF request.by = "anonymous" THEN "denied" ELSE answer
    /\ UNCHANGED <<now, request>>

\* NotJwtRestrictedApplication and JwtRestrictedApplication ask the same
\* question; only a request that a JWT authenticated is decoded for it.
Restriction(operand, restricted, unrestricted) ==
    /\ pc = operand
    /\ \/ request.by # "jwt" /\ unrestricted
       \/ request.by = "jwt" /\ ~DecodesAt(now) /\ Answer("error")
       \/ /\ request.by = "jwt" /\ DecodesAt(now)
          /\ IF decode_jwt_is_restricted(request.auth) THEN restricted ELSE unrestricted

NotJwtRestricted == Restriction("NotJwtRestricted", Continue("JwtRestricted"), Continue("IsStaff"))

\* A fault: only a token that says it is not restricted is turned away.
JwtUnlessUnrestricted ==
    Restriction("JwtRestricted", Continue("JwtHasScope"),
                IF request.by = "jwt" THEN Answer("denied") ELSE Continue("JwtHasScope"))

JwtRestricted == Restriction("JwtRestricted", Continue("JwtHasScope"), Answer("denied"))

IsStaff ==
    /\ pc = "IsStaff"
    /\ IF request.staff THEN Answer("allowed") ELSE Continue("IsUserInUrl")

IsUserInUrl ==
    /\ pc = "IsUserInUrl"
    /\ IF LowerOf(request.username) = get_username_param(request)
         THEN Answer("allowed")
         ELSE Continue("JwtRestricted")

\* A fault: a view without required scopes asks for none.
JwtHasAnyRequiredScope ==
    /\ pc = "JwtHasScope"
    /\ IF ~DecodesAt(now) THEN Answer("error")
       ELSE IF request.required \subseteq decode_jwt_scopes(request.auth)
         THEN Continue("ContentOrgFilter") ELSE Answer("denied")

JwtHasScope ==
    /\ pc = "JwtHasScope"
    /\ IF ~DecodesAt(now) THEN Answer("error")
       ELSE IF request.required # {} /\ request.required \subseteq decode_jwt_scopes(request.auth)
         THEN Continue("ContentOrgFilter") ELSE Answer("denied")

\* The loop over the filters ends at the first one that does not unpack or
\* that wanted accepts; it goes on behind the last one otherwise.
ForFirst(wanted(_), found(_), otherwise) ==
    LET filters == decode_jwt_filters(request.auth)
        Stops(i) == ~filters[i].pair \/ wanted(filters[i])
    IN  \/ (\A i \in DOMAIN filters : ~Stops(i)) /\ otherwise
        \/ \E i \in DOMAIN filters :
               /\ Stops(i) /\ \A j \in 1..(i - 1) : ~Stops(j)
               /\ IF filters[i].pair THEN found(filters[i]) ELSE Answer("error")

NamesOrg(filter) == filter.type = "content_org" /\ filter.value = request.org

\* JwtHasContentOrgFilterForRequestedCourse; a course_id that is no key raises.
ContentOrgFilter ==
    /\ pc = "ContentOrgFilter"
    /\ IF request.org = None \/ ~DecodesAt(now) THEN Answer("error")
       ELSE ForFirst(NamesOrg, LAMBDA f : Continue("UserFilter"), Answer("denied"))

IsUserFilter(filter) == filter.type = "user"

\* A fault: the user's own name is not lower-cased.
FilteredAsIs(filter) == IF filter.value = "me" THEN request.username ELSE filter.value

\* The username a filter stands for.
Filtered(filter) == IF filter.value = "me" THEN LowerOf(request.username) ELSE filter.value

\* An empty value is no filter.
Matches(filter) == Filtered(filter) \in {None, get_username_param(request)}

\* JwtHasUserFilterForRequestedUser
UserFilter ==
    /\ pc = "UserFilter"
    /\ IF ~DecodesAt(now) THEN Answer("error")
       ELSE ForFirst(IsUserFilter,
                     LAMBDA f : Answer(IF Matches(f) THEN "allowed" ELSE "denied"),
                     Answer("allowed"))

Next ==
    \/ Tick
    \/ \E r \in Requests : Authenticate(r)
    \/ IsAuthenticated \/ NotJwtRestricted \/ IsStaff \/ IsUserInUrl
    \/ JwtRestricted \/ JwtHasScope \/ ContentOrgFilter \/ UserFilter

Spec == Init /\ [][Next]_vars

-----------------------------------------------------------------------------
(* The rule that the permission is for *)

Filters(r, type) ==
    LET filters == decode_jwt_filters(r.auth)
    IN  {filters[i] : i \in {j \in DOMAIN filters : filters[j].type = type}}

\* A filter lets through the user of the URL, "me" being the user of the token.
LetsThrough(filter, r) ==
    IF filter.value = "me"
      THEN LowerOf(r.username) = get_username_param(r)
      ELSE filter.value = None \/ LowerOf(filter.value) = get_username_param(r)

\* A user, or an application on behalf of one: of staff, or of that user.
UserEntitled(r) ==
    /\ r.username # None
    /\ r.auth # None => ~decode_jwt_is_restricted(r.auth)
    /\ r.staff \/ LowerOf(r.username) = get_username_param(r)

\* A restricted application: within its scopes, organizations and users.
ApplicationEntitled(r) ==
    /\ r.auth # None /\ decode_jwt_is_restricted(r.auth)
    /\ \E s \in r.required : s \in decode_jwt_scopes(r.auth)
    /\ r.required \subseteq decode_jwt_scopes(r.auth)
    /\ \E f \in Filters(r, "content_org") : f.value = r.org
    /\ Filters(r, "user") # {} => \E f \in Filters(r, "user") : LetsThrough(f, r)

Entitled(r) == UserEntitled(r) \/ ApplicationEntitled(r)

-----------------------------------------------------------------------------
(* Properties *)

Operands == {"IsAuthenticated", "NotJwtRestricted", "IsStaff", "IsUserInUrl", "JwtRestricted",
             "JwtHasScope", "ContentOrgFilter", "UserFilter"}

TypeOK ==
    /\ pc \in Operands \cup {"idle"}
    /\ now \in Nat /\ began \in Nat
    /\ request \in Requests \cup {None}
    /\ pc # "idle" => request \in Requests
    /\ pc \notin {"idle", "IsAuthenticated"} => request.username # None
    /\ pc \in {"JwtHasScope", "ContentOrgFilter", "UserFilter"} => request.auth # None
    /\ answer \in {"allowed", "denied", "error", None}

\* However the operands decide and whatever expires between them, nobody is let
\* in whom the rule does not entitle: in particular a restricted application
\* never by way of the operands for users (permissions.py:163-173).
OnlyEntitledAllowed == answer = "allowed" => Entitled(request)

\* A token that has expired when the evaluation begins lets nobody in, although
\* it was valid when it was authenticated (permissions.py:52).
ExpiredNeverAllowed ==
    answer = "allowed" /\ request.by = "jwt" => began < request.auth.exp

\* At most one filter is for users, and it is in lower case.
PlainFilters(filters) ==
    /\ \A i \in DOMAIN filters :
           filters[i].type = "user" /\ filters[i].value \in Usernames
           => Lower[filters[i].value] = filters[i].value
    /\ \A i, j \in DOMAIN filters : filters[i].type = "user" /\ filters[j].type = "user" => i = j

\* Nobody entitled is turned away, as long as the filters are plain: then only
\* an exception can keep them out, when the token expires or the path has no
\* course (permissions.py:95-111, 127-148).
EntitledNeverDenied ==
    answer = "denied" /\ (request.auth # None => PlainFilters(decode_jwt_filters(request.auth)))
    => ~Entitled(request)

=============================================================================
