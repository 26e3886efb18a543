-------------------------- MODULE JwtAccessProofs --------------------------
(***************************************************************************)
(* Proofs about JwtAccess for every request, token, list of filters and    *)
(* moment of expiry: nobody is let in whom the rule does not entitle, and  *)
(* nobody with a token that had expired when the evaluation began; and     *)
(* nobody entitled is denied.                                              *)
(***************************************************************************)
EXTENDS JwtAccess, TLAPS

\* What the operands evaluated so far have established.
AccessInv ==
    /\ began <= now
    /\ pc \in {"IsStaff", "IsUserInUrl"} /\ request.auth # None
       => ~decode_jwt_is_restricted(request.auth)
    /\ pc \in {"JwtHasScope", "ContentOrgFilter", "UserFilter"}
       => decode_jwt_is_restricted(request.auth)
    /\ pc \in {"ContentOrgFilter", "UserFilter"}
       => request.required # {} /\ request.required \subseteq decode_jwt_scopes(request.auth)
    /\ pc = "UserFilter" => \E f \in Filters(request, "content_org") : f.value = request.org
    /\ pc \in {"IsStaff", "IsUserInUrl", "JwtHasScope", "ContentOrgFilter", "UserFilter"}
       => (request.by = "jwt" => began < request.auth.exp)
    /\ OnlyEntitledAllowed
    /\ ExpiredNeverAllowed
    /\ pc # "idle" \/ request = None => answer # "allowed"

LEMMA RequestFacts ==
    ASSUME NEW r \in Requests
    PROVE  /\ r.username \in Usernames \cup {None}
           /\ r.kwarg \in Usernames \cup {None} /\ r.query \in Usernames \cup {None}
           /\ (r.by = "jwt") <=> (r.auth # None)
           /\ (r.by = "anonymous") <=> (r.username = None)
           /\ r.auth # None => r.auth.exp \in Nat
BY AccessAssumption DEF Request, Token

\* A filter that the loop accepts lets the request through.
LEMMA MatchLetsThrough ==
    ASSUME request \in Requests, request.username # None,
           NEW filter, Matches(filter)
    PROVE  LetsThrough(filter, request)
<1>1. /\ request.username \in Usernames
      /\ get_username_param(request) = None \/ get_username_param(request) \in Usernames
  BY RequestFacts, AccessAssumption DEF get_username_param, LowerOf
<1>2. LowerOf(request.username) # None
  BY <1>1, AccessAssumption DEF LowerOf
<1>3. LowerOf(get_username_param(request)) = get_username_param(request)
  BY RequestFacts, AccessAssumption DEF get_username_param, LowerOf
<1>4. CASE filter.value = "me"
  BY <1>2, <1>4 DEF Matches, Filtered, LetsThrough
<1>5. CASE filter.value # "me"
  BY <1>3, <1>5 DEF Matches, Filtered, LetsThrough
<1> QED
  BY <1>4, <1>5

LEMMA InitAccess == Init => TypeOK /\ AccessInv
BY AccessAssumption DEF Init, TypeOK, AccessInv, OnlyEntitledAllowed, ExpiredNeverAllowed

\* Leaving an operand for another one, or with an answer, keeps the types.
LEMMA MoveTyped ==
    ASSUME TypeOK, NEW next \in Operands, NEW a \in {"allowed", "denied", "error"}
    PROVE  /\ Answer(a) => TypeOK'
           /\ /\ Continue(next) /\ request.username # None /\ request \in Requests
              /\ next \in {"JwtHasScope", "ContentOrgFilter", "UserFilter"} => request.auth # None
              => TypeOK'
BY DEF TypeOK, Answer, Continue


\* Every step keeps the types and what the operands have established.
LEMMA NextAccess == TypeOK /\ AccessInv /\ [Next]_vars => TypeOK' /\ AccessInv'
<1> SUFFICES ASSUME TypeOK, AccessInv, [Next]_vars
             PROVE  TypeOK' /\ AccessInv'
  OBVIOUS
<1> USE DEF TypeOK, Operands, AccessInv, OnlyEntitledAllowed, ExpiredNeverAllowed
<1>a. ASSUME Answer("denied") \/ Answer("error")
      PROVE  TypeOK' /\ AccessInv'
  <2>1. /\ pc' = "idle" /\ answer' \in {"denied", "error"}
        /\ UNCHANGED <<now, request, began>>
    BY <1>a DEF Answer
  <2> QED
    BY <2>1
<1>b. ASSUME pc # "idle", Answer("allowed"), Entitled(request),
             request.by = "jwt" => began < request.auth.exp
      PROVE  TypeOK' /\ AccessInv'
  <2>1. /\ pc' = "idle" /\ answer' = "allowed"
        /\ UNCHANGED <<now, request, began>>
    BY <1>b DEF Answer
  <2>2. Entitled(request') /\ request' # None /\ (request' \in Requests)
    BY <1>b, <2>1, AccessAssumption
  <2> QED
    BY <1>b, <2>1, <2>2
<1>1. CASE Tick
  <2>1. now' \in Nat /\ now < now' /\ UNCHANGED <<pc, request, began, answer>>
    BY <1>1 DEF Tick
  <2>2. began' <= now' /\ began' \in Nat
    BY <2>1
  <2>3. TypeOK'
    BY <2>1, <2>2
  <2> QED
    BY <2>1, <2>2, <2>3
<1>2. ASSUME NEW r \in Requests, Authenticate(r)
      PROVE  TypeOK' /\ AccessInv'
  BY <1>2, AccessAssumption DEF Authenticate
<1>3. CASE IsAuthenticated
  <2>1. CASE request.by = "anonymous"
    BY <1>3, <2>1 DEF IsAuthenticated
  <2>2. CASE request.by # "anonymous"
    BY <1>3, <2>2, RequestFacts DEF IsAuthenticated
  <2> QED
    BY <2>1, <2>2
<1>4. CASE NotJwtRestricted
  <2>1. pc = "NotJwtRestricted" /\ request \in Requests /\ request.username # None
    BY <1>4 DEF NotJwtRestricted, Restriction
  <2>2. CASE request.by # "jwt"
    <3>1. Continue("IsStaff")
      BY <1>4, <2>2 DEF NotJwtRestricted, Restriction
    <3> QED
      BY <2>1, <2>2, <3>1, RequestFacts DEF Continue
  <2>3. CASE request.by = "jwt" /\ ~DecodesAt(now)
    BY <1>4, <2>3, <1>a DEF NotJwtRestricted, Restriction
  <2>4. CASE request.by = "jwt" /\ DecodesAt(now)
    <3>1. began < request.auth.exp
      BY <2>1, <2>4, RequestFacts DEF DecodesAt
    <3>2. CASE decode_jwt_is_restricted(request.auth)
      <4>1. Continue("JwtRestricted")
        BY <1>4, <2>4, <3>2 DEF NotJwtRestricted, Restriction
      <4> QED
        BY <2>1, <4>1 DEF Continue
    <3>3. CASE ~decode_jwt_is_restricted(request.auth)
      <4>1. Continue("IsStaff")
        BY <1>4, <2>4, <3>3 DEF NotJwtRestricted, Restriction
      <4> QED
        BY <2>1, <3>1, <3>3, <4>1 DEF Continue
    <3> QED
      BY <3>2, <3>3
  <2> QED
    BY <2>2, <2>3, <2>4
<1>5. CASE IsStaff
  BY <1>5, <1>b DEF IsStaff, Continue, Entitled, UserEntitled
<1>6. CASE IsUserInUrl
  BY <1>6, <1>b DEF IsUserInUrl, Continue, Entitled, UserEntitled
<1>7. CASE JwtRestricted
  <2>1. pc = "JwtRestricted" /\ request \in Requests /\ request.username # None
    BY <1>7 DEF JwtRestricted, Restriction
  <2>2. CASE request.by # "jwt"
    BY <1>7, <2>2, <1>a DEF JwtRestricted, Restriction
  <2>3. CASE request.by = "jwt" /\ ~DecodesAt(now)
    BY <1>7, <2>3, <1>a DEF JwtRestricted, Restriction
  <2>4. CASE request.by = "jwt" /\ DecodesAt(now)
    <3>1. began < request.auth.exp /\ request.auth # None
      BY <2>1, <2>4, RequestFacts DEF DecodesAt
    <3>2. CASE decode_jwt_is_restricted(request.auth)
      <4>1. Continue("JwtHasScope")
        BY <1>7, <2>4, <3>2 DEF JwtRestricted, Restriction
      <4> QED
        BY <2>1, <3>1, <3>2, <4>1 DEF Continue
    <3>3. CASE ~decode_jwt_is_restricted(request.auth)
      BY <1>7, <2>4, <3>3, <1>a DEF JwtRestricted, Restriction
    <3> QED
      BY <3>2, <3>3
  <2> QED
    BY <2>2, <2>3, <2>4
<1>8. CASE JwtHasScope
  BY <1>8, <1>a DEF JwtHasScope, Continue
<1>9. CASE ContentOrgFilter
  <2> DEFINE filters == decode_jwt_filters(request.auth)
  <2>1. pc = "ContentOrgFilter" /\ request \in Requests
    BY <1>9 DEF ContentOrgFilter
  <2>2. \/ Answer("denied") \/ Answer("error")
        \/ \E i \in DOMAIN filters : NamesOrg(filters[i]) /\ Continue("UserFilter")
    BY <1>9 DEF ContentOrgFilter, ForFirst
  <2>3. ASSUME NEW i \in DOMAIN filters, NamesOrg(filters[i]), Continue("UserFilter")
        PROVE  TypeOK' /\ AccessInv'
    <3>1. \E f \in Filters(request, "content_org") : f.value = request.org
      BY <2>3 DEF NamesOrg, Filters
    <3> QED
      BY <2>1, <2>3, <3>1 DEF Continue
  <2> QED
    BY <1>a, <2>2, <2>3
<1>10. CASE UserFilter
  <2> DEFINE filters == decode_jwt_filters(request.auth)
  <2>1. /\ pc = "UserFilter" /\ request \in Requests /\ request.username # None
        /\ request.auth # None
    BY <1>10 DEF UserFilter
  <2>2. \/ Answer("denied") \/ Answer("error")
        \/ /\ Answer("allowed")
           /\ \/ \E i \in DOMAIN filters : IsUserFilter(filters[i]) /\ Matches(filters[i])
              \/ \A i \in DOMAIN filters : ~IsUserFilter(filters[i])
    BY <1>10 DEF UserFilter, ForFirst
  <2> DEFINE Within == Filters(request, "user") # {}
                       => \E f \in Filters(request, "user") : LetsThrough(f, request)
  <2>3. ASSUME NEW i \in DOMAIN filters, IsUserFilter(filters[i]), Matches(filters[i])
        PROVE  Within
    <3>1. filters[i] \in Filters(request, "user")
      BY <2>3 DEF IsUserFilter, Filters
    <3>2. LetsThrough(filters[i], request)
      BY <2>1, <2>3, MatchLetsThrough
    <3> QED
      BY <3>1, <3>2
  <2>4. ASSUME \A i \in DOMAIN filters : ~IsUserFilter(filters[i])
        PROVE  Within
    BY <2>4 DEF IsUserFilter, Filters
  <2>5. ASSUME Within
        PROVE  Entitled(request)
    <3>1. /\ decode_jwt_is_restricted(request.auth)
          /\ request.required # {} /\ request.required \subseteq decode_jwt_scopes(request.auth)
          /\ \E f \in Filters(request, "content_org") : f.value = request.org
      BY <2>1
    <3>2. \E s \in request.required : s \in decode_jwt_scopes(request.auth)
      BY <3>1
    <3> QED
      BY <2>1, <2>5, <3>1, <3>2 DEF Entitled, ApplicationEntitled
  <2>6. request.by = "jwt" => began < request.auth.exp
    BY <2>1
  <2>7. \/ Answer("denied") \/ Answer("error")
        \/ Answer("allowed") /\ Within
    BY <2>2, <2>3, <2>4
  <2> QED
    BY <1>a, <1>b, <2>1, <2>5, <2>6, <2>7
<1>11. CASE UNCHANGED vars
  BY <1>11 DEF vars
<1> QED
  BY <1>1, <1>2, <1>3, <1>4, <1>5, <1>6, <1>7, <1>8, <1>9, <1>10, <1>11 DEF Next

\* No request, token or moment of expiry gives a variable a value it cannot
\* have; in particular the operands for applications always find a token.
THEOREM TypeCorrect == Spec => []TypeOK
<1>1. TypeOK /\ AccessInv /\ [Next]_vars => (TypeOK /\ AccessInv)'
  BY NextAccess
<1> QED
  BY InitAccess, <1>1, PTL DEF Spec

\* The permission lets in nobody whom the rule does not entitle, whichever
\* operands decide (permissions.py:163-173).
THEOREM OnlyEntitled == Spec => []OnlyEntitledAllowed
<1>1. TypeOK /\ AccessInv /\ [Next]_vars => (TypeOK /\ AccessInv)'
  BY NextAccess
<1>2. AccessInv => OnlyEntitledAllowed
  BY DEF AccessInv
<1> QED
  BY InitAccess, <1>1, <1>2, PTL DEF Spec

\* A token that has expired when the evaluation begins lets nobody in
\* (permissions.py:52).
THEOREM ExpiredIsNotAllowed == Spec => []ExpiredNeverAllowed
<1>1. TypeOK /\ AccessInv /\ [Next]_vars => (TypeOK /\ AccessInv)'
  BY NextAccess
<1>2. AccessInv => ExpiredNeverAllowed
  BY DEF AccessInv
<1> QED
  BY InitAccess, <1>1, <1>2, PTL DEF Spec

-----------------------------------------------------------------------------
(* Nobody entitled is turned away *)

\* What the operands evaluated so far have ruled out.
DenialInv ==
    /\ pc = "IsUserInUrl" => ~request.staff
    /\ pc = "JwtRestricted" => ~UserEntitled(request)
    /\ pc # "idle" \/ request = None => answer = None
    /\ EntitledNeverDenied

HasPlainFilters(r) == r.auth # None => PlainFilters(decode_jwt_filters(r.auth))

\* The one user filter of a token decides: the loop stops at it or nowhere.
LEMMA NoMatchLetsNobodyThrough ==
    ASSUME request \in Requests, request.username # None, request.auth # None,
           HasPlainFilters(request),
           NEW i \in DOMAIN decode_jwt_filters(request.auth),
           IsUserFilter(decode_jwt_filters(request.auth)[i]),
           ~Matches(decode_jwt_filters(request.auth)[i])
    PROVE  /\ Filters(request, "user") # {}
           /\ \A f \in Filters(request, "user") : ~LetsThrough(f, request)
<1> DEFINE filters == decode_jwt_filters(request.auth)
<1>1. filters \in Seq(Filter)
  BY AccessAssumption DEF Request, Token, decode_jwt_filters
<1>2. filters[i].type = "user" /\ filters[i].value \in Usernames \cup {"me", None}
  BY <1>1 DEF IsUserFilter, Filter
<1>3. Filters(request, "user") = {filters[i]}
  BY <1>2 DEF Filters, HasPlainFilters, PlainFilters
<1>4. filters[i].value \in Usernames => LowerOf(filters[i].value) = filters[i].value
  BY <1>2, AccessAssumption DEF HasPlainFilters, PlainFilters, LowerOf
<1>5. ~LetsThrough(filters[i], request)
  BY <1>2, <1>4 DEF Matches, Filtered, LetsThrough
<1> QED
  BY <1>3, <1>5

LEMMA NextDenial == TypeOK /\ AccessInv /\ DenialInv /\ [Next]_vars => DenialInv'
<1> SUFFICES ASSUME TypeOK, AccessInv, DenialInv, [Next]_vars
             PROVE  DenialInv'
  OBVIOUS
<1>n. None \notin {"allowed", "denied", "error"}
  BY AccessAssumption
<1>r. pc # "idle" => request \in Requests /\ request # None
  BY AccessAssumption DEF TypeOK
<1>a. ASSUME pc # "idle", Answer("allowed") \/ Answer("error")
      PROVE  DenialInv'
  BY <1>a, <1>r DEF Answer, DenialInv, EntitledNeverDenied
<1>b. ASSUME pc # "idle", Answer("denied"), HasPlainFilters(request) => ~Entitled(request)
      PROVE  DenialInv'
  <2>1. pc' = "idle" /\ request' = request
    BY <1>b DEF Answer
  <2> QED
    BY <1>b, <1>r, <2>1 DEF DenialInv, EntitledNeverDenied, HasPlainFilters
<1>c. ASSUME pc # "idle", NEW next \in Operands, Continue(next),
             next = "IsUserInUrl" => ~request.staff,
             next = "JwtRestricted" => ~UserEntitled(request)
      PROVE  DenialInv'
  BY <1>c DEF Continue, DenialInv, EntitledNeverDenied, Operands
<1>1. CASE Tick
  BY <1>1 DEF Tick, DenialInv, EntitledNeverDenied
<1>2. ASSUME NEW r \in Requests, Authenticate(r)
      PROVE  DenialInv'
  <2>1. answer' = None /\ pc' = "IsAuthenticated"
    BY <1>2 DEF Authenticate, DenialInv
  <2> QED
    BY <1>n, <2>1 DEF DenialInv, EntitledNeverDenied
<1>3. CASE IsAuthenticated
  <2>1. pc = "IsAuthenticated" /\ request' = request /\ answer = None
    BY <1>3 DEF IsAuthenticated, DenialInv
  <2>2. CASE request.by = "anonymous"
    <3>1. ~Entitled(request)
      BY <1>r, <2>1, <2>2, RequestFacts DEF Entitled, UserEntitled, ApplicationEntitled
    <3> QED
      BY <1>3, <1>r, <2>1, <2>2, <3>1 DEF IsAuthenticated, DenialInv, EntitledNeverDenied
  <2>3. CASE request.by # "anonymous"
    BY <1>3, <1>n, <2>1, <2>3 DEF IsAuthenticated, DenialInv, EntitledNeverDenied
  <2> QED
    BY <2>2, <2>3
<1>4. CASE NotJwtRestricted
  <2>1. pc = "NotJwtRestricted" /\ request \in Requests
    BY <1>4, <1>r DEF NotJwtRestricted, Restriction
  <2>2. \/ Continue("IsStaff") \/ Answer("error")
        \/ /\ Continue("JwtRestricted") /\ request.by = "jwt"
           /\ decode_jwt_is_restricted(request.auth)
    BY <1>4 DEF NotJwtRestricted, Restriction
  <2>3. request.by = "jwt" /\ decode_jwt_is_restricted(request.auth) => ~UserEntitled(request)
    BY <2>1, RequestFacts DEF UserEntitled
  <2> QED
    BY <1>a, <1>c, <2>1, <2>2, <2>3 DEF Operands
<1>5. CASE IsStaff
  BY <1>5, <1>a, <1>c DEF IsStaff, Operands
<1>6. CASE IsUserInUrl
  <2>1. pc = "IsUserInUrl" /\ ~request.staff
    BY <1>6 DEF IsUserInUrl, DenialInv
  <2> QED
    BY <1>6, <1>a, <1>c, <2>1 DEF IsUserInUrl, Operands, UserEntitled
<1>7. CASE JwtRestricted
  <2>1. pc = "JwtRestricted" /\ request \in Requests /\ ~UserEntitled(request)
    BY <1>7, <1>r DEF JwtRestricted, Restriction, DenialInv
  <2>2. \/ Continue("JwtHasScope") \/ Answer("error")
        \/ /\ Answer("denied")
           /\ request.by # "jwt" \/ ~decode_jwt_is_restricted(request.auth)
    BY <1>7 DEF JwtRestricted, Restriction
  <2>3. request.by # "jwt" \/ ~decode_jwt_is_restricted(request.auth) => ~Entitled(request)
    BY <2>1, RequestFacts DEF Entitled, ApplicationEntitled
  <2> QED
    BY <1>a, <1>b, <1>c, <2>1, <2>2, <2>3 DEF Operands
<1>8. ASSUME pc \in {"JwtHasScope", "ContentOrgFilter", "UserFilter"}
      PROVE  ~UserEntitled(request)
  BY <1>8 DEF AccessInv, TypeOK, UserEntitled
<1>9. CASE JwtHasScope
  <2>1. pc = "JwtHasScope"
    BY <1>9 DEF JwtHasScope
  <2>2. \/ Answer("error") \/ Continue("ContentOrgFilter")
        \/ /\ Answer("denied")
           /\ ~(request.required # {} /\ request.required \subseteq decode_jwt_scopes(request.auth))
    BY <1>9 DEF JwtHasScope
  <2>3. ~(request.required # {} /\ request.required \subseteq decode_jwt_scopes(request.auth))
        => ~Entitled(request)
    BY <1>8, <2>1 DEF Entitled, ApplicationEntitled
  <2> QED
    BY <1>a, <1>b, <1>c, <2>1, <2>2, <2>3 DEF Operands
<1>10. CASE ContentOrgFilter
  <2> DEFINE filters == decode_jwt_filters(request.auth)
  <2>1. pc = "ContentOrgFilter"
    BY <1>10 DEF ContentOrgFilter
  <2>2. \/ Answer("error") \/ Continue("UserFilter")
        \/ Answer("denied") /\ \A i \in DOMAIN filters : ~NamesOrg(filters[i])
    BY <1>10 DEF ContentOrgFilter, ForFirst
  <2>3. (\A i \in DOMAIN filters : ~NamesOrg(filters[i])) => ~Entitled(request)
    BY <1>8, <2>1 DEF NamesOrg, Filters, Entitled, ApplicationEntitled
  <2> QED
    BY <1>a, <1>b, <1>c, <2>1, <2>2, <2>3 DEF Operands
<1>11. CASE UserFilter
  <2> DEFINE filters == decode_jwt_filters(request.auth)
  <2>1. pc = "UserFilter" /\ request \in Requests /\ request.username # None /\ request.auth # None
    BY <1>11, <1>r DEF UserFilter, TypeOK
  <2>2. \/ Answer("error") \/ Answer("allowed")
        \/ /\ Answer("denied")
           /\ \E i \in DOMAIN filters : IsUserFilter(filters[i]) /\ ~Matches(filters[i])
    BY <1>11 DEF UserFilter, ForFirst
  <2>3. ASSUME HasPlainFilters(request), NEW i \in DOMAIN filters,
               IsUserFilter(filters[i]), ~Matches(filters[i])
        PROVE  ~Entitled(request)
    BY <1>8, <2>1, <2>3, NoMatchLetsNobodyThrough DEF Entitled, ApplicationEntitled
  <2> QED
    BY <1>a, <1>b, <2>1, <2>2, <2>3
<1>12. CASE UNCHANGED vars
  BY <1>12 DEF vars, DenialInv, EntitledNeverDenied
<1> QED
  BY <1>1, <1>2, <1>3, <1>4, <1>5, <1>6, <1>7, <1>9, <1>10, <1>11, <1>12 DEF Next

\* Nobody entitled is turned away as long as filters are plain, whatever their
\* order and number (permissions.py:95-111, 127-148).
THEOREM EntitledIsNotDenied == Spec => []EntitledNeverDenied
<1>1. Init => DenialInv
  BY AccessAssumption DEF Init, DenialInv, EntitledNeverDenied
<1>2. TypeOK /\ AccessInv /\ [Next]_vars => (TypeOK /\ AccessInv)'
  BY NextAccess
<1>3. TypeOK /\ AccessInv /\ DenialInv /\ [Next]_vars => DenialInv'
  BY NextDenial
<1>4. DenialInv => EntitledNeverDenied
  BY DEF DenialInv
<1> QED
  BY InitAccess, <1>1, <1>2, <1>3, <1>4, PTL DEF Spec

=============================================================================
