---------------------- MODULE RequestAttributesProofs ----------------------
(***************************************************************************)
(* What RequestCustomAttributesMiddleware reports, proved for every set of *)
(* users and roles and any number of requests on the thread.               *)
(***************************************************************************)
EXTENDS RequestAttributes, TLAPS

\* The attributes that depend on the user are those of the user there is now.
OfUser ==
    /\ (attributes.user_id = None) <=> attributes.guess \in {"no-user", "unauthenticated"}
    /\ attributes.user_id # None => attributes.user_id = user /\ attributes.role = Role[user]
    /\ attributes.user_id = None => attributes.role = None

\* Some hook is reported, or none has seen a user.
SomeHook == (attributes.found = None) <=> (first = None)

\* What is known of cache and attributes on the way. Until something has been
\* reported the cache holds the first hook; once it has been emptied, what was
\* reported before stands in for it.
AttributesInv ==
    /\ pc \in {"process_request", "before process_view", "process_view", "view"} => ~raised
    /\ pc \in {"process_exception", "exception"} => raised
    /\ pc = "process_exception" \/ (pc \notin {"idle", "exception"} /\ ~raised) =>
           cached = first /\ attributes = NoAttributes
    /\ pc = "exception" => OfUser /\ SomeHook
    /\ pc = "process_response" /\ raised => cached = None /\ OfUser /\ SomeHook
    /\ Reported => OfUser /\ SomeHook /\ (~raised => attributes.found = first)

-----------------------------------------------------------------------------
\* A report after one that was of the same user, or after none.
LEMMA ReportOfUser ==
    ASSUME TypeOK, request # None, user' = user, SetAll,
           OfUser \/ attributes = NoAttributes
    PROVE  OfUser'
<1>1. /\ attributes'.guess = Guess /\ attributes'.user_id = UserId /\ attributes'.role = UserRole
  BY DEF SetAll
<1>2. CASE user \in Users
  <2>1. user \notin {NoUser, Anonymous, None}
    BY <1>2, AttributesAssumption
  <2>2. Guess \notin {"no-user", "unauthenticated"}
    BY <2>1 DEF Guess, TypeOK, Request
  <2>3. UserId = user
    BY <1>2 DEF UserId, Authenticated
  <2>4. UserRole = Role[user]
    <3>1. CASE attributes = NoAttributes
      BY <1>2, <3>1 DEF UserRole, Authenticated, NoAttributes
    <3>2. CASE OfUser
      BY <1>2, <3>2 DEF UserRole, Authenticated, OfUser
    <3> QED
      BY <3>1, <3>2
  <2> QED
    BY <1>1, <2>1, <2>2, <2>3, <2>4 DEF OfUser
<1>3. CASE user \in {NoUser, Anonymous}
  <2>1. user \notin Users
    BY <1>3, AttributesAssumption
  <2>2. Guess \in {"no-user", "unauthenticated"}
    BY <1>3 DEF Guess
  <2>3. attributes.user_id = None /\ attributes.role = None
    <3>1. CASE attributes = NoAttributes
      BY <3>1 DEF NoAttributes
    <3>2. CASE OfUser
      BY <2>1, <3>2 DEF OfUser, TypeOK
    <3> QED
      BY <3>1, <3>2
  <2>4. UserId = None /\ UserRole = None
    BY <2>1, <2>3 DEF UserId, UserRole, Authenticated
  <2> QED
    BY <1>1, <2>2, <2>4 DEF OfUser
<1> QED
  BY <1>2, <1>3 DEF TypeOK, RequestUser

\* A hook that both caches and looks keeps the two together.
LEMMA SeenIsCached ==
    ASSUME NEW hook, cached = first, Cache(hook), Sees(hook)
    PROVE  cached' = first'
BY DEF Cache, Sees

\* Nothing has been reported yet.
LEMMA NoAttributesAreNone ==
    /\ NoAttributes.guess = None /\ NoAttributes.user_id = None
    /\ NoAttributes.found = None /\ NoAttributes.role = None
BY DEF NoAttributes

LEMMA InitAttributes == Init => TypeOK /\ AttributesInv
<1> SUFFICES ASSUME Init PROVE TypeOK /\ AttributesInv
  OBVIOUS
<1>1. TypeOK
  BY NoAttributesAreNone DEF Init, TypeOK, RequestUser
<1>2. AttributesInv
  BY DEF Init, AttributesInv, Reported
<1> QED
  BY <1>1, <1>2

\* A hook's own steps keep the types of the cache and of the history.
LEMMA HookTyped ==
    ASSUME TypeOK, NEW hook \in Hooks, Cache(hook), Sees(hook)
    PROVE  {cached', first'} \subseteq Hooks \cup {None}
BY DEF Cache, Sees, TypeOK

LEMMA ReportTyped ==
    ASSUME TypeOK, request # None, SetAll, cached' \in Hooks \cup {None}
    PROVE  /\ attributes'.found \in Hooks \cup {None}
           /\ attributes'.user_id \in Users \cup {None}
           /\ attributes'.guess \in {"no-user", "unauthenticated", "jwt", "bearer", "other-token-type",
                                     "jwt-cookie", "session-or-other"}
           /\ attributes'.role \in {None, "superuser", "staff"}
<1>1. attributes' = [guess |-> Guess, user_id |-> UserId, role |-> UserRole, found |-> FoundHook]
  BY DEF SetAll
<1>2. Guess \in {"no-user", "unauthenticated", "jwt", "bearer", "other-token-type",
                 "jwt-cookie", "session-or-other"}
  BY DEF Guess, TypeOK, Request
<1>3. UserId \in Users \cup {None}
  BY DEF UserId, Authenticated, TypeOK
<1>4. UserRole \in {None, "superuser", "staff"}
  BY AttributesAssumption DEF UserRole, Authenticated, TypeOK
<1>5. FoundHook \in Hooks \cup {None}
  BY DEF FoundHook, TypeOK
<1> QED
  BY <1>1, <1>2, <1>3, <1>4, <1>5

\* The steps keep the types.
LEMMA NextTyped == TypeOK /\ [Next]_vars => TypeOK'
<1> SUFFICES ASSUME TypeOK, [Next]_vars PROVE TypeOK'
  OBVIOUS
<1>1. ASSUME NEW r \in Request, NEW u \in RequestUser, Begin(r, u) PROVE TypeOK'
  <2>1. r # None
    BY AttributesAssumption
  <2>2. attributes' = NoAttributes
    BY <1>1 DEF Begin
  <2> QED
    BY <1>1, <2>1, <2>2, NoAttributesAreNone DEF Begin, TypeOK, Hooks
<1>2. CASE ProcessRequest
  BY <1>2, HookTyped DEF ProcessRequest, TypeOK, Hooks
<1>3. ASSUME NEW u \in Users, SetsUser(u) PROVE TypeOK'
  BY <1>3 DEF SetsUser, TypeOK, Hooks, RequestUser
<1>4. CASE ProcessView
  BY <1>4, HookTyped DEF ProcessView, TypeOK, Hooks
<1>5. ASSUME NEW u \in RequestUser, View(u) PROVE TypeOK'
  BY <1>5 DEF View, TypeOK, Hooks
<1>6. CASE ProcessException
  <2>1. request # None /\ {cached', first'} \subseteq Hooks \cup {None}
    BY <1>6, HookTyped DEF ProcessException, TypeOK, Hooks
  <2>2. SetAll /\ cached' \in Hooks \cup {None}
    BY <1>6, <2>1 DEF ProcessException
  <2> QED
    BY <1>6, <2>1, <2>2, ReportTyped DEF ProcessException, TypeOK
<1>7. CASE CacheProcessException
  BY <1>7 DEF CacheProcessException, TypeOK, Hooks
<1>8. CASE ProcessResponse
  <2>1. request # None /\ {cached', first'} \subseteq Hooks \cup {None}
    BY <1>8, HookTyped DEF ProcessResponse, TypeOK, Hooks
  <2>2. SetAll /\ cached' \in Hooks \cup {None}
    BY <1>8, <2>1 DEF ProcessResponse
  <2> QED
    BY <1>8, <2>1, <2>2, ReportTyped DEF ProcessResponse, TypeOK
<1>9. CASE UNCHANGED vars
  BY <1>9 DEF vars, TypeOK
<1> QED
  BY <1>1, <1>2, <1>3, <1>4, <1>5, <1>6, <1>7, <1>8, <1>9 DEF Next

\* The steps keep what is known on the way.
LEMMA NextInv == TypeOK /\ AttributesInv /\ [Next]_vars => AttributesInv'
<1> SUFFICES ASSUME TypeOK, AttributesInv, [Next]_vars PROVE AttributesInv'
  OBVIOUS
<1>1. ASSUME NEW r \in Request, NEW u \in RequestUser, Begin(r, u) PROVE AttributesInv'
  BY <1>1 DEF Begin, AttributesInv, Reported
<1>2. CASE ProcessRequest
  <2>1. cached' = first' /\ ~raised' /\ attributes' = NoAttributes
    BY <1>2, SeenIsCached DEF ProcessRequest, AttributesInv
  <2> QED
    BY <1>2, <2>1 DEF ProcessRequest, AttributesInv, Reported
<1>3. ASSUME NEW u \in Users, SetsUser(u) PROVE AttributesInv'
  BY <1>3 DEF SetsUser, AttributesInv, Reported
<1>4. CASE ProcessView
  <2>1. cached' = first' /\ ~raised' /\ attributes' = NoAttributes
    BY <1>4, SeenIsCached DEF ProcessView, AttributesInv
  <2> QED
    BY <1>4, <2>1 DEF ProcessView, AttributesInv, Reported
<1>5. ASSUME NEW u \in RequestUser, View(u) PROVE AttributesInv'
  BY <1>5 DEF View, AttributesInv, Reported
<1>6. CASE ProcessException
  <2>1. /\ cached = first /\ attributes = NoAttributes /\ raised /\ request # None
        /\ SetAll /\ UNCHANGED <<request, user, raised>> /\ pc' = "exception"
    BY <1>6 DEF ProcessException, AttributesInv, TypeOK
  <2>2. OfUser'
    BY <2>1, ReportOfUser
  <2>3. cached' = first'
    BY <1>6, <2>1, SeenIsCached DEF ProcessException
  <2>4. SomeHook'
    BY <2>1, <2>3 DEF SetAll, FoundHook, NoAttributes, SomeHook
  <2> QED
    BY <2>1, <2>2, <2>4 DEF AttributesInv, Reported
<1>7. CASE CacheProcessException
  BY <1>7 DEF CacheProcessException, AttributesInv, Reported, OfUser, SomeHook
<1>8. CASE ProcessResponse
  <2>1. /\ pc = "process_response" /\ request # None /\ SetAll
        /\ UNCHANGED <<request, user, raised>> /\ pc' = "idle"
        /\ Cache("process_response") /\ Sees("process_response")
    BY <1>8 DEF ProcessResponse, TypeOK
  <2>2. OfUser'
    BY <2>1, ReportOfUser DEF AttributesInv, TypeOK
  <2>3. SomeHook' /\ (~raised => attributes'.found = first')
    <3>1. CASE raised
      <4>1. cached = None /\ SomeHook
        BY <2>1, <3>1 DEF AttributesInv
      <4>2. "process_response" # None
        BY AttributesAssumption DEF Hooks
      <4>3. attributes'.found = IF cached' # None THEN cached' ELSE attributes.found
        BY <2>1 DEF SetAll, FoundHook
      <4> QED
        BY <2>1, <3>1, <4>1, <4>2, <4>3 DEF SomeHook, Cache, Sees
    <3>2. CASE ~raised
      <4>1. cached' = first' /\ attributes = NoAttributes
        BY <2>1, <3>2, SeenIsCached DEF AttributesInv
      <4>2. attributes'.found = first'
        BY <2>1, <4>1 DEF SetAll, FoundHook, NoAttributes
      <4> QED
        BY <4>2 DEF SomeHook
    <3> QED
      BY <3>1, <3>2 DEF TypeOK
  <2> QED
    BY <2>1, <2>2, <2>3 DEF AttributesInv, Reported
<1>9. CASE UNCHANGED vars
  BY <1>9 DEF vars, AttributesInv, Reported, OfUser, SomeHook
<1> QED
  BY <1>1, <1>2, <1>3, <1>4, <1>5, <1>6, <1>7, <1>8, <1>9 DEF Next

-----------------------------------------------------------------------------
LEMMA SpecInv == Spec => [](TypeOK /\ AttributesInv)
<1>1. TypeOK /\ AttributesInv /\ [Next]_vars => (TypeOK /\ AttributesInv)'
  BY NextTyped, NextInv
<1> QED
  BY InitAttributes, <1>1, PTL DEF Spec

\* The attributes that are reported have values they may have, in every order
\* of the hooks.
THEOREM TypeCorrect == Spec => []TypeOK
BY SpecInv, PTL

\* Without an exception the reported hook is the first one that saw a user
\* (middleware.py:200-207).
THEOREM ReportsFirstHook == Spec => []FirstHookReported
<1>1. AttributesInv => FirstHookReported
  BY DEF AttributesInv, FirstHookReported, Reported
<1> QED
  BY <1>1, SpecInv, PTL

\* With or without an exception a hook is reported exactly if one saw a user
\* (middleware.py:189).
THEOREM ReportsSomeHook == Spec => []ReportedIffSeen
<1>1. AttributesInv => ReportedIffSeen
  BY DEF AttributesInv, ReportedIffSeen, SomeHook
<1> QED
  BY <1>1, SpecInv, PTL

\* Guess, id and role are of one user, however often they were reported
\* (middleware.py:88-93).
THEOREM ReportsOneUser == Spec => []AttributesAgree
<1>1. AttributesInv => AttributesAgree
  BY DEF AttributesInv, AttributesAgree, OfUser
<1> QED
  BY <1>1, SpecInv, PTL

=============================================================================
