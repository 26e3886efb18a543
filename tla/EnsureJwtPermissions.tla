------------------------ MODULE EnsureJwtPermissions ------------------------
(***************************************************************************)
(* EnsureJWTAuthSettingsMiddleware: before a view runs, its class is given *)
(* the permission NotJwtRestrictedApplication if JwtAuthentication is among*)
(* its authenticators and the permission is not among its permissions.     *)
(*                                                                         *)
(* The threads of a process share the view classes and nothing locks them. *)
(* permission_classes may be inherited, may be a tuple or a list, and a    *)
(* list may be the one that other classes use too, such as the default of  *)
(* the REST framework: += extends a list in place and rebinds a tuple.     *)
(***************************************************************************)
EXTENDS Integers, Sequences, FiniteSets

CONSTANTS
    Threads,
    Views,          \* the classes of the views, their base classes included
    JwtViews,       \* those that accept JwtAuthentication
    Mro,            \* the __mro__ of each class: itself, then its base classes
    Lists,          \* list objects that are the permission_classes of classes
    Compositions,   \* permissions and compositions, with all their components
    Declared,       \* permission_classes of each class as its source says
    ListItems,      \* the items of each list before the first request
    None            \* no own permission_classes; no class or value in hand

\* rest_framework.permissions: a class, an OperandHolder, a SingleOperandHolder.
PermissionClass(name) == [kind |-> "class", name |-> name]
And(p, q) == [kind |-> "and", left |-> p, right |-> q]
Or(p, q) == [kind |-> "or", left |-> p, right |-> q]
Not(p) == [kind |-> "not", of |-> p]

Required == PermissionClass("NotJwtRestrictedApplication")

\* The value of permission_classes: a tuple, or a list that has an identity.
Attribute == Seq(Compositions) \cup Lists

Components(p) ==
    CASE p.kind = "class" -> {}
      [] p.kind = "not" -> {p.of}
      [] p.kind \in {"and", "or"} -> {p.left, p.right}

ASSUME PermissionsAssumption ==
    /\ IsFiniteSet(Threads)
    /\ JwtViews \subseteq Views
    /\ None \notin Attribute \cup Views
    /\ Declared \in [Views -> Attribute \cup {None}]
    /\ ListItems \in [Lists -> Seq(Compositions)]
    /\ Lists \cap Seq(Compositions) = {}

\* A composition is a finite tree.
ASSUME CompositionAssumption ==
    /\ Required \in Compositions
    /\ \A p \in Compositions :
           p.kind \in {"class", "not", "and", "or"} /\ Components(p) \subseteq Compositions
    /\ \A T \in (SUBSET Compositions) \ {{}} : \E p \in T : Components(p) \cap T = {}

\* In the __mro__ of c, d stands before e or is e.
Precedes(c, d, e) ==
    \E i, j \in DOMAIN Mro[c] : i <= j /\ Mro[c][i] = d /\ Mro[c][j] = e

\* Some class declares permission_classes (APIView does), and a class keeps
\* the order that its base classes have.
ASSUME InheritanceAssumption ==
    /\ Mro \in [Views -> Seq(Views)]
    /\ \A c \in Views :
           /\ Mro[c] # <<>> /\ Mro[c][1] = c
           /\ \A i, j \in DOMAIN Mro[c] : Mro[c][i] = Mro[c][j] => i = j
           /\ \E i \in DOMAIN Mro[c] : Declared[Mro[c][i]] # None
           /\ \A i \in DOMAIN Mro[c] : \A d, e \in Views :
                  Precedes(Mro[c][i], d, e) => Precedes(c, d, e)

VARIABLES
    own,    \* the permission_classes that each class itself has, or None
    lists,  \* the items of each list
    pc,     \* where each thread is in process_view
    view,   \* the class of the view it is about to call
    value   \* what its += will bind

vars == <<own, lists, pc, view, value>>

Init ==
    /\ own = Declared
    /\ lists = ListItems
    /\ pc = [t \in Threads |-> "idle"]
    /\ view = [t \in Threads |-> None]
    /\ value = [t \in Threads |-> None]

-----------------------------------------------------------------------------
(* Looking an attribute up, and crawling compositions *)

\* Where in its __mro__ getattr finds the permission_classes of a class.
Found(attributes, c) ==
    CHOOSE i \in DOMAIN Mro[c] :
        attributes[Mro[c][i]] # None /\ \A j \in 1..(i - 1) : attributes[Mro[c][j]] = None

Owner(attributes, c) == Mro[c][Found(attributes, c)]

ItemsOf(items, a) == IF a \in Lists THEN items[a] ELSE a

Items(attributes, items, c) == ItemsOf(items, attributes[Owner(attributes, c)])

\* _iter_included_base_classes and _includes_base_class for one permission:
\* the first of the classes it is made of that decides.  What stands under a
\* negation is not taken apart, and issubclass accepts nothing but a class.
Crawl[p \in Compositions] ==
    IF p.kind = "class" THEN IF p = Required THEN "found" ELSE "absent"
    ELSE IF p.kind = "not" THEN IF p.of.kind = "class" THEN Crawl[p.of] ELSE "raises"
    ELSE IF Crawl[p.left] = "absent" THEN Crawl[p.right] ELSE Crawl[p.left]

Deciding(items) == {i \in DOMAIN items : Crawl[items[i]] # "absent"}

\* The same for all the permissions of a view.
IncludesRequired(items) ==
    IF Deciding(items) = {} THEN "absent"
    ELSE Crawl[items[CHOOSE i \in Deciding(items) : \A j \in Deciding(items) : i <= j]]

-----------------------------------------------------------------------------
(* process_view *)

\* A request for a view; only the classes that accept JWTs are looked into.
Dispatch(t, c) ==
    /\ pc[t] = "idle"
    /\ view' = [view EXCEPT ![t] = c]
    /\ pc' = [pc EXCEPT ![t] = IF c \in JwtViews THEN "check" ELSE "serve"]
    /\ UNCHANGED <<own, lists, value>>

\* A fault: only what the class itself says is looked at.
CheckOwn(t) ==
    /\ pc[t] = "check"
    /\ pc' = [pc EXCEPT ![t] =
           CASE own[view[t]] = None -> "extend"
             [] IncludesRequired(Items(own, lists, view[t])) = "found" -> "serve"
             [] OTHER -> "extend"]
    /\ UNCHANGED <<own, lists, view, value>>

\* _add_missing_jwt_permission_classes: is the permission there?
Check(t) ==
    /\ pc[t] = "check"
    /\ LET included == IncludesRequired(Items(own, lists, view[t]))
       IN  pc' = [pc EXCEPT ![t] = CASE included = "found" -> "serve"
                                     [] included = "absent" -> "extend"
                                     [] included = "raises" -> "error"]
    /\ UNCHANGED <<own, lists, view, value>>

\* Faults: the permissions are replaced; the result of list.extend, which is
\* None, is bound.
Replace(t) ==
    /\ pc[t] = "extend"
    /\ value' = [value EXCEPT ![t] = <<Required>>]
    /\ pc' = [pc EXCEPT ![t] = "store"]
    /\ UNCHANGED <<own, lists, view>>

ExtendReturningNone(t) ==
    /\ pc[t] = "extend"
    /\ LET a == own[Owner(own, view[t])]
       IN  IF a \in Lists
             THEN lists' = [lists EXCEPT ![a] = Append(@, Required)] /\ UNCHANGED value
             ELSE value' = [value EXCEPT ![t] = Append(a, Required)] /\ UNCHANGED lists
    /\ pc' = [pc EXCEPT ![t] = "store"]
    /\ UNCHANGED <<own, view>>

\* The first half of +=: a list grows in place, a tuple makes a new one.
Extend(t) ==
    /\ pc[t] = "extend"
    /\ LET a == own[Owner(own, view[t])]
       IN  IF a \in Lists
             THEN /\ lists' = [lists EXCEPT ![a] = Append(@, Required)]
                  /\ value' = [value EXCEPT ![t] = a]
             ELSE /\ value' = [value EXCEPT ![t] = Append(a, Required)]
                  /\ UNCHANGED lists
    /\ pc' = [pc EXCEPT ![t] = "store"]
    /\ UNCHANGED <<own, view>>

\* A fault: the tuple that += makes is never bound to the class.
StoreNothing(t) ==
    /\ pc[t] = "store"
    /\ value' = [value EXCEPT ![t] = None]
    /\ pc' = [pc EXCEPT ![t] = "serve"]
    /\ UNCHANGED <<own, lists, view>>

\* The second half: the result becomes the class's own permission_classes.
Store(t) ==
    /\ pc[t] = "store"
    /\ own' = [own EXCEPT ![view[t]] = value[t]]
    /\ value' = [value EXCEPT ![t] = None]
    /\ pc' = [pc EXCEPT ![t] = "serve"]
    /\ UNCHANGED <<lists, view>>

\* The view is called, or the request ends with the TypeError.
Finish(t) ==
    /\ pc[t] \in {"serve", "error"}
    /\ pc' = [pc EXCEPT ![t] = "idle"]
    /\ view' = [view EXCEPT ![t] = None]
    /\ UNCHANGED <<own, lists, value>>

Next ==
    \E t \in Threads :
        \/ \E c \in Views : Dispatch(t, c)
        \/ Check(t) \/ Extend(t) \/ Store(t) \/ Finish(t)

Spec == Init /\ [][Next]_vars

-----------------------------------------------------------------------------
(* What the permissions of a view admit *)

\* jwt: authenticated by a JWT; restricted: of a restricted application.
Request ==
    {r \in [jwt : BOOLEAN, restricted : BOOLEAN, staff : BOOLEAN] : r.restricted => r.jwt}

Holds(name, r) ==
    CASE name = "NotJwtRestrictedApplication" -> ~r.restricted
      [] name = "JwtRestrictedApplication" -> r.restricted
      [] name = "IsStaff" -> r.staff
      [] name = "AllowAny" -> TRUE

Granted[p \in Compositions] ==
    IF p.kind = "class" THEN {r \in Request : Holds(p.name, r)}
    ELSE IF p.kind = "not" THEN Request \ Granted[p.of]
    ELSE IF p.kind = "and" THEN Granted[p.left] \cap Granted[p.right]
    ELSE Granted[p.left] \cup Granted[p.right]

Admits(items, r) == \A i \in DOMAIN items : r \in Granted[items[i]]

\* What getattr finds for a class before the first request.
DeclaredFor(c) == Declared[Owner(Declared, c)]
DeclaredItems(c) == ItemsOf(ListItems, DeclaredFor(c))

\* A class and its base classes up to the one that declares its permissions.
Line(c) == {Mro[c][i] : i \in 1..Found(Declared, c)}

\* The classes whose bases agree on where their permissions are declared. If one
\* base inherits them from further up than another, += on the former hides
\* the latter from the class.
Unmixed == {c \in Views : \A d \in Line(c) : Owner(Declared, d) = Owner(Declared, c)}

-----------------------------------------------------------------------------
(* Properties *)

TypeOK ==
    /\ own \in [Views -> Attribute \cup {None}]
    /\ \A c \in Views : Declared[c] # None => own[c] # None
    /\ lists \in [Lists -> Seq(Compositions)]
    /\ pc \in [Threads -> {"idle", "check", "extend", "store", "serve", "error"}]
    /\ view \in [Threads -> Views \cup {None}]
    /\ value \in [Threads -> Attribute \cup {None}]
    /\ \A t \in Threads : pc[t] \in {"check", "extend", "store"} => view[t] \in JwtViews
    /\ \A t \in Threads : pc[t] = "store" => value[t] \in Attribute

\* However threads interleave and classes inherit or share their permissions,
\* a view that accepts JWTs and whose source does not speak of restricted
\* applications is not called for one: by then the class refuses it
\* (middleware.py:64-94).
RestrictedIsRefused ==
    \A t \in Threads :
        /\ pc[t] = "serve" /\ view[t] \in JwtViews
        /\ IncludesRequired(DeclaredItems(view[t])) = "absent"
        => \A r \in Request : r.restricted => ~Admits(Items(own, lists, view[t]), r)

\* Nobody else's access changes, not even of a class that merely inherits, or
\* shares a list that was extended in place for another, unless its bases
\* disagree (middleware.py:87).
OthersAsDeclared ==
    \A c \in Unmixed, r \in Request : ~r.restricted =>
        (Admits(Items(own, lists, c), r) <=> Admits(DeclaredItems(c), r))

Count(items) == Cardinality({i \in DOMAIN items : items[i] = Required})

\* The check and the addition are not atomic, so the permission may be added
\* more than once, but no oftener than there are threads: classes do not grow
\* from request to request.  A list is out of this if there is a class whose
\* bases disagree: a thread that found the permission missing from the one may
\* then extend the other, to which it has added it already (middleware.py:71-87).
AddedOncePerThread ==
    \A c \in Unmixed :
        (DeclaredFor(c) \in Lists => JwtViews \subseteq Unmixed)
        => Count(Items(own, lists, c)) <= Count(DeclaredItems(c)) + Cardinality(Threads)

-----------------------------------------------------------------------------
(* What a comment and the change log say, and the code does not do *)

\* "we have to crawl all those and expand them to see if our target classes are
\* inside the conditionals somewhere": no composition raises (middleware.py:49).
EveryCompositionIsCrawled == \A t \in Threads : pc[t] # "error"

=============================================================================
