--------------------- MODULE EnsureJwtPermissionsProofs ---------------------
(***************************************************************************)
(* What EnsureJwtPermissions promises, for every hierarchy of view classes,*)
(* every tuple or list of permissions, every composition of permissions    *)
(* and any number of threads.                                              *)
(*                                                                         *)
(* Crawl and Granted are defined by recursion over compositions.  A least  *)
(* counterexample takes the place of induction: CompositionAssumption says *)
(* that every set of compositions has an element with no component in it.  *)
(***************************************************************************)
EXTENDS EnsureJwtPermissions, FiniteSetTheorems, WellFoundedInduction, TLAPS

\* x is y, with the required permission added any number of times.
Grown(y, x) ==
    /\ Len(y) <= Len(x)
    /\ \A i \in DOMAIN y : x[i] = y[i]
    /\ \A i \in DOMAIN x \ DOMAIN y : x[i] = Required

\* x is what += may have made of a: the same list, or a longer tuple.
Derived(x, a) == IF a \in Lists THEN x = a ELSE x \in Seq(Compositions) /\ Grown(a, x)

Has(items) == \E i \in DOMAIN items : items[i] = Required

-----------------------------------------------------------------------------
(* The least element of a set, and functions defined over compositions *)

\* CHOOSE of the first index, of which Found and IncludesRequired are made, is
\* defined.
LEMMA Least ==
    ASSUME NEW S \in SUBSET Nat, S # {}
    PROVE  \E i \in S : \A j \in S : i <= j
<1>1. IsWellFoundedOn(OpToRel(<, Nat), Nat)  BY NatLessThanWellFounded
<1>2. PICK i \in S : \A j \in S : <<j, i>> \notin OpToRel(<, Nat)  BY <1>1, WFMin
<1>3. \A j \in S : ~(j < i)  BY <1>2 DEF OpToRel
<1> QED  BY <1>3

\* There is a function with f[p] = G[p][f] for every composition p if G[p] looks
\* at the components of p only.
Local(G, V) ==
    /\ G \in [Compositions -> [[Compositions -> V] -> V]]
    /\ \A p \in Compositions : \A f, g \in [Compositions -> V] :
           (\A q \in Components(p) : f[q] = g[q]) => G[p][f] = G[p][g]

Closed(S) == \A p \in S : Components(p) \subseteq S

Solves(f, S, G) == \A p \in S : f[p] = G[p][f]

\* Two solutions agree wherever both are one.
Agreement(G, V) ==
    \A f, g \in [Compositions -> V] : \A S, T \in SUBSET Compositions : \A p \in S \cap T :
        Closed(S) /\ Closed(T) /\ Solves(f, S, G) /\ Solves(g, T, G) => f[p] = g[p]

LEMMA SolutionsAgree ==
    ASSUME NEW V, NEW G, Local(G, V)
    PROVE  Agreement(G, V)
<1>1. ASSUME NEW f \in [Compositions -> V], NEW g \in [Compositions -> V],
             NEW S \in SUBSET Compositions, NEW T \in SUBSET Compositions, NEW x \in S \cap T,
             Closed(S), Closed(T), Solves(f, S, G), Solves(g, T, G)
      PROVE  f[x] = g[x]
  <2> DEFINE Wrong == {p \in S \cap T : f[p] # g[p]}
  <2> SUFFICES ASSUME Wrong # {} PROVE FALSE  OBVIOUS
  <2>1. PICK p \in Wrong : Components(p) \cap Wrong = {}
    <3>1. Wrong \in (SUBSET Compositions) \ {{}}  OBVIOUS
    <3> QED  BY <3>1, CompositionAssumption
  <2>2. \A q \in Components(p) : q \in S \cap T /\ q \notin Wrong  BY <1>1, <2>1 DEF Closed
  <2>3. \A q \in Components(p) : f[q] = g[q]  BY <2>2
  <2>4. p \in Compositions /\ p \in S /\ p \in T /\ f[p] # g[p]  OBVIOUS
  <2> HIDE DEF Wrong
  <2>5. G[p][f] = G[p][g]  BY <2>3, <2>4 DEF Local
  <2>6. f[p] = G[p][f] /\ g[p] = G[p][g]  BY <1>1, <2>4 DEF Solves
  <2> QED  BY <2>4, <2>5, <2>6
<1> QED  BY <1>1 DEF Agreement

LEMMA Recursion ==
    ASSUME NEW V, NEW v0 \in V, NEW G, Local(G, V)
    PROVE  \E f \in [Compositions -> V] : \A p \in Compositions : f[p] = G[p][f]
<1> DEFINE Values(p) ==
      {v \in V : \E S \in SUBSET Compositions, f \in [Compositions -> V] :
                     Closed(S) /\ p \in S /\ Solves(f, S, G) /\ v = f[p]}
    Good == {p \in Compositions : Values(p) # {}}
    h == [p \in Compositions |-> IF p \in Good THEN CHOOSE v \in Values(p) : TRUE ELSE v0]
<1>0. Agreement(G, V)  BY SolutionsAgree
<1>1. ASSUME NEW S \in SUBSET Compositions, NEW f \in [Compositions -> V],
             Closed(S), Solves(f, S, G)
      PROVE  \A p \in S : p \in Good /\ h[p] = f[p]
  <2> TAKE p \in S
  <2>1. f[p] \in Values(p)  BY <1>1
  <2>2. \A v \in Values(p) : v = f[p]
    <3> SUFFICES ASSUME NEW v \in Values(p) PROVE v = f[p]  OBVIOUS
    <3>1. PICK T \in SUBSET Compositions, g \in [Compositions -> V] :
             Closed(T) /\ p \in T /\ Solves(g, T, G) /\ v = g[p]  OBVIOUS
    <3> HIDE DEF Values
    <3>2. f[p] = g[p]  BY <1>0, <1>1, <3>1 DEF Agreement
    <3> QED  BY <3>1, <3>2
  <2> HIDE DEF Values
  <2> QED  BY <2>1, <2>2
<1>2. h \in [Compositions -> V]  OBVIOUS
<1>3. \A p \in Good : Components(p) \subseteq Good /\ h[p] = G[p][h]
  <2> SUFFICES ASSUME NEW p \in Good PROVE Components(p) \subseteq Good /\ h[p] = G[p][h]
      OBVIOUS
  <2>1. PICK S \in SUBSET Compositions, f \in [Compositions -> V] :
           Closed(S) /\ p \in S /\ Solves(f, S, G)  OBVIOUS
  <2> HIDE DEF Good, h, Values
  <2>2. \A q \in S : q \in Good /\ h[q] = f[q]  BY <1>1, <2>1
  <2>3. Components(p) \subseteq S /\ p \in Compositions  BY <2>1 DEF Closed
  <2>4. G[p][h] = G[p][f]  BY <1>2, <2>2, <2>3 DEF Local
  <2> QED  BY <2>1, <2>2, <2>3, <2>4 DEF Solves
<1>4. Good \subseteq Compositions  OBVIOUS
<1> HIDE DEF Good, h, Values
<1>5. ASSUME Compositions \ Good # {} PROVE FALSE
  <2>1. Compositions \ Good \in (SUBSET Compositions) \ {{}}  BY <1>5
  <2>2. PICK p \in Compositions \ Good : Components(p) \cap (Compositions \ Good) = {}
        BY <2>1, CompositionAssumption
  <2>3. Components(p) \subseteq Good  BY <2>2, CompositionAssumption
  <2> DEFINE f == [h EXCEPT ![p] = G[p][h]]
             S == Good \cup {p}
  <2>4. G[p][h] \in V  BY <1>2, <2>2 DEF Local
  <2>5. f \in [Compositions -> V] /\ f[p] = G[p][h] /\ \A q \in Good : f[q] = h[q]
        BY <1>2, <1>4, <2>2, <2>4
  <2>6. S \in SUBSET Compositions /\ p \in S  BY <1>4
  <2>7. Closed(S)  BY <1>3, <2>3 DEF Closed
  <2>8. \A q \in S : Components(q) \subseteq Good  BY <1>3, <2>3
  <2> HIDE DEF f
  <2>9. ASSUME NEW q \in S PROVE G[q][f] = G[q][h]
    <3>1. \A x \in Components(q) : f[x] = h[x]  BY <2>5, <2>8
    <3> QED  BY <1>2, <2>5, <2>6, <3>1 DEF Local
  <2>10. Solves(f, S, G)  BY <1>3, <2>5, <2>9 DEF Solves
  <2> HIDE DEF S
  <2> QED  BY <1>1, <2>2, <2>5, <2>6, <2>7, <2>10
<1> QED  BY <1>2, <1>3, <1>4, <1>5

Outcomes == {"found", "absent", "raises"}

CrawlFrom(f, p) ==
    IF p.kind = "class" THEN IF p = Required THEN "found" ELSE "absent"
    ELSE IF p.kind = "not" THEN IF p.of.kind = "class" THEN f[p.of] ELSE "raises"
    ELSE IF f[p.left] = "absent" THEN f[p.right] ELSE f[p.left]

LEMMA Kinds ==
    ASSUME NEW p \in Compositions
    PROVE  /\ p.kind \in {"class", "not", "and", "or"}
           /\ p.kind = "not" => p.of \in Components(p) /\ p.of \in Compositions
           /\ p.kind \in {"and", "or"} =>
                  /\ p.left \in Components(p) /\ p.left \in Compositions
                  /\ p.right \in Components(p) /\ p.right \in Compositions
<1>1. p.kind \in {"class", "not", "and", "or"} /\ Components(p) \subseteq Compositions
      BY CompositionAssumption
<1> QED  BY <1>1 DEF Components

LEMMA CrawlDefined ==
    /\ Crawl \in [Compositions -> Outcomes]
    /\ \A p \in Compositions : Crawl[p] = CrawlFrom(Crawl, p)
<1> DEFINE G == [p \in Compositions |-> [f \in [Compositions -> Outcomes] |-> CrawlFrom(f, p)]]
<1>1. ASSUME NEW p \in Compositions, NEW f \in [Compositions -> Outcomes]
      PROVE  CrawlFrom(f, p) \in Outcomes
      BY Kinds DEF CrawlFrom, Outcomes
<1>2. ASSUME NEW p \in Compositions, NEW f \in [Compositions -> Outcomes],
             NEW g \in [Compositions -> Outcomes], \A q \in Components(p) : f[q] = g[q]
      PROVE  CrawlFrom(f, p) = CrawlFrom(g, p)
      BY <1>2, Kinds DEF CrawlFrom
<1>3. Local(G, Outcomes)  BY <1>1, <1>2 DEF Local
<1>4. PICK f \in [Compositions -> Outcomes] : \A p \in Compositions : f[p] = G[p][f]
  <2>1. "absent" \in Outcomes  BY DEF Outcomes
  <2> HIDE DEF G
  <2> QED  BY <1>3, <2>1, Recursion
<1>5. f = [p \in Compositions |-> CrawlFrom(f, p)]  BY <1>4
<1>6. Crawl = CHOOSE g : g = [p \in Compositions |-> CrawlFrom(g, p)]
      BY DEF Crawl, CrawlFrom
<1>7. Crawl = [p \in Compositions |-> CrawlFrom(Crawl, p)]  BY <1>5, <1>6, Zenon
<1>8. \A p \in Compositions : Crawl[p] = CrawlFrom(Crawl, p)  BY <1>7
<1> DEFINE Others == {p \in Compositions : Crawl[p] \notin Outcomes}
<1>9. ASSUME Others # {} PROVE FALSE
  <2>1. Others \in (SUBSET Compositions) \ {{}}  BY <1>9
  <2>2. PICK p \in Others : Components(p) \cap Others = {}  BY <2>1, CompositionAssumption
  <2>3. \A q \in Components(p) : Crawl[q] \in Outcomes  BY <2>2, CompositionAssumption
  <2>4. CrawlFrom(Crawl, p) \in Outcomes  BY <2>2, <2>3, Kinds DEF CrawlFrom, Outcomes
  <2> QED  BY <1>8, <2>2, <2>4
<1> QED  BY <1>7, <1>8, <1>9

GrantedFrom(f, p) ==
    IF p.kind = "class" THEN {r \in Request : Holds(p.name, r)}
    ELSE IF p.kind = "not" THEN Request \ f[p.of]
    ELSE IF p.kind = "and" THEN f[p.left] \cap f[p.right]
    ELSE f[p.left] \cup f[p.right]

LEMMA GrantedDefined == \A p \in Compositions : Granted[p] = GrantedFrom(Granted, p)
<1> DEFINE V == SUBSET Request
           G == [p \in Compositions |-> [f \in [Compositions -> V] |-> GrantedFrom(f, p)]]
<1>1. ASSUME NEW p \in Compositions, NEW f \in [Compositions -> V]
      PROVE  GrantedFrom(f, p) \in V
      BY Kinds DEF GrantedFrom
<1>2. ASSUME NEW p \in Compositions, NEW f \in [Compositions -> V],
             NEW g \in [Compositions -> V], \A q \in Components(p) : f[q] = g[q]
      PROVE  GrantedFrom(f, p) = GrantedFrom(g, p)
      BY <1>2, Kinds DEF GrantedFrom
<1>3. {} \in V  OBVIOUS
<1> HIDE DEF V
<1>4. Local(G, V)  BY <1>1, <1>2 DEF Local
<1>5. PICK f \in [Compositions -> V] : \A p \in Compositions : f[p] = G[p][f]
  <2> HIDE DEF G
  <2> QED  BY <1>3, <1>4, Recursion
<1>6. f = [p \in Compositions |-> GrantedFrom(f, p)]  BY <1>5
<1>7. Granted = CHOOSE g : g = [p \in Compositions |-> GrantedFrom(g, p)]
      BY DEF Granted, GrantedFrom
<1>8. Granted = [p \in Compositions |-> GrantedFrom(Granted, p)]  BY <1>6, <1>7, Zenon
<1> QED  BY <1>8

\* The required permission grants exactly what is not of a restricted application.
LEMMA GrantedRequired ==
    ASSUME NEW r \in Request
    PROVE  r \in Granted[Required] <=> ~r.restricted
<1>1. Required \in Compositions /\ Required.kind = "class"
      BY CompositionAssumption DEF Required, PermissionClass
<1>2. Granted[Required] = {q \in Request : Holds("NotJwtRestrictedApplication", q)}
      BY <1>1, GrantedDefined DEF GrantedFrom, Required, PermissionClass
<1> QED  BY <1>2 DEF Holds

LEMMA CrawlRequired == Crawl[Required] = "found"
<1>1. Required \in Compositions /\ Required.kind = "class"
      BY CompositionAssumption DEF Required, PermissionClass
<1> QED  BY <1>1, CrawlDefined DEF CrawlFrom

LEMMA IncludesOutcome ==
    ASSUME NEW items \in Seq(Compositions)
    PROVE  /\ IncludesRequired(items) \in Outcomes
           /\ Has(items) => IncludesRequired(items) # "absent"
<1>1. Deciding(items) \in SUBSET Nat  BY DEF Deciding
<1>2. ASSUME Deciding(items) # {}
      PROVE  IncludesRequired(items) \in Outcomes /\ IncludesRequired(items) # "absent"
  <2> DEFINE i == CHOOSE k \in Deciding(items) : \A j \in Deciding(items) : k <= j
  <2>1. i \in Deciding(items)  BY <1>1, <1>2, Least
  <2>2. IncludesRequired(items) = Crawl[items[i]]  BY <1>2 DEF IncludesRequired
  <2> HIDE DEF i
  <2> QED  BY <2>1, <2>2, CrawlDefined DEF Deciding
<1>3. Has(items) => Deciding(items) # {}  BY CrawlRequired DEF Has, Deciding
<1>4. Deciding(items) = {} => IncludesRequired(items) = "absent"  BY DEF IncludesRequired
<1> QED  BY <1>2, <1>3, <1>4 DEF Outcomes

-----------------------------------------------------------------------------
(* Looking permission_classes up along the __mro__ *)

Keeps(attributes) == \A c \in Views : Declared[c] # None => attributes[c] # None

LEMMA FoundFirst ==
    ASSUME NEW attributes, NEW c \in Views, NEW k \in DOMAIN Mro[c], attributes[Mro[c][k]] # None
    PROVE  /\ Found(attributes, c) \in DOMAIN Mro[c] /\ Found(attributes, c) <= k
           /\ Owner(attributes, c) \in Views /\ attributes[Owner(attributes, c)] # None
           /\ \A j \in 1..(Found(attributes, c) - 1) : attributes[Mro[c][j]] = None
<1> DEFINE S == {i \in DOMAIN Mro[c] : attributes[Mro[c][i]] # None}
           First(i) == attributes[Mro[c][i]] # None /\ \A j \in 1..(i - 1) : attributes[Mro[c][j]] = None
<1>1. Mro[c] \in Seq(Views)  BY InheritanceAssumption
<1>2. DOMAIN Mro[c] = 1..Len(Mro[c]) /\ Len(Mro[c]) \in Nat  BY <1>1
<1>3. PICK i \in S : \A j \in S : i <= j
  <2>1. S \in SUBSET Nat /\ S # {}  BY <1>2
  <2> QED  BY <2>1, Least
<1>4. i \in DOMAIN Mro[c] /\ First(i)  BY <1>2, <1>3
<1>5. Found(attributes, c) = CHOOSE n \in DOMAIN Mro[c] : First(n)  BY DEF Found
<1> HIDE DEF First
<1>6. Found(attributes, c) \in DOMAIN Mro[c] /\ First(Found(attributes, c))  BY <1>4, <1>5
<1> USE DEF First
<1>7. Found(attributes, c) <= k  BY <1>2, <1>6
<1> QED  BY <1>1, <1>6, <1>7 DEF Owner

LEMMA DeclaredFound ==
    ASSUME NEW c \in Views
    PROVE  /\ Found(Declared, c) \in DOMAIN Mro[c] /\ Declared[Owner(Declared, c)] # None
           /\ Owner(Declared, c) \in Views
           /\ \A j \in 1..(Found(Declared, c) - 1) : Declared[Mro[c][j]] = None
<1>1. PICK i \in DOMAIN Mro[c] : Declared[Mro[c][i]] # None  BY InheritanceAssumption
<1> QED  BY <1>1, FoundFirst

LEMMA LineInViews == ASSUME NEW c \in Views PROVE Line(c) \subseteq Views
<1>1. Mro[c] \in Seq(Views)  BY InheritanceAssumption
<1> QED  BY <1>1, DeclaredFound DEF Line

LEMMA OwnerInLine ==
    ASSUME NEW attributes, Keeps(attributes), NEW c \in Views
    PROVE  /\ Owner(attributes, c) \in Line(c) /\ Owner(attributes, c) \in Views
           /\ attributes[Owner(attributes, c)] # None
           /\ Found(attributes, c) \in 1..Found(Declared, c)
<1>1. Mro[c] \in Seq(Views)  BY InheritanceAssumption
<1>2. Found(Declared, c) \in DOMAIN Mro[c] /\ attributes[Mro[c][Found(Declared, c)]] # None
      BY DeclaredFound DEF Keeps, Owner
<1>3. /\ Found(attributes, c) \in DOMAIN Mro[c] /\ Found(attributes, c) <= Found(Declared, c)
      /\ Owner(attributes, c) \in Views /\ attributes[Owner(attributes, c)] # None
      BY <1>2, FoundFirst
<1> QED  BY <1>1, <1>3 DEF Line, Owner

\* A class that has permission_classes of its own is their owner.
LEMMA OwnIsFound ==
    ASSUME NEW attributes, NEW c \in Views, attributes[c] # None
    PROVE  Owner(attributes, c) = c
<1>1. Mro[c] \in Seq(Views) /\ Mro[c] # <<>> /\ Mro[c][1] = c  BY InheritanceAssumption
<1>2. 1 \in DOMAIN Mro[c]  BY <1>1
<1>3. Found(attributes, c) \in DOMAIN Mro[c] /\ Found(attributes, c) <= 1  BY <1>1, <1>2, FoundFirst
<1> QED  BY <1>1, <1>3 DEF Owner

\* After a store to x, a class has what it had before, or what x was given.
LEMMA OwnerAfterStore ==
    ASSUME NEW attributes, Keeps(attributes), NEW x \in Views, NEW after, after[x] # None,
           \A y \in Views : y # x => after[y] = attributes[y], NEW c \in Views
    PROVE  /\ Keeps(after)
           /\ \/ Owner(after, c) = Owner(attributes, c) /\ Owner(after, c) # x
              \/ Owner(after, c) = x
<1> DEFINE i == Found(attributes, c)
           n == Found(after, c)
<1>1. Mro[c] \in Seq(Views)  BY InheritanceAssumption
<1>2. after[x] # None /\ \A y \in Views : y # x => after[y] = attributes[y]  OBVIOUS
<1>3. Keeps(after)  BY <1>2 DEF Keeps
<1>4. Found(Declared, c) \in DOMAIN Mro[c] /\ attributes[Mro[c][Found(Declared, c)]] # None
      BY DeclaredFound DEF Keeps, Owner
<1>5. /\ i \in DOMAIN Mro[c] /\ attributes[Mro[c][i]] # None
      /\ \A j \in 1..(i - 1) : attributes[Mro[c][j]] = None
      BY <1>4, FoundFirst DEF Owner
<1>6. Mro[c][i] \in Views  BY <1>1, <1>5
<1>7. after[Mro[c][i]] # None  BY <1>2, <1>5, <1>6
<1>8. n \in DOMAIN Mro[c] /\ n <= i /\ after[Mro[c][n]] # None  BY <1>5, <1>7, FoundFirst DEF Owner
<1>9. Mro[c][n] \in Views  BY <1>1, <1>8
<1>10. n = i \/ n \in 1..(i - 1)  BY <1>1, <1>5, <1>8
<1>11. n \in 1..(i - 1) => Mro[c][n] = x  BY <1>2, <1>5, <1>8, <1>9
<1> QED  BY <1>2, <1>3, <1>10, <1>11 DEF Owner

\* The classes between an unmixed class and the one that declares its
\* permissions are unmixed too, and all have them from there.
LEMMA LineOfLine ==
    ASSUME NEW c \in Unmixed, NEW e \in Line(c)
    PROVE  /\ e \in Views /\ e \in Unmixed /\ Line(e) \subseteq Line(c)
           /\ DeclaredFor(e) = DeclaredFor(c)
<1>1. c \in Views /\ e \in Views /\ Owner(Declared, e) = Owner(Declared, c)
      BY LineInViews DEF Unmixed
<1>2. Mro[c] \in Seq(Views) /\ Mro[e] \in Seq(Views)  BY <1>1, InheritanceAssumption
<1>3. PICK i \in 1..Found(Declared, c) : Mro[c][i] = e  BY DEF Line
<1>4. Found(Declared, c) \in DOMAIN Mro[c] /\ Found(Declared, e) \in DOMAIN Mro[e]
      BY <1>1, DeclaredFound
<1>5. i \in DOMAIN Mro[c]  BY <1>2, <1>3, <1>4
<1>6. ASSUME NEW f \in Line(e) PROVE f \in Line(c)
  <2>1. PICK j \in 1..Found(Declared, e) : Mro[e][j] = f  BY DEF Line
  <2>2. f \in Views /\ Owner(Declared, e) \in Views  BY <1>1, LineInViews, DeclaredFound
  <2>3. Precedes(e, f, Owner(Declared, e))  BY <1>2, <1>4, <2>1 DEF Precedes, Owner
  <2>4. Precedes(c, f, Owner(Declared, e))
        BY <1>1, <1>3, <1>5, <2>2, <2>3, InheritanceAssumption
  <2>5. PICK m, n \in DOMAIN Mro[c] : m <= n /\ Mro[c][m] = f /\ Mro[c][n] = Owner(Declared, c)
        BY <1>1, <2>4 DEF Precedes
  <2>6. n = Found(Declared, c)  BY <1>1, <1>4, <2>5, InheritanceAssumption DEF Owner
  <2> QED  BY <1>2, <2>5, <2>6 DEF Line
<1>7. \A f \in Line(e) : Owner(Declared, f) = Owner(Declared, e)  BY <1>1, <1>6 DEF Unmixed
<1> QED  BY <1>1, <1>6, <1>7 DEF Unmixed, DeclaredFor

-----------------------------------------------------------------------------
(* Types *)

Pcs == {"idle", "check", "extend", "store", "serve", "error"}

LEMMA ItemsType ==
    ASSUME TypeOK, NEW c \in Views
    PROVE  /\ Owner(own, c) \in Views /\ own[Owner(own, c)] \in Attribute
           /\ Owner(own, c) \in Line(c) /\ Items(own, lists, c) \in Seq(Compositions)
<1>1. Keeps(own)  BY DEF TypeOK, Keeps
<1>2. Owner(own, c) \in Views /\ own[Owner(own, c)] # None /\ Owner(own, c) \in Line(c)
      BY <1>1, OwnerInLine
<1>3. own[Owner(own, c)] \in Attribute  BY <1>2 DEF TypeOK
<1> QED  BY <1>2, <1>3 DEF Items, ItemsOf, Attribute, TypeOK

LEMMA RequiredIsOne == Required \in Compositions /\ None \notin Attribute /\ None \notin Views
BY PermissionsAssumption, CompositionAssumption

LEMMA TypeInit == Init => TypeOK
BY PermissionsAssumption DEF Init, TypeOK

LEMMA TypeDispatch ==
    ASSUME TypeOK, NEW t \in Threads, NEW c \in Views, Dispatch(t, c)
    PROVE  TypeOK'
BY RequiredIsOne DEF TypeOK, Dispatch

\* Check decides for one thread, and changes nothing else.
LEMMA CheckOutcome ==
    ASSUME TypeOK, NEW t \in Threads, Check(t)
    PROVE  LET included == IncludesRequired(Items(own, lists, view[t]))
           IN  /\ view[t] \in Views /\ view[t] \in JwtViews /\ pc[t] = "check"
               /\ pc' \in [Threads -> Pcs] /\ \A s \in Threads : s # t => pc'[s] = pc[s]
               /\ \/ pc'[t] = "serve" /\ included = "found"
                  \/ pc'[t] = "extend" /\ included = "absent"
                  \/ pc'[t] = "error" /\ included = "raises"
               /\ UNCHANGED <<own, lists, view, value>>
<1> DEFINE o == IncludesRequired(Items(own, lists, view[t]))
<1>1. view[t] \in Views /\ view[t] \in JwtViews  BY PermissionsAssumption DEF TypeOK, Check
<1>2. o \in Outcomes  BY <1>1, ItemsType, IncludesOutcome
<1>3. pc' = [pc EXCEPT ![t] = CASE o = "found" -> "serve"
                                [] o = "absent" -> "extend"
                                [] o = "raises" -> "error"]
      BY DEF Check
<1> HIDE DEF o
<1>4. pc[t] = "check" /\ UNCHANGED <<own, lists, view, value>>  BY DEF Check
<1>5. pc' \in [Threads -> Pcs] /\ \A s \in Threads : s # t => pc'[s] = pc[s]
      BY <1>2, <1>3 DEF TypeOK, Pcs, Outcomes
<1>6. \/ pc'[t] = "serve" /\ o = "found"
      \/ pc'[t] = "extend" /\ o = "absent"
      \/ pc'[t] = "error" /\ o = "raises"
      BY <1>2, <1>3 DEF TypeOK, Outcomes
<1> QED  BY <1>1, <1>4, <1>5, <1>6 DEF o

LEMMA TypeCheck ==
    ASSUME TypeOK, NEW t \in Threads, Check(t)
    PROVE  TypeOK'
BY CheckOutcome DEF TypeOK, Pcs

\* The first half of +=, for a list and for a tuple.
LEMMA ExtendOutcome ==
    ASSUME TypeOK, NEW t \in Threads, Extend(t)
    PROVE  LET a == own[Owner(own, view[t])]
           IN  /\ view[t] \in Views /\ view[t] \in JwtViews /\ pc[t] = "extend" /\ a \in Attribute
               /\ own' = own /\ view' = view /\ pc' = [pc EXCEPT ![t] = "store"]
               /\ \/ /\ a \in Lists /\ lists[a] \in Seq(Compositions)
                     /\ lists' = [lists EXCEPT ![a] = Append(lists[a], Required)]
                     /\ value' = [value EXCEPT ![t] = a]
                  \/ /\ a \notin Lists /\ a \in Seq(Compositions)
                     /\ lists' = lists
                     /\ value' = [value EXCEPT ![t] = Append(a, Required)]
<1> DEFINE a == own[Owner(own, view[t])]
<1>1. view[t] \in Views /\ view[t] \in JwtViews  BY PermissionsAssumption DEF TypeOK, Extend
<1>2. a \in Attribute  BY <1>1, ItemsType
<1>3. /\ pc[t] = "extend" /\ own' = own /\ view' = view /\ pc' = [pc EXCEPT ![t] = "store"]
      /\ \/ /\ a \in Lists /\ lists' = [lists EXCEPT ![a] = Append(lists[a], Required)]
            /\ value' = [value EXCEPT ![t] = a]
         \/ a \notin Lists /\ lists' = lists /\ value' = [value EXCEPT ![t] = Append(a, Required)]
      BY DEF Extend
<1> HIDE DEF a
<1>4. a \in Lists => lists[a] \in Seq(Compositions)  BY DEF TypeOK
<1>5. a \notin Lists => a \in Seq(Compositions)  BY <1>2 DEF Attribute
<1> QED  BY <1>1, <1>2, <1>3, <1>4, <1>5 DEF a

LEMMA TypeExtend ==
    ASSUME TypeOK, NEW t \in Threads, Extend(t)
    PROVE  TypeOK'
<1> DEFINE a == own[Owner(own, view[t])]
<1>1. /\ view[t] \in JwtViews /\ a \in Attribute
      /\ own' = own /\ view' = view /\ pc' = [pc EXCEPT ![t] = "store"]
      BY ExtendOutcome
<1>2. \/ /\ a \in Lists /\ lists[a] \in Seq(Compositions)
         /\ lists' = [lists EXCEPT ![a] = Append(lists[a], Required)] /\ value' = [value EXCEPT ![t] = a]
      \/ a \in Seq(Compositions) /\ lists' = lists /\ value' = [value EXCEPT ![t] = Append(a, Required)]
      BY ExtendOutcome
<1> HIDE DEF a
<1>3. lists' \in [Lists -> Seq(Compositions)]
  <2>1. a \in Lists /\ lists[a] \in Seq(Compositions) => Append(lists[a], Required) \in Seq(Compositions)
        BY RequiredIsOne
  <2> QED  BY <1>2, <2>1 DEF TypeOK
<1>4. value' \in [Threads -> Attribute \cup {None}] /\ value'[t] \in Attribute
  <2>1. a \in Seq(Compositions) => Append(a, Required) \in Attribute  BY RequiredIsOne DEF Attribute
  <2> QED  BY <1>1, <1>2, <2>1 DEF TypeOK
<1>5. \A s \in Threads : s # t => value'[s] = value[s]  BY <1>2 DEF TypeOK
<1> QED  BY <1>1, <1>3, <1>4, <1>5 DEF TypeOK

LEMMA TypeStore ==
    ASSUME TypeOK, NEW t \in Threads, Store(t)
    PROVE  TypeOK'
<1>1. value[t] \in Attribute /\ value[t] # None  BY RequiredIsOne DEF TypeOK, Store
<1> QED  BY <1>1 DEF TypeOK, Store

LEMMA TypeFinish ==
    ASSUME TypeOK, NEW t \in Threads, Finish(t)
    PROVE  TypeOK'
BY DEF TypeOK, Finish

LEMMA TypeStep == TypeOK /\ [Next]_vars => TypeOK'
<1> SUFFICES ASSUME TypeOK, [Next]_vars PROVE TypeOK'  OBVIOUS
<1>1. CASE UNCHANGED vars  BY <1>1 DEF vars, TypeOK
<1>2. CASE Next
  <2>1. PICK t \in Threads :
          (\E c \in Views : Dispatch(t, c)) \/ Check(t) \/ Extend(t) \/ Store(t) \/ Finish(t)
        BY <1>2 DEF Next
  <2> QED  BY <2>1, TypeDispatch, TypeCheck, TypeExtend, TypeStore, TypeFinish
<1> QED  BY <1>1, <1>2

\* Whatever threads do, classes have a tuple or a list of permissions, and a
\* thread binds one (middleware.py:69-87).
THEOREM TypeCorrect == Spec => []TypeOK
BY TypeInit, TypeStep, PTL DEF Spec

-----------------------------------------------------------------------------
(* Restricted applications are refused *)

LEMMA GrownFacts ==
    ASSUME NEW y \in Seq(Compositions), NEW x \in Seq(Compositions), Grown(y, x)
    PROVE  /\ Grown(y, Append(x, Required)) /\ Has(Append(x, Required))
           /\ Has(y) => Has(x)
           /\ y = x \/ Has(x)
<1>1. Append(x, Required) \in Seq(Compositions) /\ Len(Append(x, Required)) = Len(x) + 1
      BY RequiredIsOne
<1>2. \A i \in 1..Len(x) : Append(x, Required)[i] = x[i]  OBVIOUS
<1>3. Append(x, Required)[Len(x) + 1] = Required  OBVIOUS
<1>4. DOMAIN x = 1..Len(x) /\ DOMAIN y = 1..Len(y) /\ Len(x) \in Nat /\ Len(y) \in Nat
      /\ DOMAIN Append(x, Required) = 1..(Len(x) + 1)
      BY <1>1
<1> DEFINE z == Append(x, Required)
<1> HIDE DEF z
<1>5. Len(y) <= Len(x) /\ Len(x) \in Nat /\ Len(y) \in Nat  BY DEF Grown
<1>6. Grown(y, z)  BY <1>1, <1>2, <1>3, <1>4 DEF Grown, z
<1>7. Has(z)  BY <1>3, <1>4 DEF Has, z
<1>8. Has(y) => Has(x)  BY <1>4 DEF Grown, Has
<1>9. CASE Len(x) = Len(y)  BY <1>6, <1>7, <1>8, <1>9 DEF Grown, z
<1>10. CASE Len(x) # Len(y)
  <2>1. Len(y) < Len(x)  BY <1>10, <1>5
  <2>2. Len(x) \in DOMAIN x /\ Len(x) \notin DOMAIN y  BY <1>4, <2>1
  <2> QED  BY <1>6, <1>7, <1>8, <2>2 DEF Grown, Has, z
<1> QED  BY <1>9, <1>10

LEMMA GrownReflexive == ASSUME NEW y \in Seq(Compositions) PROVE Grown(y, y)
BY DEF Grown

ListsGrown == \A l \in Lists : Grown(ListItems[l], lists[l])

\* A class whose own permission_classes are not what its source says, a value
\* about to be bound to one, and what a view that needs the permission is
\* called with, all include it.
ChangedHas == \A c \in Views : own[c] # Declared[c] => Has(ItemsOf(lists, own[c]))
PendingHas == \A t \in Threads : pc[t] = "store" => Has(ItemsOf(lists, value[t]))
ServedHas ==
    \A t \in Threads :
        pc[t] = "serve" /\ view[t] \in JwtViews /\ IncludesRequired(DeclaredItems(view[t])) = "absent"
        => Has(Items(own, lists, view[t]))

Refusing == TypeOK /\ ListsGrown /\ ChangedHas /\ PendingHas /\ ServedHas

LEMMA RefusingInit == Init => Refusing
<1> SUFFICES ASSUME Init PROVE Refusing  OBVIOUS
<1>1. ListsGrown  BY PermissionsAssumption, GrownReflexive DEF ListsGrown, Init
<1> QED  BY <1>1, TypeInit DEF Init, Refusing, ChangedHas, PendingHas, ServedHas

\* If the permission is missing from what a class finds, that is what its source
\* says, and nothing nearer has permissions of its own.
LEMMA MissingMeansDeclared ==
    ASSUME Refusing, NEW c \in Views, ~Has(Items(own, lists, c))
    PROVE  /\ own[Owner(own, c)] = DeclaredFor(c)
           /\ \A d \in Line(c) : own[d] # None => d = Owner(own, c)
<1> DEFINE e == Owner(own, c)
<1>1. Keeps(own)  BY DEF Refusing, TypeOK, Keeps
<1>2. e \in Views /\ own[e] \in Attribute /\ own[e] # None  BY ItemsType, RequiredIsOne DEF Refusing
<1>3. own[e] = Declared[e]  BY <1>2 DEF Refusing, ChangedHas, Items
<1>4. Found(own, c) \in 1..Found(Declared, c)  BY <1>1, OwnerInLine
<1>5. ~(Found(own, c) \in 1..(Found(Declared, c) - 1))  BY <1>2, <1>3, DeclaredFound DEF Owner
<1>6. Mro[c] \in Seq(Views)  BY InheritanceAssumption
<1>7. Found(Declared, c) \in Nat  BY <1>6, DeclaredFound
<1>8. Found(own, c) = Found(Declared, c)  BY <1>4, <1>5, <1>7
<1>9. own[e] = DeclaredFor(c)  BY <1>3, <1>8 DEF Owner, DeclaredFor
<1>10. Found(own, c) \in DOMAIN Mro[c]  BY <1>8, DeclaredFound
<1>11. own[Mro[c][Found(own, c)]] # None  BY <1>2 DEF Owner
<1>12. \A j \in 1..(Found(own, c) - 1) : own[Mro[c][j]] = None  BY <1>10, <1>11, FoundFirst
<1>13. ASSUME NEW d \in Line(c), own[d] # None PROVE d = e
  <2>1. PICK i \in 1..Found(Declared, c) : Mro[c][i] = d  BY DEF Line
  <2>2. i = Found(own, c)  BY <1>7, <1>8, <1>12, <1>13, <2>1
  <2> QED  BY <2>1, <2>2 DEF Owner
<1> QED  BY <1>9, <1>13

\* Permissions that are not what the source says include the required one.
LEMMA DifferentHas ==
    ASSUME Refusing, NEW c \in Views
    PROVE  Items(own, lists, c) = DeclaredItems(c) \/ Has(Items(own, lists, c))
<1> SUFFICES ASSUME ~Has(Items(own, lists, c)) PROVE Items(own, lists, c) = DeclaredItems(c)
    OBVIOUS
<1> DEFINE a == DeclaredFor(c)
<1>1. own[Owner(own, c)] = a  BY MissingMeansDeclared
<1>2. Items(own, lists, c) = ItemsOf(lists, a) /\ DeclaredItems(c) = ItemsOf(ListItems, a)
      BY <1>1 DEF Items, DeclaredItems
<1> HIDE DEF a
<1>3. CASE a \in Lists
  <2>1. ListItems[a] \in Seq(Compositions) /\ lists[a] \in Seq(Compositions)
        BY <1>3, PermissionsAssumption DEF Refusing, TypeOK
  <2> QED  BY <1>2, <1>3, <2>1, GrownFacts DEF Refusing, ListsGrown, ItemsOf
<1>4. CASE a \notin Lists  BY <1>2, <1>4 DEF ItemsOf
<1> QED  BY <1>3, <1>4

LEMMA RefusingDispatch ==
    ASSUME Refusing, NEW t \in Threads, NEW c \in Views, Dispatch(t, c)
    PROVE  Refusing'
<1>1. TypeOK'  BY TypeDispatch DEF Refusing
<1>2. UNCHANGED <<own, lists, value>>  BY DEF Dispatch
<1>3. ListsGrown' /\ ChangedHas'  BY <1>2 DEF Refusing, ListsGrown, ChangedHas, ItemsOf
<1>4. /\ pc[t] = "idle" /\ pc'[t] # "store" /\ view'[t] = c
      /\ pc'[t] = "serve" => c \notin JwtViews
      /\ \A s \in Threads : s # t => pc'[s] = pc[s] /\ view'[s] = view[s]
      BY DEF Refusing, TypeOK, Dispatch
<1>5. PendingHas'  BY <1>2, <1>4 DEF Refusing, PendingHas, ItemsOf
<1>6. \A d : Items(own, lists, d)' = Items(own, lists, d)  BY <1>2
<1>7. ServedHas'  BY <1>4, <1>6 DEF Refusing, ServedHas
<1> QED  BY <1>1, <1>3, <1>5, <1>7 DEF Refusing

LEMMA RefusingCheck ==
    ASSUME Refusing, NEW t \in Threads, Check(t)
    PROVE  Refusing'
<1>1. TypeOK /\ TypeOK'  BY TypeCheck DEF Refusing
<1>2. /\ view[t] \in Views /\ \A s \in Threads : s # t => pc'[s] = pc[s]
      /\ pc'[t] # "store"
      /\ pc'[t] = "serve" => IncludesRequired(Items(own, lists, view[t])) = "found"
      /\ UNCHANGED <<own, lists, view, value>>
      BY <1>1, CheckOutcome
<1>3. ListsGrown' /\ ChangedHas'  BY <1>2 DEF Refusing, ListsGrown, ChangedHas, ItemsOf
<1>4. PendingHas'  BY <1>2 DEF Refusing, PendingHas, ItemsOf
<1>5. \A c : Items(own, lists, c)' = Items(own, lists, c)  BY <1>2
<1>6. ServedHas'
  <2> SUFFICES ASSUME NEW s \in Threads, pc'[s] = "serve", view[s] \in JwtViews,
                      IncludesRequired(DeclaredItems(view[s])) = "absent"
               PROVE  Has(Items(own, lists, view[s]))
      BY <1>2, <1>5 DEF ServedHas
  <2>1. CASE s = t
    <3>1. Items(own, lists, view[t]) # DeclaredItems(view[t])  BY <1>2, <2>1
    <3> QED  BY <1>2, <2>1, <3>1, DifferentHas
  <2>2. CASE s # t  BY <1>2, <2>2 DEF Refusing, ServedHas
  <2> QED  BY <2>1, <2>2
<1> QED  BY <1>1, <1>3, <1>4, <1>6 DEF Refusing

LEMMA RefusingExtend ==
    ASSUME Refusing, NEW t \in Threads, Extend(t)
    PROVE  Refusing'
<1> DEFINE a == own[Owner(own, view[t])]
<1>1. TypeOK /\ TypeOK' /\ ListsGrown  BY TypeExtend DEF Refusing
<1>2. /\ a \in Attribute /\ own' = own /\ view' = view /\ pc' = [pc EXCEPT ![t] = "store"]
      /\ \/ /\ a \in Lists /\ lists[a] \in Seq(Compositions)
            /\ lists' = [lists EXCEPT ![a] = Append(lists[a], Required)]
            /\ value' = [value EXCEPT ![t] = a]
         \/ /\ a \notin Lists /\ a \in Seq(Compositions)
            /\ lists' = lists /\ value' = [value EXCEPT ![t] = Append(a, Required)]
      BY <1>1, ExtendOutcome
<1> HIDE DEF a
<1>3. \A l \in Lists : /\ Grown(ListItems[l], lists'[l])
                       /\ Has(lists[l]) => Has(lists'[l])
  <2> TAKE l \in Lists
  <2>1. ListItems[l] \in Seq(Compositions) /\ lists[l] \in Seq(Compositions) /\ Grown(ListItems[l], lists[l])
        BY <1>1, PermissionsAssumption DEF TypeOK, ListsGrown
  <2>2. lists'[l] = lists[l] \/ lists'[l] = Append(lists[l], Required)  BY <1>1, <1>2 DEF TypeOK
  <2> QED  BY <2>1, <2>2, GrownFacts
<1>4. \A x : Has(ItemsOf(lists, x)) => Has(ItemsOf(lists', x))  BY <1>3 DEF ItemsOf
<1>5. Has(ItemsOf(lists', value'[t]))
  <2>1. CASE a \in Lists
    <3>1. value'[t] = a /\ lists'[a] = Append(lists[a], Required)  BY <1>1, <1>2, <2>1 DEF TypeOK
    <3> QED  BY <1>2, <2>1, <3>1, GrownFacts, GrownReflexive DEF ItemsOf
  <2>2. CASE a \notin Lists
    <3>1. value'[t] = Append(a, Required) /\ a \in Seq(Compositions)  BY <1>1, <1>2, <2>2 DEF TypeOK
    <3>2. Append(a, Required) \in Seq(Compositions) /\ Has(Append(a, Required))
          BY <3>1, RequiredIsOne, GrownFacts, GrownReflexive
    <3>3. Append(a, Required) \notin Lists  BY <3>2, PermissionsAssumption
    <3> QED  BY <3>1, <3>2, <3>3 DEF ItemsOf
  <2> QED  BY <2>1, <2>2
<1>6. ListsGrown'  BY <1>3 DEF ListsGrown
<1>7. ChangedHas'  BY <1>2, <1>4 DEF Refusing, ChangedHas
<1>8. PendingHas'
  <2>1. \A s \in Threads : s # t => pc'[s] = pc[s] /\ value'[s] = value[s]  BY <1>1, <1>2 DEF TypeOK
  <2> QED  BY <1>4, <1>5, <2>1 DEF Refusing, PendingHas
<1>9. ServedHas'
  <2>1. pc'[t] # "serve" /\ \A s \in Threads : s # t => pc'[s] = pc[s]  BY <1>1, <1>2 DEF TypeOK
  <2>2. \A x : Items(own, lists, x)' = Items(own, lists', x)  BY <1>2
  <2> QED  BY <1>2, <1>4, <2>1, <2>2 DEF Refusing, ServedHas, Items
<1> QED  BY <1>1, <1>6, <1>7, <1>8, <1>9 DEF Refusing

LEMMA RefusingStore ==
    ASSUME Refusing, NEW t \in Threads, Store(t)
    PROVE  Refusing'
<1>1. TypeOK /\ TypeOK'  BY TypeStore DEF Refusing
<1>2. /\ view[t] \in Views /\ value[t] \in Attribute /\ value[t] # None /\ pc[t] = "store"
      /\ own' = [own EXCEPT ![view[t]] = value[t]] /\ lists' = lists /\ view' = view
      BY <1>1, PermissionsAssumption, RequiredIsOne DEF TypeOK, Store
<1>3. /\ pc'[t] = "serve" /\ \A s \in Threads : s # t => pc'[s] = pc[s] /\ value'[s] = value[s]
      BY <1>1 DEF TypeOK, Store
<1>4. Has(ItemsOf(lists, value[t]))  BY <1>2 DEF Refusing, PendingHas
<1>5. \A c \in Views : own'[c] = IF c = view[t] THEN value[t] ELSE own[c]  BY <1>1, <1>2 DEF TypeOK
<1>6. ListsGrown'  BY <1>2 DEF Refusing, ListsGrown
<1>7. ChangedHas'  BY <1>2, <1>4, <1>5 DEF Refusing, ChangedHas
<1>8. PendingHas'  BY <1>2, <1>3 DEF Refusing, PendingHas
<1>9. \A c \in Views : Has(Items(own, lists, c)) \/ c = view[t] => Has(Items(own', lists', c))
  <2> TAKE c \in Views
  <2>1. Keeps(own)  BY <1>1 DEF TypeOK, Keeps
  <2>2. view[t] \in Views /\ value[t] # None  BY <1>2
  <2>3. own'[view[t]] # None /\ \A y \in Views : y # view[t] => own'[y] = own[y]  BY <1>5, <2>2
  <2>4. Owner(own, c) \in Views  BY <1>1, ItemsType
  <2>5. \/ Owner(own', c) = Owner(own, c) /\ Owner(own', c) # view[t]
        \/ Owner(own', c) = view[t]
        BY <2>1, <2>2, <2>3, OwnerAfterStore
  <2>6. c = view[t] => Owner(own', c) = view[t]  BY <2>3, OwnIsFound
  <2> QED  BY <1>2, <1>4, <1>5, <2>4, <2>5, <2>6 DEF Items
<1>10. ServedHas'
  <2> SUFFICES ASSUME NEW s \in Threads, pc'[s] = "serve", view[s] \in JwtViews,
                      IncludesRequired(DeclaredItems(view[s])) = "absent"
               PROVE  Has(Items(own', lists', view[s]))
      BY <1>2 DEF ServedHas
  <2>1. view[s] \in Views  BY PermissionsAssumption
  <2>2. s # t => Has(Items(own, lists, view[s]))  BY <1>3 DEF Refusing, ServedHas
  <2> QED  BY <1>9, <2>1, <2>2
<1> QED  BY <1>1, <1>6, <1>7, <1>8, <1>10 DEF Refusing

LEMMA RefusingFinish ==
    ASSUME Refusing, NEW t \in Threads, Finish(t)
    PROVE  Refusing'
<1>1. TypeOK'  BY TypeFinish DEF Refusing
<1>2. UNCHANGED <<own, lists, value>>  BY DEF Finish
<1>3. /\ pc'[t] = "idle"
      /\ \A s \in Threads : s # t => pc'[s] = pc[s] /\ view'[s] = view[s]
      BY DEF Refusing, TypeOK, Finish
<1>4. ListsGrown' /\ ChangedHas'  BY <1>2 DEF Refusing, ListsGrown, ChangedHas, ItemsOf
<1>5. PendingHas'  BY <1>2, <1>3 DEF Refusing, PendingHas, ItemsOf
<1>6. \A d : Items(own, lists, d)' = Items(own, lists, d)  BY <1>2
<1>7. ServedHas'  BY <1>3, <1>6 DEF Refusing, ServedHas
<1> QED  BY <1>1, <1>4, <1>5, <1>7 DEF Refusing

LEMMA RefusingStep == Refusing /\ [Next]_vars => Refusing'
<1> SUFFICES ASSUME Refusing, [Next]_vars PROVE Refusing'  OBVIOUS
<1>1. CASE UNCHANGED vars
  <2>1. UNCHANGED <<own, lists, pc, view, value>>  BY <1>1 DEF vars
  <2>2. \A d : Items(own, lists, d)' = Items(own, lists, d)  BY <2>1
  <2>3. TypeOK'  BY <2>1 DEF Refusing, TypeOK
  <2>4. ListsGrown' /\ ChangedHas' /\ PendingHas'
        BY <2>1 DEF Refusing, ListsGrown, ChangedHas, PendingHas, ItemsOf
  <2>5. ServedHas'  BY <2>1, <2>2 DEF Refusing, ServedHas
  <2> QED  BY <2>3, <2>4, <2>5 DEF Refusing
<1>2. CASE Next
  <2>1. PICK t \in Threads :
          (\E c \in Views : Dispatch(t, c)) \/ Check(t) \/ Extend(t) \/ Store(t) \/ Finish(t)
        BY <1>2 DEF Next
  <2> QED  BY <2>1, RefusingDispatch, RefusingCheck, RefusingExtend, RefusingStore, RefusingFinish
<1> QED  BY <1>1, <1>2

LEMMA RefusingRefuses == Refusing => RestrictedIsRefused
<1> SUFFICES ASSUME Refusing, NEW t \in Threads, pc[t] = "serve", view[t] \in JwtViews,
                    IncludesRequired(DeclaredItems(view[t])) = "absent",
                    NEW r \in Request, r.restricted
             PROVE  ~Admits(Items(own, lists, view[t]), r)
    BY DEF RestrictedIsRefused
<1>1. Has(Items(own, lists, view[t]))  BY DEF Refusing, ServedHas
<1>2. r \notin Granted[Required]  BY GrantedRequired
<1> QED  BY <1>1, <1>2 DEF Has, Admits

\* However many threads race, and however classes inherit or share their
\* permissions, by the time a view that accepts JWTs is called its class refuses
\* restricted applications, unless its source speaks of them (middleware.py:64-94).
THEOREM RestrictedRefused == Spec => []RestrictedIsRefused
<1>1. Spec => []Refusing  BY RefusingInit, RefusingStep, PTL DEF Spec
<1> QED  BY <1>1, RefusingRefuses, PTL

-----------------------------------------------------------------------------
(* Nobody else's access changes *)

\* What an unmixed class has of its own, or is about to be given, is what its
\* source says, but for the required permission.
DerivedOwn == \A c \in Unmixed : own[c] # None => Derived(own[c], DeclaredFor(c))
DerivedPending ==
    \A t \in Threads :
        pc[t] = "store" /\ view[t] \in Unmixed => Derived(value[t], DeclaredFor(view[t]))

Deriving == DerivedOwn /\ DerivedPending

LEMMA DeclaredForType == ASSUME NEW c \in Views PROVE DeclaredFor(c) \in Attribute
BY DeclaredFound, PermissionsAssumption DEF DeclaredFor

LEMMA DerivedFacts ==
    ASSUME NEW a \in Attribute, NEW d \in Attribute, Derived(a, d)
    PROVE  /\ a \in Lists => a = d
           /\ a \notin Lists =>
                  /\ d \notin Lists /\ a \in Seq(Compositions) /\ d \in Seq(Compositions)
                  /\ Grown(d, a) /\ Derived(Append(a, Required), d)
<1>1. a \in Lists => a = d  BY PermissionsAssumption DEF Derived
<1>2. ASSUME a \notin Lists
      PROVE  d \notin Lists /\ a \in Seq(Compositions) /\ d \in Seq(Compositions) /\ Grown(d, a)
      BY <1>2 DEF Derived, Attribute
<1>3. ASSUME a \notin Lists PROVE Derived(Append(a, Required), d)
  <2>1. Append(a, Required) \in Seq(Compositions) /\ Grown(d, Append(a, Required))
        BY <1>2, <1>3, GrownFacts, RequiredIsOne
  <2> QED  BY <1>2, <1>3, <2>1 DEF Derived
<1> QED  BY <1>1, <1>2, <1>3

\* What an unmixed class finds comes from what its source says.
LEMMA OwnerDerived ==
    ASSUME TypeOK, DerivedOwn, NEW c \in Unmixed
    PROVE  /\ c \in Views /\ Owner(own, c) \in Unmixed /\ Owner(own, c) \in Line(c)
           /\ own[Owner(own, c)] \in Attribute /\ DeclaredFor(c) \in Attribute
           /\ Derived(own[Owner(own, c)], DeclaredFor(c))
<1>1. c \in Views  BY DEF Unmixed
<1>2. Owner(own, c) \in Line(c) /\ own[Owner(own, c)] \in Attribute  BY <1>1, ItemsType
<1>3. Owner(own, c) \in Unmixed /\ DeclaredFor(Owner(own, c)) = DeclaredFor(c)  BY <1>2, LineOfLine
<1> QED  BY <1>1, <1>2, <1>3, DeclaredForType, RequiredIsOne DEF DerivedOwn

LEMMA DerivingInit == Init => Deriving
<1> SUFFICES ASSUME Init, NEW c \in Unmixed, Declared[c] # None
             PROVE  Derived(Declared[c], DeclaredFor(c))
    BY DEF Init, Deriving, DerivedOwn, DerivedPending
<1>1. c \in Views  BY DEF Unmixed
<1>2. DeclaredFor(c) = Declared[c]  BY <1>1, OwnIsFound DEF DeclaredFor
<1>3. Declared[c] \in Attribute  BY <1>1, PermissionsAssumption
<1> QED  BY <1>2, <1>3, GrownReflexive DEF Derived, Attribute

LEMMA DerivingExtend ==
    ASSUME TypeOK, Deriving, NEW t \in Threads, Extend(t)
    PROVE  Deriving'
<1> DEFINE a == own[Owner(own, view[t])]
<1>1. /\ own' = own /\ view' = view
      /\ \/ a \in Lists /\ value' = [value EXCEPT ![t] = a]
         \/ a \notin Lists /\ value' = [value EXCEPT ![t] = Append(a, Required)]
      BY ExtendOutcome
<1>2. ASSUME view[t] \in Unmixed PROVE Derived(value'[t], DeclaredFor(view[t]))
  <2>1. a \in Attribute /\ DeclaredFor(view[t]) \in Attribute /\ Derived(a, DeclaredFor(view[t]))
        BY <1>2, OwnerDerived DEF Deriving
  <2> HIDE DEF a
  <2>2. value'[t] = a \/ (a \notin Lists /\ value'[t] = Append(a, Required))  BY <1>1 DEF TypeOK
  <2> QED  BY <2>1, <2>2, DerivedFacts
<1>3. \A s \in Threads : s # t => pc'[s] = pc[s] /\ value'[s] = value[s]
      BY DEF TypeOK, Extend
<1> HIDE DEF a
<1>4. DerivedOwn'  BY <1>1 DEF Deriving, DerivedOwn
<1>5. DerivedPending'  BY <1>1, <1>2, <1>3 DEF Deriving, DerivedPending
<1> QED  BY <1>4, <1>5 DEF Deriving

LEMMA DerivingStore ==
    ASSUME TypeOK, Deriving, NEW t \in Threads, Store(t)
    PROVE  Deriving'
<1>1. /\ own' = [own EXCEPT ![view[t]] = value[t]] /\ view' = view /\ pc[t] = "store"
      /\ pc'[t] = "serve" /\ \A s \in Threads : s # t => pc'[s] = pc[s] /\ value'[s] = value[s]
      BY DEF TypeOK, Store
<1>2. \A c \in Views : own'[c] = IF c = view[t] THEN value[t] ELSE own[c]  BY <1>1 DEF TypeOK
<1>3. DerivedOwn'  BY <1>1, <1>2 DEF Deriving, DerivedOwn, DerivedPending, Unmixed
<1>4. DerivedPending'  BY <1>1 DEF Deriving, DerivedPending
<1> QED  BY <1>3, <1>4 DEF Deriving

LEMMA DerivingStep == TypeOK /\ Deriving /\ [Next]_vars => Deriving'
<1> SUFFICES ASSUME TypeOK, Deriving, [Next]_vars PROVE Deriving'  OBVIOUS
<1>1. CASE UNCHANGED vars  BY <1>1 DEF vars, Deriving, DerivedOwn, DerivedPending
<1>2. ASSUME NEW t \in Threads, NEW c \in Views, Dispatch(t, c) PROVE Deriving'
  <2>1. /\ own' = own /\ value' = value /\ pc'[t] # "store"
        /\ \A s \in Threads : s # t => pc'[s] = pc[s] /\ view'[s] = view[s]
        BY <1>2 DEF TypeOK, Dispatch
  <2> QED  BY <2>1 DEF Deriving, DerivedOwn, DerivedPending
<1>3. ASSUME NEW t \in Threads, Check(t) PROVE Deriving'
  <2>1. /\ pc'[t] # "store" /\ \A s \in Threads : s # t => pc'[s] = pc[s]
        /\ UNCHANGED <<own, view, value>>
        BY <1>3, CheckOutcome
  <2> QED  BY <2>1 DEF Deriving, DerivedOwn, DerivedPending
<1>4. ASSUME NEW t \in Threads, Finish(t) PROVE Deriving'
  <2>1. /\ own' = own /\ value' = value /\ pc'[t] # "store"
        /\ \A s \in Threads : s # t => pc'[s] = pc[s] /\ view'[s] = view[s]
        BY <1>4 DEF TypeOK, Finish
  <2> QED  BY <2>1 DEF Deriving, DerivedOwn, DerivedPending
<1>5. CASE Next
  <2>1. PICK t \in Threads :
          (\E c \in Views : Dispatch(t, c)) \/ Check(t) \/ Extend(t) \/ Store(t) \/ Finish(t)
        BY <1>5 DEF Next
  <2> QED  BY <1>2, <1>3, <1>4, <2>1, DerivingExtend, DerivingStore
<1> QED  BY <1>1, <1>5

LEMMA ItemsGrown ==
    ASSUME TypeOK, ListsGrown, Deriving, NEW c \in Unmixed
    PROVE  /\ Grown(DeclaredItems(c), Items(own, lists, c))
           /\ DeclaredItems(c) \in Seq(Compositions) /\ Items(own, lists, c) \in Seq(Compositions)
<1> DEFINE a == own[Owner(own, c)]
           d == DeclaredFor(c)
<1>1. a \in Attribute /\ d \in Attribute /\ Derived(a, d)  BY OwnerDerived DEF Deriving
<1>2. Items(own, lists, c) = ItemsOf(lists, a) /\ DeclaredItems(c) = ItemsOf(ListItems, d)
      BY DEF Items, DeclaredItems
<1> HIDE DEF a, d
<1>3. CASE a \in Lists
  <2>1. a = d  BY <1>1, <1>3, DerivedFacts
  <2>2. ListItems[a] \in Seq(Compositions) /\ lists[a] \in Seq(Compositions)
        BY <1>3, PermissionsAssumption DEF TypeOK
  <2> QED  BY <1>2, <1>3, <2>1, <2>2 DEF ItemsOf, ListsGrown
<1>4. CASE a \notin Lists  BY <1>1, <1>2, <1>4, DerivedFacts DEF ItemsOf
<1> QED  BY <1>3, <1>4

LEMMA DerivingAdmits == Refusing /\ Deriving => OthersAsDeclared
<1> SUFFICES ASSUME Refusing, Deriving, NEW c \in Unmixed, NEW r \in Request, ~r.restricted
             PROVE  Admits(Items(own, lists, c), r) <=> Admits(DeclaredItems(c), r)
    BY DEF OthersAsDeclared
<1> DEFINE x == Items(own, lists, c)
           y == DeclaredItems(c)
<1>1. Grown(y, x) /\ y \in Seq(Compositions) /\ x \in Seq(Compositions)  BY ItemsGrown DEF Refusing
<1> HIDE DEF x, y
<1>2. r \in Granted[Required]  BY GrantedRequired
<1>3. DOMAIN y \subseteq DOMAIN x  BY <1>1 DEF Grown
<1>4. Admits(x, r) <=> Admits(y, r)  BY <1>1, <1>2, <1>3 DEF Grown, Admits
<1> QED  BY <1>4 DEF x, y

\* The permission the middleware adds takes access from restricted applications
\* only, on the class it adds it to and on all that inherit from the class or
\* share its list (middleware.py:87).
THEOREM OthersUnchanged == Spec => []OthersAsDeclared
<1>1. Spec => []Refusing  BY RefusingInit, RefusingStep, PTL DEF Spec
<1>2. Refusing => TypeOK  BY DEF Refusing
<1>3. Spec => []Deriving  BY <1>1, <1>2, DerivingInit, DerivingStep, PTL DEF Spec
<1> QED  BY <1>1, <1>3, DerivingAdmits, PTL

-----------------------------------------------------------------------------
(* Classes do not grow from request to request *)

LEMMA CountGrown ==
    ASSUME NEW y \in Seq(Compositions), NEW x \in Seq(Compositions), Grown(y, x)
    PROVE  Count(y) \in Nat /\ Count(x) = Count(y) + (Len(x) - Len(y))
<1> DEFINE Y == {i \in DOMAIN y : y[i] = Required}
           X == {i \in DOMAIN x : x[i] = Required}
           New == (Len(y) + 1)..Len(x)
<1>1. /\ Len(x) \in Nat /\ Len(y) \in Nat /\ DOMAIN x = 1..Len(x) /\ DOMAIN y = 1..Len(y)
      OBVIOUS
<1>2. Len(y) <= Len(x)  BY DEF Grown
<1>3. X = Y \cup New /\ Y \cap New = {}
  <2>1. \A i \in New : i \in DOMAIN x /\ i \notin DOMAIN y  BY <1>1, <1>2
  <2>2. \A i \in DOMAIN x : i \in DOMAIN y \/ i \in New  BY <1>1, <1>2
  <2>3. \A i \in DOMAIN y : i \in DOMAIN x /\ x[i] = y[i]  BY <1>1, <1>2 DEF Grown
  <2>4. \A i \in DOMAIN x : i \notin DOMAIN y => x[i] = Required  BY DEF Grown
  <2> HIDE DEF New
  <2> QED  BY <2>1, <2>2, <2>3, <2>4
<1>4. IsFiniteSet(New) /\ Cardinality(New) = Len(x) - Len(y)
  <2>1. Len(y) + 1 \in Int /\ Len(x) \in Int  BY <1>1
  <2>2. IsFiniteSet(New) /\ Cardinality(New) = IF Len(y) + 1 > Len(x) THEN 0 ELSE Len(x) - (Len(y) + 1) + 1
        BY <2>1, FS_Interval
  <2> QED  BY <1>1, <1>2, <2>2
<1>5. IsFiniteSet(Y)
  <2>1. IsFiniteSet(1..Len(y))  BY <1>1, FS_Interval
  <2>2. Y \in SUBSET (1..Len(y))  BY <1>1
  <2> QED  BY <2>1, <2>2, FS_Subset
<1>6. Count(x) = Cardinality(X) /\ Count(y) = Cardinality(Y)  BY DEF Count
<1> HIDE DEF X, Y, New
<1>7. Cardinality(Y \cup New) = Cardinality(Y) + Cardinality(New) - Cardinality(Y \cap New)
      BY <1>4, <1>5, FS_Union
<1>8. Cardinality(Y) \in Nat  BY <1>5, FS_CardinalityType
<1>9. Cardinality(Y \cap New) = 0
  <2>1. Y \cap New = {}  BY <1>3
  <2> QED  BY <2>1, FS_EmptySet
<1>10. Cardinality(X) = Cardinality(Y \cup New)  BY <1>3
<1>11. Len(x) \in Nat /\ Len(y) \in Nat  BY <1>1
<1> QED  BY <1>4, <1>6, <1>7, <1>8, <1>9, <1>10, <1>11

LEMMA ThreadSets ==
    ASSUME NEW S \in SUBSET Threads
    PROVE  /\ IsFiniteSet(S) /\ Cardinality(S) \in Nat /\ Cardinality(S) <= Cardinality(Threads)
           /\ Cardinality(S) = 0 => S = {}
           /\ \A t : t \notin S => Cardinality(S \cup {t}) = Cardinality(S) + 1
<1>1. IsFiniteSet(Threads)  BY PermissionsAssumption
<1>2. IsFiniteSet(S) /\ Cardinality(S) <= Cardinality(Threads)  BY <1>1, FS_Subset
<1>3. Cardinality(S) \in Nat  BY <1>2, FS_CardinalityType
<1>4. Cardinality(S) = 0 => S = {}  BY <1>2, FS_EmptySet
<1>5. ASSUME NEW t, t \notin S PROVE Cardinality(S \cup {t}) = Cardinality(S) + 1
      BY <1>2, <1>5, FS_AddElement
<1> QED  BY <1>2, <1>3, <1>4, <1>5

\* The classes whose tuples this section counts.
Tupled == {c \in Unmixed : DeclaredFor(c) \notin Lists}

\* A tuple is as much longer than what the source says as there are threads in a
\* set: for a class A[c], for what t is about to bind B[t].  A thread that is
\* about to add the permission is in no such set along the line of its view, and
\* a set has threads other than the one that made it only if the line has some.
OwnCounted(A) ==
    \A c \in Tupled : own[c] # None => Len(own[c]) = Len(DeclaredFor(c)) + Cardinality(A[c])
PendingCounted(B) ==
    \A t \in Threads : pc[t] = "store" /\ view[t] \in Tupled =>
        t \in B[t] /\ Len(value[t]) = Len(DeclaredFor(view[t])) + Cardinality(B[t])
ExtendingIsNew(A, B) ==
    \A t \in Threads : pc[t] = "extend" /\ view[t] \in Tupled =>
        \A d \in Line(view[t]) :
            /\ own[d] # None => t \notin A[d]
            /\ \A s \in Threads : pc[s] = "store" /\ view[s] = d => t \notin B[s]
PendingHasSource(A, B) ==
    \A s \in Threads : pc[s] = "store" /\ view[s] \in Tupled /\ B[s] \ {s} # {} =>
        \E d \in Line(view[s]) : own[d] # None /\ A[d] # {}

Contributions(A, B) ==
    /\ A \in [Views -> SUBSET Threads] /\ B \in [Threads -> SUBSET Threads]
    /\ OwnCounted(A) /\ PendingCounted(B) /\ ExtendingIsNew(A, B) /\ PendingHasSource(A, B)

TuplesCounted == \E A, B : Contributions(A, B)

LEMMA TupledLine ==
    ASSUME NEW c \in Tupled, NEW e \in Line(c)
    PROVE  /\ c \in Views /\ c \in Unmixed /\ e \in Views /\ e \in Tupled
           /\ Line(e) \subseteq Line(c) /\ DeclaredFor(e) = DeclaredFor(c)
BY LineOfLine DEF Tupled, Unmixed

LEMMA TuplesInit == Init => TuplesCounted
<1> SUFFICES ASSUME Init PROVE TuplesCounted  OBVIOUS
<1> DEFINE A == [c \in Views |-> {}]
           B == [t \in Threads |-> {}]
<1>1. ASSUME NEW c \in Tupled, own[c] # None
      PROVE  Len(own[c]) = Len(DeclaredFor(c)) + Cardinality(A[c])
  <2>1. c \in Views  BY DEF Tupled, Unmixed
  <2>2. own[c] = Declared[c]  BY DEF Init
  <2>3. DeclaredFor(c) = own[c]  BY <1>1, <2>1, <2>2, OwnIsFound DEF DeclaredFor
  <2>4. own[c] \in Seq(Compositions)
        BY <1>1, <2>1, <2>2, <2>3, PermissionsAssumption DEF Tupled, Attribute
  <2>5. Cardinality(A[c]) = 0  BY <2>1, FS_EmptySet
  <2>6. Len(own[c]) \in Nat  BY <2>4
  <2> QED  BY <2>3, <2>5, <2>6
<1>2. A \in [Views -> SUBSET Threads] /\ B \in [Threads -> SUBSET Threads]  OBVIOUS
<1>3. \A t \in Threads : pc[t] = "idle"  BY DEF Init
<1> HIDE DEF A, B
<1>4. Contributions(A, B)  BY <1>1, <1>2, <1>3 DEF Contributions, OwnCounted, PendingCounted, ExtendingIsNew, PendingHasSource
<1> QED  BY <1>4 DEF TuplesCounted

\* A step by which nobody comes to "extend" or "store" and nothing is bound.
LEMMA TuplesQuiet ==
    ASSUME TuplesCounted, UNCHANGED <<own, value>>,
           \A t \in Threads :
               pc'[t] \in {"extend", "store"} => pc[t] = pc'[t] /\ view'[t] = view[t]
    PROVE  TuplesCounted'
<1>1. PICK A, B : Contributions(A, B)  BY DEF TuplesCounted
<1>2. Contributions(A, B)'  BY <1>1 DEF Contributions, OwnCounted, PendingCounted, ExtendingIsNew, PendingHasSource
<1> QED  BY <1>2 DEF TuplesCounted

LEMMA TuplesCheck ==
    ASSUME Refusing, TuplesCounted, NEW t \in Threads, Check(t)
    PROVE  TuplesCounted'
<1>1. TypeOK  BY DEF Refusing
<1>2. /\ view[t] \in Views /\ pc[t] = "check" /\ pc'[t] # "store"
      /\ \A s \in Threads : s # t => pc'[s] = pc[s]
      /\ pc'[t] = "extend" => IncludesRequired(Items(own, lists, view[t])) = "absent"
      /\ UNCHANGED <<own, view, value>>
      BY <1>1, CheckOutcome
<1>3. CASE pc'[t] # "extend"  BY <1>2, <1>3, TuplesQuiet
<1>4. CASE pc'[t] = "extend"
  <2>1. PICK A, B : Contributions(A, B)  BY DEF TuplesCounted
  <2> DEFINE v == view[t]
             e == Owner(own, v)
  <2>2. ~Has(Items(own, lists, v))  BY <1>1, <1>2, <1>4, ItemsType, IncludesOutcome
  <2>3. own[e] = DeclaredFor(v) /\ \A d \in Line(v) : own[d] # None => d = e
        BY <1>2, <2>2, MissingMeansDeclared
  <2>4. ASSUME v \in Tupled
        PROVE  \A d \in Line(v) : own[d] # None => A[d] = {}
    <3>1. e \in Line(v) /\ e \in Views /\ own[e] \in Attribute /\ own[e] # None
          BY <1>1, <1>2, ItemsType, RequiredIsOne
    <3>2. e \in Tupled /\ DeclaredFor(e) = DeclaredFor(v)  BY <2>4, <3>1, TupledLine
    <3>3. Len(own[e]) = Len(own[e]) + Cardinality(A[e])  BY <2>1, <2>3, <3>1, <3>2 DEF Contributions, OwnCounted, PendingCounted, ExtendingIsNew, PendingHasSource
    <3>4. own[e] \in Seq(Compositions)  BY <2>3, <3>1, <3>2 DEF Tupled, Attribute
    <3>5. A[e] \in SUBSET Threads  BY <2>1, <3>1 DEF Contributions, OwnCounted, PendingCounted, ExtendingIsNew, PendingHasSource
    <3>6. Len(own[e]) \in Nat /\ Cardinality(A[e]) \in Nat  BY <3>4, <3>5, ThreadSets
    <3>7. Cardinality(A[e]) = 0  BY <3>3, <3>6
    <3>8. A[e] = {}  BY <3>5, <3>7, ThreadSets
    <3> QED  BY <2>3, <3>8
  <2>5. ASSUME v \in Tupled, NEW s \in Threads, pc[s] = "store", view[s] \in Line(v)
        PROVE  t \notin B[s]
    <3>1. view[s] \in Tupled /\ Line(view[s]) \subseteq Line(v)  BY <2>5, TupledLine
    <3>2. B[s] \ {s} = {}  BY <2>1, <2>4, <2>5, <3>1 DEF Contributions, OwnCounted, PendingCounted, ExtendingIsNew, PendingHasSource
    <3>3. s # t  BY <1>2, <2>5
    <3> QED  BY <3>2, <3>3
  <2> HIDE DEF v, e
  <2>6. Contributions(A, B)'
    <3>1. \A s \in Threads : pc'[s] = "extend" /\ view[s] \in Tupled =>
             \A d \in Line(view[s]) :
                 /\ own[d] # None => s \notin A[d]
                 /\ \A u \in Threads : pc[u] = "store" /\ view[u] = d => s \notin B[u]
          BY <1>2, <2>1, <2>4, <2>5 DEF Contributions, OwnCounted, PendingCounted, ExtendingIsNew, PendingHasSource, v
    <3>2. \A s \in Threads : pc'[s] = "store" => pc[s] = "store"  BY <1>2
    <3> QED  BY <1>2, <2>1, <3>1, <3>2 DEF Contributions, OwnCounted, PendingCounted, ExtendingIsNew, PendingHasSource
  <2> QED  BY <2>6 DEF TuplesCounted
<1> QED  BY <1>3, <1>4

LEMMA TuplesExtend ==
    ASSUME TypeOK, Deriving, TuplesCounted, NEW t \in Threads, Extend(t)
    PROVE  TuplesCounted'
<1>1. PICK A, B : Contributions(A, B)  BY DEF TuplesCounted
<1> DEFINE v == view[t]
           e == Owner(own, v)
<1>2. /\ v \in Views /\ pc[t] = "extend" /\ own' = own /\ view' = view
      /\ pc' = [pc EXCEPT ![t] = "store"]
      BY ExtendOutcome
<1>3. /\ e \in Views /\ e \in Line(v) /\ own[e] \in Attribute /\ own[e] # None
      BY <1>2, ItemsType, RequiredIsOne
<1>4. \/ own[e] \in Lists
      \/ own[e] \in Seq(Compositions) /\ value' = [value EXCEPT ![t] = Append(own[e], Required)]
      BY ExtendOutcome
<1>5. \A s \in Threads : s # t => value'[s] = value[s]  BY DEF TypeOK, Extend
<1>6. \A s \in Threads : pc'[s] = IF s = t THEN "store" ELSE pc[s]  BY <1>2 DEF TypeOK
<1>7. ASSUME v \in Tupled
      PROVE  /\ e \in Tupled /\ own[e] \notin Lists /\ DeclaredFor(e) = DeclaredFor(v)
             /\ t \notin A[e]
  <2>1. e \in Tupled /\ DeclaredFor(e) = DeclaredFor(v)  BY <1>3, <1>7, TupledLine
  <2>2. e \in Unmixed /\ DeclaredFor(e) \notin Lists  BY <2>1 DEF Tupled
  <2>3. Derived(own[e], DeclaredFor(e))  BY <1>3, <2>2 DEF Deriving, DerivedOwn
  <2>4. own[e] \notin Lists  BY <1>3, <2>2, <2>3, DeclaredForType, DerivedFacts
  <2> QED  BY <1>1, <1>2, <1>3, <1>7, <2>1, <2>4 DEF Contributions, OwnCounted, PendingCounted, ExtendingIsNew, PendingHasSource
<1>8. A[e] \in SUBSET Threads  BY <1>1, <1>3 DEF Contributions, OwnCounted, PendingCounted, ExtendingIsNew, PendingHasSource
<1>9. PICK C \in [Threads -> SUBSET Threads] :
         C[t] = A[e] \cup {t} /\ \A s \in Threads : s # t => C[s] = B[s]
  <2> DEFINE C == [B EXCEPT ![t] = A[e] \cup {t}]
  <2>1. /\ C \in [Threads -> SUBSET Threads]
        /\ C[t] = A[e] \cup {t} /\ \A s \in Threads : s # t => C[s] = B[s]
        BY <1>1, <1>8 DEF Contributions
  <2> HIDE DEF C
  <2> QED  BY <2>1
<1> HIDE DEF e, v
<1>10. ASSUME v \in Tupled
       PROVE  t \in C[t] /\ Len(value'[t]) = Len(DeclaredFor(v)) + Cardinality(C[t])
  <2>1. own[e] \in Seq(Compositions) /\ value'[t] = Append(own[e], Required)
        BY <1>4, <1>7, <1>10 DEF TypeOK
  <2>2. Len(value'[t]) = Len(own[e]) + 1  BY <2>1, RequiredIsOne
  <2>3. Len(own[e]) = Len(DeclaredFor(v)) + Cardinality(A[e])
        BY <1>1, <1>3, <1>7, <1>10 DEF Contributions, OwnCounted, PendingCounted, ExtendingIsNew, PendingHasSource
  <2>4. Cardinality(A[e] \cup {t}) = Cardinality(A[e]) + 1  BY <1>7, <1>8, <1>10, ThreadSets
  <2>5. DeclaredFor(v) \in Seq(Compositions)
        BY <1>2, <1>10, DeclaredForType DEF Tupled, Attribute
  <2>6. Len(DeclaredFor(v)) \in Nat /\ Cardinality(A[e]) \in Nat  BY <1>8, <2>5, ThreadSets
  <2> QED  BY <1>9, <2>2, <2>3, <2>4, <2>6
<1>11. ASSUME NEW u \in Threads, u # t, pc[u] = "extend", view[u] \in Tupled, v \in Line(view[u])
       PROVE  u \notin C[t]
  <2>1. e \in Line(view[u])  BY <1>3, <1>11, TupledLine
  <2>2. u \notin A[e]  BY <1>1, <1>3, <1>11, <2>1 DEF Contributions, OwnCounted, PendingCounted, ExtendingIsNew, PendingHasSource
  <2> QED  BY <1>9, <1>11, <2>2
<1>12. ASSUME C[t] \ {t} # {} PROVE \E d \in Line(v) : own[d] # None /\ A[d] # {}
      BY <1>3, <1>9, <1>12
<1>13. \A s \in Threads : pc'[s] = "store" /\ view[s] \in Tupled =>
          s \in C[s] /\ Len(value'[s]) = Len(DeclaredFor(view[s])) + Cardinality(C[s])
  <2> SUFFICES ASSUME NEW s \in Threads, pc'[s] = "store", view[s] \in Tupled
               PROVE  s \in C[s] /\ Len(value'[s]) = Len(DeclaredFor(view[s])) + Cardinality(C[s])
      OBVIOUS
  <2>1. CASE s = t  BY <1>10, <2>1 DEF v
  <2>2. CASE s # t  BY <1>1, <1>5, <1>6, <1>9, <2>2 DEF Contributions, OwnCounted, PendingCounted, ExtendingIsNew, PendingHasSource
  <2> QED  BY <2>1, <2>2
<1>14. \A u \in Threads : pc'[u] = "extend" /\ view[u] \in Tupled =>
          \A d \in Line(view[u]) :
              /\ own[d] # None => u \notin A[d]
              /\ \A s \in Threads : pc'[s] = "store" /\ view[s] = d => u \notin C[s]
  <2> SUFFICES ASSUME NEW u \in Threads, pc'[u] = "extend", view[u] \in Tupled,
                      NEW d \in Line(view[u])
               PROVE  /\ own[d] # None => u \notin A[d]
                      /\ \A s \in Threads : pc'[s] = "store" /\ view[s] = d => u \notin C[s]
      OBVIOUS
  <2>1. u # t /\ pc[u] = "extend"  BY <1>6
  <2>2. own[d] # None => u \notin A[d]  BY <1>1, <2>1 DEF Contributions, OwnCounted, PendingCounted, ExtendingIsNew, PendingHasSource
  <2>3. ASSUME NEW s \in Threads, pc'[s] = "store", view[s] = d PROVE u \notin C[s]
    <3>1. CASE s = t  BY <1>11, <2>1, <2>3, <3>1 DEF v
    <3>2. CASE s # t  BY <1>1, <1>6, <1>9, <2>1, <2>3, <3>2 DEF Contributions, OwnCounted, PendingCounted, ExtendingIsNew, PendingHasSource
    <3> QED  BY <3>1, <3>2
  <2> QED  BY <2>2, <2>3
<1>15. \A s \in Threads : pc'[s] = "store" /\ view[s] \in Tupled /\ C[s] \ {s} # {} =>
          \E d \in Line(view[s]) : own[d] # None /\ A[d] # {}
  <2> SUFFICES ASSUME NEW s \in Threads, pc'[s] = "store", view[s] \in Tupled, C[s] \ {s} # {}
               PROVE  \E d \in Line(view[s]) : own[d] # None /\ A[d] # {}
      OBVIOUS
  <2>1. CASE s = t  BY <1>12, <2>1 DEF v
  <2>2. CASE s # t  BY <1>1, <1>6, <1>9, <2>2 DEF Contributions, OwnCounted, PendingCounted, ExtendingIsNew, PendingHasSource
  <2> QED  BY <2>1, <2>2
<1>16. Contributions(A, C)'
  <2>1. OwnCounted(A)'  BY <1>1, <1>2 DEF Contributions, OwnCounted
  <2>2. PendingCounted(C)'  BY <1>2, <1>13 DEF PendingCounted
  <2>3. ExtendingIsNew(A, C)'  BY <1>2, <1>14 DEF ExtendingIsNew
  <2>4. PendingHasSource(A, C)'  BY <1>2, <1>15 DEF PendingHasSource
  <2> QED  BY <1>1, <1>9, <2>1, <2>2, <2>3, <2>4 DEF Contributions
<1> QED  BY <1>16 DEF TuplesCounted

LEMMA TuplesStore ==
    ASSUME TypeOK, TuplesCounted, NEW t \in Threads, Store(t)
    PROVE  TuplesCounted'
<1>1. PICK A, B : Contributions(A, B)  BY DEF TuplesCounted
<1> DEFINE v == view[t]
<1>2. /\ v \in Views /\ pc[t] = "store" /\ view' = view /\ value[t] # None
      BY PermissionsAssumption, RequiredIsOne DEF TypeOK, Store
<1>3. \A c \in Views : own'[c] = IF c = v THEN value[t] ELSE own[c]  BY <1>2 DEF TypeOK, Store
<1>4. pc'[t] = "serve" /\ \A s \in Threads : s # t => pc'[s] = pc[s] /\ value'[s] = value[s]
      BY DEF TypeOK, Store
<1>5. PICK D \in [Views -> SUBSET Threads] :
         \A c \in Views : D[c] = IF c = v THEN B[t] ELSE A[c]
  <2> DEFINE D == [A EXCEPT ![v] = B[t]]
  <2>1. D \in [Views -> SUBSET Threads] /\ \A c \in Views : D[c] = IF c = v THEN B[t] ELSE A[c]
        BY <1>1 DEF Contributions
  <2> HIDE DEF D
  <2> QED  BY <2>1
<1>6. \A c \in Tupled : c \in Views  BY DEF Tupled, Unmixed
<1> HIDE DEF v
<1>7. \A c \in Tupled : own'[c] # None => Len(own'[c]) = Len(DeclaredFor(c)) + Cardinality(D[c])
  <2> SUFFICES ASSUME NEW c \in Tupled, own'[c] # None
               PROVE  Len(own'[c]) = Len(DeclaredFor(c)) + Cardinality(D[c])
      OBVIOUS
  <2>1. CASE c = v  BY <1>1, <1>2, <1>3, <1>5, <1>6, <2>1 DEF Contributions, OwnCounted, PendingCounted, ExtendingIsNew, PendingHasSource, v
  <2>2. CASE c # v  BY <1>1, <1>3, <1>5, <1>6, <2>2 DEF Contributions, OwnCounted, PendingCounted, ExtendingIsNew, PendingHasSource
  <2> QED  BY <2>1, <2>2
<1>8. \A s \in Threads : pc'[s] = "store" /\ view[s] \in Tupled =>
         s \in B[s] /\ Len(value'[s]) = Len(DeclaredFor(view[s])) + Cardinality(B[s])
      BY <1>1, <1>4 DEF Contributions, OwnCounted, PendingCounted, ExtendingIsNew, PendingHasSource
<1>9. \A u \in Threads : pc'[u] = "extend" /\ view[u] \in Tupled =>
         \A d \in Line(view[u]) :
             /\ own'[d] # None => u \notin D[d]
             /\ \A s \in Threads : pc'[s] = "store" /\ view[s] = d => u \notin B[s]
  <2> SUFFICES ASSUME NEW u \in Threads, pc'[u] = "extend", view[u] \in Tupled,
                      NEW d \in Line(view[u])
               PROVE  /\ own'[d] # None => u \notin D[d]
                      /\ \A s \in Threads : pc'[s] = "store" /\ view[s] = d => u \notin B[s]
      OBVIOUS
  <2>1. pc[u] = "extend" /\ d \in Views  BY <1>4, TupledLine
  <2>2. CASE d = v  BY <1>1, <1>2, <1>4, <1>5, <2>1, <2>2 DEF Contributions, OwnCounted, PendingCounted, ExtendingIsNew, PendingHasSource, v
  <2>3. CASE d # v  BY <1>1, <1>3, <1>4, <1>5, <2>1, <2>3 DEF Contributions, OwnCounted, PendingCounted, ExtendingIsNew, PendingHasSource
  <2> QED  BY <2>2, <2>3
<1>10. \A s \in Threads : pc'[s] = "store" /\ view[s] \in Tupled /\ B[s] \ {s} # {} =>
          \E d \in Line(view[s]) : own'[d] # None /\ D[d] # {}
  <2> SUFFICES ASSUME NEW s \in Threads, pc'[s] = "store", view[s] \in Tupled, B[s] \ {s} # {}
               PROVE  \E d \in Line(view[s]) : own'[d] # None /\ D[d] # {}
      OBVIOUS
  <2>1. PICK d \in Line(view[s]) : own[d] # None /\ A[d] # {}  BY <1>1, <1>4 DEF Contributions, OwnCounted, PendingCounted, ExtendingIsNew, PendingHasSource
  <2>2. d \in Views /\ d \in Tupled  BY <2>1, TupledLine
  <2>3. CASE d = v
    <3>1. t \in B[t]  BY <1>1, <1>2, <2>2, <2>3 DEF Contributions, OwnCounted, PendingCounted, ExtendingIsNew, PendingHasSource, v
    <3> QED  BY <1>2, <1>3, <1>5, <2>2, <2>3, <3>1
  <2>4. CASE d # v  BY <1>3, <1>5, <2>1, <2>2, <2>4
  <2> QED  BY <2>3, <2>4
<1>11. Contributions(D, B)'
  <2>1. OwnCounted(D)'  BY <1>7 DEF OwnCounted
  <2>2. PendingCounted(B)'  BY <1>2, <1>8 DEF PendingCounted
  <2>3. ExtendingIsNew(D, B)'  BY <1>2, <1>9 DEF ExtendingIsNew
  <2>4. PendingHasSource(D, B)'  BY <1>2, <1>10 DEF PendingHasSource
  <2> QED  BY <1>1, <1>5, <2>1, <2>2, <2>3, <2>4 DEF Contributions
<1> QED  BY <1>11 DEF TuplesCounted

LEMMA TuplesStep == Refusing /\ Deriving /\ TuplesCounted /\ [Next]_vars => TuplesCounted'
<1> SUFFICES ASSUME Refusing, Deriving, TuplesCounted, [Next]_vars PROVE TuplesCounted'  OBVIOUS
<1>1. TypeOK  BY DEF Refusing
<1>2. CASE UNCHANGED vars  BY <1>2, TuplesQuiet DEF vars
<1>3. ASSUME NEW t \in Threads, NEW c \in Views, Dispatch(t, c) PROVE TuplesCounted'
  <2>1. /\ UNCHANGED <<own, value>> /\ pc'[t] \in {"check", "serve"}
        /\ \A s \in Threads : s # t => pc'[s] = pc[s] /\ view'[s] = view[s]
        BY <1>1, <1>3 DEF TypeOK, Dispatch
  <2> QED  BY <2>1, TuplesQuiet
<1>4. ASSUME NEW t \in Threads, Finish(t) PROVE TuplesCounted'
  <2>1. /\ UNCHANGED <<own, value>> /\ pc'[t] = "idle"
        /\ \A s \in Threads : s # t => pc'[s] = pc[s] /\ view'[s] = view[s]
        BY <1>1, <1>4 DEF TypeOK, Finish
  <2> QED  BY <2>1, TuplesQuiet
<1>5. CASE Next
  <2>1. PICK t \in Threads :
          (\E c \in Views : Dispatch(t, c)) \/ Check(t) \/ Extend(t) \/ Store(t) \/ Finish(t)
        BY <1>5 DEF Next
  <2> QED  BY <1>1, <1>3, <1>4, <2>1, TuplesCheck, TuplesExtend, TuplesStore
<1> QED  BY <1>2, <1>5

\* A list is as much longer than before the first request as there are threads in
\* a set, and a thread that is about to extend it is not in its set.
ListContributions(L) ==
    /\ L \in [Lists -> SUBSET Threads]
    /\ \A l \in Lists : Len(lists[l]) = Len(ListItems[l]) + Cardinality(L[l])
    /\ \A t \in Threads : pc[t] = "extend" /\ DeclaredFor(view[t]) \in Lists =>
           t \notin L[DeclaredFor(view[t])]

ListsCounted == \E L : ListContributions(L)

LEMMA ListsInit == Init => ListsCounted
<1> SUFFICES ASSUME Init PROVE ListsCounted  OBVIOUS
<1> DEFINE L == [l \in Lists |-> {}]
<1>1. ASSUME NEW l \in Lists PROVE Len(lists[l]) = Len(ListItems[l]) + Cardinality(L[l])
  <2>1. lists[l] = ListItems[l] /\ Len(ListItems[l]) \in Nat  BY PermissionsAssumption DEF Init
  <2>2. Cardinality(L[l]) = 0  BY FS_EmptySet
  <2> QED  BY <2>1, <2>2
<1>2. L \in [Lists -> SUBSET Threads] /\ \A t \in Threads : pc[t] = "idle"  BY DEF Init
<1> HIDE DEF L
<1>3. ListContributions(L)  BY <1>1, <1>2 DEF ListContributions
<1> QED  BY <1>3 DEF ListsCounted

LEMMA ListsQuiet ==
    ASSUME ListsCounted, UNCHANGED lists,
           \A t \in Threads : pc'[t] = "extend" => pc[t] = "extend" /\ view'[t] = view[t]
    PROVE  ListsCounted'
<1>1. PICK L : ListContributions(L)  BY DEF ListsCounted
<1>2. ListContributions(L)'  BY <1>1 DEF ListContributions
<1> QED  BY <1>2 DEF ListsCounted

LEMMA ListsCheck ==
    ASSUME Refusing, ListsCounted, NEW t \in Threads, Check(t)
    PROVE  ListsCounted'
<1>1. TypeOK  BY DEF Refusing
<1>2. /\ view[t] \in Views /\ \A s \in Threads : s # t => pc'[s] = pc[s]
      /\ pc'[t] = "extend" => IncludesRequired(Items(own, lists, view[t])) = "absent"
      /\ UNCHANGED <<lists, view>>
      BY <1>1, CheckOutcome
<1>3. CASE pc'[t] # "extend"  BY <1>2, <1>3, ListsQuiet
<1>4. CASE pc'[t] = "extend"
  <2>1. PICK L : ListContributions(L)  BY DEF ListsCounted
  <2> DEFINE l == DeclaredFor(view[t])
  <2>2. ~Has(Items(own, lists, view[t]))  BY <1>1, <1>2, <1>4, ItemsType, IncludesOutcome
  <2>3. own[Owner(own, view[t])] = l  BY <1>2, <2>2, MissingMeansDeclared
  <2>4. ASSUME l \in Lists PROVE t \notin L[l]
    <3>1. Items(own, lists, view[t]) = lists[l]  BY <2>3, <2>4 DEF Items, ItemsOf
    <3> HIDE DEF l
    <3>2. ListItems[l] \in Seq(Compositions) /\ lists[l] \in Seq(Compositions)
          BY <1>1, <2>4, PermissionsAssumption DEF TypeOK
    <3>3. ListItems[l] = lists[l]  BY <2>2, <2>4, <3>1, <3>2, GrownFacts DEF Refusing, ListsGrown
    <3>4. L[l] \in SUBSET Threads /\ Len(lists[l]) = Len(ListItems[l]) + Cardinality(L[l])
          BY <2>1, <2>4 DEF ListContributions
    <3>5. Cardinality(L[l]) \in Nat /\ Len(lists[l]) \in Nat  BY <3>2, <3>4, ThreadSets
    <3>6. Cardinality(L[l]) = 0  BY <3>3, <3>4, <3>5
    <3> QED  BY <3>4, <3>6, ThreadSets
  <2>5. ListContributions(L)'  BY <1>2, <2>1, <2>4 DEF ListContributions
  <2> QED  BY <2>5 DEF ListsCounted
<1> QED  BY <1>3, <1>4

LEMMA ListsExtend ==
    ASSUME JwtViews \subseteq Unmixed, TypeOK, Deriving, ListsCounted, NEW t \in Threads, Extend(t)
    PROVE  ListsCounted'
<1>1. PICK L : ListContributions(L)  BY DEF ListsCounted
<1> DEFINE a == own[Owner(own, view[t])]
<1>2. /\ view[t] \in JwtViews /\ pc[t] = "extend" /\ view' = view
      /\ \A s \in Threads : s # t => pc'[s] = pc[s]
      /\ pc'[t] = "store"
      BY ExtendOutcome DEF TypeOK
<1>3. \/ a \notin Lists /\ lists' = lists
      \/ /\ a \in Lists /\ lists[a] \in Seq(Compositions)
         /\ lists' = [lists EXCEPT ![a] = Append(lists[a], Required)]
      BY ExtendOutcome
<1>4. a \in Attribute /\ DeclaredFor(view[t]) \in Attribute /\ Derived(a, DeclaredFor(view[t]))
      BY <1>2, OwnerDerived DEF Deriving
<1> HIDE DEF a
<1>5. CASE a \notin Lists  BY <1>2, <1>3, <1>5, ListsQuiet
<1>6. CASE a \in Lists
  <2>1. a = DeclaredFor(view[t])  BY <1>4, <1>6, DerivedFacts
  <2>2. t \notin L[a] /\ L[a] \in SUBSET Threads  BY <1>1, <1>2, <1>6, <2>1 DEF ListContributions
  <2>3. PICK M \in [Lists -> SUBSET Threads] :
           M[a] = L[a] \cup {t} /\ \A l \in Lists : l # a => M[l] = L[l]
    <3> DEFINE M == [L EXCEPT ![a] = L[a] \cup {t}]
    <3>1. /\ M \in [Lists -> SUBSET Threads]
          /\ M[a] = L[a] \cup {t} /\ \A l \in Lists : l # a => M[l] = L[l]
          BY <1>1, <1>6, <2>2 DEF ListContributions
    <3> HIDE DEF M
    <3> QED  BY <3>1
  <2>4. \A l \in Lists : lists'[l] = IF l = a THEN Append(lists[a], Required) ELSE lists[l]
        BY <1>3, <1>6 DEF TypeOK
  <2>5. Len(Append(lists[a], Required)) = Len(ListItems[a]) + Cardinality(M[a])
    <3>1. Cardinality(M[a]) = Cardinality(L[a]) + 1  BY <2>2, <2>3, ThreadSets
    <3>2. Len(lists[a]) = Len(ListItems[a]) + Cardinality(L[a])  BY <1>1, <1>6 DEF ListContributions
    <3>3. Len(Append(lists[a], Required)) = Len(lists[a]) + 1  BY <1>3, <1>6, RequiredIsOne
    <3>4. Len(ListItems[a]) \in Nat /\ Cardinality(L[a]) \in Nat
          BY <1>6, <2>2, PermissionsAssumption, ThreadSets
    <3> QED  BY <3>1, <3>2, <3>3, <3>4
  <2>6. \A l \in Lists : Len(lists'[l]) = Len(ListItems[l]) + Cardinality(M[l])
    <3> TAKE l \in Lists
    <3>1. CASE l = a  BY <2>4, <2>5, <3>1
    <3>2. CASE l # a  BY <1>1, <2>3, <2>4, <3>2 DEF ListContributions
    <3> QED  BY <3>1, <3>2
  <2>7. \A s \in Threads : pc'[s] = "extend" /\ DeclaredFor(view[s]) \in Lists =>
           s \notin M[DeclaredFor(view[s])]
        BY <1>1, <1>2, <2>3 DEF ListContributions
  <2>8. ListContributions(M)'  BY <1>2, <2>3, <2>6, <2>7 DEF ListContributions
  <2> QED  BY <2>8 DEF ListsCounted
<1> QED  BY <1>5, <1>6

LEMMA ListsStep ==
    ASSUME JwtViews \subseteq Unmixed
    PROVE  Refusing /\ Deriving /\ ListsCounted /\ [Next]_vars => ListsCounted'
<1> SUFFICES ASSUME Refusing, Deriving, ListsCounted, [Next]_vars PROVE ListsCounted'  OBVIOUS
<1>1. TypeOK  BY DEF Refusing
<1>2. CASE UNCHANGED vars  BY <1>2, ListsQuiet DEF vars
<1>3. ASSUME NEW t \in Threads, NEW c \in Views, Dispatch(t, c) PROVE ListsCounted'
  <2>1. /\ lists' = lists /\ pc'[t] \in {"check", "serve"}
        /\ \A s \in Threads : s # t => pc'[s] = pc[s] /\ view'[s] = view[s]
        BY <1>1, <1>3 DEF TypeOK, Dispatch
  <2> QED  BY <2>1, ListsQuiet
<1>4. ASSUME NEW t \in Threads, Store(t) \/ Finish(t) PROVE ListsCounted'
  <2>1. /\ lists' = lists /\ pc'[t] \in {"idle", "serve"}
        /\ \A s \in Threads : s # t => pc'[s] = pc[s] /\ view'[s] = view[s]
        BY <1>1, <1>4 DEF TypeOK, Store, Finish
  <2> QED  BY <2>1, ListsQuiet
<1>5. CASE Next
  <2>1. PICK t \in Threads :
          (\E c \in Views : Dispatch(t, c)) \/ Check(t) \/ Extend(t) \/ Store(t) \/ Finish(t)
        BY <1>5 DEF Next
  <2> QED  BY <1>1, <1>3, <1>4, <2>1, ListsCheck, ListsExtend
<1> QED  BY <1>2, <1>5

LEMMA CountedBounds ==
    ASSUME Refusing, Deriving, TuplesCounted, JwtViews \subseteq Unmixed => ListsCounted
    PROVE  AddedOncePerThread
<1> SUFFICES ASSUME NEW c \in Unmixed, DeclaredFor(c) \in Lists => JwtViews \subseteq Unmixed
             PROVE  Count(Items(own, lists, c)) <= Count(DeclaredItems(c)) + Cardinality(Threads)
    BY DEF AddedOncePerThread
<1> DEFINE a == own[Owner(own, c)]
           d == DeclaredFor(c)
           x == Items(own, lists, c)
           y == DeclaredItems(c)
<1>1. TypeOK /\ ListsGrown /\ DerivedOwn  BY DEF Refusing, Deriving
<1>2. Grown(y, x) /\ y \in Seq(Compositions) /\ x \in Seq(Compositions)  BY <1>1, ItemsGrown
<1>3. Count(y) \in Nat /\ Count(x) = Count(y) + (Len(x) - Len(y))  BY <1>2, CountGrown
<1>4. /\ c \in Views /\ Owner(own, c) \in Line(c) /\ a \in Attribute /\ d \in Attribute /\ Derived(a, d)
      BY <1>1, OwnerDerived
<1>5. x = ItemsOf(lists, a) /\ y = ItemsOf(ListItems, d)  BY DEF Items, DeclaredItems
<1>6. \E S \in SUBSET Threads : Len(x) = Len(y) + Cardinality(S)
  <2>1. CASE d \in Lists
    <3>1. a = d  BY <2>1, <1>4 DEF Derived
    <3>2. PICK L : ListContributions(L)  BY <2>1 DEF ListsCounted
    <3>3. Len(lists[d]) = Len(ListItems[d]) + Cardinality(L[d]) /\ L[d] \in SUBSET Threads
          BY <2>1, <3>2 DEF ListContributions
    <3>4. x = lists[d] /\ y = ListItems[d]  BY <1>5, <2>1, <3>1 DEF ItemsOf
    <3> HIDE DEF x, y, d
    <3> QED  BY <3>3, <3>4
  <2>2. CASE d \notin Lists
    <3>1. PICK A, B : Contributions(A, B)  BY DEF TuplesCounted
    <3> DEFINE e == Owner(own, c)
    <3>2. c \in Tupled  BY <2>2 DEF Tupled
    <3>3. e \in Tupled /\ e \in Views /\ DeclaredFor(e) = d  BY <1>4, <3>2, TupledLine
    <3>4. Len(own[e]) = Len(d) + Cardinality(A[e]) /\ A[e] \in SUBSET Threads
          BY <1>4, <3>1, <3>3, RequiredIsOne DEF Contributions, OwnCounted
    <3>5. a \notin Lists  BY <1>4, <2>2, DerivedFacts
    <3>6. x = own[e] /\ y = d  BY <1>5, <2>2, <3>5 DEF ItemsOf
    <3> HIDE DEF x, y, d, e
    <3> QED  BY <3>4, <3>6
  <2> QED  BY <2>1, <2>2
<1> HIDE DEF x, y
<1>7. PICK S \in SUBSET Threads : Len(x) = Len(y) + Cardinality(S)  BY <1>6
<1>8. Cardinality(S) \in Nat /\ Cardinality(S) <= Cardinality(Threads)  BY ThreadSets
<1>9. Cardinality(Threads) \in Nat  BY PermissionsAssumption, FS_CardinalityType
<1>10. Len(x) \in Nat /\ Len(y) \in Nat  BY <1>2
<1>11. Count(x) <= Count(y) + Cardinality(Threads)  BY <1>3, <1>7, <1>8, <1>9, <1>10
<1> QED  BY <1>11 DEF x, y

\* The check and the addition race, but the required permission is added to what
\* a class finds at most once by each thread (middleware.py:71-87).
THEOREM AddedOnce == Spec => []AddedOncePerThread
<1>1. Spec => []Refusing  BY RefusingInit, RefusingStep, PTL DEF Spec
<1>2. Refusing => TypeOK  BY DEF Refusing
<1>3. Spec => []Deriving  BY <1>1, <1>2, DerivingInit, DerivingStep, PTL DEF Spec
<1>4. Spec => []TuplesCounted  BY <1>1, <1>3, TuplesInit, TuplesStep, PTL DEF Spec
<1> DEFINE ListsBounded == JwtViews \subseteq Unmixed => ListsCounted
<1>5. Init => ListsBounded  BY ListsInit
<1>6. Refusing /\ Deriving /\ ListsBounded /\ [Next]_vars => ListsBounded'
  <2>1. CASE JwtViews \subseteq Unmixed  BY <2>1, ListsStep
  <2>2. CASE ~(JwtViews \subseteq Unmixed)  BY <2>2
  <2> QED  BY <2>1, <2>2
<1>7. Refusing /\ Deriving /\ TuplesCounted /\ ListsBounded => AddedOncePerThread  BY CountedBounds
<1> HIDE DEF ListsBounded
<1>8. Spec => []ListsBounded  BY <1>1, <1>3, <1>5, <1>6, PTL DEF Spec
<1> QED  BY <1>1, <1>3, <1>4, <1>7, <1>8, PTL

=============================================================================
