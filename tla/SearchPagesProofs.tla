-------------------------- MODULE SearchPagesProofs --------------------------
(***************************************************************************)
(* What a client reads who pages through a search, for every number of     *)
(* results, size of pages and way in which rows come and go.               *)
(***************************************************************************)
EXTENDS SearchPages, FiniteSetTheorems, TLAPS

LEMMA ResultsAreSequences ==
    ASSUME NEW S \in SUBSET Keys, NEW s \in SetToSeqs(S)
    PROVE  s \in Seq(Keys)
<1>1. Cardinality(S) \in Nat
    BY PagesAssumption, FS_Subset, FS_CardinalityType
<1>2. s \in [1..Cardinality(S) -> Keys]
    BY DEF SetToSeqs
<1>3. QED
    BY <1>1, <1>2

-----------------------------------------------------------------------------
(* Pages *)

\* The part of the results before a page.
Before(n) == (n - 1) * PageSize

Min2(a, b) == IF a < b THEN a ELSE b

\* A page begins where the pages before it end, and follows the results.
LEMMA KeysFollow ==
    ASSUME NEW n \in Int, results \in Seq(Keys), Before(n) \in 0..Len(results)
    PROVE  /\ KeysOn(n) \in Seq(Keys)
           /\ Before(n) + Len(KeysOn(n)) <= Len(results)
           /\ Len(KeysOn(n)) = Min2(PageSize, Len(results) - Before(n))
           /\ \A i \in DOMAIN KeysOn(n) : KeysOn(n)[i] = results[Before(n) + i]
<1> DEFINE from == Before(n)
           top  == n * PageSize
           end  == IF top < Len(results) THEN top ELSE Len(results)
<1>1. from \in Nat /\ top = from + PageSize /\ top \in Nat
    BY PagesAssumption DEF Before
<1>2. end \in from..Len(results) /\ end - from = Min2(PageSize, Len(results) - from)
    BY <1>1, PagesAssumption DEF Min2
<1>3. KeysOn(n) = SubSeq(results, from + 1, end)
    BY DEF KeysOn, Before
<1> HIDE DEF from, end
<1>4. /\ SubSeq(results, from + 1, end) \in Seq(Keys)
      /\ Len(SubSeq(results, from + 1, end)) = end - from
      /\ \A i \in 1..(end - from) : SubSeq(results, from + 1, end)[i] = results[from + i]
    BY <1>1, <1>2
<1>5. QED
    BY <1>1, <1>2, <1>3, <1>4 DEF from

\* The objects of a page are those of its keys, or missing.
LEMMA ObjectsFollow ==
    ASSUME NEW n \in Int, results \in Seq(Keys), Before(n) \in 0..Len(results)
    PROVE  /\ ObjectsOn(n) \in Seq(Keys \cup {None})
           /\ Before(n) + Len(ObjectsOn(n)) <= Len(results)
           /\ Len(ObjectsOn(n)) = Min2(PageSize, Len(results) - Before(n))
           /\ \A i \in DOMAIN ObjectsOn(n) :
                  ObjectsOn(n)[i] =
                      IF results[Before(n) + i] \in rows THEN results[Before(n) + i] ELSE None
<1>1. /\ KeysOn(n) \in Seq(Keys)
      /\ Before(n) + Len(KeysOn(n)) <= Len(results)
      /\ Len(KeysOn(n)) = Min2(PageSize, Len(results) - Before(n))
      /\ \A i \in DOMAIN KeysOn(n) : KeysOn(n)[i] = results[Before(n) + i]
    BY KeysFollow
<1>2. ObjectsOn(n) = [i \in 1..Len(KeysOn(n)) |-> IF KeysOn(n)[i] \in rows THEN KeysOn(n)[i] ELSE None]
    BY <1>1 DEF ObjectsOn
<1>3. Len(KeysOn(n)) \in Nat /\ \A i \in 1..Len(KeysOn(n)) : KeysOn(n)[i] \in Keys
    BY <1>1
<1>4. ObjectsOn(n) \in Seq(Keys \cup {None}) /\ Len(ObjectsOn(n)) = Len(KeysOn(n))
    BY <1>2, <1>3
<1>5. QED
    BY <1>1, <1>2, <1>4

-----------------------------------------------------------------------------
(* The invariant *)

\* As long as a client goes on from its first page, the results it is given are
\* those of the index.
PagesInv ==
    /\ index \in Seq(Keys) /\ results \in Seq(Keys)
    /\ number \in Int
    /\ page \in {None} \cup Page
    /\ pc # "idle" => page # None
    /\ steady \subseteq rows /\ rows \subseteq Keys
    /\ shown # None => shown \in Seq(Keys \cup {None})
    /\ pc # "idle" /\ shown # None => results = index
    /\ ReadsThrough

LEMMA PagesInit == Init => PagesInv
<1> SUFFICES ASSUME Init PROVE PagesInv
    OBVIOUS
<1>1. index \in Seq(Keys)
    BY ResultsAreSequences DEF Init, Results
<1>2. QED
    BY <1>1 DEF Init, PagesInv, ReadsThrough

LEMMA FetchStep ==
    ASSUME PagesInv, Fetch
    PROVE  PagesInv'
<1>1. pc = "fetch" /\ pc' = "idle" /\ objects' = ObjectsOn(number)
      /\ UNCHANGED <<index, rows, results, page, number>>
    BY DEF Fetch
<1>2. CASE number = 1 /\ results = index
    <2>1. shown' = ObjectsOn(1) /\ steady' = rows
        BY <1>1, <1>2 DEF Fetch
    <2>2. Before(1) = 0
        BY PagesAssumption DEF Before
    <2>3. /\ shown' \in Seq(Keys \cup {None}) /\ Len(shown') <= Len(index)
          /\ \A i \in DOMAIN shown' : shown'[i] = IF index[i] \in rows THEN index[i] ELSE None
        BY <1>2, <2>1, <2>2, ObjectsFollow DEF PagesInv
    <2>4. QED
        BY <1>1, <2>1, <2>3 DEF PagesInv, ReadsThrough
<1>3. CASE number = 1 /\ results # index
    <2>1. shown' = None /\ steady' = rows
        BY <1>1, <1>3 DEF Fetch
    <2>2. QED
        BY <1>1, <2>1 DEF PagesInv, ReadsThrough
<1>4. CASE number # 1 /\ shown # None /\ Len(shown) = Before(number)
    <2>1. shown' = shown \o ObjectsOn(number) /\ steady' = steady /\ results = index
        BY <1>1, <1>4 DEF Fetch, Before, PagesInv
    <2>2. shown \in Seq(Keys \cup {None}) /\ Before(number) \in 0..Len(results)
        BY <1>4, <2>1 DEF PagesInv, ReadsThrough
    <2>3. /\ ObjectsOn(number) \in Seq(Keys \cup {None})
          /\ Len(shown) + Len(ObjectsOn(number)) <= Len(index)
          /\ \A i \in DOMAIN ObjectsOn(number) :
                 ObjectsOn(number)[i] =
                     IF index[Len(shown) + i] \in rows THEN index[Len(shown) + i] ELSE None
        BY <1>4, <2>1, <2>2, ObjectsFollow DEF PagesInv
    <2>4. shown' \in Seq(Keys \cup {None}) /\ Len(shown') = Len(shown) + Len(ObjectsOn(number))
        BY <2>1, <2>2, <2>3
    <2>5. ASSUME NEW i \in DOMAIN shown'
          PROVE  /\ shown'[i] \in {None, index[i]}
                 /\ index[i] \in steady => shown'[i] = index[i]
        <3>1. CASE i <= Len(shown)
            BY <1>4, <2>1, <2>2, <2>3, <2>4, <2>5, <3>1 DEF PagesInv, ReadsThrough
        <3>2. CASE i > Len(shown)
            <4>1. /\ i - Len(shown) \in DOMAIN ObjectsOn(number)
                  /\ shown'[i] = ObjectsOn(number)[i - Len(shown)]
                  /\ Len(shown) + (i - Len(shown)) = i
                BY <2>1, <2>2, <2>3, <2>4, <2>5, <3>2
            <4>2. shown'[i] = IF index[i] \in rows THEN index[i] ELSE None
                BY <2>3, <4>1
            <4>3. QED
                BY <4>2 DEF PagesInv
        <3>3. QED
            BY <2>2, <2>4, <2>5, <3>1, <3>2
    <2>6. QED
        BY <1>1, <2>1, <2>3, <2>4, <2>5 DEF PagesInv, ReadsThrough
<1>5. CASE number # 1 /\ ~(shown # None /\ Len(shown) = Before(number))
    <2>1. shown' = shown /\ steady' = steady
        BY <1>1, <1>5 DEF Fetch, Before
    <2>2. QED
        BY <1>1, <2>1 DEF PagesInv, ReadsThrough
<1>6. QED
    BY <1>2, <1>3, <1>4, <1>5

LEMMA PagesStep == PagesInv /\ [Next]_vars => PagesInv'
<1> SUFFICES ASSUME PagesInv, [Next]_vars PROVE PagesInv'
    OBVIOUS
<1> USE DEF PagesInv, ReadsThrough
<1>1. ASSUME NEW p \in Page, Call(p) PROVE PagesInv'
    <2>1. p # None
        BY PagesAssumption DEF Page
    <2>2. QED
        BY <1>1, <2>1 DEF Call
<1>2. CASE Validate
    <2>1. number' \in Int
        <3>1. Len(results) \in Nat
            OBVIOUS
        <3>2. NumPages \in Int
            BY <3>1, PagesAssumption DEF NumPages
        <3>3. QED
            BY <1>2, <3>2 DEF Validate, LastPage, Page
    <2>2. QED
        BY <1>2, <2>1 DEF Validate
<1>3. CASE Fetch
    BY <1>3, FetchStep
<1>4. ASSUME NEW k \in Keys, ChangeRows(k) PROVE PagesInv'
    BY <1>4 DEF ChangeRows, call
<1>5. CASE Reindex
    <2>1. index' \in Seq(Keys)
        BY <1>5, ResultsAreSequences DEF Reindex
    <2>2. QED
        BY <1>5, <2>1 DEF Reindex, call
<1>6. CASE UNCHANGED vars
    BY <1>6 DEF vars, call
<1>7. QED
    BY <1>1, <1>2, <1>3, <1>4, <1>5, <1>6 DEF Next

\* A client that goes from page to page of an index that stays as it is reads
\* the results in their order, each once, with the object of every row that was
\* there all the time (paginators.py:112-124).
THEOREM ClientReadsThrough == Spec => []ReadsThrough
<1>1. PagesInv => ReadsThrough
    BY DEF PagesInv
<1>2. QED
    BY <1>1, PagesInit, PagesStep, PTL DEF Spec

-----------------------------------------------------------------------------
(* The pages there are *)

\* The results fill all pages but the last, and the last is not beyond them.
LEMMA PagesCover ==
    ASSUME results \in Seq(Keys)
    PROVE  /\ NumPages \in Nat \ {0}
           /\ Before(NumPages) \in 0..Len(results)
           /\ Len(results) - Before(NumPages) <= PageSize
           /\ results # <<>> => Before(NumPages) < Len(results)
<1>1. CASE results = <<>>
    BY <1>1, PagesAssumption DEF NumPages, Before
<1>2. CASE results # <<>>
    <2> DEFINE L == Len(results)
               N == (L + PageSize - 1) \div PageSize
    <2>1. L \in Nat \ {0} /\ PageSize \in Nat \ {0}
        BY <1>2, PagesAssumption
    <2> HIDE DEF L
    <2>2. N \in Int /\ N >= 1
        BY <2>1
    <2>3. N * PageSize <= L + PageSize - 1 /\ L + PageSize - 1 < N * PageSize + PageSize
        BY <2>1
    <2> HIDE DEF N
    <2>4. (N - 1) * PageSize = N * PageSize - PageSize /\ (N - 1) * PageSize >= 0
          /\ N * PageSize \in Int
        BY <2>1, <2>2
    <2>5. NumPages = N
        BY <1>2 DEF NumPages, N, L
    <2>6. Before(N) \in 0..L /\ L - Before(N) <= PageSize /\ Before(N) < L
        BY <2>1, <2>2, <2>3, <2>4 DEF Before
    <2>7. QED
        BY <2>2, <2>5, <2>6 DEF L
<1>3. QED
    BY <1>1, <1>2

\* A page before the last one is not beyond the results either.
LEMMA PageIsWithin ==
    ASSUME results \in Seq(Keys), NEW n \in 1..NumPages
    PROVE  Before(n) \in 0..Len(results)
<1>1. NumPages \in Nat /\ Before(NumPages) \in 0..Len(results)
    BY PagesCover
<1>2. n \in Nat \ {0} /\ n <= NumPages
    BY <1>1
<1>3. Before(n) >= 0 /\ Before(n) <= Before(NumPages) /\ Before(n) \in Int
    <2>1. \A a \in Nat, b \in Nat, c \in Nat : a <= b => a * c <= b * c
        BY Z3
    <2>2. QED
        BY <1>1, <1>2, <2>1, PagesAssumption DEF Before
<1>4. QED
    BY <1>1, <1>3

-----------------------------------------------------------------------------
(* Types *)

LEMMA TypeStep == TypeOK /\ PagesInv /\ [Next]_vars => TypeOK'
<1> SUFFICES ASSUME TypeOK, PagesInv, [Next]_vars PROVE TypeOK'
    OBVIOUS
<1>1. ASSUME NEW p \in Page, Call(p) PROVE TypeOK'
    <2>1. p # None
        BY PagesAssumption
    <2>2. QED
        BY <1>1, <2>1 DEF Call, TypeOK
<1>2. CASE Validate
    <2>1. results' = results /\ NumPages' = NumPages
        BY <1>2 DEF Validate, NumPages
    <2>2. NumPages \in Nat \ {0}
        BY PagesCover DEF PagesInv
    <2>3. pc' \in {"fetch", "idle"} /\ number' \in Nat /\ (pc' = "fetch" => number' \in 1..NumPages)
        BY <1>2, <2>2 DEF Validate, LastPage, TypeOK
    <2>4. objects' \in {objects, None} /\ UNCHANGED <<index, rows, page, shown, steady>>
        BY <1>2 DEF Validate
    <2>5. QED
        BY <1>2, <2>1, <2>3, <2>4 DEF TypeOK, Validate
<1>3. CASE Fetch
    <2>1. Before(number) \in 0..Len(results) /\ results \in Seq(Keys)
        BY <1>3, PageIsWithin DEF Fetch, TypeOK, PagesInv
    <2>2. ObjectsOn(number) \in Seq(Keys \cup {None}) /\ Len(ObjectsOn(number)) <= PageSize
        BY <2>1, ObjectsFollow, PagesAssumption DEF Min2, TypeOK
    <2>3. PagesInv'
        BY <1>3, PagesStep
    <2>4. /\ pc' = "idle" /\ objects' = ObjectsOn(number)
          /\ UNCHANGED <<index, rows, results, page, number>>
        BY <1>3 DEF Fetch
    <2>5. QED
        BY <2>2, <2>3, <2>4 DEF TypeOK, PagesInv
<1>4. ASSUME NEW k \in Keys, ChangeRows(k) PROVE TypeOK'
    BY <1>4 DEF ChangeRows, call, TypeOK, NumPages
<1>5. CASE Reindex
    <2>1. index' \in Results
        BY <1>5 DEF Reindex, Results, TypeOK
    <2>2. QED
        BY <1>5, <2>1 DEF Reindex, call, TypeOK, NumPages
<1>6. CASE UNCHANGED vars
    BY <1>6 DEF vars, call, TypeOK, NumPages
<1>7. QED
    BY <1>1, <1>2, <1>3, <1>4, <1>5, <1>6 DEF Next

\* No page has more objects than it may, and only pages that exist are fetched,
\* whatever the page parameter says.
THEOREM TypeCorrect == Spec => []TypeOK
<1>1. Init => TypeOK
    <2>1. <<>> \in Results
        <3>1. Cardinality({}) = 0
            BY FS_EmptySet
        <3>2. <<>> \in SetToSeqs({})
            BY <3>1 DEF SetToSeqs
        <3>3. QED
            BY <3>2 DEF Results
    <2>2. QED
        BY <2>1, PagesAssumption DEF Init, TypeOK
<1>2. QED
    BY <1>1, PagesInit, PagesStep, TypeStep, PTL DEF Spec

-----------------------------------------------------------------------------
(* The last page *)

LastInv ==
    /\ pc = "fetch" /\ page.word = "last" => number = NumPages
    /\ LastPageEndsResults

LEMMA LastStep == PagesInv /\ LastInv /\ [Next]_vars => LastInv'
<1> SUFFICES ASSUME PagesInv, LastInv, [Next]_vars PROVE LastInv'
    OBVIOUS
<1> USE DEF LastInv, LastPageEndsResults
<1>1. ASSUME NEW p \in Page, Call(p) PROVE LastInv'
    BY <1>1 DEF Call
<1>2. CASE Validate
    <2>1. None # "last"
        BY PagesAssumption
    <2>2. QED
        BY <1>2, <2>1 DEF Validate, LastPage, NumPages
<1>3. CASE Fetch
    <2>1. /\ pc = "fetch" /\ pc' = "idle" /\ objects' = ObjectsOn(number)
          /\ UNCHANGED <<results, page, number>>
        BY <1>3 DEF Fetch
    <2>2. CASE page.word = "last"
        <3>1. number = NumPages /\ results \in Seq(Keys)
            BY <2>1, <2>2 DEF PagesInv
        <3>2. /\ NumPages \in Nat \ {0}
              /\ Before(NumPages) \in 0..Len(results)
              /\ Len(results) - Before(NumPages) <= PageSize
              /\ results # <<>> => Before(NumPages) < Len(results)
            BY <3>1, PagesCover
        <3>3. /\ ObjectsOn(number) \in Seq(Keys \cup {None})
              /\ Len(ObjectsOn(number)) = Len(results) - Before(number)
            BY <3>1, <3>2, ObjectsFollow, PagesAssumption DEF Min2
        <3>4. ObjectsOn(number) # None
            BY <3>3, PagesAssumption
        <3>5. results # <<>> => ObjectsOn(number) # <<>>
            BY <3>1, <3>2, <3>3
        <3>6. QED
            BY <2>1, <3>1, <3>2, <3>3, <3>4, <3>5 DEF Before
    <2>3. CASE page.word # "last"
        BY <2>1, <2>3
    <2>4. QED
        BY <2>2, <2>3
<1>4. ASSUME NEW k \in Keys, ChangeRows(k) PROVE LastInv'
    BY <1>4 DEF ChangeRows, call, NumPages
<1>5. CASE Reindex
    BY <1>5 DEF Reindex, call, NumPages
<1>6. CASE UNCHANGED vars
    BY <1>6 DEF vars, call, NumPages
<1>7. QED
    BY <1>1, <1>2, <1>3, <1>4, <1>5, <1>6 DEF Next

\* The page "last" exists for every search and ends with its last result
\* (paginators.py:97-98).
THEOREM LastPageIsLast == Spec => []LastPageEndsResults
<1>1. Init => LastInv
    BY DEF Init, LastInv, LastPageEndsResults
<1>2. LastInv => LastPageEndsResults
    BY DEF LastInv
<1>3. QED
    BY <1>1, <1>2, PagesInit, PagesStep, LastStep, PTL DEF Spec

=============================================================================
