---------------------------- MODULE SearchPages ----------------------------
(***************************************************************************)
(* paginate_search_results, called for a client that pages through a       *)
(* search: the results of the index are cut into pages and the keys of a   *)
(* page looked up in the database, which other code changes at any time    *)
(* and which the index follows only when it is built again.                *)
(***************************************************************************)
EXTENDS Integers, Sequences, FiniteSets, SequencesExt

CONSTANTS
    Keys,       \* primary keys
    PageSize,
    MaxPage,    \* bound: the largest page number that is asked for
    None

\* The page parameter: an integer, or a word.
Page == [number : 0..MaxPage, word : {None}] \cup [number : {0}, word : {"last", "word"}]

ASSUME PagesAssumption ==
    /\ IsFiniteSet(Keys) /\ PageSize \in Nat \ {0} /\ MaxPage \in Nat
    /\ None \notin Keys \cup Page \cup Seq(Keys \cup {None}) \cup {"last"}

VARIABLES
    index,      \* the search index: keys in the order of the results
    rows,       \* the keys that have a row in the database
    pc,         \* what paginate_search_results does next
    results,    \* the search results it was given
    page,       \* the page parameter
    number,     \* the number of the page
    objects,    \* the object list it returned, or None for Http404
    shown,      \* history: the object lists from page 1 on, one after the other,
                \* or None if the index has changed since
    steady      \* history: the keys that have had a row since page 1

call == <<pc, results, page, number, objects>>
vars == <<index, rows, call, shown, steady>>

\* Every order of every set of keys: the results of a search.
Results == UNION {SetToSeqs(S) : S \in SUBSET Keys}

Init ==
    /\ index \in Results /\ rows \in SUBSET Keys
    /\ pc = "idle" /\ results = <<>> /\ page = None /\ number = 0 /\ objects = <<>>
    /\ shown = None /\ steady = {}

-----------------------------------------------------------------------------
(* paginate_search_results *)

\* Whole pages, and at least one, which may be empty.
NumPages == IF results = <<>> THEN 1 ELSE (Len(results) + PageSize - 1) \div PageSize

\* A fault: the page that is not full is not counted.
FullPages == IF Len(results) < PageSize THEN 1 ELSE Len(results) \div PageSize

\* A fault: pages overlap by one key.
KeysOverlapping(n) ==
    LET top == n * PageSize + 1
    IN  SubSeq(results, (n - 1) * PageSize + 1, IF top < Len(results) THEN top ELSE Len(results))

KeysOn(n) ==
    LET top == n * PageSize
    IN  SubSeq(results, (n - 1) * PageSize + 1, IF top < Len(results) THEN top ELSE Len(results))

Call(p) ==
    /\ pc = "idle"
    /\ pc' = "validate" /\ results' = index /\ page' = p
    /\ UNCHANGED <<index, rows, number, objects, shown, steady>>

LastPage == NumPages

Validate ==
    /\ pc = "validate"
    /\ \/ /\ page.word = None /\ page.number \in 1..NumPages
          /\ number' = page.number /\ pc' = "fetch" /\ UNCHANGED objects
       \/ /\ page.word = "last"
          /\ number' = LastPage /\ pc' = "fetch" /\ UNCHANGED objects
       \/ /\ page.word # "last"
          /\ page.word = None => page.number \notin 1..NumPages
          /\ objects' = None /\ pc' = "idle" /\ UNCHANGED number
    /\ UNCHANGED <<index, rows, results, page, shown, steady>>

\* A fault: the objects in the order of the database, which is that of the keys.
ObjectsInDatabaseOrder(n) ==
    SelectSeq(CHOOSE s \in SetToSeqs(Keys) : TRUE, LAMBDA k : k \in rows \cap Range(KeysOn(n)))

\* The rows in the order of the keys, None where there is no row.
ObjectsOn(n) ==
    LET keys == KeysOn(n)
    IN  [i \in DOMAIN keys |-> IF keys[i] \in rows THEN keys[i] ELSE None]

\* One query, whose rows are looked through once for each key.
Fetch ==
    /\ pc = "fetch"
    /\ objects' = ObjectsOn(number)
    /\ IF number = 1 THEN
           /\ shown' = IF results = index THEN objects' ELSE None
           /\ steady' = rows
       ELSE
           /\ shown' = IF shown # None /\ Len(shown) = (number - 1) * PageSize
                         THEN shown \o objects' ELSE shown
           /\ UNCHANGED steady
    /\ pc' = "idle"
    /\ UNCHANGED <<index, rows, results, page, number>>

-----------------------------------------------------------------------------
(* Other code *)

ChangeRows(k) ==
    /\ rows' = IF k \in rows THEN rows \ {k} ELSE rows \cup {k}
    /\ steady' = steady \ {k}
    /\ UNCHANGED <<index, call, shown>>

Reindex ==
    /\ index' \in SetToSeqs(rows)
    /\ shown' = IF index' = index THEN shown ELSE None
    /\ UNCHANGED <<rows, call, steady>>

Next ==
    \/ \E p \in Page : Call(p)
    \/ Validate \/ Fetch
    \/ \E k \in Keys : ChangeRows(k)
    \/ Reindex

Spec == Init /\ [][Next]_vars

-----------------------------------------------------------------------------
(* Properties *)

TypeOK ==
    /\ index \in Results /\ results \in Results /\ rows \subseteq Keys
    /\ pc \in {"idle", "validate", "fetch"}
    /\ page \in {None} \cup Page
    /\ pc # "idle" => page # None
    /\ number \in Nat
    /\ pc = "fetch" => number \in 1..NumPages
    /\ objects # None => objects \in Seq(Keys \cup {None}) /\ Len(objects) <= PageSize
    /\ shown # None => shown \in Seq(Keys \cup {None})
    /\ steady \subseteq rows

\* A client that goes from page to page while the index stays as it is reads
\* the results of the search in their order, each once, with the object of
\* every row that was there all the time, however many rows come and go
\* (paginators.py:112-124).
ReadsThrough ==
    shown # None =>
        /\ Len(shown) <= Len(index)
        /\ \A i \in DOMAIN shown :
             /\ shown[i] \in {None, index[i]}
             /\ index[i] \in steady => shown[i] = index[i]

\* The page "last" is there for every search, even for one without results,
\* and ends with its last result (paginators.py:97-98).
LastPageEndsResults ==
    pc = "idle" /\ page # None /\ page.word = "last" =>
        /\ objects # None
        /\ (number - 1) * PageSize + Len(objects) = Len(results)
        /\ results # <<>> => objects # <<>>

=============================================================================
