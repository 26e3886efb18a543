--------------------------- MODULE UserAttributes ---------------------------
(***************************************************************************)
(* The attributes of a user and what the claims of a JWT make of them:     *)
(* the loop over the attribute map in authenticate_credentials.            *)
(*                                                                         *)
(* A claim is named by the attribute it is mapped to.                      *)
(***************************************************************************)
CONSTANTS
    Users,      \* usernames
    Attributes, \* the fields of the user model
    Mapped,     \* the values of JWT_PAYLOAD_USER_ATTRIBUTE_MAPPING
    Mergeable,  \* JWT_PAYLOAD_MERGEABLE_USER_ATTRIBUTES
    Keys,       \* keys of the dictionaries that mergeable attributes hold
    Values,     \* values of the other attributes, and under a key
    None,       \* a claim that the payload lacks; a row that does not exist
    NewRow      \* the row of a user who was just created

Dictionary == UNION {[D -> Values] : D \in SUBSET Keys}

ValueOf(a) == IF a \in Mergeable THEN Dictionary ELSE Values

\* A row of the user table, and a user object in memory.
Row == {r \in [Attributes -> Values \cup Dictionary] : \A a \in Attributes : r[a] \in ValueOf(a)}

ClaimsType ==
    {c \in [Mapped -> Values \cup Dictionary \cup {None}] :
        \A a \in Mapped : c[a] \in ValueOf(a) \cup {None}}

ASSUME AttributesAssumption ==
    /\ Mapped \subseteq Attributes
    /\ Mergeable \subseteq Attributes
    /\ None \notin Values \cup Dictionary \cup Row \cup Users
    /\ NewRow \in Row

-----------------------------------------------------------------------------
\* A fault: "merge new values that aren't already set" taken to the letter.
MergedNewKeys(claim, current) ==
    [k \in DOMAIN claim \cup DOMAIN current |->
        IF k \in DOMAIN current THEN current[k] ELSE claim[k]]

\* A dictionary takes over the keys of the claim and keeps its others.
Merged(claim, current) ==
    [k \in DOMAIN claim \cup DOMAIN current |->
        IF k \in DOMAIN claim THEN claim[k] ELSE current[k]]

\* Faults: a dictionary is replaced like any other value; a claim that the
\* payload lacks is copied.
CopiedWhole(a, claim, current) == IF claim = None THEN current ELSE claim

CopiedThoughMissing(a, claim, current) ==
    IF a \in Mergeable /\ claim # None THEN Merged(claim, current) ELSE claim

Copied(a, claim, current) ==
    IF claim = None THEN current
    ELSE IF a \in Mergeable THEN Merged(claim, current) ELSE claim

\* What the loop makes of a user; attributes_updated is whether it differs.
Synced(r, claims) ==
    [a \in Attributes |-> IF a \in Mapped THEN Copied(a, claims[a], r[a]) ELSE r[a]]

-----------------------------------------------------------------------------
(* What the loop is for, stated without it, attribute by attribute *)

Claimed(a, claims) == a \in Mapped /\ claims[a] # None

\* The user has what the claims say of the attribute, a dictionary key by key.
CarriesIn(a, r, claims) ==
    Claimed(a, claims) =>
        IF a \in Mergeable
          THEN \A k \in DOMAIN claims[a] : k \in DOMAIN r[a] /\ r[a][k] = claims[a][k]
          ELSE r[a] = claims[a]

Carries(r, claims) == \A a \in Attributes : CarriesIn(a, r, claims)

\* What the claims do not say of the attribute is as it was in old.
KeepsIn(a, r, claims, old) ==
    /\ ~Claimed(a, claims) => r[a] = old[a]
    /\ Claimed(a, claims) /\ a \in Mergeable =>
         /\ DOMAIN r[a] = DOMAIN claims[a] \cup DOMAIN old[a]
         /\ \A k \in DOMAIN old[a] \ DOMAIN claims[a] : r[a][k] = old[a][k]

\* The attributes that a write of the new row changes.
Changed(old, new) == {a \in Attributes : old[a] # new[a]}

=============================================================================
