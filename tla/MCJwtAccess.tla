---------------------------- MODULE MCJwtAccess ----------------------------
(***************************************************************************)
(* JwtAccess for TLC: users whose names differ in case only and another,   *)
(* two organizations, two scopes, and lists of filters in order, out of    *)
(* order, malformed, empty and missing.                                    *)
(***************************************************************************)
EXTENDS JwtAccess

MCLower == [n \in {"alice", "Alice", "bob"} |-> IF n = "Alice" THEN "alice" ELSE n]

Of(type, value) == [type |-> type, value |-> value, pair |-> TRUE]
Broken(type, value) == [type |-> type, value |-> value, pair |-> FALSE]
OrgX == Of("content_org", "orgX")

SimpleFilters ==
    {<<>>, <<OrgX>>, <<Of("content_org", "orgY"), OrgX>>, <<OrgX, Of("user", "me")>>,
     <<Of("user", "bob"), OrgX>>, <<OrgX, Broken("user", "bob")>>, <<Broken("user", "bob"), OrgX>>}

\* Two user filters, an upper-case one and an empty one.
OddFilters ==
    {<<OrgX, Of("user", "bob"), Of("user", "me")>>, <<OrgX, Of("user", "Alice")>>, <<OrgX, Of("user", None)>>}

TokenWith(restricted, scopes, filters) ==
    [exp |-> 2, restricted |-> restricted, scopes |-> scopes, filters |-> filters]

RequestBy(by, username, staff, auth, kwarg, query, org, required) ==
    [by |-> by, username |-> username, staff |-> staff, auth |-> auth, kwarg |-> kwarg,
     query |-> query, org |-> org, required |-> required]

UserTokens == {TokenWith(r, s, f) : r \in {FALSE, None}, s \in {None, {"read"}}, f \in {None, <<OrgX>>}}

\* Anonymous and logged-in users, and users of applications that are not restricted.
UserRequests ==
    {RequestBy("anonymous", None, FALSE, None, k, None, o, {}) : k \in {None, "bob"}, o \in {None, "orgX"}}
    \cup {RequestBy("session", u, s, None, k, q, o, {"read"}) :
            u \in {"alice", "Alice"}, s \in BOOLEAN, k \in {None, "alice", "Alice", "bob"},
            q \in {None, "alice", "bob"}, o \in {None, "orgX"}}
    \cup {RequestBy("jwt", u, s, t, k, None, "orgX", {"read"}) :
            u \in {"alice", "Alice"}, s \in BOOLEAN, t \in UserTokens, k \in {None, "Alice", "bob"}}

\* Restricted applications, on behalf of alice and of staff.
ApplicationRequests ==
    {RequestBy("jwt", u, s, TokenWith(TRUE, c, f), k, q, o, r) :
        u \in {"Alice"}, s \in BOOLEAN, c \in {None, {"read"}}, f \in SimpleFilters \cup OddFilters,
        k \in {None, "Alice", "bob"}, q \in {None, "bob"}, o \in {None, "orgX"},
        r \in {{}, {"read"}, {"read", "write"}}}

MCRequests == UserRequests \cup ApplicationRequests

=============================================================================
