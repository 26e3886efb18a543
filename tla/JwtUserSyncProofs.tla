------------------------- MODULE JwtUserSyncProofs -------------------------
(***************************************************************************)
(* Proofs about JwtUserSync for every set of workers, users, tokens and    *)
(* attributes: types, the user that is returned, and that overlapping      *)
(* calls and other code lose nothing but what they wrote to the same row   *)
(* at the same time.                                                       *)
(***************************************************************************)
EXTENDS JwtUserSync, TLAPS

(***************************************************************************)
(* The loop over the attribute map                                         *)
(***************************************************************************)

\* Merging a dictionary into a dictionary yields one.
LEMMA MergedType ==
    ASSUME NEW claim \in Dictionary, NEW current \in Dictionary
    PROVE  Merged(claim, current) \in Dictionary
<1>1. PICK C \in SUBSET Keys : claim \in [C -> Values]
  BY DEF Dictionary
<1>2. PICK D \in SUBSET Keys : current \in [D -> Values]
  BY DEF Dictionary
<1>3. Merged(claim, current) \in [C \cup D -> Values]
  BY <1>1, <1>2 DEF Merged
<1>4. C \cup D \in SUBSET Keys
  OBVIOUS
<1> QED
  BY <1>3, <1>4 DEF Dictionary

\* An attribute keeps its type.
LEMMA CopiedType ==
    ASSUME NEW a \in Mapped, NEW claim \in ValueOf(a) \cup {None}, NEW current \in ValueOf(a)
    PROVE  Copied(a, claim, current) \in ValueOf(a)
<1>1. CASE claim = None
  BY <1>1 DEF Copied
<1>2. CASE claim # None /\ a \in Mergeable
  BY <1>2, MergedType DEF Copied, ValueOf
<1>3. CASE claim # None /\ a \notin Mergeable
  BY <1>3 DEF Copied, ValueOf
<1> QED
  BY <1>1, <1>2, <1>3

\* A user keeps the type.
LEMMA SyncedType ==
    ASSUME NEW r \in Row, NEW claims \in ClaimsType
    PROVE  Synced(r, claims) \in Row
<1>1. ASSUME NEW a \in Attributes
      PROVE  Synced(r, claims)[a] \in ValueOf(a)
  <2>1. r[a] \in ValueOf(a)
    BY DEF Row
  <2>2. CASE a \in Mapped
    <3>1. claims[a] \in ValueOf(a) \cup {None}
      BY <2>2 DEF ClaimsType
    <3>2. Synced(r, claims)[a] = Copied(a, claims[a], r[a])
      BY <2>2 DEF Synced
    <3> QED
      BY <2>1, <2>2, <3>1, <3>2, CopiedType
  <2>3. CASE a \notin Mapped
    BY <2>1, <2>3 DEF Synced
  <2> QED
    BY <2>2, <2>3
<1>2. \A a \in Attributes : ValueOf(a) \subseteq Values \cup Dictionary
  BY DEF ValueOf
<1>3. Synced(r, claims) \in [Attributes -> Values \cup Dictionary]
  <2>1. Synced(r, claims) = [a \in Attributes |-> Synced(r, claims)[a]]
    BY DEF Synced
  <2> QED
    BY <1>1, <1>2, <2>1
<1> QED
  BY <1>1, <1>3 DEF Row

\* After the loop the user has what the claims say of every attribute, ...
LEMMA SyncedCarries ==
    ASSUME NEW r \in Row, NEW claims \in ClaimsType
    PROVE  Carries(Synced(r, claims), claims)
<1> SUFFICES ASSUME NEW a \in Attributes, Claimed(a, claims)
             PROVE  IF a \in Mergeable
                      THEN \A k \in DOMAIN claims[a] :
                              /\ k \in DOMAIN Synced(r, claims)[a]
                              /\ Synced(r, claims)[a][k] = claims[a][k]
                      ELSE Synced(r, claims)[a] = claims[a]
  BY DEF Carries, CarriesIn
<1>1. Synced(r, claims)[a] = Copied(a, claims[a], r[a]) /\ claims[a] # None
  BY DEF Synced, Claimed
<1>2. CASE a \in Mergeable
  BY <1>1, <1>2 DEF Copied, Merged
<1>3. CASE a \notin Mergeable
  BY <1>1, <1>3 DEF Copied
<1> QED
  BY <1>2, <1>3

\* ... and otherwise what it had.
LEMMA SyncedKeeps ==
    ASSUME NEW r \in Row, NEW claims \in ClaimsType, NEW a \in Attributes
    PROVE  KeepsIn(a, Synced(r, claims), claims, r)
<1>1. CASE a \notin Mapped
  BY <1>1 DEF Synced, KeepsIn, Claimed
<1>2. CASE a \in Mapped
  <2>1. Synced(r, claims)[a] = Copied(a, claims[a], r[a])
    BY <1>2 DEF Synced
  <2>2. CASE claims[a] = None
    BY <1>2, <2>1, <2>2 DEF Copied, KeepsIn, Claimed
  <2>3. CASE claims[a] # None /\ a \in Mergeable
    BY <1>2, <2>1, <2>3 DEF Copied, Merged, KeepsIn, Claimed
  <2>4. CASE claims[a] # None /\ a \notin Mergeable
    BY <1>2, <2>4 DEF KeepsIn, Claimed
  <2> QED
    BY <2>2, <2>3, <2>4
<1> QED
  BY <1>1, <1>2

(***************************************************************************)
(* Types, and the user that is returned                                    *)
(***************************************************************************)

\* What a call has in hand at each stage.
CallInv ==
    \A w \in Workers :
        /\ pc[w] \in {"get", "copy", "save", "returned"} =>
              token[w] \in Tokens /\ token[w].user \in Users
        /\ pc[w] \in {"copy", "save", "returned"} => copy[w] \in Row
        /\ pc[w] \in {"save", "returned"} => Carries(copy[w], token[w].claims)

\* A payload has a user, or none, and claims.
LEMMA TokenType ==
    ASSUME NEW t \in Tokens
    PROVE  t.user \in Users \cup {None} /\ t.claims \in ClaimsType
BY SyncAssumption

LEMMA InitTyped == Init => TypeOK /\ CallInv
BY DEF Init, TypeOK, CallInv

\* Every step keeps the types and what the calls have in hand.
LEMMA NextTyped == TypeOK /\ CallInv /\ [Next]_vars => TypeOK' /\ CallInv'
<1> SUFFICES ASSUME TypeOK, CallInv, [Next]_vars
             PROVE  TypeOK' /\ CallInv'
  OBVIOUS
<1> USE DEF TypeOK
<1>1. ASSUME NEW w \in Workers, NEW t \in Tokens, Call(w, t)
      PROVE  TypeOK' /\ CallInv'
  BY <1>1, TokenType DEF Call, CallInv
<1>2. ASSUME NEW w \in Workers, GetOrCreate(w)
      PROVE  TypeOK' /\ CallInv'
  <2>1. token[w] \in Tokens /\ token[w].user \in Users
    BY <1>2 DEF GetOrCreate, CallInv
  <2> DEFINE row == IF table[token[w].user] = None THEN NewRow ELSE table[token[w].user]
  <2>2. row \in Row
    BY <2>1, AttributesAssumption
  <2>3. /\ table' = [table EXCEPT ![token[w].user] = row]
        /\ copy' = [copy EXCEPT ![w] = row]
        /\ pc[w] = "get" /\ pc' = [pc EXCEPT ![w] = "copy"]
        /\ token' = token /\ written' = written
    BY <1>2 DEF GetOrCreate
  <2> HIDE DEF row
  <2>4. TypeOK'
    BY <2>2, <2>3
  <2>5. CallInv'
    BY <2>1, <2>2, <2>3 DEF CallInv
  <2> QED
    BY <2>4, <2>5
<1>3. ASSUME NEW w \in Workers, CopyClaims(w)
      PROVE  TypeOK' /\ CallInv'
  <2> DEFINE user == Synced(copy[w], token[w].claims)
  <2>1. token[w] \in Tokens /\ token[w].user \in Users /\ copy[w] \in Row
    BY <1>3 DEF CopyClaims, CallInv
  <2>2. user \in Row /\ Carries(user, token[w].claims)
    BY <2>1, TokenType, SyncedType, SyncedCarries
  <2>3. /\ copy' = [copy EXCEPT ![w] = user]
        /\ pc' = [pc EXCEPT ![w] = IF user = copy[w] THEN "returned" ELSE "save"]
        /\ table' = table /\ token' = token
        /\ written' \in [Workers -> SUBSET Attributes]
    BY <1>3 DEF CopyClaims, Ends
  <2> HIDE DEF user
  <2>4. TypeOK'
    BY <2>2, <2>3
  <2>5. CallInv'
    BY <2>1, <2>2, <2>3 DEF CallInv
  <2> QED
    BY <2>4, <2>5
<1>4. ASSUME NEW w \in Workers, Save(w)
      PROVE  TypeOK' /\ CallInv'
  <2>1. token[w].user \in Users /\ copy[w] \in Row
    BY <1>4 DEF Save, CallInv
  <2>2. written' \in [Workers -> SUBSET Attributes]
    BY <1>4 DEF Save, Noticed, Changed
  <2>3. TypeOK'
    BY <1>4, <2>1, <2>2 DEF Save
  <2>4. CallInv'
    BY <1>4 DEF Save, CallInv
  <2> QED
    BY <2>3, <2>4
<1>5. ASSUME NEW w \in Workers, DatabaseFails(w)
      PROVE  TypeOK' /\ CallInv'
  BY <1>5 DEF DatabaseFails, Ends, CallInv
<1>6. ASSUME NEW w \in Workers, Finish(w)
      PROVE  TypeOK' /\ CallInv'
  BY <1>6 DEF Finish, CallInv
<1>7. ASSUME NEW u \in Users, NEW a \in AdminAttributes, NEW v \in ValueOf(a), AdminUpdate(u, a, v)
      PROVE  TypeOK' /\ CallInv'
  <2> DEFINE row == [table[u] EXCEPT ![a] = v]
  <2>1. table[u] \in Row
    BY <1>7 DEF AdminUpdate
  <2>2. a \in Attributes
    BY SyncAssumption
  <2>3. row \in Row
    BY <2>1, <2>2 DEF Row, ValueOf
  <2>4. table' = [table EXCEPT ![u] = row]
    BY <1>7 DEF AdminUpdate
  <2>5. written' \in [Workers -> SUBSET Attributes]
    BY <1>7 DEF AdminUpdate, Noticed, Changed
  <2> HIDE DEF row
  <2>6. TypeOK'
    BY <1>7, <2>3, <2>4, <2>5 DEF AdminUpdate
  <2>7. CallInv'
    BY <1>7 DEF AdminUpdate, CallInv
  <2> QED
    BY <2>6, <2>7
<1>8. CASE UNCHANGED vars
  BY <1>8 DEF vars, CallInv
<1> QED
  BY <1>1, <1>2, <1>3, <1>4, <1>5, <1>6, <1>7, <1>8 DEF Next, Step

LEMMA TypedCalls == Spec => [](TypeOK /\ CallInv)
BY InitTyped, NextTyped, PTL DEF Spec

\* The variables keep their types: a row never takes on a value that its
\* attributes cannot have (authentication.py:183-224).
THEOREM TypeCorrect == Spec => []TypeOK
BY TypedCalls, PTL

\* Whatever other workers and other code do to the row, the user returned to
\* the view has everything its own token claims.
THEOREM ReturnedCarries == Spec => []ReturnedUserHasClaims
<1>1. CallInv => ReturnedUserHasClaims
  BY DEF CallInv, ReturnedUserHasClaims
<1> QED
  BY <1>1, TypedCalls, PTL

(***************************************************************************)
(* What overlapping writes can lose                                        *)
(***************************************************************************)

\* In what nobody else has written, the user in memory is the stored one, without
\* or with the claims.
InStep(w) ==
    LET u == token[w].user
    IN  /\ pc[w] \in {"copy", "save"} => table[u] \in Row
        /\ pc[w] = "copy" => \A a \in Attributes \ written[w] : copy[w][a] = table[u][a]
        /\ pc[w] = "save" =>
              \A a \in Attributes \ written[w] :
                  copy[w][a] = Synced(table[u], token[w].claims)[a]

OverlapInv == \A w \in Workers : InStep(w)

LEMMA InitOverlap == Init => OverlapInv
BY DEF Init, OverlapInv, InStep

\* Whoever serves the user of a row notices what a write changes in it.
LEMMA OthersNotice ==
    ASSUME TypeOK,
           NEW u \in Users, NEW row \in Row, NEW others \in SUBSET Workers,
           table[u] \in Row,
           table' = [table EXCEPT ![u] = row],
           NEW w \in others, InStep(w),
           pc'[w] = pc[w], token' = token, copy'[w] = copy[w], written'[w] = Noticed(others, u, row)[w]
    PROVE  InStep(w)'
<1> USE DEF TypeOK
<1>1. CASE token[w].user = u
  <2>1. table'[u] = row
    BY DEF TypeOK
  <2>2. ASSUME pc[w] \in {"copy", "save"}, NEW a \in Attributes \ written'[w]
        PROVE  a \notin written[w] /\ row[a] = table[u][a]
    BY <1>1, <2>2 DEF Noticed, Busy, Changed
  <2>3. ASSUME pc[w] = "save", NEW a \in Attributes \ written'[w]
        PROVE  copy[w][a] = Synced(row, token[w].claims)[a]
    <3>1. a \notin written[w] /\ row[a] = table[u][a]
      BY <2>2, <2>3
    <3>2. copy[w][a] = Synced(table[u], token[w].claims)[a]
      BY <1>1, <2>3, <3>1 DEF InStep
    <3>3. Synced(table[u], token[w].claims)[a] = Synced(row, token[w].claims)[a]
      BY <3>1 DEF Synced
    <3> QED
      BY <3>2, <3>3
  <2>4. ASSUME pc[w] = "copy", NEW a \in Attributes \ written'[w]
        PROVE  copy[w][a] = row[a]
    BY <1>1, <2>2, <2>4 DEF InStep
  <2> QED
    BY <1>1, <2>1, <2>3, <2>4 DEF InStep
<1>2. CASE token[w].user # u
  <2>1. written'[w] = written[w] /\ table'[token[w].user] = table[token[w].user]
    BY <1>2 DEF Noticed, Busy
  <2> QED
    BY <2>1 DEF InStep
<1> QED
  BY <1>1, <1>2

\* Every step keeps it.
LEMMA NextOverlap == TypeOK /\ CallInv /\ OverlapInv /\ [Next]_vars => OverlapInv'
<1> SUFFICES ASSUME TypeOK, CallInv, OverlapInv, [Next]_vars
             PROVE  OverlapInv'
  OBVIOUS
<1> USE DEF TypeOK
<1>1. ASSUME NEW w \in Workers, NEW t \in Tokens, Call(w, t)
      PROVE  OverlapInv'
  BY <1>1 DEF Call, OverlapInv, InStep
<1>2. ASSUME NEW w \in Workers, GetOrCreate(w)
      PROVE  OverlapInv'
  <2> DEFINE u == token[w].user
             row == IF table[u] = None THEN NewRow ELSE table[u]
  <2>1. u \in Users
    BY <1>2 DEF GetOrCreate, CallInv
  <2>2. row \in Row
    BY <2>1, AttributesAssumption
  <2>3. /\ table' = [table EXCEPT ![u] = row]
        /\ copy' = [copy EXCEPT ![w] = row]
        /\ pc[w] = "get" /\ pc' = [pc EXCEPT ![w] = "copy"]
        /\ token' = token /\ written' = written
    BY <1>2 DEF GetOrCreate
  <2>4. \A v \in Users : table[v] \in Row => table'[v] = table[v]
    BY <2>1, <2>3, AttributesAssumption
  <2> HIDE DEF row
  <2>5. ASSUME NEW v \in Workers, v # w, pc[v] \in {"copy", "save"}
        PROVE  table'[token[v].user] = table[token[v].user]
    BY <2>4, <2>5 DEF OverlapInv, InStep, CallInv
  <2> QED
    BY <2>1, <2>2, <2>3, <2>5 DEF OverlapInv, InStep
<1>3. ASSUME NEW w \in Workers, CopyClaims(w)
      PROVE  OverlapInv'
  <2> DEFINE user == Synced(copy[w], token[w].claims)
  <2>1. \A a \in Attributes \ written[w] : user[a] = Synced(table[token[w].user], token[w].claims)[a]
    BY <1>3 DEF CopyClaims, OverlapInv, InStep, Synced
  <2>2. /\ pc[w] = "copy" /\ table' = table /\ token' = token
        /\ copy' = [copy EXCEPT ![w] = user]
        /\ \/ /\ pc' = [pc EXCEPT ![w] = "returned"]
              /\ written' = [written EXCEPT ![w] = {}]
           \/ pc' = [pc EXCEPT ![w] = "save"] /\ written' = written
    BY <1>3 DEF CopyClaims, Ends
  <2> HIDE DEF user
  <2> QED
    BY <2>1, <2>2 DEF OverlapInv, InStep
<1>4. ASSUME NEW w \in Workers, Save(w)
      PROVE  OverlapInv'
  <2> DEFINE u == token[w].user
  <2>1. /\ u \in Users /\ copy[w] \in Row /\ table[u] \in Row
        /\ table' = [table EXCEPT ![u] = copy[w]]
        /\ pc' = [pc EXCEPT ![w] = "returned"]
        /\ token' = token /\ copy' = copy
        /\ \A v \in Workers \ {w} : written'[v] = Noticed(Workers \ {w}, u, copy[w])[v]
    BY <1>4 DEF Save, CallInv, OverlapInv, InStep, Noticed
  <2>2. \A v \in Workers \ {w} : pc'[v] = pc[v]
    BY <2>1
  <2> HIDE DEF u
  <2>3. ASSUME NEW v \in Workers \ {w}
        PROVE  InStep(v)'
    BY <2>1, <2>2, OthersNotice DEF OverlapInv
  <2> QED
    BY <2>1, <2>3 DEF OverlapInv, InStep
<1>5. ASSUME NEW w \in Workers, DatabaseFails(w)
      PROVE  OverlapInv'
  BY <1>5 DEF DatabaseFails, Ends, OverlapInv, InStep
<1>6. ASSUME NEW w \in Workers, Finish(w)
      PROVE  OverlapInv'
  BY <1>6 DEF Finish, OverlapInv, InStep
<1>7. ASSUME NEW u \in Users, NEW a \in AdminAttributes, NEW v \in ValueOf(a), AdminUpdate(u, a, v)
      PROVE  OverlapInv'
  <2> DEFINE row == [table[u] EXCEPT ![a] = v]
  <2>1. table[u] \in Row
    BY <1>7 DEF AdminUpdate
  <2>2. row \in Row
    BY <2>1, SyncAssumption DEF Row, ValueOf
  <2>3. /\ table' = [table EXCEPT ![u] = row]
        /\ pc' = pc /\ token' = token /\ copy' = copy
        /\ written' = Noticed(Workers, u, row)
    BY <1>7 DEF AdminUpdate
  <2> HIDE DEF row
  <2>4. ASSUME NEW w \in Workers
        PROVE  InStep(w)'
    BY <2>1, <2>2, <2>3, OthersNotice DEF OverlapInv
  <2> QED
    BY <2>4 DEF OverlapInv
<1>8. CASE UNCHANGED vars
  BY <1>8 DEF vars, OverlapInv, InStep
<1> QED
  BY <1>1, <1>2, <1>3, <1>4, <1>5, <1>6, <1>7, <1>8 DEF Next, Step

(***************************************************************************)
(* The method implements UserTable                                         *)
(***************************************************************************)

\* The state of UserTable that a state of the method stands for.
Status(at) ==
    [w \in Workers |-> IF at[w] \in {"get", "copy", "save"} THEN "serving" ELSE at[w]]

\* The two specifications speak of the same rows and claims.
LEMMA SameAttributes ==
    /\ Table!Row = Row
    /\ \A a : Table!ValueOf(a) = ValueOf(a)
    /\ \A a, r, claims : Table!CarriesIn(a, r, claims) <=> CarriesIn(a, r, claims)
    /\ \A r, claims : Table!Carries(r, claims) <=> Carries(r, claims)
    /\ \A a, r, claims, old : Table!KeepsIn(a, r, claims, old) <=> KeepsIn(a, r, claims, old)
<1>1. Table!Row = Row
  BY DEF Table!Row, Row, Table!ValueOf, ValueOf, Table!Dictionary, Dictionary
<1>2. \A a : Table!ValueOf(a) = ValueOf(a)
  BY DEF Table!ValueOf, ValueOf, Table!Dictionary, Dictionary
<1>3. \A a, claims : Table!Claimed(a, claims) <=> Claimed(a, claims)
  BY DEF Table!Claimed, Claimed
<1>4. \A a, r, claims : Table!CarriesIn(a, r, claims) <=> CarriesIn(a, r, claims)
  BY <1>3 DEF Table!CarriesIn, CarriesIn
<1>5. \A r, claims : Table!Carries(r, claims) <=> Carries(r, claims)
  BY <1>4 DEF Table!Carries, Carries
<1>6. \A a, r, claims, old : Table!KeepsIn(a, r, claims, old) <=> KeepsIn(a, r, claims, old)
  BY <1>3 DEF Table!KeepsIn, KeepsIn
<1> QED
  BY <1>1, <1>2, <1>4, <1>5, <1>6

\* A worker serves the same user in both, and notices the same writes.
LEMMA SameServing ==
    ASSUME TypeOK
    PROVE  /\ \A w \in Workers : \A u : Table!Serving(w, u) <=> Busy(w, u)
           /\ \A others, u, row : Table!Noticed(others, u, row) = Noticed(others, u, row)
<1>1. \A w \in Workers : \A u : Table!Serving(w, u) <=> Busy(w, u)
  BY DEF TypeOK, Table!Serving, Busy
<1>2. \A u, row : Table!Changed(table[u], row) = Changed(table[u], row)
  BY DEF Table!Changed, Changed
<1>3. \A others, u, row : Table!Noticed(others, u, row) = Noticed(others, u, row)
  BY <1>1, <1>2 DEF Table!Noticed, Noticed
<1> QED
  BY <1>1, <1>3

\* How the state of UserTable changes with the stage of one worker.
LEMMA StatusMoves ==
    ASSUME TypeOK, NEW w \in Workers, NEW stage \in {"idle", "get", "copy", "save", "returned", "failed"},
           pc' = [pc EXCEPT ![w] = stage]
    PROVE  Status(pc') = [Status(pc) EXCEPT ![w] =
                              IF stage \in {"get", "copy", "save"} THEN "serving" ELSE stage]
BY DEF TypeOK, Status

\* A worker's step for a user is a step of UserTable.
LEMMA CallsOfTable ==
    ASSUME NEW w \in Workers, NEW u \in Users,
           Table!Create(w, u) \/ Table!Sync(w, u) \/ Table!Confirm(w, u) \/ Table!Fail(w, u)
    PROVE  Table!Next
BY DEF Table!Next

\* Every step is one of UserTable's, or none.
LEMMA StepIsOfTable ==
    TypeOK /\ CallInv /\ OverlapInv /\ [Next]_vars => [Table!Next]_(Table!vars)
<1> SUFFICES ASSUME TypeOK, CallInv, OverlapInv, [Next]_vars
             PROVE  Table!Next \/ UNCHANGED <<table, Status(pc), token, written>>
  BY DEF Table!vars, Status
<1>1. ASSUME NEW w \in Workers, NEW t \in Tokens, Call(w, t)
      PROVE  Table!Next
  <2>1. Status(pc') = [Status(pc) EXCEPT ![w] = IF t.user = None THEN "failed" ELSE "serving"]
    BY <1>1, StatusMoves DEF Call
  <2>2. Status(pc)[w] = "idle"
    BY <1>1 DEF Call, Status
  <2>3. Table!Call(w, t)
    BY <1>1, <2>1, <2>2 DEF Call, Table!Call, Status
  <2> QED
    BY <2>3 DEF Table!Next
<1>2. ASSUME NEW w \in Workers, GetOrCreate(w)
      PROVE  Table!Next \/ UNCHANGED <<table, Status(pc), token, written>>
  <2> DEFINE u == token[w].user
  <2>1. u \in Users /\ Table!Serving(w, u)
    BY <1>2, SameServing DEF GetOrCreate, CallInv, Busy
  <2>2. Status(pc)[w] = "serving" /\ Status(pc') = [Status(pc) EXCEPT ![w] = "serving"]
    BY <1>2, StatusMoves DEF GetOrCreate, Status
  <2>3. Status(pc') = Status(pc)
    BY <2>2 DEF Status
  <2>4. CASE table[u] = None
    <3>1. Table!Create(w, u)
      BY <1>2, <2>1, <2>3, <2>4 DEF GetOrCreate, Table!Create, Status
    <3> QED
      BY <2>1, <3>1, CallsOfTable
  <2>5. CASE table[u] # None
    BY <1>2, <2>1, <2>3, <2>5 DEF GetOrCreate, TypeOK
  <2> QED
    BY <2>4, <2>5
<1>3. ASSUME NEW w \in Workers, CopyClaims(w)
      PROVE  Table!Next \/ UNCHANGED <<table, Status(pc), token, written>>
  <2>0. PICK u \in Users : u = token[w].user
    BY <1>3 DEF CopyClaims, CallInv
  <2> DEFINE claims == token[w].claims
             user == Synced(copy[w], claims)
  <2>1. /\ u \in Users /\ table[u] \in Row /\ copy[w] \in Row /\ claims \in ClaimsType
        /\ Table!Serving(w, u)
        /\ pc[w] = "copy"
    BY <1>3, <2>0, SameServing, TokenType DEF CopyClaims, CallInv, OverlapInv, InStep, Busy
  <2>2. CASE user = copy[w]
    <3>1. Carries(copy[w], claims)
      BY <2>1, <2>2, SyncedCarries
    <3>2. \A a \in Attributes \ written[w] : copy[w][a] = table[u][a]
      BY <2>0, <2>1 DEF OverlapInv, InStep
    <3>3. ASSUME NEW a \in Attributes \ written[w]
          PROVE  Table!CarriesIn(a, table[u], claims)
      BY <3>1, <3>2, SameAttributes DEF Carries, CarriesIn
    <3>4. /\ pc' = [pc EXCEPT ![w] = "returned"]
          /\ written' = [written EXCEPT ![w] = {}]
          /\ table' = table /\ token' = token
      BY <1>3, <2>0, <2>2 DEF CopyClaims, Ends
    <3>5. Status(pc') = [Status(pc) EXCEPT ![w] = "returned"]
      BY <3>4, StatusMoves
    <3>6. table[u] # None
      BY <2>1, AttributesAssumption
    <3>7. Table!Confirm(w, u)
      BY <2>0, <2>1, <3>3, <3>4, <3>5, <3>6 DEF Table!Confirm, Status
    <3> QED
      BY <2>1, <3>7, CallsOfTable
  <2>3. CASE user # copy[w]
    <3>1. pc' = [pc EXCEPT ![w] = "save"] /\ UNCHANGED <<table, token, written>>
      BY <1>3, <2>0, <2>3 DEF CopyClaims
    <3>2. Status(pc') = [Status(pc) EXCEPT ![w] = "serving"]
      BY <3>1, StatusMoves
    <3>3. Status(pc') = Status(pc)
      BY <2>1, <3>2 DEF Status
    <3> QED
      BY <3>1, <3>3
  <2> QED
    BY <2>2, <2>3
<1>4. ASSUME NEW w \in Workers, Save(w)
      PROVE  Table!Next
  <2>0. PICK u \in Users : u = token[w].user
    BY <1>4 DEF Save, CallInv
  <2> DEFINE claims == token[w].claims
  <2>1. /\ u \in Users /\ table[u] \in Row /\ copy[w] \in Row /\ claims \in ClaimsType
        /\ Carries(copy[w], claims)
        /\ Table!Serving(w, u)
        /\ pc[w] = "save"
    BY <1>4, <2>0, SameServing, TokenType DEF Save, CallInv, OverlapInv, InStep, Busy
  <2>2. ASSUME NEW a \in Attributes \ written[w]
        PROVE  Table!KeepsIn(a, copy[w], claims, table[u])
    <3>1. copy[w][a] = Synced(table[u], claims)[a]
      BY <2>0, <2>1 DEF OverlapInv, InStep
    <3>2. KeepsIn(a, Synced(table[u], claims), claims, table[u])
      BY <2>1, SyncedKeeps
    <3>3. KeepsIn(a, copy[w], claims, table[u])
      BY <3>1, <3>2 DEF KeepsIn
    <3> QED
      BY <3>3, SameAttributes
  <2>3. /\ pc' = [pc EXCEPT ![w] = "returned"]
        /\ table' = [table EXCEPT ![u] = copy[w]]
        /\ written' = [Noticed(Workers \ {w}, u, copy[w]) EXCEPT ![w] = {}]
        /\ token' = token
    BY <1>4, <2>0 DEF Save
  <2>4. /\ table'[u] = copy[w] /\ table' \in [Users -> Row \cup {None}]
        /\ \A v \in Users \ {u} : table'[v] = table[v]
    BY <2>1, <2>3 DEF TypeOK
  <2>5. Status(pc') = [Status(pc) EXCEPT ![w] = "returned"]
    BY <2>3, StatusMoves
  <2>6. table[u] # None /\ copy[w] # None
    BY <2>1, AttributesAssumption
  <2>7. written' = [Table!Noticed(Workers \ {w}, u, table'[u]) EXCEPT ![w] = {}]
    <3>1. Table!Noticed(Workers \ {w}, u, copy[w]) = Noticed(Workers \ {w}, u, copy[w])
      BY SameServing
    <3> QED
      BY <2>3, <2>4, <3>1
  <2>8. Table!Carries(table'[u], claims)
    BY <2>1, <2>4, SameAttributes
  <2>9. \A a \in Attributes \ written[w] : Table!KeepsIn(a, table'[u], claims, table[u])
    BY <2>2, <2>4
  <2>10. table' \in [Users -> Table!Row \cup {None}]
    BY <2>4, SameAttributes
  <2>11. Table!Sync(w, u)
    BY <2>0, <2>1, <2>3, <2>4, <2>5, <2>6, <2>7, <2>8, <2>9, <2>10 DEF Table!Sync, Status
  <2> QED
    BY <2>1, <2>11, CallsOfTable
<1>5. ASSUME NEW w \in Workers, DatabaseFails(w)
      PROVE  Table!Next
  <2>0. PICK u \in Users : u = token[w].user
    BY <1>5 DEF DatabaseFails, CallInv
  <2>1. u \in Users /\ Table!Serving(w, u)
    BY <1>5, <2>0, SameServing DEF DatabaseFails, CallInv, Busy
  <2>2. Status(pc') = [Status(pc) EXCEPT ![w] = "failed"]
    BY <1>5, <2>0, StatusMoves DEF DatabaseFails, Ends
  <2>3. Table!Fail(w, u)
    BY <1>5, <2>0, <2>1, <2>2 DEF DatabaseFails, Ends, Table!Fail, Status
  <2> QED
    BY <2>1, <2>3, CallsOfTable
<1>6. ASSUME NEW w \in Workers, Finish(w)
      PROVE  Table!Next
  <2>1. Status(pc') = [Status(pc) EXCEPT ![w] = "idle"]
    BY <1>6, StatusMoves DEF Finish
  <2>2. Status(pc)[w] \in {"returned", "failed"}
    BY <1>6 DEF Finish, Status
  <2>3. Table!Finish(w)
    BY <1>6, <2>1, <2>2 DEF Finish, Table!Finish, Status
  <2> QED
    BY <2>3 DEF Table!Next
<1>7. ASSUME NEW u \in Users, NEW a \in AdminAttributes, NEW v \in ValueOf(a), AdminUpdate(u, a, v)
      PROVE  Table!Next
  <2>1. a \in Attributes /\ v \in Table!ValueOf(a)
    BY SyncAssumption, SameAttributes
  <2>2. table'[u] = [table[u] EXCEPT ![a] = v]
    BY <1>7 DEF AdminUpdate, TypeOK
  <2>3. written' = Table!Noticed(Workers, u, table'[u])
    BY <1>7, <2>2, SameServing DEF AdminUpdate
  <2>4. Table!Update(u, a, v)
    BY <1>7, <2>3 DEF AdminUpdate, Table!Update
  <2> QED
    BY <2>1, <2>4 DEF Table!Next
<1>8. CASE UNCHANGED vars
  BY <1>8 DEF vars, Status
<1> QED
  BY <1>1, <1>2, <1>3, <1>4, <1>5, <1>6, <1>7, <1>8 DEF Next, Step

\* However calls and other code overlap, the unprotected steps of the method lose
\* nothing but what others write to the same row during the call: UserTable is
\* implemented.
THEOREM OnlyOverlapsLose == Spec => LosesOnlyOverlapping
<1>1. Init => Table!Init
  BY DEF Init, Table!Init
<1>2. Spec => []OverlapInv
  BY InitOverlap, NextOverlap, TypedCalls, PTL DEF Spec
<1> QED
  BY <1>1, <1>2, StepIsOfTable, TypedCalls, PTL DEF Spec, LosesOnlyOverlapping, Table!Spec

=============================================================================
