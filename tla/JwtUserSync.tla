---------------------------- MODULE JwtUserSync ----------------------------
(***************************************************************************)
(* JwtAuthentication.authenticate_credentials as the workers of a service  *)
(* run it side by side: get_or_create reads the row, the claims are copied *)
(* to the user in memory, and save() writes the whole row back.  There is  *)
(* no transaction around the three.  Other code updates single fields.     *)
(***************************************************************************)
EXTENDS UserAttributes

CONSTANTS
    Workers,            \* processes and threads of the service
    Tokens,             \* payloads: [user, claims]
    AdminAttributes     \* fields that other code of the service updates

ASSUME SyncAssumption ==
    /\ Tokens \subseteq [user : Users \cup {None}, claims : ClaimsType]
    /\ AdminAttributes \subseteq Attributes

VARIABLES
    table,  \* for each user, the row or None
    pc,     \* for each worker, where it is in the method
    token,  \* the payload it was called with
    copy,   \* its user object
    written \* history: what others wrote to the user's row since the call

vars == <<table, pc, token, copy, written>>

Init ==
    /\ table = [u \in Users |-> None]
    /\ pc = [w \in Workers |-> "idle"]
    /\ token = [w \in Workers |-> None]
    /\ copy = [w \in Workers |-> None]
    /\ written = [w \in Workers |-> {}]

Busy(w, u) == pc[w] \in {"get", "copy", "save"} /\ token[w].user = u

\* The history of those of others who are busy with u, after a write.
Noticed(others, u, row) ==
    [w \in Workers |->
        written[w] \cup (IF w \in others /\ Busy(w, u) THEN Changed(table[u], row) ELSE {})]

-----------------------------------------------------------------------------
\* The method is called; a payload without a username is refused at once.
Call(w, t) ==
    /\ pc[w] = "idle"
    /\ token' = [token EXCEPT ![w] = t]
    /\ pc' = [pc EXCEPT ![w] = IF t.user = None THEN "failed" ELSE "get"]
    /\ UNCHANGED <<table, copy, written>>

GetOrCreate(w) ==
    /\ pc[w] = "get"
    /\ LET u == token[w].user
           row == IF table[u] = None THEN NewRow ELSE table[u]
       IN  /\ table' = [table EXCEPT ![u] = row]
           /\ copy' = [copy EXCEPT ![w] = row]
    /\ pc' = [pc EXCEPT ![w] = "copy"]
    /\ UNCHANGED <<token, written>>

\* The end of what others may write during the call.
Ends(w, outcome) ==
    /\ pc' = [pc EXCEPT ![w] = outcome]
    /\ written' = [written EXCEPT ![w] = {}]

\* A fault: attributes_updated is not raised for merged attributes.
CopyClaimsFlaggingPlain(w) ==
    /\ pc[w] = "copy"
    /\ LET user == Synced(copy[w], token[w].claims)
       IN  /\ copy' = [copy EXCEPT ![w] = user]
           /\ IF \A a \in Attributes \ Mergeable : user[a] = copy[w][a]
                THEN Ends(w, "returned")
                ELSE pc' = [pc EXCEPT ![w] = "save"] /\ UNCHANGED written
    /\ UNCHANGED <<table, token>>

CopyClaims(w) ==
    /\ pc[w] = "copy"
    /\ LET user == Synced(copy[w], token[w].claims)
       IN  /\ copy' = [copy EXCEPT ![w] = user]
           /\ IF user = copy[w]
                THEN Ends(w, "returned")
                ELSE pc' = [pc EXCEPT ![w] = "save"] /\ UNCHANGED written
    /\ UNCHANGED <<table, token>>

Save(w) ==
    /\ pc[w] = "save"
    /\ table' = [table EXCEPT ![token[w].user] = copy[w]]
    /\ pc' = [pc EXCEPT ![w] = "returned"]
    /\ written' = [Noticed(Workers \ {w}, token[w].user, copy[w]) EXCEPT ![w] = {}]
    /\ UNCHANGED <<token, copy>>

\* The database fails a query; the exception becomes AuthenticationFailed.
DatabaseFails(w) ==
    /\ pc[w] \in {"get", "save"}
    /\ Ends(w, "failed")
    /\ UNCHANGED <<table, token, copy>>

\* The view runs, or the request is refused, and the worker is free again.
Finish(w) ==
    /\ pc[w] \in {"returned", "failed"}
    /\ pc' = [pc EXCEPT ![w] = "idle"]
    /\ token' = [token EXCEPT ![w] = None]
    /\ copy' = [copy EXCEPT ![w] = None]
    /\ UNCHANGED <<table, written>>

\* Other code of the service sets one field of an account.
AdminUpdate(u, a, v) ==
    /\ table[u] # None
    /\ table' = [table EXCEPT ![u][a] = v]
    /\ written' = Noticed(Workers, u, [table[u] EXCEPT ![a] = v])
    /\ UNCHANGED <<pc, token, copy>>

Step(w) == GetOrCreate(w) \/ CopyClaims(w) \/ Save(w) \/ DatabaseFails(w) \/ Finish(w)

Next ==
    \/ \E w \in Workers : Step(w) \/ \E t \in Tokens : Call(w, t)
    \/ \E u \in Users, a \in AdminAttributes : \E v \in ValueOf(a) : AdminUpdate(u, a, v)

Spec == Init /\ [][Next]_vars

\* The method runs to its end, whatever the database answers.
FairSpec == Spec /\ \A w \in Workers : WF_vars(Step(w))

-----------------------------------------------------------------------------
(* Properties *)

TypeOK ==
    /\ table \in [Users -> Row \cup {None}]
    /\ pc \in [Workers -> {"idle", "get", "copy", "save", "returned", "failed"}]
    /\ token \in [Workers -> Tokens \cup {None}]
    /\ copy \in [Workers -> Row \cup {None}]
    /\ written \in [Workers -> SUBSET Attributes]

\* Whoever else writes the row in the meantime, the user that the view and its
\* permissions are given has everything that the token claims, by its own key
\* (authentication.py:183-224).
ReturnedUserHasClaims ==
    \A w \in Workers : pc[w] = "returned" => Carries(copy[w], token[w].claims)

\* The unprotected steps of a call lose nothing but what others write to the same
\* row between its beginning and its end.  In every other attribute the row changes as
\* if the claims were applied in one step, from what is stored then: no claim is
\* lost, no attribute without a claim changes, no key of a merged dictionary
\* vanishes.  A call that returns without saving has found the claims there, and one
\* that fails leaves the row alone (authentication.py:178-231).
Table == INSTANCE UserTable
            WITH status <- [w \in Workers |->
                               IF pc[w] \in {"get", "copy", "save"} THEN "serving" ELSE pc[w]]

LosesOnlyOverlapping == Table!Spec

\* From some time on every request of the user carries t, and no other code
\* writes a field that is mapped.
QuietExceptFor(t) ==
    /\ \A w \in Workers, s \in Tokens : s.user = t.user /\ s # t => ~Call(w, s)
    /\ \A a \in AdminAttributes \cap Mapped, v \in Values : ~AdminUpdate(t.user, a, v)

UpToDate(t) == table[t.user] # None /\ Carries(table[t.user], t.claims)

\* Updates that concurrent saves lost are repaired: once a user's requests all
\* carry the same claims, and requests keep succeeding, the row takes on the
\* claims and keeps them (authentication.py:226-227).
SettlesOnClaims ==
    \A t \in {s \in Tokens : s.user # None} :
        /\ <>[][QuietExceptFor(t)]_vars
        /\ []<>(\E w \in Workers : pc[w] = "returned" /\ token[w] = t)
        => <>[]UpToDate(t)

=============================================================================
