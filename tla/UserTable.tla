------------------------------ MODULE UserTable ------------------------------
(***************************************************************************)
(* What authenticate_credentials promises of the user table.  A user is    *)
(* created once.  A call that returns has brought the row up to date with  *)
(* its claims in one step, or found it so, and has changed nothing else:   *)
(* except that it may undo what others wrote to the row during the call.   *)
(***************************************************************************)
EXTENDS UserAttributes

CONSTANTS Workers, Tokens

VARIABLES
    table,      \* for each user, the row or None
    status,     \* for each worker, idle, serving, or how the call ended
    token,      \* the payload it was called with
    written     \* what others have written to the user's row during the call

vars == <<table, status, token, written>>

Init ==
    /\ table = [u \in Users |-> None]
    /\ status = [w \in Workers |-> "idle"]
    /\ token = [w \in Workers |-> None]
    /\ written = [w \in Workers |-> {}]

Serving(w, u) == status[w] = "serving" /\ token[w].user = u

\* Those of others who serve u notice a write.
Noticed(others, u, row) ==
    [w \in Workers |->
        written[w] \cup (IF w \in others /\ Serving(w, u) THEN Changed(table[u], row) ELSE {})]

-----------------------------------------------------------------------------
Call(w, t) ==
    /\ status[w] = "idle"
    /\ token' = [token EXCEPT ![w] = t]
    /\ status' = [status EXCEPT ![w] = IF t.user = None THEN "failed" ELSE "serving"]
    /\ UNCHANGED <<table, written>>

Create(w, u) ==
    /\ Serving(w, u)
    /\ table[u] = None
    /\ table' = [table EXCEPT ![u] = NewRow]
    /\ UNCHANGED <<status, token, written>>

\* The row takes on the claims; the rest of it stays, but for what others wrote.
Sync(w, u) ==
    /\ Serving(w, u)
    /\ table[u] # None
    /\ table' \in [Users -> Row \cup {None}]
    /\ \A v \in Users \ {u} : table'[v] = table[v]
    /\ table'[u] # None
    /\ Carries(table'[u], token[w].claims)
    /\ \A a \in Attributes \ written[w] : KeepsIn(a, table'[u], token[w].claims, table[u])
    /\ status' = [status EXCEPT ![w] = "returned"]
    /\ written' = [Noticed(Workers \ {w}, u, table'[u]) EXCEPT ![w] = {}]
    /\ UNCHANGED token

\* The row has the claims already, but for what others wrote.
Confirm(w, u) ==
    /\ Serving(w, u)
    /\ table[u] # None
    /\ \A a \in Attributes \ written[w] : CarriesIn(a, table[u], token[w].claims)
    /\ status' = [status EXCEPT ![w] = "returned"]
    /\ written' = [written EXCEPT ![w] = {}]
    /\ UNCHANGED <<table, token>>

Fail(w, u) ==
    /\ Serving(w, u)
    /\ status' = [status EXCEPT ![w] = "failed"]
    /\ written' = [written EXCEPT ![w] = {}]
    /\ UNCHANGED <<table, token>>

Finish(w) ==
    /\ status[w] \in {"returned", "failed"}
    /\ status' = [status EXCEPT ![w] = "idle"]
    /\ token' = [token EXCEPT ![w] = None]
    /\ UNCHANGED <<table, written>>

\* Other code of the service sets one field.
Update(u, a, v) ==
    /\ table[u] # None
    /\ table' = [table EXCEPT ![u][a] = v]
    /\ written' = Noticed(Workers, u, table'[u])
    /\ UNCHANGED <<status, token>>

Next ==
    \/ \E w \in Workers :
         \/ \E t \in Tokens : Call(w, t)
         \/ \E u \in Users : Create(w, u) \/ Sync(w, u) \/ Confirm(w, u) \/ Fail(w, u)
         \/ Finish(w)
    \/ \E u \in Users, a \in Attributes : \E v \in ValueOf(a) : Update(u, a, v)

Spec == Init /\ [][Next]_vars

=============================================================================
