--------------------------- MODULE MCJwtUserSync ---------------------------
(***************************************************************************)
(* JwtUserSync for TLC: the fields email and is_active of the model, a     *)
(* dictionary of roles that is merged, and tokens that lack some claim or  *)
(* disagree with each other.                                               *)
(***************************************************************************)
EXTENDS JwtUserSync, TLC

CONSTANTS ann, home, work, course, library

MCAttributes == {"email", "is_active", "roles"}
MCMapped == {"email", "roles"}
MCNewRow == [email |-> home, is_active |-> home, roles |-> <<>>]

Payload(u, email, roles) == [user |-> u, claims |-> [email |-> email, roles |-> roles]]

\* A claim of one attribute, of both, a role that differs, and a payload without
\* a username.
OneUserTokens ==
    {Payload(ann, None, course :> work),
     Payload(ann, work, (course :> home) @@ (library :> home)),
     Payload(None, work, None)}

=============================================================================
