------------------------ MODULE MCRequestAttributes ------------------------
(***************************************************************************)
(* RequestAttributes for TLC: a superuser and a user without a role.       *)
(***************************************************************************)
EXTENDS RequestAttributes

MCRole == [u \in Users |-> IF u = "root" THEN "superuser" ELSE None]

=============================================================================
