--------------------------- MODULE MCBearerAuth ---------------------------
(***************************************************************************)
(* BearerAuth for TLC: two workers, two tokens, two users.                 *)
(***************************************************************************)
EXTENDS BearerAuth

MCOwner == [t \in Tokens |-> IF t = "tokenA" THEN "alice" ELSE "bob"]

=============================================================================
