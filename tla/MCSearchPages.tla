--------------------------- MODULE MCSearchPages ---------------------------
(***************************************************************************)
(* SearchPages for TLC: three keys on pages of two.                        *)
(***************************************************************************)
EXTENDS SearchPages

=============================================================================
