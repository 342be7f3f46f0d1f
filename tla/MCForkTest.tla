----------------------------- MODULE MCForkTest -----------------------------
(* The fork test with a list of three cells in six addresses, and up to    *)
(* three collections in the child.                                           *)
EXTENDS ForkTest

CONSTANTS a1, a2, a3, a4, a5, a6

MCAddr == {a1, a2, a3, a4, a5, a6}
=============================================================================
