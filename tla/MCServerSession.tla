--------------------------- MODULE MCServerSession ---------------------------
(* TLC instances of ServerSession. *)
EXTENDS ServerSession

CONSTANTS c1, c2, c3

ThreeCalls == {c1, c2, c3}
=============================================================================
