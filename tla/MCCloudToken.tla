----------------------------- MODULE MCCloudToken -----------------------------
(* CloudToken for TLC.  A unit of time is the client's timeout, so the window  *)
(* of five minutes is two of them and a bit.                                  *)
EXTENDS CloudToken, TLC

CONSTANTS c1, c2

TwoCalls == {c1, c2}
Symmetry == Permutations(Calls)
=============================================================================
