---------------------------- MODULE MCServiceCalls ----------------------------
(* TLC instances of ServiceCalls. *)
EXTENDS ServiceCalls, TLC

CONSTANTS c1, c2

TwoCallers == {c1, c2}
Symmetry   == Permutations(Callers)
=============================================================================
