---------------------------- MODULE MCRoundTrips ----------------------------
(* Two callers, who read, edit and write once each: what one of them wrote *)
(* can be older than, newer than or lost under what the other did.         *)
EXTENDS RoundTrips, TLC
Symmetry == Permutations(Callers)
=============================================================================
