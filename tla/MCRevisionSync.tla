---------------------------- MODULE MCRevisionSync ----------------------------
(* TLC instances of RevisionSync. *)
EXTENDS RevisionSync

CONSTANTS i1, i2

TwoItems == {i1, i2}
=============================================================================
