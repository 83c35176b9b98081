---------------------------- MODULE MCCloudLimiter ----------------------------
(* CloudLimiter for TLC: calls of a path with a spacing and a ceiling of one,  *)
(* and of one without any documented limit.                                   *)
EXTENDS CloudLimiter

CONSTANTS c1, c2, c3, customerInfo, organizations

ThreeCalls == {c1, c2, c3}
TwoPaths   == {customerInfo, organizations}
Spacing    == [p \in Paths |-> IF p = customerInfo THEN 2 ELSE 0]
Ceiling    == [p \in Paths |-> IF p = customerInfo THEN 1 ELSE 0]
=============================================================================
