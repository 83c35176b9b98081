----------------------------- MODULE MCCloudClient -----------------------------
(* CloudClient for TLC: one path with a spacing and a ceiling of one, one with   *)
(* a spacing only.                                                            *)
EXTENDS CloudClient

CONSTANTS c1, c2, customerInfo, couponsBySeries

TwoCalls == {c1, c2}
AllPaths == {customerInfo, couponsBySeries}
Spacing  == [p \in Paths |-> 1]
Ceiling  == [p \in Paths |-> IF p = customerInfo THEN 1 ELSE 0]
=============================================================================
