---------------------------- MODULE MCWebAccess ----------------------------
(* Instances of WebAccess for TLC. *)
EXTENDS WebAccess, TLC

CONSTANTS q1, q2, s1, s2, t1, d1

Symmetric == Permutations({q1, q2}) \cup Permutations({s1, s2})
=============================================================================
