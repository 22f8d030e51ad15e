----------------------------- MODULE MCTraffic -----------------------------
(* Instances of Traffic for TLC. *)
EXTENDS Traffic, TLC

CONSTANTS r1, r2, s1, s2, k1, k2
=============================================================================
