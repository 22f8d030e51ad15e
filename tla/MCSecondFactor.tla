--------------------------- MODULE MCSecondFactor ---------------------------
(* Instances of SecondFactor for TLC. *)
EXTENDS SecondFactor, TLC

CONSTANTS a, q1, q2, k1, c1, c2, p1, h1, h2, h3

\* Both requests in the one process.
SameProcess == [r \in Requests |-> a]

\* The codes; the codes, and what asks for the password, with a storage that
\* fails; the passkeys beside the codes; and what an admin does.
CodesAndPasskeys ==
    {{"start", "confirm", "replace", "code", "password", "disable"},
     {"start", "confirm", "code", "password", "fail"},
     {"start", "confirm", "replace", "disable", "fail"},
     {"start", "confirm", "password", "login", "register", "deletePasskey", "fail"},
     {"start", "confirm", "password", "register", "reset", "deleteUser", "fail"}}

Alike == Permutations({q1, q2}) \cup Permutations({c1, c2}) \cup 
         Permutations({h1, h2}) \cup Permutations({h2, h3})
=============================================================================
