------------------------------ MODULE MCSchema ------------------------------
(* Instances of Schema for TLC. *)
EXTENDS Schema, TLC

CONSTANTS old, new, copier, devices, passkeys, challenge, wide

\* The second migration has two parts; the third widens a column, but on SQLite.
ThreeMigrations == << <<devices>>, <<passkeys, challenge>>, <<wide>> >>
OldAndNew == (old :> 2) @@ (new :> 3) @@ (copier :> 3)
OneOfEach == <<"user", "passkey", "device", "token">>
=============================================================================
