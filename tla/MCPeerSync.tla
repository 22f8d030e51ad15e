----------------------------- MODULE MCPeerSync -----------------------------
(* Instances of PeerSync for TLC. *)
EXTENDS PeerSync, TLC

CONSTANTS r1, r2, r3, h1, h2, s1, s2, s3, v1, v2, k, c

\* SQLite and MySQL: one process with two handlers.  Postgres: two replicas
\* with a handler each.
AllDeployments ==
    [backend: {"gorm"}, on: {[h \in Handlers |-> r3]}] \cup
    [backend: {"postgres"}, on: {(h1 :> r1) @@ (h2 :> r2)}]
OneProcess == [backend: {"gorm"}, on: {h1 :> r1}]

\* Block, allow again, set an expiry date and clear it.
AllChanges ==
    [disabled: BOOLEAN, expires: {Keep}] \cup
    [disabled: {Keep}, expires: Times \cup {Never}]
BlockChanges == [disabled: BOOLEAN, expires: {Keep}]

\* Two devices in one process, of which one value of "conf" is enough; one
\* device and two values of it on two replicas.  v1 and v2 are the keys of the
\* first part and the values of "conf" of the second, so that they are alike.
TwoDevices == {j \in Job :
    /\ j.op \in {"add", "rename", "access", "rotate", "block", "deleteAll"}
    /\ "slot" \in DOMAIN j => j.slot \in {s1, s2}
    /\ j.op = "rename" => j.newSlot \in {s1, s2}
    /\ j.op \in {"add", "rotate"} => j.key \in {v1, v2}
    /\ j.op = "add" => j.conf = c}
OneDevice == {j \in Job :
    /\ j.op \in {"add", "routes", "delete"}
    /\ j.slot = s3
    /\ j.op = "add" => j.key = k
    /\ j.op \in {"add", "routes"} => j.conf \in {v1, v2}}
RequestsOfBoth == [gorm |-> TwoDevices, postgres |-> OneDevice]

\* Add, block, expire and rotate, for what has to happen in the end.
AccessRequests == [b \in Backends |-> {j \in Job : j.op \in {"add", "access", "rotate"}}]

\* PeersFollow says nothing of a replica once a race was recorded, and no other
\* replica depends on when this one read: such states need no successors.
Unraced == \A r \in Replicas : raced[r] = {}

Symmetric == Permutations({s1, s2}) \cup Permutations({v1, v2}) \cup
             {(r1 :> r2) @@ (r2 :> r1) @@ (h1 :> h2) @@ (h2 :> h1)}
=============================================================================
