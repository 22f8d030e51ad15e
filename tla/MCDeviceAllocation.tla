------------------------- MODULE MCDeviceAllocation -------------------------
(* Instances of DeviceAllocation for TLC. *)
EXTENDS DeviceAllocationRefines, TLC

CONSTANTS r1, r2, h1, h2, o1, o2, n1, n2, k1, k2

\* Two handlers on two replicas that share a database.
OnTwoReplicas == (h1 :> r1) @@ (h2 :> r2)

\* Two handlers on the only process of an SQLite server.
OnOneReplica == (h1 :> r1) @@ (h2 :> r1)

\* Free, reserved and outside the subnet, for one family or for both.
ManualAddresses ==
    {[v4 |-> 2, v6 |-> NoAddr], [v4 |-> 1, v6 |-> NoAddr],
     [v4 |-> Size4, v6 |-> NoAddr], NoAddress}
ManualDual ==
    {[v4 |-> 2, v6 |-> 3], [v4 |-> NoAddr, v6 |-> 3], [v4 |-> 2, v6 |-> 1],
     NoAddress}

\* Points 1 to 3 behind devices, point 0 in the network of the VPN.
RoutePrefixes == {{1}, {1, 2}, {0, 3}}
VpnPoints == {0}

Symmetric == Permutations({k1, k2}) \cup Permutations({o1, o2}) \cup
             Permutations({n1, n2})
=============================================================================
