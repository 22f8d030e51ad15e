---------------------------- MODULE MCFirewall ----------------------------
(* Instances of Firewall for TLC. *)
EXTENDS Firewall, TLC

CONSTANTS d1, d2, alice, bob, staff, guests, wan, office, wan6, lab6, site

OwnersOfDevices == (d1 :> alice) @@ (d2 :> bob)

\* wan and wan6 are open to everybody, the office and lab6 to a policy, and the site may
\* be routed to a device.  The host "dark" is in none of them.
Family == (wan :> "ip") @@ (office :> "ip") @@ (wan6 :> "ip6") @@
          (lab6 :> "ip6") @@ (site :> "ip")
NetworkHosts == (wan :> {"web", d1, d2}) @@ (office :> {"desk"}) @@ (wan6 :> {"web", d1, d2})
                @@ (lab6 :> {"desk"}) @@ (site :> {"far"})
NetsOfPolicies == (staff :> {office, lab6}) @@ (guests :> {wan})
SomeGrants == {{}, {guests}, {staff, guests}}

NatOf4 == ("ip" :> TRUE) @@ ("ip6" :> FALSE)
WithPolicies == [firewall |-> "nftables", isolation |-> TRUE, nat |-> NatOf4, gateway |-> TRUE,
                 families |-> {"ip", "ip6"},
                 policies |-> {staff, guests}]
WithIPTables == [firewall |-> "iptables", isolation |-> FALSE, nat |-> NatOf4, gateway |-> TRUE,
                 families |-> {"ip"},
                 policies |-> {}]
\* Without NAT and isolation, and the gateway is not known.
WithoutNat == [WithPolicies EXCEPT !.isolation = FALSE, !.gateway = FALSE,
                                   !.nat = [f \in Families |-> FALSE]]
SomeConfs == {WithPolicies, WithoutNat, WithIPTables}

\* Both devices are there, and alice is in a policy.
InUse == {[rows |-> [d \in Devices |-> [routes |-> {}, until |-> 2]],
           groups |-> [o \in Owners |-> IF o = alice THEN {staff} ELSE {}]]}

\* Two changes with one start, one change with a second.
Budget == writes + starts <= 3
=============================================================================
