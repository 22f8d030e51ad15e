------------------------------- MODULE MCDns -------------------------------
(* Instances of Dns for TLC. *)
EXTENDS Dns

CONSTANTS u1, u2, q1, q2, h1, h2, n1

\* Two names of an owner that differ in their case only, and the same name of an owner
\* whose own name has a dot and ends like the other's.
Phone == [owner |-> <<"ann">>, name |-> <<"phone">>]
PHONE == [owner |-> <<"ann">>, name |-> <<"PHONE">>]
Dotted == [owner |-> <<"x", "ann">>, name |-> <<"phone">>]
SomeDevices == {Phone, PHONE, Dotted}
LowerCase == [l \in {"ann", "phone", "PHONE", "x"} |-> IF l = "PHONE" THEN "phone" ELSE l]
SomeAddresses == {{<<4, 1>>}, {<<4, 2>>, <<6, 2>>}}
TwoUpstreams == <<u1, u2>>

\* The zone and the proxy share no state: each is explored while the other rests.  The
\* loops of neither are held up, since no fair action starts a query, a change or a tick.
OneHalf ==
    IF Configured THEN now = 0 /\ {h \in Handlers : handler[h] # Idle} = {}
    ELSE table = <<>> /\ ~note
=============================================================================
