----------------------------- MODULE DeviceTable -----------------------------
(***************************************************************************)
(* What the storage and the device manager promise together: a table of    *)
(* devices in which every operation happens at once.  A device is added    *)
(* with an address, a name and a key that nobody has at that moment, is    *)
(* renamed to a free name without losing anything, routes only networks    *)
(* nobody else routes, and the devices of a user go all together (the      *)
(* comments of the Storage interface in internal/storage/contracts.go).    *)
(*                                                                         *)
(* The promise rests on the allocation lock.  Once a database session that *)
(* holds it has been lost, what is left is what the database itself        *)
(* enforces: the primary key and the unique index on the public key.       *)
(***************************************************************************)
EXTENDS Integers, FiniteSets

CONSTANTS
    Owners, Names, Keys,
    Prefixes, ReservedPoints,
    Size4, Size6,
    MaxDevicesPerUser,
    NoDevice, NoAddr

VARIABLES
    table,  \* the device under each owner and name
    lost    \* whether the lock was lost with its session

tableVars == <<table, lost>>

TableSlots == Owners \X Names

AddressRow == [v4 : (2 .. Size4 - 1) \cup {NoAddr}, v6 : (2 .. Size6 - 1) \cup {NoAddr}]

Filled == {s \in TableSlots : table[s] # NoDevice}
DevicesOf(o) == {s \in Filled : s[1] = o}

TableInit == table = [s \in TableSlots |-> NoDevice] /\ lost = FALSE

\* WithAllocationLock: "the addresses and names fn finds free are still free
\* when fn saves the device".
AddressFree(a) ==
    /\ a.v4 # NoAddr \/ a.v6 # NoAddr
    /\ \A s \in Filled : /\ a.v4 # NoAddr => table[s].v4 # a.v4
                         /\ a.v6 # NoAddr => table[s].v6 # a.v6

NobodyElseHas(slot, key) == \A s \in Filled \ {slot} : table[s].key # key

\* Add a device: where its owner has none of that name and is below the limit.
Add(slot, key, a) ==
    /\ ~ lost => /\ table[slot] = NoDevice
                 /\ AddressFree(a)
                 /\ MaxDevicesPerUser > 0 =>
                        Cardinality(DevicesOf(slot[1])) < MaxDevicesPerUser
    /\ NobodyElseHas(slot, key)
    /\ table' = [table EXCEPT ![slot] =
                    [key |-> key, v4 |-> a.v4, v6 |-> a.v6, routes |-> {}]]
    /\ UNCHANGED lost

\* Rename: "Neither the public key nor the address changes".
Rename(slot, name) ==
    /\ table[slot] # NoDevice
    /\ table[<<slot[1], name>>] = NoDevice
    /\ table' = [table EXCEPT ![<<slot[1], name>>] = table[slot], ![slot] = NoDevice]
    /\ UNCHANGED lost

\* SetRoutes: networks that are neither the server's nor another device's.
SetRoutes(slot, routes) ==
    /\ table[slot] # NoDevice
    /\ ~ lost => \A r \in routes :
           /\ r \cap ReservedPoints = {}
           /\ \A s \in Filled \ {slot} : \A taken \in table[s].routes : taken \cap r = {}
    /\ table' = [table EXCEPT ![slot] = [@ EXCEPT !.routes = routes]]
    /\ UNCHANGED lost

\* SetKeys: "its name, address and routes stay".
SetKeys(slot, key) ==
    /\ table[slot] # NoDevice
    /\ NobodyElseHas(slot, key)
    /\ table' = [table EXCEPT ![slot] = [@ EXCEPT !.key = key]]
    /\ UNCHANGED lost

\* Delete and DeleteForOwner: devices of one user go, and no other.
Remove(owner, names) ==
    /\ table' = [s \in TableSlots |->
                    IF s[1] = owner /\ s[2] \in names THEN NoDevice ELSE table[s]]
    /\ UNCHANGED lost

\* The session that holds the lock dies.
LoseSession == lost' = TRUE /\ UNCHANGED table

TableNext ==
    \/ \E slot \in TableSlots :
           \/ \E key \in Keys, a \in AddressRow : Add(slot, key, a)
           \/ \E name \in Names : Rename(slot, name)
           \/ \E routes \in SUBSET Prefixes : SetRoutes(slot, routes)
           \/ \E key \in Keys : SetKeys(slot, key)
    \/ \E owner \in Owners, names \in SUBSET Names : Remove(owner, names)
    \/ LoseSession

TableSpec == TableInit /\ [][TableNext]_tableVars
=============================================================================
