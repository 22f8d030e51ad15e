-------------------------- MODULE DeviceAllocation --------------------------
(***************************************************************************)
(* The devices table and the requests that change it: internal/devices on  *)
(* top of internal/storage, for any number of server replicas that share   *)
(* one database.                                                           *)
(*                                                                         *)
(* A request is handled by a goroutine, a "handler".  Every SQL statement  *)
(* is a step of its own, so what a handler read may be out of date when it *)
(* writes.  Adding a device, renaming one and setting its routes hold the  *)
(* allocation lock from the first read to the last write; deleting         *)
(* devices and rotating a key do not.                                      *)
(*                                                                         *)
(* Addresses are offsets into the VPN subnet: 0 is the network address, 1  *)
(* the address of the server.  A network that a device routes is the set   *)
(* of the points it contains.                                              *)
(***************************************************************************)
EXTENDS Integers, FiniteSets

CONSTANTS
    Replicas,       \* the server processes that share the database
    Handlers,       \* the goroutines that handle requests
    On,             \* the replica each handler runs on
    Owners, Names, Keys,
    Manual,         \* the manual addresses that requests ask for
    Prefixes,       \* the networks that requests want routed
    ReservedPoints, \* the VPN's own networks and those the server is in
    Size4, Size6,   \* addresses in the IPv4 and IPv6 subnet, 0: not configured
    MaxDevicesPerUser, \* 0: no limit
    Distributed,    \* Postgres and MySQL: a database lock as well as the mutex
    SessionsDrop,   \* whether the connection that holds the lock may die
    Automatic,      \* "give me the next free address"
    NoDevice, NoAddr, Nobody

ASSUME AllocationAssumption ==
    /\ On \in [Handlers -> Replicas]
    /\ Size4 \in Nat /\ Size6 \in Nat /\ MaxDevicesPerUser \in Nat
    /\ Distributed \in BOOLEAN /\ SessionsDrop \in BOOLEAN
    /\ ~Distributed => \A r, s \in Replicas : r = s
    /\ NoAddr \notin Int /\ Nobody \notin Handlers
    /\ IsFiniteSet(Names)

Range4 == 0 .. Size4 - 1
Range6 == 0 .. Size6 - 1
Client4 == 2 .. Size4 - 1
Client6 == 2 .. Size6 - 1

Device == [key: Keys, v4: Range4 \cup {NoAddr}, v6: Range6 \cup {NoAddr},
           routes: SUBSET Prefixes]

ASSUME ManualAssumption ==
    /\ \A m \in Manual : /\ m.v4 \in Int \cup {NoAddr}
                         /\ m.v6 \in Int \cup {NoAddr}
    /\ NoDevice \notin Device

Slots == Owners \X Names

AddRequest == [op: {"add"}, slot: Slots, key: Keys, want: Manual \cup {Automatic}]
RenameRequest == [op: {"rename"}, slot: Slots, newName: Names]
RoutesRequest == [op: {"routes"}, slot: Slots, routes: SUBSET Prefixes]
RotateRequest == [op: {"rotate"}, slot: Slots, key: Keys]
DeleteRequest == [op: {"delete"}, slot: Slots]
DeleteForOwnerRequest == [op: {"deleteForOwner"}, owner: Owners]
NoRequest == [op |-> "none"]

LockedRequest == AddRequest \cup RenameRequest \cup RoutesRequest
UnlockedRequest == RotateRequest \cup DeleteRequest \cup DeleteForOwnerRequest
Request == LockedRequest \cup UnlockedRequest \cup {NoRequest}

NoAddress == [v4 |-> NoAddr, v6 |-> NoAddr]

\* Where a handler is inside the function the allocation lock protects.
Critical == {"addList", "addAddresses", "addCount", "addWrite",
             "renameGet", "renameList", "renameWrite",
             "routesGet", "routesCheck", "routesWrite"}
Unlocked == {"rotateGet", "rotateCheck", "rotateWrite",
             "deleteGet", "deleteWrite", "ownerList", "ownerDelete"}
HoldsMutex == Critical \cup {"dblock", "discard", "release", "unlock"}
Steps == HoldsMutex \cup Unlocked \cup {"idle", "mutex"}

VARIABLES
    devices,   \* the devices table; owner and name are its primary key
    mutex,     \* SQLStorage.allocationMu of each replica
    dbLock,    \* the handler whose database session holds the named lock
    pc, req,   \* where each handler is, and in which request
    addr,      \* addDeviceLocked's clientAddr
    existing,  \* whether Save found a row with the device's primary key
    listed,    \* the names of the rows DeleteForOwner listed
    dropped    \* whether a session was lost while it held the lock

locks == <<mutex, dbLock>>
locals == <<req, addr, existing, listed>>
vars == <<devices, mutex, dbLock, pc, req, addr, existing, listed, dropped>>

Stored == {s \in Slots : devices[s] # NoDevice}
OwnedBy(o) == {n \in Names : devices[<<o, n>>] # NoDevice}
KeyUsed(k) == \E s \in Stored : devices[s].key = k

Used4 == {devices[s].v4 : s \in Stored} \ {NoAddr}
Used6 == {devices[s].v6 : s \in Stored} \ {NoAddr}

Init ==
    /\ devices = [s \in Slots |-> NoDevice]
    /\ mutex = [r \in Replicas |-> Nobody]
    /\ dbLock = Nobody
    /\ pc = [h \in Handlers |-> "idle"]
    /\ req = [h \in Handlers |-> NoRequest]
    /\ addr = [h \in Handlers |-> NoAddress]
    /\ existing = [h \in Handlers |-> FALSE]
    /\ listed = [h \in Handlers |-> {}]
    /\ dropped = FALSE

Goto(h, l) == pc' = [pc EXCEPT ![h] = l]

\* The request is answered: the handler's locals are gone.
Forget(h) ==
    /\ req' = [req EXCEPT ![h] = NoRequest]
    /\ addr' = [addr EXCEPT ![h] = NoAddress]
    /\ existing' = [existing EXCEPT ![h] = FALSE]
    /\ listed' = [listed EXCEPT ![h] = {}]

-----------------------------------------------------------------------------
(* WithAllocationLock: the mutex of the process, then the database's lock. *)

\* A rename to the same name is answered without the lock or a change.
Start(h, r, first) ==
    /\ pc[h] = "idle"
    /\ req' = [req EXCEPT ![h] = r]
    /\ Goto(h, first)
    /\ UNCHANGED <<devices, locks, addr, existing, listed, dropped>>

StartLocked(h) ==
    \E r \in LockedRequest :
        /\ r.op = "rename" => r.newName # r.slot[2]
        /\ Start(h, r, "mutex")

FirstStep == [add |-> "addList", rename |-> "renameGet", routes |-> "routesGet"]

LockMutex(h) ==
    /\ pc[h] = "mutex"
    /\ mutex[On[h]] = Nobody
    /\ mutex' = [mutex EXCEPT ![On[h]] = h]
    /\ Goto(h, IF Distributed THEN "dblock" ELSE FirstStep[req[h].op])
    /\ UNCHANGED <<devices, dbLock, locals, dropped>>

\* The database grants the lock to the session of a handler.  It does not
\* know whether the handler still waits: a timeout may race the grant.
GrantDbLock(h) ==
    /\ pc[h] \in {"dblock", "discard"}
    /\ dbLock = Nobody
    /\ dbLock' = h
    /\ UNCHANGED <<devices, mutex, pc, locals, dropped>>

\* Mutant: the answer of the database ("not taken") is not looked at.
AcquireUnchecked(h) ==
    /\ pc[h] = "dblock"
    /\ Goto(h, FirstStep[req[h].op])
    /\ UNCHANGED <<devices, locks, locals, dropped>>

AcquireDbLock(h) ==
    /\ pc[h] = "dblock"
    /\ dbLock = h
    /\ Goto(h, FirstStep[req[h].op])
    /\ UNCHANGED <<devices, locks, locals, dropped>>

\* Mutant: the connection goes back to the pool after a failure.
AcquireFailsKeepConn(h) ==
    /\ pc[h] = "dblock"
    /\ Goto(h, "unlock")
    /\ UNCHANGED <<devices, locks, locals, dropped>>

\* No connection, a timeout or an error: whether the lock was taken is unknown.
AcquireFails(h) ==
    /\ pc[h] = "dblock"
    /\ Goto(h, "discard")
    /\ UNCHANGED <<devices, locks, locals, dropped>>

EndSession(h) == dbLock' = IF dbLock = h THEN Nobody ELSE dbLock

DiscardConn(h) ==
    /\ pc[h] = "discard"
    /\ EndSession(h)
    /\ Goto(h, "unlock")
    /\ UNCHANGED <<devices, mutex, locals, dropped>>

\* A release that fails closes the connection, which releases the lock too.
ReleaseDbLock(h) ==
    /\ pc[h] = "release"
    /\ EndSession(h)
    /\ Goto(h, "unlock")
    /\ UNCHANGED <<devices, mutex, locals, dropped>>

UnlockMutex(h) ==
    /\ pc[h] = "unlock"
    /\ mutex' = [mutex EXCEPT ![On[h]] = Nobody]
    /\ Goto(h, "idle")
    /\ Forget(h)
    /\ UNCHANGED <<devices, dbLock, dropped>>

\* The connection that holds the lock dies.  The protected function runs its
\* statements on other connections of the pool and does not notice.
DropSession(h) ==
    /\ SessionsDrop
    /\ dbLock = h
    /\ pc[h] \in Critical \cup {"release"}
    /\ dbLock' = Nobody
    /\ dropped' = TRUE
    /\ UNCHANGED <<devices, mutex, pc, locals>>

-----------------------------------------------------------------------------
(* addDeviceLocked and Save.                                               *)

\* From one statement of a handler to its next: only locals change.
ReadStep(h, from, to) ==
    /\ pc[h] = from
    /\ Goto(h, to)
    /\ UNCHANGED <<devices, locks, req, listed, dropped>>

\* Mutant: the limit is off by one.
OverQuotaByOne(o) ==
    MaxDevicesPerUser > 0 /\ Cardinality(OwnedBy(o)) > MaxDevicesPerUser

OverQuota(o) ==
    MaxDevicesPerUser > 0 /\ Cardinality(OwnedBy(o)) >= MaxDevicesPerUser

\* Mutant: the name of the new device is not compared with the owner's others.
AddListAnyName(h) ==
    /\ ReadStep(h, "addList",
                IF OverQuota(req[h].slot[1]) THEN "release" ELSE "addAddresses")
    /\ UNCHANGED <<addr, existing>>

AddList(h) ==
    LET o == req[h].slot[1]
        refused == devices[req[h].slot] # NoDevice \/ OverQuota(o)
    IN  /\ ReadStep(h, "addList", IF refused THEN "release" ELSE "addAddresses")
        /\ UNCHANGED <<addr, existing>>

\* Mutant: the next address is counted, not searched for.
NextByCount(client, used) == {a \in client : a = 2 + Cardinality(used)}

\* Mutant: the search runs one past the end of the subnet.
NextPastEnd(client, used) ==
    LET free == (client \cup {a + 1 : a \in client}) \ used
    IN  {a \in free : \A b \in free : a <= b}

\* The lowest free address of a family: one, or none when it is exhausted.
NextFree(client, used) ==
    {a \in client \ used : \A b \in client \ used : a <= b}

NextAddresses ==
    [v4: IF Size4 = 0 THEN {NoAddr} ELSE NextFree(Client4, Used4),
     v6: IF Size6 = 0 THEN {NoAddr} ELSE NextFree(Client6, Used6)]

ManualAllowed(m) ==
    /\ m.v4 # NoAddr => m.v4 \in Client4 \ Used4
    /\ m.v6 # NoAddr => m.v6 \in Client6 \ Used6

\* Mutant: a manual assignment that names no address is accepted.
ChoicesMayBeNone(want) ==
    IF want = Automatic THEN NextAddresses
    ELSE {[v4 |-> m.v4, v6 |-> m.v6] : m \in {x \in {want} : ManualAllowed(x)}}

\* The address a new device gets, an empty set when the request is refused.
Choices(want) ==
    (IF want = Automatic THEN NextAddresses
     ELSE {[v4 |-> m.v4, v6 |-> m.v6] : m \in {x \in {want} : ManualAllowed(x)}})
    \ {NoAddress}

AddAddresses(h) ==
    /\ pc[h] = "addAddresses"
    /\ \/ \E a \in Choices(req[h].want) :
            /\ ReadStep(h, "addAddresses", "addCount")
            /\ addr' = [addr EXCEPT ![h] = a]
       \/ /\ Choices(req[h].want) = {}
          /\ ReadStep(h, "addAddresses", "release")
          /\ UNCHANGED addr
    /\ UNCHANGED existing

AddCount(h) ==
    /\ ReadStep(h, "addCount", "addWrite")
    /\ existing' = [existing EXCEPT ![h] = devices[req[h].slot] # NoDevice]
    /\ UNCHANGED addr

\* Mutant: public_key has no unique index.
KeyUnindexed(slot, k) == TRUE

\* The unique index on public_key, for a row that is about to be written.
KeyFree(slot, k) == \A s \in Stored \ {slot} : devices[s].key # k

\* Writes one row; the handler goes on at l whether or not that succeeds.
WriteRow(h, l, allowed, table) ==
    /\ Goto(h, l)
    /\ devices' = IF allowed THEN table ELSE devices
    /\ UNCHANGED <<locks, locals, dropped>>

\* INSERT fails on a row that exists, UPDATE does nothing to one that does not.
AddWrite(h) ==
    LET slot == req[h].slot
        row == [key |-> req[h].key, v4 |-> addr[h].v4, v6 |-> addr[h].v6,
                routes |-> {}]
    IN  /\ pc[h] = "addWrite"
        /\ WriteRow(h, "release",
                    /\ existing[h] <=> devices[slot] # NoDevice
                    /\ KeyFree(slot, row.key),
                    [devices EXCEPT ![slot] = row])

-----------------------------------------------------------------------------
(* RenameDevice and Rename.                                                *)

NewSlot(h) == <<req[h].slot[1], req[h].newName>>

RenameGet(h) ==
    /\ ReadStep(h, "renameGet",
                IF devices[req[h].slot] = NoDevice THEN "release" ELSE "renameList")
    /\ UNCHANGED <<addr, existing>>

RenameList(h) ==
    /\ ReadStep(h, "renameList",
                IF devices[NewSlot(h)] # NoDevice THEN "release" ELSE "renameWrite")
    /\ UNCHANGED <<addr, existing>>

RenameWrite(h) ==
    LET slot == req[h].slot
    IN  /\ pc[h] = "renameWrite"
        /\ WriteRow(h, "release",
                    devices[slot] # NoDevice /\ devices[NewSlot(h)] = NoDevice,
                    [devices EXCEPT ![NewSlot(h)] = devices[slot],
                                    ![slot] = NoDevice])

-----------------------------------------------------------------------------
(* SetDeviceRoutes, checkRoutes and SetRoutes.                             *)

Overlaps(a, b) == a \cap b # {}

\* Mutant: only equal networks of other devices are refused.
RoutesNotEqual(slot, routes) ==
    \A r \in routes :
        /\ ~Overlaps(r, ReservedPoints)
        /\ \A s \in Stored \ {slot} : r \notin devices[s].routes

RoutesAllowed(slot, routes) ==
    \A r \in routes :
        /\ ~Overlaps(r, ReservedPoints)
        /\ \A s \in Stored \ {slot} :
            \A taken \in devices[s].routes : ~Overlaps(taken, r)

RoutesGet(h) ==
    /\ ReadStep(h, "routesGet",
                IF devices[req[h].slot] = NoDevice THEN "release" ELSE "routesCheck")
    /\ UNCHANGED <<addr, existing>>

RoutesCheck(h) ==
    /\ ReadStep(h, "routesCheck",
                IF RoutesAllowed(req[h].slot, req[h].routes)
                THEN "routesWrite" ELSE "release")
    /\ UNCHANGED <<addr, existing>>

RoutesWrite(h) ==
    LET slot == req[h].slot
    IN  /\ pc[h] = "routesWrite"
        /\ WriteRow(h, "release", devices[slot] # NoDevice,
                    [devices EXCEPT ![slot] =
                        [@ EXCEPT !.routes = req[h].routes]])

-----------------------------------------------------------------------------
(* What does not take the lock: RotateDeviceKey, DeleteDevice and          *)
(* DeleteDevicesForUser.                                                   *)

UnlockedFirst == [rotate |-> "rotateGet", delete |-> "deleteGet",
                  deleteForOwner |-> "ownerList"]

StartUnlocked(h) == \E r \in UnlockedRequest : Start(h, r, UnlockedFirst[r.op])

\* A read outside the lock; refused ends the request with an error.
CheckStep(h, from, refused, to) ==
    /\ pc[h] = from
    /\ UNCHANGED <<devices, locks, dropped>>
    /\ \/ ~refused /\ Goto(h, to) /\ UNCHANGED locals
       \/ refused /\ Goto(h, "idle") /\ Forget(h)

\* The last statement of a request outside the lock.
LastWrite(h, from, table) ==
    /\ pc[h] = from
    /\ devices' = table
    /\ Goto(h, "idle")
    /\ Forget(h)
    /\ UNCHANGED <<locks, dropped>>

RotateGet(h) ==
    CheckStep(h, "rotateGet",
              \/ devices[req[h].slot] = NoDevice
              \/ devices[req[h].slot].key = req[h].key,
              "rotateCheck")

\* A lookup that fails is taken for one that finds no other device.
RotateCheck(h) ==
    /\ pc[h] = "rotateCheck"
    /\ \E used \in {KeyUsed(req[h].key), FALSE} :
        CheckStep(h, "rotateCheck", used, "rotateWrite")

RotateWrite(h) ==
    LET slot == req[h].slot
    IN  LastWrite(h, "rotateWrite",
            IF devices[slot] # NoDevice /\ KeyFree(slot, req[h].key)
            THEN [devices EXCEPT ![slot] = [@ EXCEPT !.key = req[h].key]]
            ELSE devices)

DeleteGet(h) ==
    CheckStep(h, "deleteGet", devices[req[h].slot] = NoDevice, "deleteWrite")

DeleteWrite(h) ==
    LastWrite(h, "deleteWrite", [devices EXCEPT ![req[h].slot] = NoDevice])

\* DeleteForOwner's transaction lists the rows first and then deletes each of
\* them by its primary key.
OwnerList(h) ==
    /\ pc[h] = "ownerList"
    /\ listed' = [listed EXCEPT ![h] = OwnedBy(req[h].owner)]
    /\ Goto(h, "ownerDelete")
    /\ UNCHANGED <<devices, locks, req, addr, existing, dropped>>

OwnerDelete(h) ==
    LastWrite(h, "ownerDelete",
        [s \in Slots |-> IF s[1] = req[h].owner /\ s[2] \in listed[h]
                         THEN NoDevice ELSE devices[s]])

-----------------------------------------------------------------------------
(* Failures.                                                               *)

\* Mutant: a failed statement returns without the deferred unlock.
FailsWithoutUnlock(h) ==
    /\ UNCHANGED <<devices, locks, dropped>>
    /\ pc[h] \in (Critical \cup Unlocked) \ {"rotateCheck"}
    /\ Goto(h, "idle")
    /\ Forget(h)

\* A statement fails: the request ends with an error, by way of the deferred
\* unlock when it holds the lock.
QueryFails(h) ==
    /\ UNCHANGED <<devices, locks, dropped>>
    /\ \/ pc[h] \in Critical /\ Goto(h, "release") /\ UNCHANGED locals
       \/ pc[h] \in Unlocked \ {"rotateCheck"} /\ Goto(h, "idle") /\ Forget(h)

\* The process ends; the database ends its sessions and with them the lock.
Crash(r) ==
    LET gone == {h \in Handlers : On[h] = r}
    IN  /\ pc' = [h \in Handlers |-> IF h \in gone THEN "idle" ELSE pc[h]]
        /\ req' = [h \in Handlers |-> IF h \in gone THEN NoRequest ELSE req[h]]
        /\ addr' = [h \in Handlers |-> IF h \in gone THEN NoAddress ELSE addr[h]]
        /\ existing' = [h \in Handlers |-> h \notin gone /\ existing[h]]
        /\ listed' = [h \in Handlers |-> IF h \in gone THEN {} ELSE listed[h]]
        /\ mutex' = [mutex EXCEPT ![r] = Nobody]
        /\ dbLock' = IF dbLock \in gone THEN Nobody ELSE dbLock
        /\ UNCHANGED <<devices, dropped>>

\* What a handler does once its request has started.
Step(h) ==
    \/ LockMutex(h) \/ AcquireDbLock(h) \/ AcquireFails(h) \/ DiscardConn(h)
    \/ AddList(h) \/ AddAddresses(h) \/ AddCount(h) \/ AddWrite(h)
    \/ RenameGet(h) \/ RenameList(h) \/ RenameWrite(h)
    \/ RoutesGet(h) \/ RoutesCheck(h) \/ RoutesWrite(h)
    \/ ReleaseDbLock(h) \/ UnlockMutex(h)
    \/ RotateGet(h) \/ RotateCheck(h) \/ RotateWrite(h)
    \/ DeleteGet(h) \/ DeleteWrite(h) \/ OwnerList(h) \/ OwnerDelete(h)
    \/ QueryFails(h)

Next ==
    \/ \E h \in Handlers : \/ StartLocked(h) \/ StartUnlocked(h)
                           \/ Step(h) \/ GrantDbLock(h) \/ DropSession(h)
    \/ \E r \in Replicas : Crash(r)

Spec == Init /\ [][Next]_vars

\* A goroutine that can run does.  Go hands a contended mutex to whoever has
\* waited longest, so waiting for it is strongly fair.  The database's lock
\* needs no fairness: waiting for it is bounded by a timeout.
Fairness ==
    \A h \in Handlers : WF_vars(Step(h)) /\ SF_vars(LockMutex(h))

FairSpec == Spec /\ Fairness

-----------------------------------------------------------------------------
(* Properties.                                                             *)

\* Every variable has its type.
TypeOK ==
    /\ devices \in [Slots -> Device \cup {NoDevice}]
    /\ mutex \in [Replicas -> Handlers \cup {Nobody}]
    /\ dbLock \in Handlers \cup {Nobody}
    /\ pc \in [Handlers -> Steps]
    /\ req \in [Handlers -> Request]
    /\ addr \in [Handlers -> [v4: Client4 \cup {NoAddr}, v6: Client6 \cup {NoAddr}]]
    /\ existing \in [Handlers -> BOOLEAN]
    /\ listed \in [Handlers -> SUBSET Names]
    /\ dropped \in BOOLEAN

\* WithAllocationLock: no two requests, on whatever replicas, are inside the
\* protected function at once, as long as no lock session is lost.
LockExclusion ==
    ~dropped => \A g, h \in Handlers :
        pc[g] \in Critical /\ pc[h] \in Critical => g = h

\* No two devices share an address of either family: the promise of the
\* comment in AddDevice, without its assumption about the lock's session.
AddressesUnique ==
    \A s, t \in Stored : s # t =>
        /\ devices[s].v4 = devices[t].v4 => devices[s].v4 = NoAddr
        /\ devices[s].v6 = devices[t].v6 => devices[s].v6 = NoAddr

\* The same, as long as no session that holds the lock is lost.
AddressesUniqueUnderLock == ~dropped => AddressesUnique

\* No device has the network address, the server's address or one outside the
\* subnet, and every device has an address (addDeviceLocked's validation).
AddressesUsable ==
    \A s \in Stored :
        /\ devices[s].v4 \in Client4 \cup {NoAddr}
        /\ devices[s].v6 \in Client6 \cup {NoAddr}
        /\ devices[s].v4 # NoAddr \/ devices[s].v6 # NoAddr

\* Concurrent requests do not slip past the limit of devices per user.
QuotaHeld ==
    ~dropped /\ MaxDevicesPerUser > 0 =>
        \A o \in Owners : Cardinality(OwnedBy(o)) <= MaxDevicesPerUser

\* No network is routed to two devices, and none is the VPN's or the server's:
\* what checkRoutes found still holds when SetRoutes writes.
RoutesDisjoint ==
    ~dropped => \A s \in Stored : \A r \in devices[s].routes :
        /\ ~Overlaps(r, ReservedPoints)
        /\ \A t \in Stored \ {s} : \A q \in devices[t].routes : ~Overlaps(q, r)

\* The database's lock is never left with a session nobody will release or
\* discard, which would block device creation on every replica.
NoStrayLock ==
    dbLock # Nobody => pc[dbLock] \in Critical \cup {"dblock", "discard", "release"}

\* Every request is answered, whatever the other requests and replicas do.
RequestsFinish == \A h \in Handlers : pc[h] # "idle" ~> pc[h] = "idle"
=============================================================================
