------------------------------ MODULE PeerSync ------------------------------
(***************************************************************************)
(* How the peers of the WireGuard interfaces follow the devices table:     *)
(* StartSync, sync, applyPeer and removeBlockedPeers of internal/devices,  *)
(* the events of the storage watchers, and the requests that write.        *)
(*                                                                         *)
(* A peer is brought up to date in three ways: at once, from the copy of   *)
(* the row that an event carries (the "gorm" backends, in the process that *)
(* wrote); by a synchronization that lists the table and then the peers,   *)
(* and repairs the differences; and by the pass that takes the peers of    *)
(* blocked and expired devices away.  Listing and acting are separate      *)
(* steps, and every call to the interface is one.                          *)
(*                                                                         *)
(* "conf" is what a peer is configured with, its allowed IPs; a key stands *)
(* for a public key with its pre-shared key.                               *)
(***************************************************************************)
EXTENDS Integers, Sequences, FiniteSets, SequencesExt

CONSTANTS
    Replicas, Handlers,
    Deployments,  \* the backends and placements of handlers to look at
    Slots,        \* the primary keys (owner and name) of one owner's devices
    Keys, Confs,
    Requests,     \* the requests that occur with each backend
    Changes,      \* the changes of access (AccessChange) that it includes
    MaxTime,      \* bound of the clock
    MaxNotes,     \* bound of the notifications on their way to a replica; what
                  \* exceeds it is taken for one with the last of them
    MaxFails,     \* bound of the calls to the interface that fail
    MaxRestarts,  \* bound of the restarts of replicas
    Never, Keep, NoDevice, NoPeer, Nobody

\* "gorm": SQLite and MySQL, whose events only the writing process sees, so that
\* one process serves them; "postgres": triggers and NOTIFY.
Backends == {"gorm", "postgres"}

Times == 1 .. MaxTime
Row == [key: Keys, conf: Confs, disabled: BOOLEAN, expires: Times \cup {Never}]

ASSUME PeerAssumption ==
    /\ Deployments \subseteq [backend: Backends, on: [Handlers -> Replicas]]
    /\ \A d \in Deployments :
        d.backend = "gorm" => \A g, h \in Handlers : d.on[g] = d.on[h]
    /\ {MaxTime, MaxFails, MaxRestarts} \subseteq Nat /\ MaxNotes \in Nat \ {0}
    /\ IsFiniteSet(Slots)
    /\ Never \notin Nat /\ Keep \notin Nat /\ Keep \notin BOOLEAN /\ Keep # Never
    /\ NoDevice \notin Row /\ NoPeer \notin Confs /\ Nobody \notin Handlers

ASSUME ChangesAssumption ==
    Changes \subseteq [disabled: BOOLEAN \cup {Keep},
                       expires: Times \cup {Keep, Never}]

\* What a request asks for.  Blocking and deleting an owner's devices name none.
AddJob == [op: {"add"}, slot: Slots, key: Keys, conf: Confs]
RenameJob == [op: {"rename"}, slot: Slots, newSlot: Slots]
RoutesJob == [op: {"routes"}, slot: Slots, conf: Confs]
AccessJob == [op: {"access"}, slot: Slots, change: Changes]
RotateJob == [op: {"rotate"}, slot: Slots, key: Keys]
DeleteJob == [op: {"delete"}, slot: Slots]
OwnerJob == [op: {"block", "deleteAll"}]
NoJob == [op |-> "none"]
Job == AddJob \cup RenameJob \cup RoutesJob \cup AccessJob \cup RotateJob
       \cup DeleteJob \cup OwnerJob

ASSUME RequestsAssumption == Requests \in [Backends -> SUBSET Job]

Locked == {"add", "rename", "routes"}

VARIABLES
    backend,    \* the storage of this deployment
    on,         \* the replica each handler runs on
    now,        \* the clock
    rows,       \* the devices table
    lock,       \* the allocation lock
    pc, job,    \* where each handler is, and in which request
    copy,       \* the rows the handler read
    queue,      \* the events the handler still has to run the callbacks of
    peers,      \* the peers of each replica's interface
    resync,     \* whether the one-element channel d.resync is full
    sync,       \* the synchronizations: at the start and in resyncLoop
    access,     \* the pass of accessLoop
    notes,      \* notifications on their way to each replica
    connected,  \* whether a replica's listener is connected
    fails, restarts,
    raced       \* history: what acts on a list or a row older than the table

deployment == <<backend, on>>
handlerVars == <<pc, job, copy, queue>>
replicaVars == <<resync, sync, access, notes, connected, restarts>>
vars == <<backend, on, now, rows, lock, pc, job, copy, queue, peers, resync, sync,
          access, notes, connected, fails, restarts, raced>>

\* The processes that serve this deployment.
Running == {on[h] : h \in Handlers}

Stored == {s \in Slots : rows[s] # NoDevice}
Expired(row) == row.expires # Never /\ row.expires <= now
AccessAllowed(row) == ~row.disabled /\ ~Expired(row)

NoRows == [s \in Slots |-> NoDevice]
NoPeers == [k \in Keys |-> NoPeer]
Syncers == {"boot", "loop"}

\* A synchronization between two runs: its locals are gone.
AtRest(l) == [pc |-> l, seen |-> NoRows, remove |-> {}, add |-> {}]

Init ==
    /\ \E d \in Deployments : backend = d.backend /\ on = d.on
    /\ now = 0 /\ rows = NoRows /\ lock = Nobody
    /\ pc = [h \in Handlers |-> "idle"]
    /\ job = [h \in Handlers |-> NoJob]
    /\ copy = [h \in Handlers |-> NoRows]
    /\ queue = [h \in Handlers |-> <<>>]
    /\ peers = [r \in Replicas |-> NoPeers]
    /\ resync = [r \in Replicas |-> FALSE]
    /\ sync = [r \in Replicas |-> [boot |-> AtRest("list"), loop |-> AtRest("wait")]]
    /\ access = [r \in Replicas |-> [pc |-> "idle", blocked |-> {}, remove |-> {}]]
    /\ notes = [r \in Replicas |-> 0]
    /\ connected = [r \in Replicas |-> TRUE]
    /\ fails = 0 /\ restarts = 0
    /\ raced = [r \in Replicas |-> {}]

Tick ==
    /\ now < MaxTime
    /\ now' = now + 1
    /\ UNCHANGED <<rows, lock, handlerVars, peers, replicaVars, fails, raced>>

-----------------------------------------------------------------------------
(* The interface and the resync channel.                                   *)

\* A call that configures or removes a peer; a failure is only logged.
SetPeer(r, k, p) ==
    \/ /\ peers' = [peers EXCEPT ![r][k] = p]
       /\ UNCHANGED fails
    \/ /\ fails < MaxFails
       /\ fails' = fails + 1
       /\ UNCHANGED peers

\* applyPeer: a device that may connect has a peer, any other has none.
ApplyPeer(r, row) ==
    SetPeer(r, row.key, IF AccessAllowed(row) THEN row.conf ELSE NoPeer)

\* Mutant: the channel has no buffer, and the send is dropped while the loop works.
ResyncUnbuffered(r) ==
    resync' = [resync EXCEPT ![r] = @ \/ sync[r].loop.pc = "wait"]

\* A send that does not block: one resynchronization is remembered.
Resync(r) == resync' = [resync EXCEPT ![r] = TRUE]

-----------------------------------------------------------------------------
(* The requests: read, write, run the callbacks of the events.             *)

SlotOp(j) == j.op \notin {"block", "deleteAll"}

\* What a request reads before it writes; a new device is not read but made.
WhatIsRead(j) ==
    IF ~SlotOp(j) THEN rows
    ELSE [NoRows EXCEPT ![j.slot] =
            IF j.op = "add" THEN [key |-> j.key, conf |-> j.conf,
                                  disabled |-> FALSE, expires |-> Never]
            ELSE rows[j.slot]]

\* A request that is refused leaves no trace and is not modelled.
Accepted(j) ==
    /\ j.op \in Locked => lock = Nobody
    /\ SlotOp(j) => (j.op = "add" <=> rows[j.slot] = NoDevice)
    /\ j.op = "rename" => rows[j.newSlot] = NoDevice
    /\ j.op = "rotate" => \A s \in Stored : rows[s].key # j.key

\* The server takes requests once its first synchronization is done.
Start(h) ==
    /\ pc[h] = "idle"
    /\ sync[on[h]].boot.pc = "wait"
    /\ \E j \in Requests[backend] :
        /\ Accepted(j)
        /\ job' = [job EXCEPT ![h] = j]
        /\ copy' = [copy EXCEPT ![h] = WhatIsRead(j)]
        /\ lock' = IF j.op \in Locked THEN h ELSE lock
    /\ pc' = [pc EXCEPT ![h] = "write"]
    /\ UNCHANGED <<now, rows, queue, peers, replicaVars, fails, raced>>

\* A field of the change, or what was read when the field is not set.
Given(field, read) == IF field = Keep THEN read ELSE field

\* The row as the request leaves it, computed from the row that was read or,
\* in the UPDATE statement, from the row that is stored.
Changed(j, row, read) ==
    IF row = NoDevice THEN NoDevice
    ELSE CASE j.op = "routes" -> [row EXCEPT !.conf = j.conf]
           [] j.op = "rotate" -> [row EXCEPT !.key = j.key]
           [] j.op = "access" ->
                [row EXCEPT !.disabled = Given(j.change.disabled, read.disabled),
                            !.expires = Given(j.change.expires, read.expires)]
           [] j.op = "block" -> [row EXCEPT !.disabled = TRUE]
           [] OTHER -> row

\* The rows that the statements of the request name.
Target(j, read) ==
    IF SlotOp(j) THEN {j.slot}
    ELSE {s \in Slots : read[s] # NoDevice /\ (j.op = "block" => ~read[s].disabled)}

NewTable(j, read) ==
    [s \in Slots |->
        CASE j.op = "rename" /\ s = j.newSlot -> rows[j.slot]
          [] j.op = "rename" /\ s = j.slot -> NoDevice
          [] j.op = "add" /\ s = j.slot -> read[s]
          [] j.op \in {"delete", "deleteAll"} /\ s \in Target(j, read) -> NoDevice
          [] j.op \in {"routes", "rotate", "access", "block"}
                /\ s \in Target(j, read) -> Changed(j, rows[s], read[s])
          [] OTHER -> rows[s]]

\* The unique index, a row that is gone, and an expiry date in the past.
Writable(j, read) ==
    /\ j.op \in {"add", "rotate"} =>
        \A s \in Stored \ {j.slot} : rows[s].key # j.key
    /\ j.op \in {"rename", "routes", "rotate", "access"} => rows[j.slot] # NoDevice
    /\ j.op = "rename" => rows[j.newSlot] = NoDevice
    /\ j.op = "access" /\ j.change.expires \in Times => j.change.expires > now

\* The rows are the ones that were read, with the request's change, in the order
\* in which the database lists them: any.  A delete is reported twice, by gorm's
\* callback and by EmitDelete.
Events(j, read) ==
    LET row(s) == Changed(j, read[s], read[s])
        one(s) == IF j.op \in {"delete", "deleteAll"}
                  THEN [kind |-> "remove", row |-> row(s)]
                  ELSE [kind |-> "apply", row |-> row(s)]
        all == SetToSeqs({one(s) : s \in Target(j, read)})
    IN  IF j.op = "delete" THEN {e \o e : e \in all} ELSE all

\* Who on replica r acts on what it read before the write of h.
Stale(r, h) ==
    (IF sync[r].boot.pc \in {"peers", "apply"} THEN {"boot"} ELSE {})
    \cup (IF access[r].pc # "idle" THEN {"access"} ELSE {})
    \cup {job[g].op : g \in {x \in Handlers \ {h} :
                                on[x] = r /\ job[x].op = "rotate"}}

\* A trigger notifies the replicas that listen; gorm's callbacks run here.
Commit(h, table, events) ==
    /\ rows' = table
    /\ raced' = IF table = rows THEN raced
                ELSE [r \in Replicas |-> raced[r] \cup Stale(r, h)]
    /\ IF backend = "gorm"
       THEN queue' = [queue EXCEPT ![h] = events] /\ UNCHANGED notes
       ELSE /\ notes' = [r \in Replicas |->
                IF connected[r] /\ table # rows /\ notes[r] < MaxNotes
                THEN notes[r] + 1 ELSE notes[r]]
            /\ UNCHANGED queue

EndRequest(h) ==
    /\ pc' = [pc EXCEPT ![h] = "idle"]
    /\ job' = [job EXCEPT ![h] = NoJob]
    /\ copy' = [copy EXCEPT ![h] = NoRows]
    /\ lock' = IF lock = h THEN Nobody ELSE lock

\* What follows the write: callbacks, the rest of RotateDeviceKey, the answer.
Proceed(h, events) ==
    IF events # <<>> \/ job[h].op = "rotate"
    THEN /\ pc' = [pc EXCEPT ![h] = IF events # <<>> THEN "emit" ELSE "rotateRemove"]
         /\ UNCHANGED <<lock, job, copy>>
    ELSE EndRequest(h)

Write(h) ==
    /\ pc[h] = "write"
    /\ IF Writable(job[h], copy[h])
       THEN \E events \in Events(job[h], copy[h]) :
                /\ Commit(h, NewTable(job[h], copy[h]), events)
                /\ Proceed(h, IF backend = "gorm" THEN events ELSE <<>>)
       ELSE EndRequest(h) /\ UNCHANGED <<rows, raced, queue, notes>>
    /\ UNCHANGED <<now, peers, resync, sync, access, connected, fails, restarts>>

\* Mutant: the callbacks ask for no resync.
EmitNoResync(h) ==
    /\ pc[h] = "emit"
    /\ LET e == Head(queue[h])
       IN  IF e.kind = "apply" THEN ApplyPeer(on[h], e.row)
           ELSE SetPeer(on[h], e.row.key, NoPeer)
    /\ queue' = [queue EXCEPT ![h] = Tail(@)]
    /\ Proceed(h, Tail(queue[h]))
    /\ UNCHANGED <<now, rows, resync, sync, access, notes, connected, restarts, raced>>

\* The callbacks that StartSync registered: the peer first, then a resync.
Emit(h) ==
    /\ pc[h] = "emit"
    /\ LET e == Head(queue[h])
       IN  IF e.kind = "apply" THEN ApplyPeer(on[h], e.row)
           ELSE SetPeer(on[h], e.row.key, NoPeer)
    /\ Resync(on[h])
    /\ queue' = [queue EXCEPT ![h] = Tail(@)]
    /\ Proceed(h, Tail(queue[h]))
    /\ UNCHANGED <<now, rows, sync, access, notes, connected, restarts, raced>>

\* RotateDeviceKey replaces the peer itself, without a resync after it.
RotateRemove(h) ==
    /\ pc[h] = "rotateRemove"
    /\ SetPeer(on[h], copy[h][job[h].slot].key, NoPeer)
    /\ pc' = [pc EXCEPT ![h] = "rotateApply"]
    /\ UNCHANGED <<now, rows, lock, job, copy, queue, replicaVars, raced>>

RotateApply(h) ==
    LET read == copy[h][job[h].slot]
    IN  /\ pc[h] = "rotateApply"
        /\ ApplyPeer(on[h], Changed(job[h], read, read))
        /\ EndRequest(h)
        /\ UNCHANGED <<now, rows, queue, replicaVars, raced>>

-----------------------------------------------------------------------------
(* sync: once in StartSync ("boot") and then in resyncLoop ("loop"), which *)
(* is started before the first one is done.                                *)

\* The part of a step of synchronization a on replica r that is about it alone.
SyncStep(r, a, from, to) ==
    /\ sync[r][a].pc = from
    /\ sync' = [sync EXCEPT ![r][a] = to]
    /\ UNCHANGED <<now, rows, lock, handlerVars, access, notes, connected,
                   restarts, raced>>

\* A synchronization that has nothing left to do is done.
DoneOr(x) == IF x.remove = {} /\ x.add = {} THEN AtRest("wait") ELSE x

\* resyncLoop receives from the channel.
ResyncReceive(r) ==
    /\ resync[r]
    /\ SyncStep(r, "loop", "wait", AtRest("list"))
    /\ resync' = [resync EXCEPT ![r] = FALSE]
    /\ UNCHANGED <<peers, fails>>

SyncListDevices(r, a) ==
    /\ SyncStep(r, a, "list", [AtRest("peers") EXCEPT !.seen = rows])
    /\ UNCHANGED <<resync, peers, fails>>

\* The peers nobody allowed has go; the ones that are missing or differ come.
SyncListPeers(r, a) ==
    LET seen == sync[r][a].seen
        allowed == {seen[s] : s \in {x \in Slots :
                        seen[x] # NoDevice /\ AccessAllowed(seen[x])}}
        configured == {k \in Keys : peers[r][k] # NoPeer}
    IN  /\ SyncStep(r, a, "peers",
                DoneOr([AtRest("apply") EXCEPT
                    !.remove = configured \ {row.key : row \in allowed},
                    !.add = {row \in allowed : peers[r][row.key] # row.conf}]))
        /\ UNCHANGED <<resync, peers, fails>>

SyncRemovePeer(r, a) ==
    \E k \in sync[r][a].remove :
        /\ SyncStep(r, a, "apply", DoneOr([sync[r][a] EXCEPT !.remove = @ \ {k}]))
        /\ SetPeer(r, k, NoPeer)
        /\ UNCHANGED resync

SyncAddPeer(r, a) ==
    \E row \in sync[r][a].add :
        /\ sync[r][a].remove = {}
        /\ SyncStep(r, a, "apply", DoneOr([sync[r][a] EXCEPT !.add = @ \ {row}]))
        /\ SetPeer(r, row.key, row.conf)
        /\ UNCHANGED resync

\* A list that fails ends a resynchronization, with nothing but a log entry.
\* In StartSync it ends the process.
SyncFails(r) ==
    /\ sync[r].loop.pc \in {"list", "peers"}
    /\ fails < MaxFails
    /\ fails' = fails + 1
    /\ SyncStep(r, "loop", sync[r].loop.pc, AtRest("wait"))
    /\ UNCHANGED <<resync, peers>>

-----------------------------------------------------------------------------
(* accessLoop and removeBlockedPeers.                                      *)

AccessStep(r, from, to) ==
    /\ access[r].pc = from
    /\ access' = [access EXCEPT ![r] = to]
    /\ UNCHANGED <<now, rows, lock, handlerVars, resync, sync, notes, connected,
                   restarts, raced>>

AccessAtRest == [pc |-> "idle", blocked |-> {}, remove |-> {}]

\* Mutant: the pass looks for blocked devices and not for expired ones.
AccessListDisabled(r) ==
    LET blocked == {rows[s].key : s \in {x \in Stored : rows[x].disabled}}
    IN  /\ sync[r].boot.pc = "wait"
        /\ blocked # {}
        /\ AccessStep(r, "idle", [AccessAtRest EXCEPT !.pc = "peers",
                                                      !.blocked = blocked])
        /\ UNCHANGED <<peers, fails>>

\* The loop starts after the first synchronization; nothing blocked ends a pass.
AccessListDevices(r) ==
    LET blocked == {rows[s].key : s \in {x \in Stored : ~AccessAllowed(rows[x])}}
    IN  /\ sync[r].boot.pc = "wait"
        /\ blocked # {}
        /\ AccessStep(r, "idle", [AccessAtRest EXCEPT !.pc = "peers",
                                                      !.blocked = blocked])
        /\ UNCHANGED <<peers, fails>>

AccessRemaining(keys) ==
    IF keys = {} THEN AccessAtRest
    ELSE [AccessAtRest EXCEPT !.pc = "remove", !.remove = keys]

AccessListPeers(r) ==
    /\ AccessStep(r, "peers", AccessRemaining(
            {k \in access[r].blocked : peers[r][k] # NoPeer}))
    /\ UNCHANGED <<peers, fails>>

AccessRemovePeer(r) ==
    \E k \in access[r].remove :
        /\ AccessStep(r, "remove", AccessRemaining(access[r].remove \ {k}))
        /\ SetPeer(r, k, NoPeer)

\* A list of the peers that fails ends the pass; the next one starts anew.
AccessFails(r) ==
    /\ fails < MaxFails
    /\ fails' = fails + 1
    /\ AccessStep(r, "peers", AccessAtRest)
    /\ UNCHANGED peers

-----------------------------------------------------------------------------
(* The listener of a Postgres replica, and the end of a process.           *)

\* Every notification comes without its row and asks for a resync.
Notified(r) ==
    /\ connected[r] /\ notes[r] > 0
    /\ notes' = [notes EXCEPT ![r] = @ - 1]
    /\ Resync(r)
    /\ UNCHANGED <<now, rows, lock, handlerVars, peers, sync, access, connected,
                   fails, restarts, raced>>

\* What was on its way is lost, and so is what happens until the reconnect.
Disconnect(r) ==
    /\ backend = "postgres"
    /\ connected[r]
    /\ connected' = [connected EXCEPT ![r] = FALSE]
    /\ notes' = [notes EXCEPT ![r] = 0]
    /\ UNCHANGED <<now, rows, lock, handlerVars, peers, resync, sync, access,
                   fails, restarts, raced>>

Reconnect(r) ==
    /\ ~connected[r]
    /\ connected' = [connected EXCEPT ![r] = TRUE]
    /\ Resync(r)
    /\ UNCHANGED <<now, rows, lock, handlerVars, peers, sync, access, notes,
                   fails, restarts, raced>>

\* A process ends, with its handlers, and starts again with a new interface.
Restart(r) ==
    LET gone == {h \in Handlers : on[h] = r}
    IN  /\ restarts < MaxRestarts
        /\ restarts' = restarts + 1
        /\ pc' = [h \in Handlers |-> IF h \in gone THEN "idle" ELSE pc[h]]
        /\ job' = [h \in Handlers |-> IF h \in gone THEN NoJob ELSE job[h]]
        /\ copy' = [h \in Handlers |-> IF h \in gone THEN NoRows ELSE copy[h]]
        /\ queue' = [h \in Handlers |-> IF h \in gone THEN <<>> ELSE queue[h]]
        /\ lock' = IF lock \in gone THEN Nobody ELSE lock
        /\ peers' = [peers EXCEPT ![r] = NoPeers]
        /\ resync' = [resync EXCEPT ![r] = FALSE]
        /\ sync' = [sync EXCEPT ![r] = [boot |-> AtRest("list"),
                                        loop |-> AtRest("wait")]]
        /\ access' = [access EXCEPT ![r] = AccessAtRest]
        /\ notes' = [notes EXCEPT ![r] = 0]
        /\ connected' = [connected EXCEPT ![r] = TRUE]
        /\ raced' = [raced EXCEPT ![r] = {}]
        /\ UNCHANGED <<now, rows, fails>>

-----------------------------------------------------------------------------
HandlerStep(h) ==
    /\ UNCHANGED deployment
    /\ Write(h) \/ Emit(h) \/ RotateRemove(h) \/ RotateApply(h)

\* A step of a process that runs, which does not change the deployment.
ReplicaStep(r, Step(_)) == r \in Running /\ Step(r) /\ UNCHANGED deployment

LoopStep(r) == ResyncReceive(r) \/
    \E a \in Syncers : \/ SyncListDevices(r, a) \/ SyncListPeers(r, a)
                       \/ SyncRemovePeer(r, a) \/ SyncAddPeer(r, a)

PassStep(r) == AccessListDevices(r) \/ AccessListPeers(r) \/ AccessRemovePeer(r)

Next ==
    /\ UNCHANGED deployment
    /\ \/ Tick
       \/ \E h \in Handlers : Start(h) \/ HandlerStep(h)
       \/ \E r \in Running : \/ LoopStep(r) \/ PassStep(r)
                             \/ SyncFails(r) \/ AccessFails(r)
                             \/ Notified(r) \/ Disconnect(r) \/ Reconnect(r)
                             \/ Restart(r)

Spec == Init /\ [][Next]_vars

\* Goroutines that can run do, the loops are never stopped, the listener
\* reconnects and hears what Postgres sends.  No request has to arrive.
Fairness ==
    /\ \A h \in Handlers : WF_vars(HandlerStep(h))
    /\ \A r \in Replicas :
        /\ WF_vars(ReplicaStep(r, PassStep)) /\ WF_vars(ReplicaStep(r, LoopStep))
        /\ WF_vars(ReplicaStep(r, Notified)) /\ WF_vars(ReplicaStep(r, Reconnect))

FairSpec == Spec /\ Fairness

-----------------------------------------------------------------------------
(* Properties.                                                             *)

Table == [Slots -> Row \cup {NoDevice}]
Event == [kind: {"apply", "remove"}, row: Row]
Syncer == [pc: {"wait", "list", "peers", "apply"}, seen: Table,
           remove: SUBSET Keys, add: SUBSET Row]
Pass == [pc: {"idle", "peers", "remove"}, blocked: SUBSET Keys, remove: SUBSET Keys]

\* Every variable has its type; in particular an event carries a row that was
\* there when the request read it.
PeerTypeOK ==
    /\ backend \in Backends /\ on \in [Handlers -> Replicas]
    /\ now \in 0 .. MaxTime /\ rows \in Table
    /\ lock \in Handlers \cup {Nobody}
    /\ pc \in [Handlers -> {"idle", "write", "emit", "rotateRemove", "rotateApply"}]
    /\ job \in [Handlers -> Job \cup {NoJob}]
    /\ copy \in [Handlers -> Table]
    /\ queue \in [Handlers -> Seq(Event)]
    /\ peers \in [Replicas -> [Keys -> Confs \cup {NoPeer}]]
    /\ resync \in [Replicas -> BOOLEAN]
    /\ sync \in [Replicas -> [boot: Syncer, loop: Syncer]]
    /\ access \in [Replicas -> Pass]
    /\ notes \in [Replicas -> 0 .. MaxNotes]
    /\ connected \in [Replicas -> BOOLEAN]
    /\ fails \in 0 .. MaxFails /\ restarts \in 0 .. MaxRestarts
    /\ raced \in [Replicas -> SUBSET {"boot", "access", "rotate"}]

\* Nothing is on its way to the interface of r.
Quiet(r) ==
    /\ \A h \in Handlers : pc[h] = "idle"
    /\ ~resync[r] /\ notes[r] = 0 /\ connected[r]
    /\ \A a \in Syncers : sync[r][a].pc = "wait"
    /\ access[r].pc = "idle"

\* The interface of r carries the table: a peer for every device that may
\* connect, as it is stored, and none for a device that is blocked or gone.
\* An expired one may still have its peer until the next pass of accessLoop.
InSync(r) ==
    /\ \A s \in Stored :
        AccessAllowed(rows[s]) => peers[r][rows[s].key] = rows[s].conf
    /\ \A k \in Keys : peers[r][k] # NoPeer =>
        \E s \in Stored : /\ rows[s].key = k
                          /\ ~rows[s].disabled
                          /\ rows[s].conf = peers[r][k]

\* However events, resynchronizations and requests interleave, the peers of
\* every replica are those of the table once everything has settled - unless a
\* write met a stale reader that asks for no resync, or a call failed.
PeersFollow ==
    \A r \in Running : Quiet(r) /\ fails = 0 /\ raced[r] = {} => InSync(r)

BlockedKey(k) == \E s \in Stored : rows[s].key = k /\ ~AccessAllowed(rows[s])

\* A device that stays blocked or expired loses its peer for good, even where
\* an event was lost, a call failed or a stale row was applied (accessLoop).
BlockedLosesPeer ==
    \A r \in Replicas, k \in Keys :
        <>[]BlockedKey(k) => <>[](peers[r][k] = NoPeer)

\* Once no more requests arrive the peers become those of the table and stay
\* so, under the provisos of PeersFollow.
EventuallyInSync ==
    \A r \in Replicas :
        <>[](/\ r \in Running
             /\ \A h \in Handlers : pc[h] = "idle"
             /\ fails = 0 /\ raced[r] = {})
        => <>[]InSync(r)
=============================================================================
