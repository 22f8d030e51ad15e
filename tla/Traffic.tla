------------------------------- MODULE Traffic -------------------------------
(***************************************************************************)
(* What the replicas record about the traffic of devices, and how devices  *)
(* are deleted by what was recorded: metadataLoop and inactiveLoop of      *)
(* internal/devices and RecordMetadata of internal/storage.                *)
(*                                                                         *)
(* Every replica has an interface of its own with byte counters per peer,  *)
(* reads them at an interval, and adds what is new to the rows that all    *)
(* replicas share, in one transaction.  A counter starts again at zero     *)
(* when the peer is removed and added, or the process starts again.  The   *)
(* received and the transmitted bytes are treated alike: one counter       *)
(* stands for both.                                                        *)
(*                                                                         *)
(* One unit of the clock is the interval of the loops.                     *)
(***************************************************************************)
EXTENDS Integers, FiniteSets, FiniteSetsExt

CONSTANTS
    Replicas, Slots, Keys,
    Window,       \* how long a handshake counts as a connection (IsConnected)
    Grace,        \* the grace period of inactive devices
    MaxTime,      \* bound of the clock
    MaxEvents,    \* bound of what is sent, changed or fails, and of restarts
    NoDevice, NoPeer

ASSUME TrafficAssumption ==
    /\ {Window, Grace, MaxTime, MaxEvents} \subseteq Nat
    /\ Window < Grace

\* Time 0 is before everything: no handshake yet.
Times == 1 .. MaxTime
Row == [key: Keys, created: Times, handshake: Times \cup {0}, bytes: Nat,
        blocked: BOOLEAN]
Peer == [count: Nat, handshake: Times \cup {0}, reset: BOOLEAN]

VARIABLES
    now, rows,
    peers,     \* the peers of each replica's interface
    last,      \* trafficTracker.last; a key that is not in it counts as 0
    meta,      \* the metadata pass of each replica, and its transaction
    pass,      \* the pass of each replica that looks for inactive devices
    synced,    \* the replicas whose metadata loop ran in this interval
    events,    \* counts what MaxEvents events
    unseen,    \* history: the peers removed since a replica last listed its peers
    sent,      \* history: the bytes that went through the peers of a key
    gone,      \* history: the bytes recorded in rows that were deleted
    lossy,     \* history: the keys that lost traffic in a way the code accepts
    used       \* history: when a device was added and its client was connected

vars == <<now, rows, peers, last, meta, pass, synced, events,
          unseen, sent, gone, lossy, used>>
history == <<unseen, sent, gone, lossy, used>>

Stored == {s \in Slots : rows[s] # NoDevice}
Holding(k) == {s \in Stored : rows[s].key = k}

NewRow(k) == [key |-> k, created |-> now, handshake |-> 0, bytes |-> 0, blocked |-> FALSE]

NoWrites == [s \in Slots |-> [bytes |-> 0, handshake |-> 0]]
MetaIdle == [pc |-> "idle", updates |-> {}, locked |-> {}, writes |-> NoWrites]
PassIdle == [todo |-> {}, readded |-> {}]
NoPeers == [k \in Keys |-> NoPeer]

Init ==
    /\ now = 1
    /\ rows \in [Slots -> {NoDevice} \cup {NewRow(k) : k \in Keys}]
    /\ \A k \in Keys : Cardinality(Holding(k)) <= 1
    /\ peers = [r \in Replicas |-> NoPeers]
    /\ last = [r \in Replicas |-> [k \in Keys |-> 0]]
    /\ meta = [r \in Replicas |-> MetaIdle]
    /\ pass = [r \in Replicas |-> PassIdle]
    /\ synced = {} /\ events = 0
    /\ unseen = [r \in Replicas |-> {}]
    /\ sent = [k \in Keys |-> 0] /\ gone = [k \in Keys |-> 0]
    /\ lossy = {} /\ used = [s \in Slots |-> IF s \in Stored THEN {now} ELSE {}]

Event == events < MaxEvents /\ events' = events + 1

\* The loops keep up with their ticker: an interval does not end before each
\* metadata loop ran and the peers followed the devices, nor while a pass is at
\* work.
MayConnect(k) == {s \in Holding(k) : ~rows[s].blocked} # {}

Tick ==
    /\ now < MaxTime
    /\ synced = Replicas
    /\ \A r \in Replicas, k \in Keys : (peers[r][k] # NoPeer) = MayConnect(k)
    /\ \A r \in Replicas : meta[r] = MetaIdle /\ pass[r].todo = {}
    /\ now' = now + 1
    /\ synced' = {}
    /\ UNCHANGED <<rows, peers, last, meta, pass, events, history>>

-----------------------------------------------------------------------------
(* The devices and the peers, which follow them (see PeerSync).            *)

\* A statement waits for the transaction that wrote to the row.
Unlocked(s) == \A r \in Replicas : s \notin meta[r].locked

Change(s, row) ==
    /\ Event
    /\ rows' = [rows EXCEPT ![s] = row]

AddDevice(s, k) ==
    /\ s \notin Stored /\ Holding(k) = {}
    /\ Change(s, NewRow(k))
    /\ used' = [used EXCEPT ![s] = {now}]
    /\ pass' = [r \in Replicas |-> [pass[r] EXCEPT !.readded = @ \cup ({s} \cap pass[r].todo)]]
    /\ UNCHANGED <<now, peers, last, meta, synced, unseen, sent,
                   gone, lossy>>

SetAccess(s) ==
    /\ s \in Stored /\ Unlocked(s)
    /\ Change(s, [rows[s] EXCEPT !.blocked = ~@])
    /\ UNCHANGED <<now, peers, last, meta, pass, synced, history>>

Deleted(s) ==
    /\ rows' = [rows EXCEPT ![s] = NoDevice]
    /\ gone' = [gone EXCEPT ![rows[s].key] = @ + rows[s].bytes]

DeleteDevice(s) ==
    /\ s \in Stored /\ Unlocked(s)
    /\ Event
    /\ Deleted(s)
    /\ UNCHANGED <<now, peers, last, meta, pass, synced, unseen, sent,
                   lossy, used>>

\* What the counter of a peer holds that was not read yet.
Unread(r, k) ==
    IF peers[r][k] = NoPeer THEN 0
    ELSE IF peers[r][k].reset THEN peers[r][k].count ELSE peers[r][k].count - last[r][k]

\* A device that may connect has a peer, with new counters; what the counters of
\* a peer that is removed hold is lost with it.
AddPeer(r, k) ==
    /\ peers[r][k] = NoPeer
    /\ MayConnect(k)
    /\ peers' = [peers EXCEPT ![r][k] = [count |-> 0, handshake |-> 0,
                                        reset |-> k \in unseen[r]]]
    /\ UNCHANGED <<now, rows, last, meta, pass, synced, events, history>>

RemovePeer(r, k) ==
    /\ peers[r][k] # NoPeer
    /\ ~MayConnect(k)
    /\ peers' = [peers EXCEPT ![r][k] = NoPeer]
    /\ unseen' = [unseen EXCEPT ![r] = @ \cup {k}]
    /\ lossy' = IF Unread(r, k) > 0 THEN lossy \cup {k} ELSE lossy
    /\ UNCHANGED <<now, rows, last, meta, pass, synced, events, sent, gone, used>>

\* The client of a key is connected to replica r and sends.
Send(r, k) ==
    /\ peers[r][k] # NoPeer
    /\ Event
    /\ sent' = [sent EXCEPT ![k] = @ + 1]
    /\ peers' = [peers EXCEPT ![r][k] = [@ EXCEPT !.count = @ + 1, !.handshake = now]]
    /\ used' = [s \in Slots |-> IF s \in Holding(k) THEN used[s] \cup {now} ELSE used[s]]
    /\ UNCHANGED <<now, rows, last, meta, pass, synced, unseen, gone, lossy>>

-----------------------------------------------------------------------------
(* syncMetrics.                                                            *)

\* A counter below its previous value was reset.
CounterDelta(previous, current) ==
    IF current < previous THEN current ELSE current - previous

IsConnected(handshake) == handshake > 0 /\ handshake > now - Window

\* forgetAllBut, and observe of the rest.
LastOf(r, listed) ==
    [last EXCEPT ![r] = [k \in Keys |-> IF k \in listed THEN peers[r][k].count ELSE 0]]

\* collectMetadata: what is new in the counters of the peers that were listed.
Update(r, k) ==
    LET p == peers[r][k]
    IN  [key |-> k, bytes |-> CounterDelta(last[r][k], p.count),
         handshake |-> IF IsConnected(p.handshake) THEN p.handshake ELSE 0]

\* The peers are listed, and the tracker moves on before anything is written.
\* Without updates there is no transaction.
CollectMetadata(r) ==
    LET listed == {k \in Keys : peers[r][k] # NoPeer}
        updates == {u \in {Update(r, k) : k \in listed} : u.bytes # 0 \/ u.handshake # 0}
    IN  /\ meta[r].pc = "idle" /\ r \notin synced
        /\ last' = LastOf(r, listed)
        /\ synced' = synced \cup {r}
        /\ meta' = IF updates = {} THEN meta
                   ELSE [meta EXCEPT ![r].pc = "tx", ![r].updates = updates]
        \* counters that were reset and have passed their previous value again
        /\ lossy' = lossy \cup {k \in listed : /\ peers[r][k].reset /\ last[r][k] > 0
                                               /\ peers[r][k].count >= last[r][k]}
        /\ peers' = [peers EXCEPT ![r] = [k \in Keys |->
                        IF k \in listed THEN [@[k] EXCEPT !.reset = FALSE] ELSE NoPeer]]
        /\ unseen' = [unseen EXCEPT ![r] = {}]
        /\ UNCHANGED <<now, rows, pass, events, sent, gone, used>>

\* One UPDATE of the transaction, which finds its row by the public key and adds
\* in the database; a device that is gone is skipped.
Free(r, u) == \A q \in Replicas \ {r} : Holding(u.key) \cap meta[q].locked = {}

RecordUpdate(r) ==
    \E u \in meta[r].updates :
        /\ Free(r, u)
        /\ meta' = [meta EXCEPT ![r].updates = @ \ {u},
                                ![r].locked = @ \cup Holding(u.key),
                                ![r].writes = [s \in Slots |->
                                    IF s \in Holding(u.key)
                                    THEN [bytes |-> u.bytes, handshake |-> u.handshake]
                                    ELSE @[s]]]
        /\ lossy' = IF Holding(u.key) = {} /\ u.bytes > 0 THEN lossy \cup {u.key} ELSE lossy
        /\ UNCHANGED <<now, rows, peers, last, pass, synced, events, unseen, sent, gone, used>>

\* Mutant: the row is written as it was read, not added to in the database.
CommitOverwrites(r) ==
    /\ meta[r].pc = "tx" /\ meta[r].updates = {}
    /\ rows' = [s \in Slots |->
            IF s \notin meta[r].locked THEN rows[s]
            ELSE LET w == meta[r].writes[s]
                 IN  [rows[s] EXCEPT !.bytes = w.bytes,
                                     !.handshake = IF w.handshake = 0 THEN @ ELSE w.handshake]]
    /\ meta' = [meta EXCEPT ![r] = MetaIdle]
    /\ UNCHANGED <<now, peers, last, pass, synced, events, history>>

CommitMetadata(r) ==
    /\ meta[r].pc = "tx" /\ meta[r].updates = {}
    /\ rows' = [s \in Slots |->
            IF s \notin meta[r].locked THEN rows[s]
            ELSE LET w == meta[r].writes[s]
                 IN  [rows[s] EXCEPT !.bytes = @ + w.bytes,
                                     !.handshake = IF w.handshake = 0 THEN @ ELSE w.handshake]]
    /\ meta' = [meta EXCEPT ![r] = MetaIdle]
    /\ UNCHANGED <<now, peers, last, pass, synced, events, history>>

\* What a transaction that is rolled back would have recorded is lost: the
\* tracker does not go back.
InFlight(r) == {u.key : u \in {x \in meta[r].updates : x.bytes > 0}} \cup
               {rows[s].key : s \in {x \in meta[r].locked : meta[r].writes[x].bytes > 0}}

Rollback(r) ==
    /\ meta' = [meta EXCEPT ![r] = MetaIdle]
    /\ lossy' = lossy \cup InFlight(r)

\* Two transactions may wait for each other's rows, which each of them updates in
\* the order of its peers: the database ends one of them.
Waiting(r) == meta[r].updates # {} /\ {u \in meta[r].updates : Free(r, u)} = {}
Deadlocked(r) == Waiting(r) /\ {q \in Replicas \ {r} : Waiting(q)} # {}

RecordFails(r) ==
    /\ meta[r].pc = "tx"
    /\ ~Deadlocked(r) => events < MaxEvents
    /\ events' = IF Deadlocked(r) THEN events ELSE events + 1
    /\ Rollback(r)
    /\ UNCHANGED <<now, rows, peers, last, pass, synced, unseen, sent, gone, used>>

-----------------------------------------------------------------------------
(* checkAndRemove.                                                         *)

\* Mutant: a device counts as unused since it was created.
ElapsedSinceCreated(row) == now - row.created

\* A device that never connected counts from its creation.
Elapsed(row) == now - (IF row.handshake = 0 THEN row.created ELSE row.handshake)

Inactive == {s \in Stored : Elapsed(rows[s]) > Grace}

\* Mutant: devices that never connected are left out.
ListInactiveConnected(r) ==
    LET todo == {s \in Inactive : rows[s].handshake > 0}
    IN  /\ pass[r].todo = {} /\ todo # {}
        /\ pass' = [pass EXCEPT ![r] = [todo |-> todo, readded |-> {}]]
        /\ UNCHANGED <<now, rows, peers, last, meta, synced, events, history>>

ListInactive(r) ==
    /\ pass[r].todo = {} /\ Inactive # {}
    /\ pass' = [pass EXCEPT ![r] = [todo |-> Inactive, readded |-> {}]]
    /\ UNCHANGED <<now, rows, peers, last, meta, synced, events, history>>

PassDone(r, s) ==
    LET todo == pass[r].todo \ {s}
    IN  pass' = [pass EXCEPT ![r] = IF todo = {} THEN PassIdle
                                    ELSE [@ EXCEPT !.todo = todo, !.readded = @ \ {s}]]

\* DeleteDevice by owner and name, whatever is stored there now.
DeleteInactive(r) ==
    \E s \in pass[r].todo :
        /\ Unlocked(s)
        /\ PassDone(r, s)
        /\ IF s \in Stored THEN Deleted(s) ELSE UNCHANGED <<rows, gone>>
        /\ UNCHANGED <<now, peers, last, meta, synced, events, unseen, sent, lossy, used>>

DeleteFails(r) ==
    \E s \in pass[r].todo :
        /\ Event
        /\ PassDone(r, s)
        /\ UNCHANGED <<now, rows, peers, last, meta, synced, history>>

-----------------------------------------------------------------------------
\* A process ends and starts again, with a new interface and a new tracker; a
\* transaction that was open is rolled back.
Restart(r) ==
    /\ Event
    /\ peers' = [peers EXCEPT ![r] = NoPeers]
    /\ last' = [last EXCEPT ![r] = [k \in Keys |-> 0]]
    /\ meta' = [meta EXCEPT ![r] = MetaIdle]
    /\ pass' = [pass EXCEPT ![r] = PassIdle]
    /\ synced' = synced \ {r}
    /\ unseen' = [unseen EXCEPT ![r] = {}]
    /\ lossy' = lossy \cup InFlight(r) \cup {k \in Keys : Unread(r, k) > 0}
    /\ UNCHANGED <<now, rows, sent, gone, used>>

MetaStep(r) == CollectMetadata(r) \/ RecordUpdate(r) \/ CommitMetadata(r)
PassStep(r) == ListInactive(r) \/ DeleteInactive(r)

Next ==
    \/ Tick
    \/ \E s \in Slots : SetAccess(s) \/ DeleteDevice(s) \/ \E k \in Keys : AddDevice(s, k)
    \/ \E r \in Replicas : \/ MetaStep(r) \/ RecordFails(r)
                            \/ PassStep(r) \/ DeleteFails(r) \/ Restart(r)
                            \/ \E k \in Keys : AddPeer(r, k) \/ RemovePeer(r, k) \/ Send(r, k)

\* The loops run until the process ends, and a database ends its transactions.
Fairness == \A r \in Replicas : WF_vars(MetaStep(r)) /\ WF_vars(PassStep(r))

Spec == Init /\ [][Next]_vars /\ Fairness

-----------------------------------------------------------------------------
\* Every variable has its type: the ground of every other invariant.
TrafficTypeOK ==
    /\ now \in Times
    /\ \A s \in Slots : rows[s] = NoDevice \/ rows[s] \in Row
    /\ \A r \in Replicas :
        /\ \A k \in Keys : peers[r][k] = NoPeer \/ peers[r][k] \in Peer
        /\ \A k \in Keys : last[r][k] \in Nat
        /\ meta[r].pc \in {"idle", "tx"} /\ meta[r].locked \subseteq Stored
        /\ \A q \in Replicas \ {r} : meta[r].locked \cap meta[q].locked = {}
        /\ pass[r].readded \subseteq pass[r].todo /\ pass[r].todo \subseteq Slots
    /\ synced \subseteq Replicas /\ lossy \subseteq Keys

\* The bytes of a key that rows hold or held, and those on their way there.
Recorded(k) == gone[k] + MapThenSumSet(LAMBDA s : rows[s].bytes, Holding(k))
OnTheWay(r, k) ==
    MapThenSumSet(LAMBDA u : u.bytes, {u \in meta[r].updates : u.key = k}) +
    MapThenSumSet(LAMBDA s : meta[r].writes[s].bytes, Holding(k) \cap meta[r].locked) +
    Unread(r, k)
Accounted(k) == Recorded(k) + MapThenSumSet(LAMBDA r : OnTheWay(r, k), Replicas)

\* Traffic is never counted twice, however the replicas' transactions interleave
\* with each other, with resets of counters and with restarts; and none is lost but
\* with a peer that is removed, a transaction that is rolled back, a process that
\* ends, a device that is gone, and a counter that was reset unnoticed.
CountedOnce ==
    \A k \in Keys : /\ Accounted(k) <= sent[k]
                    /\ k \notin lossy => Accounted(k) = sent[k]

\* docs/configuration.md: a device is inactive if it has not been connected for
\* longer than the grace period.  What a pass deletes was not connected that
\* recently when the pass listed it, up to two delays: the last interval may not
\* have been reported yet, and a replica that the client has left may report an
\* earlier connection for as long as it counts as one.  Not meant are a device that
\* was added again since, and one whose report was lost.
ActiveStay ==
    [][\A r \in Replicas, s \in Slots :
        /\ s \in pass[r].todo /\ s \notin pass'[r].todo /\ s \notin pass[r].readded
        /\ rows[s] # NoDevice /\ rows'[s] = NoDevice /\ rows[s].key \notin lossy
        => \A t \in used[s] : t > now - 2 \/ now - t > Grace - Window]_vars

\* A device that is inactive is deleted or seen again.
InactiveGo ==
    \A s \in Slots : (s \in Inactive) ~> (s \notin Inactive)
=============================================================================
