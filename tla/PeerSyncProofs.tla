--------------------------- MODULE PeerSyncProofs ---------------------------
(***************************************************************************)
(* Proofs about PeerSync, for every number of replicas, handlers, devices  *)
(* and keys: the type invariant, and that the peers follow the table       *)
(* (PeersFollow).                                                          *)
(*                                                                         *)
(* PeersFollow speaks of moments at which nothing is under way; what has   *)
(* to be found is what holds in between.  Three parts: what a reader that  *)
(* asks for no resync has read is still so unless a race was recorded      *)
(* (ReadersFresh); what resyncLoop has read is still so unless another run of   *)
(* it is due (LoopFresh); and every difference between the table and the   *)
(* peers is on the list of somebody who is about to repair it, or a run is *)
(* due that will find it (Repaired).                                       *)
(***************************************************************************)
EXTENDS PeerSync, SequenceTheorems, FiniteSetTheorems, TLAPS

-----------------------------------------------------------------------------
(* The inductive invariant.                                                *)

\* The unique index on the public key.
UniqueKeys == \A s, t \in Stored : rows[s].key = rows[t].key => s = t

\* No device of the table that may connect has key k.
Unwanted(k) == \A s \in Stored : AccessAllowed(rows[s]) => rows[s].key # k

\* Nobody has key k.
Unused(k) == \A s \in Stored : rows[s].key # k

\* Where a handler can be, and with which request.
HandlerOK(h) ==
    /\ pc[h] = "idle" => job[h] = NoJob
    /\ pc[h] # "idle" => /\ job[h] \in Job
                         /\ SlotOp(job[h]) => copy[h][job[h].slot] \in Row
    /\ pc[h] # "idle" /\ job[h].op = "add" => copy[h][job[h].slot].key = job[h].key
    /\ pc[h] \in {"rotateRemove", "rotateApply"} => job[h].op = "rotate"
    /\ pc[h] = "emit" => queue[h] # <<>>

\* All handlers of a gorm deployment run in one process.
SingleProcess == backend = "gorm" => \A g, h \in Handlers : on[g] = on[h]

\* Another run of resyncLoop on replica r lists the table after now.
LoopDue(r) ==
    \/ resync[r] \/ sync[r].loop.pc = "list"
    \/ notes[r] > 0 \/ ~connected[r]
    \/ \E h \in Handlers : on[h] = r /\ pc[h] = "emit"

\* What a synchronization x has read is what the table holds.
FreshSync(x) ==
    /\ x.pc = "peers" => x.seen = rows
    /\ x.pc = "apply" =>
        /\ \A row \in x.add :
            ~row.disabled /\ \E s \in Slots : rows[s] = row
        /\ \A k \in x.remove : Unwanted(k)

\* The same of a pass of accessLoop.
FreshPass(p) ==
    /\ p.pc = "peers" => \A k \in p.blocked : Unwanted(k)
    /\ p.pc = "remove" => \A k \in p.remove : Unwanted(k)

\* A rotation has read what is stored; later it has replaced it, and the old
\* key is nobody's.
FreshRotation(h) ==
    job[h].op = "rotate" =>
        LET read == copy[h][job[h].slot]
        IN  IF pc[h] = "write"
            THEN rows[job[h].slot] = read /\ Unused(job[h].key)
            ELSE /\ rows[job[h].slot] = [read EXCEPT !.key = job[h].key]
                 /\ Unused(read.key)

ReadersFresh(r) ==
    raced[r] = {} => /\ FreshSync(sync[r].boot)
                     /\ FreshPass(access[r])
                     /\ \A h \in Handlers : on[h] = r => FreshRotation(h)

LoopFresh(r) == ~LoopDue(r) => FreshSync(sync[r].loop)

\* A synchronization of r is going to compare the table with the peers.
Comparing(r) ==
    sync[r].boot.pc \in {"list", "peers"} \/ sync[r].loop.pc = "peers"

Adds(x, row) == x.pc = "apply" /\ row \in x.add
Touches(x, k) ==
    x.pc = "apply" /\ (k \in x.remove \/ \E row \in x.add : row.key = k)

\* Every device that may connect has its peer, or is about to get it.
Served(r) ==
    \A s \in Stored : AccessAllowed(rows[s]) =>
        \/ peers[r][rows[s].key] = rows[s].conf
        \/ Adds(sync[r].boot, rows[s]) \/ Adds(sync[r].loop, rows[s])

\* Every peer is that of a device, or is about to be removed or replaced.
Justified(r) ==
    \A k \in Keys : peers[r][k] # NoPeer =>
        \/ \E s \in Stored : /\ rows[s].key = k /\ ~rows[s].disabled
                             /\ rows[s].conf = peers[r][k]
        \/ Touches(sync[r].boot, k) \/ Touches(sync[r].loop, k)

Repaired(r) ==
    fails = 0 /\ raced[r] = {} /\ ~LoopDue(r) /\ ~Comparing(r)
        => Served(r) /\ Justified(r)

-----------------------------------------------------------------------------
(* Requests and what they do to rows.                                      *)

\* The bounds, as the provers need them.
LEMMA Bounds == MaxTime \in Nat /\ MaxFails \in Nat /\ MaxRestarts \in Nat
                /\ MaxNotes \in Nat /\ MaxNotes > 0
  BY PeerAssumption

\* The fields of a request, whichever it is.
LEMMA JobShape ==
    ASSUME NEW j \in Job
    PROVE  /\ j.op \in {"add", "rename", "routes", "access", "rotate", "delete",
                        "block", "deleteAll"}
           /\ SlotOp(j) => j.slot \in Slots
           /\ j.op \in {"add", "rotate"} => j.key \in Keys
           /\ j.op \in {"add", "routes"} => j.conf \in Confs
           /\ j.op = "rename" => j.newSlot \in Slots
           /\ j.op = "access" => j.change \in Changes
  BY DEF Job, AddJob, RenameJob, RoutesJob, AccessJob, RotateJob, DeleteJob,
         OwnerJob, SlotOp

LEMMA NoJobOp == NoJob.op = "none"
  BY DEF NoJob

\* A changed row is a row, of the same key unless the key is rotated.
LEMMA ChangedRow ==
    ASSUME NEW j \in Job, NEW row \in Row, NEW read \in Row
    PROVE  /\ Changed(j, row, read) \in Row
           /\ j.op # "rotate" => Changed(j, row, read).key = row.key
           /\ j.op = "rotate" => Changed(j, row, read) = [row EXCEPT !.key = j.key]
  <1>1. row # NoDevice
    BY PeerAssumption
  <1>2. CASE j.op = "routes"
    <2>1. Changed(j, row, read) = [row EXCEPT !.conf = j.conf]
      BY <1>1, <1>2 DEF Changed
    <2> QED
      BY <2>1, <1>2, JobShape DEF Row
  <1>3. CASE j.op = "rotate"
    <2>1. Changed(j, row, read) = [row EXCEPT !.key = j.key]
      BY <1>1, <1>3 DEF Changed
    <2> QED
      BY <2>1, <1>3, JobShape DEF Row
  <1>4. CASE j.op = "access"
    <2> DEFINE d == Given(j.change.disabled, read.disabled)
               e == Given(j.change.expires, read.expires)
    <2>1. Changed(j, row, read) = [row EXCEPT !.disabled = d, !.expires = e]
      BY <1>1, <1>4 DEF Changed
    <2>2. /\ j.change.disabled \in BOOLEAN \cup {Keep}
          /\ j.change.expires \in Times \cup {Keep, Never}
      BY <1>4, JobShape, ChangesAssumption
    <2>3. d \in BOOLEAN /\ e \in Times \cup {Never}
      BY <2>2 DEF Given, Row
    <2> HIDE DEF d, e
    <2> QED
      BY <2>1, <2>3, <1>4 DEF Row
  <1>5. CASE j.op = "block"
    <2>1. Changed(j, row, read) = [row EXCEPT !.disabled = TRUE]
      BY <1>1, <1>5 DEF Changed
    <2> QED
      BY <2>1, <1>5 DEF Row
  <1>6. CASE j.op \notin {"routes", "rotate", "access", "block"}
    BY <1>1, <1>6 DEF Changed
  <1> QED
    BY <1>2, <1>3, <1>4, <1>5, <1>6

LEMMA ChangedNoDevice ==
    ASSUME NEW j, NEW read
    PROVE  Changed(j, NoDevice, read) = NoDevice
  BY DEF Changed

\* What a handler at its write has read.
ReadOK(j, read) ==
    /\ read \in Table
    /\ SlotOp(j) => read[j.slot] \in Row
    /\ j.op = "add" => read[j.slot].key = j.key

LEMMA TargetRead ==
    ASSUME NEW j \in Job, NEW read, ReadOK(j, read), NEW s \in Target(j, read)
    PROVE  s \in Slots /\ read[s] \in Row
  BY JobShape DEF ReadOK, Target, Table

\* The table after the write, a slot at a time.
LEMMA NewTableAt ==
    ASSUME NEW j \in Job, NEW read, ReadOK(j, read), rows \in Table, NEW s \in Slots
    PROVE  LET new == NewTable(j, read)[s]
           IN  \/ /\ j.op = "rename" /\ s = j.newSlot /\ new = rows[j.slot]
               \/ /\ j.op = "rename" /\ s = j.slot /\ new = NoDevice
               \/ /\ j.op = "add" /\ s = j.slot /\ new = read[s]
               \/ /\ j.op \in {"delete", "deleteAll"} /\ s \in Target(j, read)
                  /\ new = NoDevice
               \/ /\ j.op \in {"routes", "rotate", "access", "block"}
                  /\ s \in Target(j, read)
                  /\ new = Changed(j, rows[s], read[s])
               \/ /\ j.op = "rename" => s # j.slot /\ s # j.newSlot
                  /\ j.op # "rename" => s \notin Target(j, read)
                  /\ new = rows[s]
  <1>1. j.op = "add" => Target(j, read) = {j.slot}
    BY DEF Target, SlotOp
  <1>2. CASE j.op = "rename"
    BY <1>2 DEF NewTable
  <1>3. CASE j.op = "add"
    BY <1>1, <1>3 DEF NewTable
  <1>4. CASE j.op \in {"delete", "deleteAll"}
    BY <1>4 DEF NewTable
  <1>5. CASE j.op \in {"routes", "rotate", "access", "block"}
    BY <1>5 DEF NewTable
  <1> QED
    BY <1>2, <1>3, <1>4, <1>5, JobShape

LEMMA NewTableType ==
    ASSUME NEW j \in Job, NEW read, ReadOK(j, read), rows \in Table
    PROVE  NewTable(j, read) \in Table
  <1>1. ASSUME NEW s \in Slots PROVE NewTable(j, read)[s] \in Row \cup {NoDevice}
    <2>1. rows[s] \in Row \cup {NoDevice}
      BY DEF Table
    <2>2. j.op = "rename" => rows[j.slot] \in Row \cup {NoDevice}
      BY JobShape DEF Table, SlotOp
    <2>3. j.op = "add" => read[j.slot] \in Row
      BY DEF ReadOK, SlotOp
    <2>4. s \in Target(j, read) => Changed(j, rows[s], read[s]) \in Row \cup {NoDevice}
      BY <2>1, TargetRead, ChangedRow, ChangedNoDevice
    <2> QED
      BY <2>1, <2>2, <2>3, <2>4, NewTableAt
  <1> QED
    BY <1>1 DEF NewTable, Table

\* A table that changes has a row that the request names.
LEMMA NewTableTarget ==
    ASSUME NEW j \in Job, NEW read, ReadOK(j, read), rows \in Table,
           NewTable(j, read) # rows
    PROVE  Target(j, read) # {}
  <1>1. CASE SlotOp(j)
    BY <1>1 DEF Target
  <1>2. CASE ~SlotOp(j)
    <2> SUFFICES ASSUME Target(j, read) = {} PROVE NewTable(j, read) = rows
      OBVIOUS
    <2>1. j.op \in {"block", "deleteAll"}
      BY <1>2 DEF SlotOp
    <2>2. \A s \in Slots : NewTable(j, read)[s] = rows[s]
      BY <2>1, NewTableAt
    <2> QED
      BY <2>2 DEF NewTable, Table
  <1> QED
    BY <1>1, <1>2

\* The writes keep the keys of the devices apart.
LEMMA NewTableKeys ==
    ASSUME NEW j \in Job, NEW read, ReadOK(j, read), rows \in Table, UniqueKeys,
           Writable(j, read), NEW s \in Slots, NEW t \in Slots, s # t,
           NewTable(j, read)[s] # NoDevice, NewTable(j, read)[t] # NoDevice
    PROVE  NewTable(j, read)[s].key # NewTable(j, read)[t].key
  <1> DEFINE new(x) == NewTable(j, read)[x]
  <1>0. ASSUME NEW x \in Slots, rows[x] # NoDevice PROVE x \in Stored /\ rows[x] \in Row
    BY <1>0 DEF Stored, Table
  <1>1. CASE j.op = "rename"
    <2>1. j.slot \in Stored /\ j.newSlot \in Slots /\ rows[j.newSlot] = NoDevice
      BY <1>1, <1>0, JobShape DEF Writable, SlotOp
    <2>2. \A x \in {s, t} : /\ x = j.newSlot => new(x) = rows[j.slot]
                            /\ x = j.slot => new(x) = NoDevice
                            /\ x \notin {j.newSlot, j.slot} => new(x) = rows[x]
      BY <1>1, <2>1, NewTableAt, JobShape DEF Stored
    <2> QED
      BY <2>1, <2>2, <1>0 DEF UniqueKeys
  <1>2. CASE j.op \in {"add", "rotate"}
    <2>1. j.slot \in Slots /\ Target(j, read) = {j.slot}
      BY <1>2, JobShape DEF SlotOp, Target
    <2>2. \A x \in {s, t} : x # j.slot => new(x) = rows[x]
      BY <1>2, <2>1, NewTableAt
    <2>3. j.slot \in {s, t} => new(j.slot).key = j.key
      <3>1. CASE j.op = "add"
        BY <3>1, <2>1, NewTableAt DEF ReadOK
      <3>2. CASE j.op = "rotate"
        <4>1. rows[j.slot] \in Row /\ read[j.slot] \in Row
          BY <3>2, <2>1, <1>0 DEF Writable, ReadOK, SlotOp
        <4>2. new(j.slot) = Changed(j, rows[j.slot], read[j.slot])
          BY <3>2, <2>1, NewTableAt
        <4>3. new(j.slot) = [rows[j.slot] EXCEPT !.key = j.key]
          BY <4>1, <4>2, <3>2, ChangedRow
        <4> QED
          BY <4>1, <4>3 DEF Row
      <3> QED
        BY <1>2, <3>1, <3>2
    <2>4. \A x \in Stored \ {j.slot} : rows[x].key # j.key
      BY <1>2 DEF Writable
    <2> QED
      BY <2>1, <2>2, <2>3, <2>4, <1>0 DEF UniqueKeys
  <1>3. CASE j.op \in {"routes", "access", "block", "delete", "deleteAll"}
    <2>1. ASSUME NEW x \in {s, t} PROVE x \in Stored /\ new(x).key = rows[x].key
      <3>1. \/ new(x) = Changed(j, rows[x], read[x]) /\ x \in Target(j, read)
            \/ new(x) = rows[x]
        BY <1>3, NewTableAt
      <3>2. rows[x] # NoDevice
        BY <3>1, ChangedNoDevice
      <3>3. x \in Stored /\ rows[x] \in Row
        BY <3>2, <1>0
      <3>4. x \in Target(j, read) => Changed(j, rows[x], read[x]).key = rows[x].key
        BY <1>3, <3>3, TargetRead, ChangedRow
      <3> QED
        BY <3>1, <3>3, <3>4
    <2> QED
      BY <2>1 DEF UniqueKeys
  <1> QED
    BY <1>1, <1>2, <1>3, JobShape

-----------------------------------------------------------------------------
(* The events of a write.                                                  *)

LEMMA SeqsOfSet ==
    ASSUME NEW S, IsFiniteSet(S), NEW e \in SetToSeqs(S)
    PROVE  e \in Seq(S) /\ (S # {} => e # <<>>)
  <1>1. Cardinality(S) \in Nat /\ (Cardinality(S) = 0 <=> S = {})
    BY FS_CardinalityType, FS_EmptySet, Zenon
  <1>2. PICK n \in Nat : n = Cardinality(S)
    BY <1>1
  <1>3. e \in [1 .. n -> S]
    BY <1>2 DEF SetToSeqs
  <1>4. e \in Seq(S) /\ Len(e) = n
    BY <1>3
  <1>5. e = <<>> => n = 0
    BY <1>4
  <1> QED
    BY <1>1, <1>2, <1>4, <1>5

\* An event carries a row, and a request that names a row reports it.
LEMMA EventsType ==
    ASSUME NEW j \in Job, NEW read, ReadOK(j, read), NEW e \in Events(j, read)
    PROVE  e \in Seq(Event) /\ (Target(j, read) # {} => e # <<>>)
  <1> DEFINE row(s) == Changed(j, read[s], read[s])
             one(s) == IF j.op \in {"delete", "deleteAll"}
                       THEN [kind |-> "remove", row |-> row(s)]
                       ELSE [kind |-> "apply", row |-> row(s)]
             S == {one(s) : s \in Target(j, read)}
  <1>1. ASSUME NEW s \in Target(j, read) PROVE one(s) \in Event
    <2>1. row(s) \in Row
      BY TargetRead, ChangedRow
    <2> HIDE DEF row
    <2> QED
      BY <2>1 DEF Event
  <1>2. S \subseteq Event
    BY <1>1
  <1>3. IsFiniteSet(S)
    <2>1. Target(j, read) \subseteq Slots
      BY TargetRead
    <2>2. IsFiniteSet(Target(j, read))
      BY <2>1, PeerAssumption, FS_Subset, Zenon
    <2> HIDE DEF one
    <2> DEFINE f == [s \in Target(j, read) |-> one(s)]
    <2>3. f \in Surjection(Target(j, read), S)
      BY DEF Surjection
    <2> QED
      BY <2>2, <2>3, FS_Surjection, Zenon
  <1>4. Target(j, read) # {} => S # {}
    OBVIOUS
  <1>5. Events(j, read) = IF j.op = "delete" THEN {x \o x : x \in SetToSeqs(S)}
                          ELSE SetToSeqs(S)
    BY DEF Events
  <1> HIDE DEF S
  <1>6. PICK x \in SetToSeqs(S) : e = x \/ e = x \o x
    BY <1>5
  <1>7. x \in Seq(S) /\ (S # {} => x # <<>>)
    BY <1>3, SeqsOfSet
  <1>8. x \in Seq(Event)
    BY <1>2, <1>7
  <1>9. x \o x \in Seq(Event) /\ (x # <<>> => x \o x # <<>>)
    BY <1>8
  <1> QED
    BY <1>4, <1>6, <1>7, <1>8, <1>9

-----------------------------------------------------------------------------
(* Types.                                                                  *)

Places == {"idle", "write", "emit", "rotateRemove", "rotateApply"}
Typed == PeerTypeOK /\ \A h \in Handlers : HandlerOK(h)

\* The variables of the handlers have their types, and each is where it can be.
HandlersTyped ==
    /\ lock \in Handlers \cup {Nobody}
    /\ pc \in [Handlers -> Places]
    /\ job \in [Handlers -> Job \cup {NoJob}]
    /\ copy \in [Handlers -> Table]
    /\ queue \in [Handlers -> Seq(Event)]
    /\ \A h \in Handlers : HandlerOK(h)

LEMMA NoRowsType == NoRows \in Table
  BY DEF NoRows, Table

LEMMA AtRestType ==
    ASSUME NEW l \in {"wait", "list", "peers", "apply"}
    PROVE  AtRest(l) \in Syncer /\ AtRest(l).pc = l
  BY NoRowsType DEF AtRest, Syncer

LEMMA HandlerReads ==
    ASSUME Typed, NEW h \in Handlers, pc[h] # "idle"
    PROVE  job[h] \in Job /\ ReadOK(job[h], copy[h])
  BY DEF Typed, PeerTypeOK, HandlerOK, ReadOK

LEMMA HandlersTypedNow == Typed => HandlersTyped
  BY DEF Typed, PeerTypeOK, HandlersTyped, Places

\* Handlers whose variables do not change stay where they can be.
LEMMA HandlersFrame == Typed /\ UNCHANGED <<lock, handlerVars>> => HandlersTyped'
  BY DEF Typed, PeerTypeOK, HandlersTyped, Places, HandlerOK, handlerVars

LEMMA EndRequestTyped ==
    ASSUME Typed, NEW h \in Handlers, EndRequest(h), UNCHANGED queue
    PROVE  HandlersTyped'
  <1>1. /\ pc' = [pc EXCEPT ![h] = "idle"] /\ job' = [job EXCEPT ![h] = NoJob]
        /\ copy' = [copy EXCEPT ![h] = NoRows]
        /\ lock' \in {lock, Nobody}
    BY DEF EndRequest
  <1>2. \A g \in Handlers : HandlerOK(g)'
    BY <1>1, NoJobOp DEF Typed, PeerTypeOK, HandlerOK
  <1> QED
    BY <1>1, <1>2, NoRowsType DEF Typed, PeerTypeOK, HandlersTyped, Places

\* The same where the queue of h is replaced.
LEMMA ProceedTyped ==
    ASSUME Typed, NEW h \in Handlers, pc[h] \in {"write", "emit"},
           NEW events \in Seq(Event), Proceed(h, events),
           queue' = [queue EXCEPT ![h] = events] \/ (UNCHANGED queue /\ events = <<>>)
    PROVE  HandlersTyped'
  <1>1. /\ queue' \in [Handlers -> Seq(Event)]
        /\ events # <<>> => queue'[h] = events
        /\ \A g \in Handlers \ {h} : queue'[g] = queue[g]
    BY DEF Typed, PeerTypeOK
  <1>2. CASE events # <<>> \/ job[h].op = "rotate"
    <2>1. /\ pc' = [pc EXCEPT ![h] = IF events # <<>> THEN "emit" ELSE "rotateRemove"]
          /\ UNCHANGED <<lock, job, copy>>
      BY <1>2 DEF Proceed
    <2>2. \A g \in Handlers : HandlerOK(g)'
      BY <1>1, <1>2, <2>1 DEF Typed, PeerTypeOK, HandlerOK
    <2> QED
      BY <1>1, <2>1, <2>2 DEF Typed, PeerTypeOK, HandlersTyped, Places
  <1>3. CASE ~(events # <<>> \/ job[h].op = "rotate")
    <2>1. EndRequest(h)
      BY <1>3 DEF Proceed
    <2>2. /\ pc' = [pc EXCEPT ![h] = "idle"] /\ job' = [job EXCEPT ![h] = NoJob]
          /\ copy' = [copy EXCEPT ![h] = NoRows]
          /\ lock' \in {lock, Nobody}
      BY <2>1 DEF EndRequest
    <2>3. \A g \in Handlers : HandlerOK(g)'
      BY <1>1, <2>2, NoJobOp DEF Typed, PeerTypeOK, HandlerOK
    <2> QED
      BY <1>1, <2>2, <2>3, NoRowsType DEF Typed, PeerTypeOK, HandlersTyped, Places
  <1> QED
    BY <1>2, <1>3

\* What a handler that starts has read.
LEMMA ReadType ==
    ASSUME Typed, NEW j \in Job, Accepted(j)
    PROVE  ReadOK(j, WhatIsRead(j))
  <1>1. CASE ~SlotOp(j)
    BY <1>1 DEF ReadOK, WhatIsRead, Typed, PeerTypeOK, SlotOp
  <1>2. CASE SlotOp(j) /\ j.op = "add"
    <2> DEFINE new == [key |-> j.key, conf |-> j.conf,
                       disabled |-> FALSE, expires |-> Never]
    <2>1. new \in Row /\ new.key = j.key
      BY <1>2, JobShape DEF Row
    <2>2. WhatIsRead(j) = [NoRows EXCEPT ![j.slot] = new]
      BY <1>2 DEF WhatIsRead
    <2> HIDE DEF new
    <2> QED
      BY <1>2, <2>1, <2>2, NoRowsType, JobShape DEF ReadOK, Table
  <1>3. CASE SlotOp(j) /\ j.op # "add"
    <2>1. WhatIsRead(j) = [NoRows EXCEPT ![j.slot] = rows[j.slot]]
      BY <1>3 DEF WhatIsRead
    <2>2. rows[j.slot] \in Row
      BY <1>3, JobShape DEF Accepted, Typed, PeerTypeOK, Table
    <2> QED
      BY <1>3, <2>1, <2>2, NoRowsType, JobShape DEF ReadOK, Table
  <1> QED
    BY <1>1, <1>2, <1>3

RestTyped ==
    /\ backend \in Backends /\ on \in [Handlers -> Replicas]
    /\ now \in 0 .. MaxTime /\ rows \in Table
    /\ peers \in [Replicas -> [Keys -> Confs \cup {NoPeer}]]
    /\ resync \in [Replicas -> BOOLEAN]
    /\ sync \in [Replicas -> [boot: Syncer, loop: Syncer]]
    /\ access \in [Replicas -> Pass]
    /\ notes \in [Replicas -> 0 .. MaxNotes]
    /\ connected \in [Replicas -> BOOLEAN]
    /\ fails \in 0 .. MaxFails /\ restarts \in 0 .. MaxRestarts
    /\ raced \in [Replicas -> SUBSET {"boot", "access", "rotate"}]

LEMMA TypedParts == (Typed => HandlersTyped /\ RestTyped)
                    /\ (HandlersTyped' /\ RestTyped' => Typed')
  BY DEF Typed, PeerTypeOK, HandlersTyped, RestTyped, Places

\* A call to the interface: either it is made, or it fails and is counted.
LEMMA SetPeerDoes ==
    ASSUME Typed, NEW r \in Replicas, NEW k \in Keys, NEW p \in Confs \cup {NoPeer},
           SetPeer(r, k, p)
    PROVE  /\ peers' \in [Replicas -> [Keys -> Confs \cup {NoPeer}]]
           /\ fails' \in 0 .. MaxFails
           /\ fails' = 0 => /\ fails = 0
                            /\ peers'[r] = [peers[r] EXCEPT ![k] = p]
           /\ \A q \in Replicas \ {r} : peers'[q] = peers[q]
  <1>0. fails \in 0 .. MaxFails /\ peers \in [Replicas -> [Keys -> Confs \cup {NoPeer}]]
    BY DEF Typed, PeerTypeOK
  <1>1. CASE peers' = [peers EXCEPT ![r][k] = p] /\ UNCHANGED fails
    BY <1>0, <1>1
  <1>2. CASE fails < MaxFails /\ fails' = fails + 1 /\ UNCHANGED peers
    BY <1>0, <1>2, Bounds
  <1> QED
    BY <1>1, <1>2 DEF SetPeer

LEMMA RowParts ==
    ASSUME NEW row \in Row
    PROVE  row.key \in Keys /\ row.conf \in Confs
  BY DEF Row

\* What applyPeer configures for a row.
PeerOf(row) == IF AccessAllowed(row) THEN row.conf ELSE NoPeer

LEMMA ApplyPeerDoes ==
    ASSUME Typed, NEW r \in Replicas, NEW row \in Row, ApplyPeer(r, row)
    PROVE  /\ peers' \in [Replicas -> [Keys -> Confs \cup {NoPeer}]]
           /\ fails' \in 0 .. MaxFails
           /\ fails' = 0 => /\ fails = 0
                            /\ peers'[r] = [peers[r] EXCEPT ![row.key] = PeerOf(row)]
           /\ \A q \in Replicas \ {r} : peers'[q] = peers[q]
  <1>1. PeerOf(row) \in Confs \cup {NoPeer} /\ row.key \in Keys
    BY RowParts DEF PeerOf
  <1>2. SetPeer(r, row.key, PeerOf(row))
    BY DEF ApplyPeer, PeerOf
  <1> QED
    BY <1>1, <1>2, SetPeerDoes

LEMMA TickTyped == Typed /\ Tick /\ UNCHANGED deployment => Typed'
  <1> SUFFICES ASSUME Typed, Tick, UNCHANGED deployment PROVE Typed'
    OBVIOUS
  <1>1. HandlersTyped'
    BY HandlersFrame DEF Tick
  <1>2. now' \in 0 .. MaxTime
    BY Bounds DEF Tick, Typed, PeerTypeOK
  <1>3. RestTyped'
    BY <1>2, TypedParts DEF RestTyped, Tick, replicaVars, deployment
  <1> QED
    BY <1>1, <1>3, TypedParts

LEMMA StartTyped ==
    ASSUME Typed, NEW h \in Handlers, Start(h), UNCHANGED deployment
    PROVE  Typed'
  <1>1. PICK j \in Requests[backend] :
            /\ Accepted(j)
            /\ job' = [job EXCEPT ![h] = j]
            /\ copy' = [copy EXCEPT ![h] = WhatIsRead(j)]
            /\ lock' = IF j.op \in Locked THEN h ELSE lock
    BY DEF Start
  <1>2. j \in Job
    BY RequestsAssumption DEF Typed, PeerTypeOK
  <1>3. ReadOK(j, WhatIsRead(j))
    BY <1>1, <1>2, ReadType
  <1>4. pc' = [pc EXCEPT ![h] = "write"] /\ UNCHANGED queue
    BY DEF Start
  <1>5. \A g \in Handlers : HandlerOK(g)'
    BY <1>1, <1>2, <1>3, <1>4 DEF Typed, PeerTypeOK, HandlerOK, ReadOK
  <1>6. HandlersTyped'
    BY <1>1, <1>2, <1>3, <1>4, <1>5 DEF Typed, PeerTypeOK, HandlersTyped, Places, ReadOK
  <1>7. RestTyped'
    BY TypedParts DEF RestTyped, Start, replicaVars, deployment
  <1> QED
    BY <1>6, <1>7, TypedParts

\* What a write does, whether it is refused or not.
LEMMA WriteDoes ==
    ASSUME Typed, NEW h \in Handlers, Write(h)
    PROVE  /\ job[h] \in Job /\ ReadOK(job[h], copy[h])
           /\ \/ EndRequest(h) /\ UNCHANGED <<rows, raced, queue, notes>>
              \/ /\ Writable(job[h], copy[h])
                 /\ rows' = NewTable(job[h], copy[h])
                 /\ raced' = IF rows' = rows THEN raced
                             ELSE [r \in Replicas |-> raced[r] \cup Stale(r, h)]
                 /\ \/ /\ backend = "gorm" /\ UNCHANGED notes
                       /\ \E events \in Seq(Event) :
                            /\ rows' # rows => events # <<>>
                            /\ queue' = [queue EXCEPT ![h] = events]
                            /\ Proceed(h, events)
                    \/ /\ backend # "gorm" /\ UNCHANGED queue /\ Proceed(h, <<>>)
                       /\ notes' = [r \in Replicas |->
                            IF connected[r] /\ rows' # rows /\ notes[r] < MaxNotes
                            THEN notes[r] + 1 ELSE notes[r]]
  <1>1. job[h] \in Job /\ ReadOK(job[h], copy[h])
    BY HandlerReads DEF Write
  <1>2. CASE ~Writable(job[h], copy[h])
    BY <1>1, <1>2 DEF Write
  <1>3. CASE Writable(job[h], copy[h])
    <2>1. PICK events \in Events(job[h], copy[h]) :
            /\ Commit(h, NewTable(job[h], copy[h]), events)
            /\ Proceed(h, IF backend = "gorm" THEN events ELSE <<>>)
      BY <1>3 DEF Write
    <2>2. rows' = NewTable(job[h], copy[h])
      BY <2>1 DEF Commit
    <2>3. rows' # rows => events # <<>>
      BY <1>1, <2>2, NewTableTarget, EventsType DEF Typed, PeerTypeOK
    <2>4. events \in Seq(Event)
      BY <1>1, EventsType
    <2>5. raced' = IF rows' = rows THEN raced
                   ELSE [r \in Replicas |-> raced[r] \cup Stale(r, h)]
      BY <2>1, <2>2 DEF Commit
    <2>6. CASE backend = "gorm"
      <3>1. queue' = [queue EXCEPT ![h] = events] /\ UNCHANGED notes
        BY <2>1, <2>6 DEF Commit
      <3>2. Proceed(h, events)
        BY <2>1, <2>6
      <3> QED
        BY <1>1, <1>3, <2>2, <2>3, <2>4, <2>5, <2>6, <3>1, <3>2
    <2>7. CASE backend # "gorm"
      <3>1. /\ UNCHANGED queue
            /\ notes' = [r \in Replicas |->
                    IF connected[r] /\ rows' # rows /\ notes[r] < MaxNotes
                    THEN notes[r] + 1 ELSE notes[r]]
        BY <2>1, <2>2, <2>7 DEF Commit
      <3>2. Proceed(h, <<>>)
        BY <2>1, <2>7
      <3> QED
        BY <1>1, <1>3, <2>2, <2>5, <2>7, <3>1, <3>2
    <2> QED
      BY <2>6, <2>7
  <1> QED
    BY <1>2, <1>3

LEMMA WriteTyped ==
    ASSUME Typed, NEW h \in Handlers, Write(h), UNCHANGED deployment
    PROVE  Typed'
  <1>0. pc[h] = "write"
    BY DEF Write
  <1>1. CASE EndRequest(h) /\ UNCHANGED <<rows, raced, queue, notes>>
    <2>1. HandlersTyped'
      BY <1>1, EndRequestTyped
    <2>2. RestTyped'
      BY <1>1, TypedParts DEF RestTyped, Write, deployment
    <2> QED
      BY <2>1, <2>2, TypedParts
  <1>2. CASE ~(EndRequest(h) /\ UNCHANGED <<rows, raced, queue, notes>>)
    <2>1. /\ job[h] \in Job /\ ReadOK(job[h], copy[h])
          /\ rows' = NewTable(job[h], copy[h])
          /\ raced' = IF rows' = rows THEN raced
                      ELSE [r \in Replicas |-> raced[r] \cup Stale(r, h)]
      BY <1>2, WriteDoes
    <2>2. rows' \in Table
      BY <2>1, NewTableType DEF Typed, PeerTypeOK
    <2>3. raced' \in [Replicas -> SUBSET {"boot", "access", "rotate"}]
      <3>1. \A r \in Replicas : Stale(r, h) \subseteq {"boot", "access", "rotate"}
        BY DEF Stale
      <3> QED
        BY <2>1, <3>1 DEF Typed, PeerTypeOK
    <2>4. HandlersTyped'
      <3>1. <<>> \in Seq(Event)
        OBVIOUS
      <3> QED
        BY <1>0, <1>2, <3>1, WriteDoes, ProceedTyped
    <2>5. notes' \in [Replicas -> 0 .. MaxNotes]
      <3>1. \/ UNCHANGED notes
            \/ notes' = [r \in Replicas |->
                    IF connected[r] /\ rows' # rows /\ notes[r] < MaxNotes
                    THEN notes[r] + 1 ELSE notes[r]]
        BY <1>2, WriteDoes
      <3>2. notes \in [Replicas -> 0 .. MaxNotes]
        BY DEF Typed, PeerTypeOK
      <3> QED
        BY <3>1, <3>2, Bounds
    <2>6. RestTyped'
      BY <2>2, <2>3, <2>5, TypedParts DEF RestTyped, Write, deployment
    <2> QED
      BY <2>4, <2>6, TypedParts
  <1> QED
    BY <1>1, <1>2

\* The head of a queue that is not empty is an event, and the rest a queue.
LEMMA QueueHead ==
    ASSUME NEW q \in Seq(Event), q # <<>>
    PROVE  /\ Head(q) \in Event /\ Tail(q) \in Seq(Event)
           /\ Head(q).row \in Row
  <1>1. Head(q) \in Event /\ Tail(q) \in Seq(Event)
    BY HeadTailProperties
  <1> QED
    BY <1>1 DEF Event

\* The step of a handler touches the peers of its own replica only.
LEMMA EmitDoes ==
    ASSUME Typed, NEW h \in Handlers, Emit(h)
    PROVE  /\ peers' \in [Replicas -> [Keys -> Confs \cup {NoPeer}]]
           /\ fails' \in 0 .. MaxFails
           /\ fails' = 0 => fails = 0
           /\ \A q \in Replicas \ {on[h]} : peers'[q] = peers[q]
           /\ on[h] \in Replicas
           /\ resync' = [resync EXCEPT ![on[h]] = TRUE]
  <1>1. pc[h] = "emit" /\ queue[h] # <<>> /\ queue[h] \in Seq(Event) /\ on[h] \in Replicas
    BY DEF Emit, Typed, PeerTypeOK, HandlerOK
  <1>2. PICK e \in Event : /\ e = Head(queue[h]) /\ e.row \in Row
                           /\ IF e.kind = "apply" THEN ApplyPeer(on[h], e.row)
                              ELSE SetPeer(on[h], e.row.key, NoPeer)
    BY <1>1, QueueHead DEF Emit
  <1>3. CASE e.kind = "apply"
    BY <1>1, <1>2, <1>3, ApplyPeerDoes DEF Emit, Resync
  <1>4. CASE e.kind # "apply"
    <2>1. e.row.key \in Keys
      BY <1>2, RowParts
    <2> QED
      BY <1>1, <1>2, <1>4, <2>1, SetPeerDoes DEF Emit, Resync
  <1> QED
    BY <1>3, <1>4

LEMMA EmitTyped ==
    ASSUME Typed, NEW h \in Handlers, Emit(h), UNCHANGED deployment
    PROVE  Typed'
  <1>1. pc[h] = "emit" /\ queue[h] # <<>> /\ queue[h] \in Seq(Event)
    BY DEF Emit, Typed, PeerTypeOK, HandlerOK
  <1>2. Tail(queue[h]) \in Seq(Event)
    BY <1>1, QueueHead
  <1>3. HandlersTyped'
    <2>1. Proceed(h, Tail(queue[h])) /\ queue' = [queue EXCEPT ![h] = Tail(queue[h])]
      BY DEF Emit
    <2> QED
      BY <1>1, <1>2, <2>1, ProceedTyped
  <1>4. RestTyped'
    BY EmitDoes, TypedParts DEF RestTyped, Emit, deployment
  <1> QED
    BY <1>3, <1>4, TypedParts

\* What RotateDeviceKey does to the peers, between its write and its answer.
LEMMA RotateDoes ==
    ASSUME Typed, NEW h \in Handlers, RotateRemove(h) \/ RotateApply(h)
    PROVE  /\ on[h] \in Replicas /\ job[h].op = "rotate" /\ job[h] \in Job
           /\ job[h].slot \in Slots /\ copy[h][job[h].slot] \in Row
           /\ Changed(job[h], copy[h][job[h].slot], copy[h][job[h].slot]) =
                [copy[h][job[h].slot] EXCEPT !.key = job[h].key]
           /\ [copy[h][job[h].slot] EXCEPT !.key = job[h].key] \in Row
  <1>1. /\ job[h].op = "rotate" /\ job[h] \in Job /\ on[h] \in Replicas
        /\ copy[h][job[h].slot] \in Row
    BY DEF RotateRemove, RotateApply, Typed, PeerTypeOK, HandlerOK, SlotOp
  <1>2. job[h].slot \in Slots
    BY <1>1, JobShape DEF SlotOp
  <1> QED
    BY <1>1, <1>2, ChangedRow

LEMMA RotateRemoveTyped ==
    ASSUME Typed, NEW h \in Handlers, RotateRemove(h), UNCHANGED deployment
    PROVE  Typed'
  <1>1. pc[h] = "rotateRemove" /\ pc' = [pc EXCEPT ![h] = "rotateApply"]
        /\ UNCHANGED <<lock, job, copy, queue>>
    BY DEF RotateRemove
  <1>2. HandlersTyped'
    <2>1. \A g \in Handlers : HandlerOK(g)'
      BY <1>1 DEF Typed, PeerTypeOK, HandlerOK
    <2> QED
      BY <1>1, <2>1, TypedParts DEF HandlersTyped, Places
  <1>3. SetPeer(on[h], copy[h][job[h].slot].key, NoPeer)
        /\ copy[h][job[h].slot].key \in Keys /\ on[h] \in Replicas
    BY RotateDoes, RowParts DEF RotateRemove
  <1>4. peers' \in [Replicas -> [Keys -> Confs \cup {NoPeer}]] /\ fails' \in 0 .. MaxFails
    BY <1>3, SetPeerDoes
  <1>5. RestTyped'
    BY <1>4, TypedParts DEF RestTyped, RotateRemove, replicaVars, deployment
  <1> QED
    BY <1>2, <1>5, TypedParts

LEMMA RotateApplyTyped ==
    ASSUME Typed, NEW h \in Handlers, RotateApply(h), UNCHANGED deployment
    PROVE  Typed'
  <1>1. EndRequest(h) /\ UNCHANGED queue
    BY DEF RotateApply
  <1>2. HandlersTyped'
    BY <1>1, EndRequestTyped
  <1>3. /\ ApplyPeer(on[h], [copy[h][job[h].slot] EXCEPT !.key = job[h].key])
        /\ on[h] \in Replicas
        /\ [copy[h][job[h].slot] EXCEPT !.key = job[h].key] \in Row
    BY RotateDoes DEF RotateApply
  <1>4. peers' \in [Replicas -> [Keys -> Confs \cup {NoPeer}]] /\ fails' \in 0 .. MaxFails
    BY <1>3, ApplyPeerDoes
  <1>5. RestTyped'
    BY <1>4, TypedParts DEF RestTyped, RotateApply, replicaVars, deployment
  <1> QED
    BY <1>2, <1>5, TypedParts

-----------------------------------------------------------------------------
(* Types: the loops.                                                       *)

LEMMA SyncerAt ==
    ASSUME Typed, NEW r \in Replicas
    PROVE  /\ \A a \in Syncers : sync[r][a] \in Syncer
           /\ sync[r].boot \in Syncer /\ sync[r].loop \in Syncer
  BY DEF Typed, PeerTypeOK, Syncers

LEMMA DoneOrCases ==
    ASSUME NEW x \in Syncer
    PROVE  /\ DoneOr(x) \in Syncer
           /\ \/ DoneOr(x) = x
              \/ DoneOr(x).pc = "wait" /\ x.remove = {} /\ x.add = {}
  BY AtRestType DEF DoneOr

\* A step of one synchronization leaves all the others alone.
LEMMA SyncStepDoes ==
    ASSUME Typed, NEW r \in Replicas, NEW a \in Syncers, NEW from, NEW to \in Syncer,
           SyncStep(r, a, from, to)
    PROVE  /\ sync' \in [Replicas -> [boot: Syncer, loop: Syncer]]
           /\ a = "boot" => sync'[r].boot = to /\ sync'[r].loop = sync[r].loop
           /\ a = "loop" => sync'[r].loop = to /\ sync'[r].boot = sync[r].boot
           /\ \A q \in Replicas \ {r} : sync'[q] = sync[q]
           /\ HandlersTyped'
  <1>1. sync' = [sync EXCEPT ![r][a] = to]
    BY DEF SyncStep
  <1>2. sync \in [Replicas -> [boot: Syncer, loop: Syncer]]
    BY DEF Typed, PeerTypeOK
  <1>3. HandlersTyped'
    BY HandlersFrame DEF SyncStep
  <1> QED
    BY <1>1, <1>2, <1>3 DEF Syncers

LEMMA ResyncReceiveTyped ==
    ASSUME Typed, NEW r \in Replicas, ResyncReceive(r), UNCHANGED deployment
    PROVE  Typed'
  <1>1. SyncStep(r, "loop", "wait", AtRest("list")) /\ AtRest("list") \in Syncer
        /\ "loop" \in Syncers
    BY AtRestType DEF ResyncReceive, Syncers
  <1>2. sync' \in [Replicas -> [boot: Syncer, loop: Syncer]] /\ HandlersTyped'
    BY <1>1, SyncStepDoes
  <1>3. RestTyped'
    BY <1>1, <1>2, TypedParts DEF RestTyped, ResyncReceive, SyncStep, deployment
  <1> QED
    BY <1>2, <1>3, TypedParts

\* What a synchronization has after it listed the table.
Listed == [AtRest("peers") EXCEPT !.seen = rows]

LEMMA ListedType ==
    ASSUME Typed
    PROVE  Listed \in Syncer /\ Listed.pc = "peers" /\ Listed.seen = rows
  <1>1. rows \in Table
    BY DEF Typed, PeerTypeOK
  <1> QED
    BY <1>1, AtRestType DEF Listed, Syncer

LEMMA SyncListDevicesTyped ==
    ASSUME Typed, NEW r \in Replicas, NEW a \in Syncers, SyncListDevices(r, a),
           UNCHANGED deployment
    PROVE  Typed'
  <1>1. SyncStep(r, a, "list", Listed)
    BY DEF SyncListDevices, Listed
  <1>2. sync' \in [Replicas -> [boot: Syncer, loop: Syncer]] /\ HandlersTyped'
    BY <1>1, ListedType, SyncStepDoes
  <1>3. RestTyped'
    BY <1>1, <1>2, TypedParts DEF RestTyped, SyncListDevices, SyncStep, deployment
  <1> QED
    BY <1>2, <1>3, TypedParts

\* The devices of table t that may connect, and what a synchronization that
\* listed t has to do to the peers of r.
AllowedRows(t) == {t[s] : s \in {x \in Slots : t[x] # NoDevice /\ AccessAllowed(t[x])}}
Compared(r, t) ==
    [AtRest("apply") EXCEPT
        !.remove = {k \in Keys : peers[r][k] # NoPeer} \ {row.key : row \in AllowedRows(t)},
        !.add = {row \in AllowedRows(t) : peers[r][row.key] # row.conf}]

LEMMA ComparedType ==
    ASSUME NEW t \in Table, NEW r
    PROVE  /\ Compared(r, t) \in Syncer
           /\ Compared(r, t).pc = "apply"
           /\ Compared(r, t).remove = {k \in Keys : peers[r][k] # NoPeer} \
                                      {row.key : row \in AllowedRows(t)}
           /\ Compared(r, t).add = {row \in AllowedRows(t) : peers[r][row.key] # row.conf}
  <1> DEFINE R == {k \in Keys : peers[r][k] # NoPeer} \ {row.key : row \in AllowedRows(t)}
             A == {row \in AllowedRows(t) : peers[r][row.key] # row.conf}
  <1>1. AllowedRows(t) \subseteq Row
    BY DEF AllowedRows, Table
  <1>2. R \in SUBSET Keys /\ A \in SUBSET Row
    BY <1>1
  <1>3. Compared(r, t) = [AtRest("apply") EXCEPT !.remove = R, !.add = A]
    BY DEF Compared
  <1> HIDE DEF R, A
  <1>4. /\ Compared(r, t) \in Syncer /\ Compared(r, t).pc = "apply"
        /\ Compared(r, t).remove = R /\ Compared(r, t).add = A
    BY <1>2, <1>3, AtRestType DEF Syncer
  <1> QED
    BY <1>4 DEF R, A

LEMMA SyncListPeersStep ==
    ASSUME Typed, NEW r \in Replicas, NEW a \in Syncers, SyncListPeers(r, a)
    PROVE  /\ SyncStep(r, a, "peers", DoneOr(Compared(r, sync[r][a].seen)))
           /\ Compared(r, sync[r][a].seen) \in Syncer
           /\ DoneOr(Compared(r, sync[r][a].seen)) \in Syncer
           /\ sync[r][a].seen \in Table
           /\ UNCHANGED <<resync, peers, fails>>
  <1>1. sync[r][a].seen \in Table
    BY SyncerAt DEF Syncer
  <1>2. SyncStep(r, a, "peers", DoneOr(Compared(r, sync[r][a].seen)))
    BY DEF SyncListPeers, Compared, AllowedRows
  <1> QED
    BY <1>1, <1>2, ComparedType, DoneOrCases DEF SyncListPeers

LEMMA SyncListPeersTyped ==
    ASSUME Typed, NEW r \in Replicas, NEW a \in Syncers, SyncListPeers(r, a),
           UNCHANGED deployment
    PROVE  Typed'
  <1>2. sync' \in [Replicas -> [boot: Syncer, loop: Syncer]] /\ HandlersTyped'
    BY SyncListPeersStep, SyncStepDoes
  <1>3. RestTyped'
    BY <1>2, SyncListPeersStep, TypedParts DEF RestTyped, SyncStep, deployment
  <1> QED
    BY <1>2, <1>3, TypedParts

\* What is left of a list once an element of it is done.
LEMMA RestOfList ==
    ASSUME NEW x \in Syncer, NEW k, NEW row
    PROVE  /\ DoneOr([x EXCEPT !.remove = @ \ {k}]) \in Syncer
           /\ DoneOr([x EXCEPT !.add = @ \ {row}]) \in Syncer
  <1>1. [x EXCEPT !.remove = @ \ {k}] \in Syncer /\ [x EXCEPT !.add = @ \ {row}] \in Syncer
    BY DEF Syncer
  <1> QED
    BY <1>1, DoneOrCases

LEMMA SyncRemovePeerTyped ==
    ASSUME Typed, NEW r \in Replicas, NEW a \in Syncers, SyncRemovePeer(r, a),
           UNCHANGED deployment
    PROVE  Typed'
  <1>1. PICK k \in sync[r][a].remove :
            /\ SyncStep(r, a, "apply", DoneOr([sync[r][a] EXCEPT !.remove = @ \ {k}]))
            /\ SetPeer(r, k, NoPeer)
            /\ UNCHANGED resync
    BY DEF SyncRemovePeer
  <1>2. k \in Keys
    BY SyncerAt DEF Syncer
  <1>3. sync' \in [Replicas -> [boot: Syncer, loop: Syncer]] /\ HandlersTyped'
    BY <1>1, SyncerAt, RestOfList, SyncStepDoes
  <1>4. peers' \in [Replicas -> [Keys -> Confs \cup {NoPeer}]] /\ fails' \in 0 .. MaxFails
    BY <1>1, <1>2, SetPeerDoes
  <1>5. RestTyped'
    BY <1>1, <1>3, <1>4, TypedParts DEF RestTyped, SyncStep, deployment
  <1> QED
    BY <1>3, <1>5, TypedParts

LEMMA SyncAddPeerTyped ==
    ASSUME Typed, NEW r \in Replicas, NEW a \in Syncers, SyncAddPeer(r, a),
           UNCHANGED deployment
    PROVE  Typed'
  <1>1. PICK row \in sync[r][a].add :
            /\ SyncStep(r, a, "apply", DoneOr([sync[r][a] EXCEPT !.add = @ \ {row}]))
            /\ SetPeer(r, row.key, row.conf)
            /\ UNCHANGED resync
    BY DEF SyncAddPeer
  <1>2. row.key \in Keys /\ row.conf \in Confs
    BY SyncerAt, RowParts DEF Syncer
  <1>3. sync' \in [Replicas -> [boot: Syncer, loop: Syncer]] /\ HandlersTyped'
    BY <1>1, SyncerAt, RestOfList, SyncStepDoes
  <1>4. peers' \in [Replicas -> [Keys -> Confs \cup {NoPeer}]] /\ fails' \in 0 .. MaxFails
    BY <1>1, <1>2, SetPeerDoes
  <1>5. RestTyped'
    BY <1>1, <1>3, <1>4, TypedParts DEF RestTyped, SyncStep, deployment
  <1> QED
    BY <1>3, <1>5, TypedParts

LEMMA SyncFailsTyped ==
    ASSUME Typed, NEW r \in Replicas, SyncFails(r), UNCHANGED deployment
    PROVE  Typed'
  <1>1. SyncStep(r, "loop", sync[r].loop.pc, AtRest("wait")) /\ AtRest("wait") \in Syncer
        /\ "loop" \in Syncers
    BY AtRestType DEF SyncFails, Syncers
  <1>2. sync' \in [Replicas -> [boot: Syncer, loop: Syncer]] /\ HandlersTyped'
    BY <1>1, SyncStepDoes
  <1>3. fails' \in 0 .. MaxFails
    BY Bounds DEF SyncFails, Typed, PeerTypeOK
  <1>4. RestTyped'
    BY <1>1, <1>2, <1>3, TypedParts DEF RestTyped, SyncFails, SyncStep, deployment
  <1> QED
    BY <1>2, <1>4, TypedParts

\* A step of the access pass touches nothing else but peers.
LEMMA AccessStepDoes ==
    ASSUME Typed, NEW r \in Replicas, NEW from, NEW to \in Pass, AccessStep(r, from, to)
    PROVE  /\ access' \in [Replicas -> Pass]
           /\ access'[r] = to
           /\ \A q \in Replicas \ {r} : access'[q] = access[q]
           /\ HandlersTyped'
  <1>1. HandlersTyped'
    BY HandlersFrame DEF AccessStep
  <1> QED
    BY <1>1 DEF AccessStep, Typed, PeerTypeOK

\* The devices that may not connect, as a pass finds them.
Found == [AccessAtRest EXCEPT !.pc = "peers",
            !.blocked = {rows[s].key : s \in {x \in Stored : ~AccessAllowed(rows[x])}}]

LEMMA FoundType ==
    ASSUME Typed
    PROVE  /\ Found \in Pass /\ Found.pc = "peers"
           /\ Found.blocked = {rows[s].key : s \in {x \in Stored : ~AccessAllowed(rows[x])}}
  <1> DEFINE B == {rows[s].key : s \in {x \in Stored : ~AccessAllowed(rows[x])}}
  <1>1. B \in SUBSET Keys
    BY DEF Typed, PeerTypeOK, Table, Stored, Row
  <1>2. Found = [AccessAtRest EXCEPT !.pc = "peers", !.blocked = B]
    BY DEF Found
  <1> HIDE DEF B
  <1>3. Found \in Pass /\ Found.pc = "peers" /\ Found.blocked = B
    BY <1>1, <1>2 DEF AccessAtRest, Pass
  <1> QED
    BY <1>3 DEF B

LEMMA RemainingType ==
    ASSUME NEW keys \in SUBSET Keys
    PROVE  /\ AccessRemaining(keys) \in Pass
           /\ \/ AccessRemaining(keys).pc = "idle"
              \/ AccessRemaining(keys).pc = "remove" /\ AccessRemaining(keys).remove = keys
  BY DEF AccessRemaining, AccessAtRest, Pass

LEMMA PassAt ==
    ASSUME Typed, NEW r \in Replicas
    PROVE  access[r] \in Pass /\ access[r].blocked \subseteq Keys
           /\ access[r].remove \subseteq Keys
  BY DEF Typed, PeerTypeOK, Pass

LEMMA AccessListDevicesTyped ==
    ASSUME Typed, NEW r \in Replicas, AccessListDevices(r), UNCHANGED deployment
    PROVE  Typed'
  <1>1. AccessStep(r, "idle", Found)
    BY DEF AccessListDevices, Found
  <1>2. access' \in [Replicas -> Pass] /\ HandlersTyped'
    BY <1>1, FoundType, AccessStepDoes
  <1>3. RestTyped'
    BY <1>1, <1>2, TypedParts DEF RestTyped, AccessListDevices, AccessStep, deployment
  <1> QED
    BY <1>2, <1>3, TypedParts

LEMMA AccessListPeersTyped ==
    ASSUME Typed, NEW r \in Replicas, AccessListPeers(r), UNCHANGED deployment
    PROVE  Typed'
  <1> DEFINE K == {k \in access[r].blocked : peers[r][k] # NoPeer}
  <1>1. AccessStep(r, "peers", AccessRemaining(K)) /\ K \in SUBSET Keys
    BY PassAt DEF AccessListPeers
  <1> HIDE DEF K
  <1>2. access' \in [Replicas -> Pass] /\ HandlersTyped'
    BY <1>1, RemainingType, AccessStepDoes
  <1>3. RestTyped'
    BY <1>1, <1>2, TypedParts DEF RestTyped, AccessListPeers, AccessStep, deployment
  <1> QED
    BY <1>2, <1>3, TypedParts

LEMMA AccessRemovePeerTyped ==
    ASSUME Typed, NEW r \in Replicas, AccessRemovePeer(r), UNCHANGED deployment
    PROVE  Typed'
  <1>1. PICK k \in access[r].remove :
            /\ AccessStep(r, "remove", AccessRemaining(access[r].remove \ {k}))
            /\ SetPeer(r, k, NoPeer)
    BY DEF AccessRemovePeer
  <1>2. k \in Keys /\ access[r].remove \ {k} \in SUBSET Keys
    BY PassAt
  <1>3. access' \in [Replicas -> Pass] /\ HandlersTyped'
    BY <1>1, <1>2, RemainingType, AccessStepDoes
  <1>4. peers' \in [Replicas -> [Keys -> Confs \cup {NoPeer}]] /\ fails' \in 0 .. MaxFails
    BY <1>1, <1>2, SetPeerDoes
  <1>5. RestTyped'
    BY <1>1, <1>3, <1>4, TypedParts DEF RestTyped, AccessStep, deployment
  <1> QED
    BY <1>3, <1>5, TypedParts

LEMMA AccessFailsTyped ==
    ASSUME Typed, NEW r \in Replicas, AccessFails(r), UNCHANGED deployment
    PROVE  Typed'
  <1>1. AccessStep(r, "peers", AccessAtRest) /\ AccessAtRest \in Pass
    BY DEF AccessFails, AccessAtRest, Pass
  <1>2. access' \in [Replicas -> Pass] /\ HandlersTyped'
    BY <1>1, AccessStepDoes
  <1>3. fails' \in 0 .. MaxFails
    BY Bounds DEF AccessFails, Typed, PeerTypeOK
  <1>4. RestTyped'
    BY <1>1, <1>2, <1>3, TypedParts DEF RestTyped, AccessFails, AccessStep, deployment
  <1> QED
    BY <1>2, <1>4, TypedParts

LEMMA ListenerTyped ==
    ASSUME Typed, NEW r \in Replicas, Notified(r) \/ Disconnect(r) \/ Reconnect(r),
           UNCHANGED deployment
    PROVE  Typed'
  <1>1. HandlersTyped'
    BY HandlersFrame DEF Notified, Disconnect, Reconnect
  <1>2. resync' \in [Replicas -> BOOLEAN] /\ connected' \in [Replicas -> BOOLEAN]
    BY DEF Notified, Disconnect, Reconnect, Resync, Typed, PeerTypeOK
  <1>3. notes' \in [Replicas -> 0 .. MaxNotes]
    <2>1. notes \in [Replicas -> 0 .. MaxNotes] /\ notes[r] \in 0 .. MaxNotes
      BY DEF Typed, PeerTypeOK
    <2>2. \/ UNCHANGED notes
          \/ notes[r] > 0 /\ notes' = [notes EXCEPT ![r] = notes[r] - 1]
          \/ notes' = [notes EXCEPT ![r] = 0]
      BY DEF Notified, Disconnect, Reconnect
    <2>3. (notes[r] > 0 => notes[r] - 1 \in 0 .. MaxNotes) /\ 0 \in 0 .. MaxNotes
      BY <2>1, Bounds
    <2> QED
      BY <2>1, <2>2, <2>3
  <1>4. RestTyped'
    BY <1>2, <1>3, TypedParts DEF RestTyped, Notified, Disconnect, Reconnect, deployment
  <1> QED
    BY <1>1, <1>4, TypedParts

LEMMA RestartTyped ==
    ASSUME Typed, NEW r \in Replicas, Restart(r), UNCHANGED deployment
    PROVE  Typed'
  <1>1. \A h \in Handlers :
            /\ on[h] = r => /\ pc'[h] = "idle" /\ job'[h] = NoJob
                            /\ copy'[h] = NoRows /\ queue'[h] = <<>>
            /\ on[h] # r => /\ pc'[h] = pc[h] /\ job'[h] = job[h]
                            /\ copy'[h] = copy[h] /\ queue'[h] = queue[h]
    BY DEF Restart
  <1>2. \A h \in Handlers : HandlerOK(h)'
    <2> SUFFICES ASSUME NEW h \in Handlers PROVE HandlerOK(h)'
      OBVIOUS
    <2>1. CASE on[h] = r
      BY <1>1, <2>1, NoJobOp DEF HandlerOK
    <2>2. CASE on[h] # r
      BY <1>1, <2>2 DEF HandlerOK, Typed
    <2> QED
      BY <2>1, <2>2
  <1>3. HandlersTyped'
    <2>1. lock' \in Handlers \cup {Nobody}
      BY DEF Restart, Typed, PeerTypeOK
    <2>2. pc' \in [Handlers -> Places]
      BY DEF Restart, Typed, PeerTypeOK, Places
    <2>3. job' \in [Handlers -> Job \cup {NoJob}]
      BY DEF Restart, Typed, PeerTypeOK
    <2>4. copy' \in [Handlers -> Table]
      BY NoRowsType DEF Restart, Typed, PeerTypeOK
    <2>5. queue' \in [Handlers -> Seq(Event)]
      BY DEF Restart, Typed, PeerTypeOK
    <2> QED
      BY <1>2, <2>1, <2>2, <2>3, <2>4, <2>5 DEF HandlersTyped
  <1>4. RestTyped'
    <2>1. restarts' \in 0 .. MaxRestarts
      BY Bounds DEF Restart, Typed, PeerTypeOK
    <2>2. peers' \in [Replicas -> [Keys -> Confs \cup {NoPeer}]]
      BY DEF Restart, Typed, PeerTypeOK, NoPeers
    <2>3. sync' \in [Replicas -> [boot: Syncer, loop: Syncer]]
      BY AtRestType DEF Restart, Typed, PeerTypeOK
    <2>4. access' \in [Replicas -> Pass]
      BY DEF Restart, Typed, PeerTypeOK, AccessAtRest, Pass
    <2>5. notes' \in [Replicas -> 0 .. MaxNotes]
      BY Bounds DEF Restart, Typed, PeerTypeOK
    <2>6. /\ resync' \in [Replicas -> BOOLEAN] /\ connected' \in [Replicas -> BOOLEAN]
          /\ raced' \in [Replicas -> SUBSET {"boot", "access", "rotate"}]
      BY DEF Restart, Typed, PeerTypeOK
    <2> QED
      BY <2>1, <2>2, <2>3, <2>4, <2>5, <2>6, TypedParts DEF RestTyped, Restart, deployment
  <1> QED
    BY <1>3, <1>4, TypedParts

LEMMA TypedInit == Init => Typed
  <1> SUFFICES ASSUME Init PROVE Typed
    OBVIOUS
  <1>1. backend \in Backends /\ on \in [Handlers -> Replicas]
    BY PeerAssumption DEF Init
  <1>2. \A h \in Handlers : HandlerOK(h)
    BY NoJobOp DEF Init, HandlerOK
  <1>3. /\ copy \in [Handlers -> Table] /\ rows \in Table
        /\ sync \in [Replicas -> [boot: Syncer, loop: Syncer]]
    BY NoRowsType, AtRestType DEF Init
  <1>4. /\ now \in 0 .. MaxTime /\ notes \in [Replicas -> 0 .. MaxNotes]
        /\ fails \in 0 .. MaxFails /\ restarts \in 0 .. MaxRestarts
    BY Bounds DEF Init
  <1>5. /\ lock \in Handlers \cup {Nobody}
        /\ pc \in [Handlers -> {"idle", "write", "emit", "rotateRemove", "rotateApply"}]
        /\ job \in [Handlers -> Job \cup {NoJob}] /\ queue \in [Handlers -> Seq(Event)]
    BY DEF Init
  <1>6. /\ peers \in [Replicas -> [Keys -> Confs \cup {NoPeer}]]
        /\ resync \in [Replicas -> BOOLEAN] /\ connected \in [Replicas -> BOOLEAN]
        /\ access \in [Replicas -> Pass]
        /\ raced \in [Replicas -> SUBSET {"boot", "access", "rotate"}]
    BY DEF Init, NoPeers, Pass
  <1> QED
    BY <1>1, <1>2, <1>3, <1>4, <1>5, <1>6 DEF Typed, PeerTypeOK

LEMMA RunningReplicas == Typed => Running \subseteq Replicas
  BY DEF Typed, PeerTypeOK, Running

LEMMA TypedKept == Typed /\ [Next]_vars => Typed'
  <1> SUFFICES ASSUME Typed, [Next]_vars PROVE Typed'
    OBVIOUS
  <1>1. CASE UNCHANGED vars
    BY <1>1 DEF vars, Typed, PeerTypeOK, HandlerOK
  <1>2. CASE Next
    <2>0. UNCHANGED deployment
      BY <1>2 DEF Next
    <2>1. CASE Tick
      BY <2>0, <2>1, TickTyped
    <2>2. ASSUME NEW h \in Handlers, Start(h) \/ HandlerStep(h) PROVE Typed'
      BY <2>0, <2>2, StartTyped, WriteTyped, EmitTyped, RotateRemoveTyped,
         RotateApplyTyped DEF HandlerStep
    <2>3. ASSUME NEW r \in Running, LoopStep(r) PROVE Typed'
      <3>1. r \in Replicas
        BY RunningReplicas
      <3>2. CASE ResyncReceive(r)
        BY <2>0, <3>1, <3>2, ResyncReceiveTyped
      <3>3. ASSUME NEW a \in Syncers,
                   \/ SyncListDevices(r, a) \/ SyncListPeers(r, a)
                   \/ SyncRemovePeer(r, a) \/ SyncAddPeer(r, a)
            PROVE  Typed'
        BY <2>0, <3>1, <3>3, SyncListDevicesTyped, SyncListPeersTyped,
           SyncRemovePeerTyped, SyncAddPeerTyped
      <3> QED
        BY <2>3, <3>2, <3>3 DEF LoopStep
    <2>4. ASSUME NEW r \in Running, PassStep(r) \/ SyncFails(r) \/ AccessFails(r)
          PROVE  Typed'
      <3>1. r \in Replicas
        BY RunningReplicas
      <3> QED
        BY <2>0, <2>4, <3>1, AccessListDevicesTyped, AccessListPeersTyped,
           AccessRemovePeerTyped, SyncFailsTyped, AccessFailsTyped DEF PassStep
    <2>5. ASSUME NEW r \in Running,
                 Notified(r) \/ Disconnect(r) \/ Reconnect(r) \/ Restart(r)
          PROVE  Typed'
      <3>1. r \in Replicas
        BY RunningReplicas
      <3> QED
        BY <2>0, <2>5, <3>1, ListenerTyped, RestartTyped
    <2> QED
      BY <1>2, <2>1, <2>2, <2>3, <2>4, <2>5 DEF Next
  <1> QED
    BY <1>1, <1>2

LEMMA TypedAlways == Spec => []Typed
  BY TypedInit, TypedKept, PTL DEF Spec

\* THEOREM: in every reachable state every variable has its type; in particular
\* every event a callback runs on carries a whole row, and every synchronization
\* and access pass holds keys and rows only (StartSync, EmitCreate and the
\* others of storage, sync, removeBlockedPeers).
THEOREM PeerTypes == Spec => []PeerTypeOK
  <1>1. Typed => PeerTypeOK
    BY DEF Typed
  <1> QED
    BY <1>1, TypedAlways, PTL

-----------------------------------------------------------------------------
(* The deployment and the keys.                                            *)

LEMMA SingleProcessAlways == Spec => []SingleProcess
  <1>1. Init => SingleProcess
    <2> SUFFICES ASSUME Init, backend = "gorm" PROVE \A g, h \in Handlers : on[g] = on[h]
      BY DEF SingleProcess
    <2>1. PICK d \in Deployments : backend = d.backend /\ on = d.on
      BY DEF Init
    <2>2. \A g, h \in Handlers : d.on[g] = d.on[h]
      BY <2>1, PeerAssumption, Zenon
    <2> QED
      BY <2>1, <2>2
  <1>2. SingleProcess /\ [Next]_vars => SingleProcess'
    BY DEF SingleProcess, Next, vars, deployment
  <1> QED
    BY <1>1, <1>2, PTL DEF Spec

LEMMA RowsStay ==
    ASSUME [Next]_vars, \A h \in Handlers : ~Write(h)
    PROVE  rows' = rows
  <1>1. CASE UNCHANGED vars
    BY <1>1 DEF vars
  <1>2. CASE Next
    <2>1. CASE Tick
      BY <2>1 DEF Tick
    <2>2. ASSUME NEW h \in Handlers, Start(h) \/ HandlerStep(h) PROVE rows' = rows
      BY <2>2 DEF Start, HandlerStep, Emit, RotateRemove, RotateApply
    <2>3. ASSUME NEW r \in Running, LoopStep(r) PROVE rows' = rows
      BY <2>3 DEF LoopStep, ResyncReceive, SyncListDevices, SyncListPeers,
                  SyncRemovePeer, SyncAddPeer, SyncStep
    <2>4. ASSUME NEW r \in Running, PassStep(r) \/ SyncFails(r) \/ AccessFails(r)
          PROVE  rows' = rows
      BY <2>4 DEF PassStep, AccessListDevices, AccessListPeers, AccessRemovePeer,
                  SyncFails, AccessFails, AccessStep, SyncStep
    <2>5. ASSUME NEW r \in Running,
                 Notified(r) \/ Disconnect(r) \/ Reconnect(r) \/ Restart(r)
          PROVE  rows' = rows
      BY <2>5 DEF Notified, Disconnect, Reconnect, Restart
    <2> QED
      BY <1>2, <2>1, <2>2, <2>3, <2>4, <2>5 DEF Next
  <1> QED
    BY <1>1, <1>2

LEMMA UniqueKeysKept == Typed /\ UniqueKeys /\ [Next]_vars => UniqueKeys'
  <1> SUFFICES ASSUME Typed, UniqueKeys, [Next]_vars PROVE UniqueKeys'
    OBVIOUS
  <1>1. CASE \A h \in Handlers : ~Write(h)
    BY <1>1, RowsStay DEF UniqueKeys, Stored
  <1>2. ASSUME NEW h \in Handlers, Write(h) PROVE UniqueKeys'
    <2>1. CASE rows' = rows
      BY <2>1 DEF UniqueKeys, Stored
    <2>2. CASE rows' # rows
      <3>1. /\ job[h] \in Job /\ ReadOK(job[h], copy[h]) /\ Writable(job[h], copy[h])
            /\ rows' = NewTable(job[h], copy[h])
        BY <1>2, <2>2, WriteDoes
      <3>2. rows \in Table
        BY DEF Typed, PeerTypeOK
      <3> QED
        BY <3>1, <3>2, NewTableKeys DEF UniqueKeys, Stored
    <2> QED
      BY <2>1, <2>2
  <1> QED
    BY <1>1, <1>2

LEMMA UniqueKeysInit == Init => UniqueKeys
  BY DEF Init, UniqueKeys, Stored, NoRows

-----------------------------------------------------------------------------
(* What stays true of a replica while the table stays.                     *)

ReplicaInv(r) == ReadersFresh(r) /\ LoopFresh(r) /\ Repaired(r)

\* A step that does not write, at most of the clock.
TableStays == rows' = rows /\ now' \in Nat /\ now <= now'

\* A device that may not connect may not do so later, while its row stays.
LEMMA AllowedBefore ==
    ASSUME Typed, TableStays, NEW row \in Row, AccessAllowed(row)'
    PROVE  AccessAllowed(row)
  <1>1. now \in Nat
    BY Bounds DEF Typed, PeerTypeOK
  <1>2. row.expires \in Nat \/ row.expires = Never
    BY Bounds DEF Row, Times
  <1>3. now' \in Nat /\ now <= now'
    BY DEF TableStays
  <1>4. ~row.disabled /\ ~(row.expires # Never /\ row.expires <= now')
    BY DEF AccessAllowed, Expired
  <1>5. ~(row.expires # Never /\ row.expires <= now)
    BY <1>1, <1>2, <1>3, <1>4
  <1> QED
    BY <1>4, <1>5 DEF AccessAllowed, Expired

LEMMA StoredRow ==
    ASSUME Typed, NEW s \in Stored
    PROVE  s \in Slots /\ rows[s] \in Row /\ rows[s].key \in Keys /\ rows[s].conf \in Confs
  BY RowParts DEF Typed, PeerTypeOK, Table, Stored

LEMMA AllowedSlotBefore ==
    ASSUME Typed, TableStays, NEW s \in Stored, AccessAllowed(rows[s])'
    PROVE  AccessAllowed(rows[s])
  <1>1. PICK row \in Row : row = rows[s]
    BY StoredRow
  <1>2. AccessAllowed(row)'
    BY <1>1 DEF AccessAllowed, Expired, TableStays
  <1>3. AccessAllowed(row)
    BY <1>2, AllowedBefore
  <1> QED
    BY <1>1, <1>3

LEMMA StoredStays == TableStays => Stored' = Stored
  BY DEF TableStays, Stored

LEMMA UnwantedStays ==
    ASSUME Typed, TableStays
    PROVE  \A k : (Unwanted(k) => Unwanted(k)') /\ (Unused(k) => Unused(k)')
  <1> SUFFICES ASSUME NEW k
               PROVE  (Unwanted(k) => Unwanted(k)') /\ (Unused(k) => Unused(k)')
    OBVIOUS
  <1>1. Stored' = Stored /\ rows' = rows
    BY StoredStays DEF TableStays
  <1>2. ASSUME Unwanted(k), NEW s \in Stored, AccessAllowed(rows[s])'
        PROVE  rows[s].key # k
    BY <1>2, AllowedSlotBefore DEF Unwanted
  <1> QED
    BY <1>1, <1>2 DEF Unwanted, Unused

LEMMA BootStays ==
    ASSUME Typed, TableStays, NEW r \in Replicas, FreshSync(sync[r].boot),
           sync'[r].boot = sync[r].boot
    PROVE  FreshSync(sync[r].boot)'
  BY UnwantedStays DEF FreshSync, TableStays

LEMMA LoopStays ==
    ASSUME Typed, TableStays, NEW r \in Replicas, FreshSync(sync[r].loop),
           sync'[r].loop = sync[r].loop
    PROVE  FreshSync(sync[r].loop)'
  BY UnwantedStays DEF FreshSync, TableStays

LEMMA PassStays ==
    ASSUME Typed, TableStays, NEW r \in Replicas, FreshPass(access[r]),
           access'[r] = access[r]
    PROVE  FreshPass(access[r])'
  BY UnwantedStays DEF FreshPass, TableStays

LEMMA RotationStays ==
    ASSUME Typed, TableStays, NEW h \in Handlers, FreshRotation(h),
           job'[h] = job[h], copy'[h] = copy[h],
           pc'[h] = "write" <=> pc[h] = "write"
    PROVE  FreshRotation(h)'
  <1>1. Stored' = Stored /\ rows' = rows
    BY StoredStays DEF TableStays
  <1> QED
    BY <1>1 DEF FreshRotation, Unused

LEMMA ServedStays ==
    ASSUME Typed, TableStays, NEW r \in Replicas, Served(r), peers'[r] = peers[r],
           \A row : Adds(sync[r].boot, row) => Adds(sync[r].boot, row)',
           \A row : Adds(sync[r].loop, row) => Adds(sync[r].loop, row)'
    PROVE  Served(r)'
  <1>1. Stored' = Stored /\ rows' = rows
    BY StoredStays DEF TableStays
  <1>2. ASSUME NEW s \in Stored, AccessAllowed(rows[s])'
        PROVE  \/ peers'[r][rows[s].key] = rows[s].conf
               \/ Adds(sync'[r].boot, rows[s]) \/ Adds(sync'[r].loop, rows[s])
    BY <1>2, AllowedSlotBefore DEF Served, Adds
  <1> QED
    BY <1>1, <1>2 DEF Served, Adds

LEMMA JustifiedStays ==
    ASSUME Typed, TableStays, NEW r \in Replicas, Justified(r), peers'[r] = peers[r],
           \A k \in Keys : Touches(sync[r].boot, k) => Touches(sync[r].boot, k)',
           \A k \in Keys : Touches(sync[r].loop, k) => Touches(sync[r].loop, k)'
    PROVE  Justified(r)'
  <1>1. Stored' = Stored /\ rows' = rows
    BY StoredStays DEF TableStays
  <1> QED
    BY <1>1 DEF Justified, Touches

\* Taking a peer away that no device may have.
LEMMA RemoveKeeps ==
    ASSUME Typed, TableStays, NEW r \in Replicas, Served(r), Justified(r),
           NEW k \in Keys, Unwanted(k),
           peers'[r] = [peers[r] EXCEPT ![k] = NoPeer],
           \A row : Adds(sync[r].boot, row) => Adds(sync[r].boot, row)',
           \A row : Adds(sync[r].loop, row) => Adds(sync[r].loop, row)',
           \A x \in Keys \ {k} : Touches(sync[r].boot, x) => Touches(sync[r].boot, x)',
           \A x \in Keys \ {k} : Touches(sync[r].loop, x) => Touches(sync[r].loop, x)'
    PROVE  Served(r)' /\ Justified(r)'
  <1>0. peers[r] \in [Keys -> Confs \cup {NoPeer}]
    BY DEF Typed, PeerTypeOK
  <1>1. Stored' = Stored /\ rows' = rows
    BY StoredStays DEF TableStays
  <1>2. ASSUME NEW s \in Stored, AccessAllowed(rows[s])'
        PROVE  \/ peers'[r][rows[s].key] = rows[s].conf
               \/ Adds(sync'[r].boot, rows[s]) \/ Adds(sync'[r].loop, rows[s])
    <2>1. AccessAllowed(rows[s]) /\ rows[s].key # k /\ rows[s].key \in Keys
      BY <1>2, AllowedSlotBefore, StoredRow DEF Unwanted
    <2>2. peers'[r][rows[s].key] = peers[r][rows[s].key]
      BY <1>0, <2>1
    <2> QED
      BY <2>1, <2>2 DEF Served, Adds
  <1>3. ASSUME NEW x \in Keys, peers'[r][x] # NoPeer
        PROVE  \/ \E s \in Stored : /\ rows[s].key = x /\ ~rows[s].disabled
                                    /\ rows[s].conf = peers'[r][x]
               \/ Touches(sync'[r].boot, x) \/ Touches(sync'[r].loop, x)
    <2>1. x # k /\ peers'[r][x] = peers[r][x]
      BY <1>0, <1>3
    <2> QED
      BY <1>3, <2>1 DEF Justified, Touches
  <1>4. Served(r)'
    BY <1>1, <1>2 DEF Served, Adds
  <1>5. Justified(r)'
    BY <1>1, <1>3 DEF Justified, Touches
  <1> QED
    BY <1>4, <1>5

\* Configuring the peer of a stored device that is not blocked.
LEMMA AddKeeps ==
    ASSUME Typed, UniqueKeys, TableStays, NEW r \in Replicas, Served(r), Justified(r),
           NEW t \in Stored, ~rows[t].disabled,
           peers'[r] = [peers[r] EXCEPT ![rows[t].key] = rows[t].conf],
           \A row : row # rows[t] => (Adds(sync[r].boot, row) => Adds(sync[r].boot, row)'),
           \A row : row # rows[t] => (Adds(sync[r].loop, row) => Adds(sync[r].loop, row)'),
           \A x \in Keys \ {rows[t].key} :
                Touches(sync[r].boot, x) => Touches(sync[r].boot, x)',
           \A x \in Keys \ {rows[t].key} :
                Touches(sync[r].loop, x) => Touches(sync[r].loop, x)'
    PROVE  Served(r)' /\ Justified(r)'
  <1>0. peers[r] \in [Keys -> Confs \cup {NoPeer}]
    BY DEF Typed, PeerTypeOK
  <1>1. Stored' = Stored /\ rows' = rows
    BY StoredStays DEF TableStays
  <1>2. ASSUME NEW s \in Stored, AccessAllowed(rows[s])'
        PROVE  \/ peers'[r][rows[s].key] = rows[s].conf
               \/ Adds(sync'[r].boot, rows[s]) \/ Adds(sync'[r].loop, rows[s])
    <2>1. CASE s = t
      BY <1>0, <2>1, StoredRow
    <2>2. CASE s # t
      <3>1. AccessAllowed(rows[s]) /\ rows[s].key # rows[t].key
            /\ rows[s].key \in Keys
        BY <1>2, <2>2, AllowedSlotBefore, StoredRow DEF UniqueKeys
      <3>2. peers'[r][rows[s].key] = peers[r][rows[s].key]
        BY <1>0, <3>1
      <3> QED
        BY <3>1, <3>2 DEF Served, Adds
    <2> QED
      BY <2>1, <2>2
  <1>3. ASSUME NEW x \in Keys, peers'[r][x] # NoPeer
        PROVE  \/ \E s \in Stored : /\ rows[s].key = x /\ ~rows[s].disabled
                                    /\ rows[s].conf = peers'[r][x]
               \/ Touches(sync'[r].boot, x) \/ Touches(sync'[r].loop, x)
    <2>1. CASE x = rows[t].key
      BY <1>0, <2>1
    <2>2. CASE x # rows[t].key
      <3>1. peers'[r][x] = peers[r][x]
        BY <1>0, <2>2
      <3> QED
        BY <1>3, <2>2, <3>1 DEF Justified, Touches
    <2> QED
      BY <2>1, <2>2
  <1>4. Served(r)'
    BY <1>1, <1>2 DEF Served, Adds
  <1>5. Justified(r)'
    BY <1>1, <1>3 DEF Justified, Touches
  <1> QED
    BY <1>4, <1>5

-----------------------------------------------------------------------------
(* One lemma per action: what it leaves true of every replica.             *)

\* The readers of r that ask for no resync, where they and the table stay.
LEMMA ReadersStay ==
    ASSUME Typed, TableStays, NEW r \in Replicas, ReadersFresh(r),
           UNCHANGED <<on, raced>>, sync'[r].boot = sync[r].boot,
           access'[r] = access[r],
           \A h \in Handlers : on[h] = r =>
                /\ job'[h] = job[h] /\ copy'[h] = copy[h]
                /\ pc'[h] = "write" <=> pc[h] = "write"
    PROVE  ReadersFresh(r)'
  <1> SUFFICES ASSUME raced[r] = {}
               PROVE  /\ FreshSync(sync[r].boot)' /\ FreshPass(access[r])'
                      /\ \A h \in Handlers : on[h] = r => FreshRotation(h)'
    BY DEF ReadersFresh
  <1>1. FreshSync(sync[r].boot) /\ FreshPass(access[r])
        /\ \A h \in Handlers : on[h] = r => FreshRotation(h)
    BY DEF ReadersFresh
  <1> QED
    BY <1>1, BootStays, PassStays, RotationStays

\* A step that leaves r alone.
LEMMA ReplicaFrame ==
    ASSUME Typed, TableStays, NEW r \in Replicas, ReplicaInv(r), on' = on,
           raced'[r] = raced[r],
           peers'[r] = peers[r], sync'[r] = sync[r], access'[r] = access[r],
           resync'[r] = resync[r], notes'[r] = notes[r], connected'[r] = connected[r],
           fails' = 0 => fails = 0,
           \A h \in Handlers : on[h] = r =>
                pc'[h] = pc[h] /\ job'[h] = job[h] /\ copy'[h] = copy[h]
    PROVE  ReplicaInv(r)'
  <1>1. LoopDue(r)' <=> LoopDue(r)
    BY DEF LoopDue
  <1>2. Comparing(r)' <=> Comparing(r)
    BY DEF Comparing
  <1>3. ReadersFresh(r)'
    <2> SUFFICES ASSUME raced[r] = {}
                 PROVE  /\ FreshSync(sync[r].boot)' /\ FreshPass(access[r])'
                        /\ \A h \in Handlers : on[h] = r => FreshRotation(h)'
      BY DEF ReadersFresh
    <2>1. FreshSync(sync[r].boot) /\ FreshPass(access[r])
          /\ \A h \in Handlers : on[h] = r => FreshRotation(h)
      BY DEF ReplicaInv, ReadersFresh
    <2> QED
      BY <2>1, BootStays, PassStays, RotationStays
  <1>4. LoopFresh(r)'
    BY <1>1, LoopStays DEF ReplicaInv, LoopFresh
  <1>5. Repaired(r)'
    <2>1. /\ \A row : Adds(sync[r].boot, row) => Adds(sync[r].boot, row)'
          /\ \A row : Adds(sync[r].loop, row) => Adds(sync[r].loop, row)'
          /\ \A k \in Keys : Touches(sync[r].boot, k) => Touches(sync[r].boot, k)'
          /\ \A k \in Keys : Touches(sync[r].loop, k) => Touches(sync[r].loop, k)'
      BY DEF Adds, Touches
    <2> SUFFICES ASSUME (fails = 0 /\ raced[r] = {} /\ ~LoopDue(r) /\ ~Comparing(r))'
                 PROVE  Served(r)' /\ Justified(r)'
      BY DEF Repaired
    <2>2. Served(r) /\ Justified(r)
      BY <1>1, <1>2 DEF ReplicaInv, Repaired
    <2> QED
      BY <2>1, <2>2, ServedStays, JustifiedStays
  <1> QED
    BY <1>3, <1>4, <1>5 DEF ReplicaInv

\* A step after which another run of resyncLoop is due.
LEMMA DueKeeps ==
    ASSUME Typed, NEW r \in Replicas, ReadersFresh(r)', LoopDue(r)'
    PROVE  ReplicaInv(r)'
  BY DEF ReplicaInv, LoopFresh, Repaired

\* The clock.
LEMMA ClockStays ==
    ASSUME Typed, rows' = rows, now' = now
    PROVE  TableStays
  BY Bounds DEF Typed, PeerTypeOK, TableStays

LEMMA TickKeeps ==
    ASSUME Typed, Tick, UNCHANGED deployment, NEW r \in Replicas, ReplicaInv(r)
    PROVE  ReplicaInv(r)'
  <1>1. TableStays
    BY Bounds DEF Typed, PeerTypeOK, TableStays, Tick
  <1> QED
    BY <1>1, ReplicaFrame DEF Tick, handlerVars, replicaVars, deployment

LEMMA StutterKeeps ==
    ASSUME Typed, UNCHANGED vars, NEW r \in Replicas, ReplicaInv(r)
    PROVE  ReplicaInv(r)'
  BY ClockStays, ReplicaFrame DEF vars

\* A rotation that starts has read what is stored, under a key nobody has.
LEMMA StartKeeps ==
    ASSUME Typed, NEW h \in Handlers, Start(h), UNCHANGED deployment,
           NEW r \in Replicas, ReplicaInv(r)
    PROVE  ReplicaInv(r)'
  <1>0. TableStays
    BY ClockStays DEF Start
  <1>1. PICK j \in Requests[backend] :
            /\ Accepted(j)
            /\ job' = [job EXCEPT ![h] = j]
            /\ copy' = [copy EXCEPT ![h] = WhatIsRead(j)]
    BY DEF Start
  <1>2. j \in Job
    BY RequestsAssumption DEF Typed, PeerTypeOK
  <1>3. pc' = [pc EXCEPT ![h] = "write"] /\ pc[h] = "idle"
    BY DEF Start
  <1>4. on' = on /\ UNCHANGED <<raced, peers, sync, access, resync, notes, connected, fails>>
    BY DEF Start, deployment, replicaVars
  <1>5. FreshRotation(h)'
    <2> SUFFICES ASSUME j.op = "rotate"
                 PROVE  rows[j.slot] = WhatIsRead(j)[j.slot] /\ Unused(j.key)
      BY <1>0, <1>1, <1>3, StoredStays
         DEF FreshRotation, Unused, TableStays, Typed, PeerTypeOK
    <2>1. j.slot \in Slots /\ SlotOp(j)
      BY <1>2, JobShape DEF SlotOp
    <2>2. WhatIsRead(j) = [NoRows EXCEPT ![j.slot] = rows[j.slot]]
      BY <2>1 DEF WhatIsRead
    <2> QED
      BY <1>1, <2>1, <2>2 DEF Accepted, Unused, NoRows
  <1>6. \A g \in Handlers \ {h} : pc'[g] = pc[g] /\ job'[g] = job[g] /\ copy'[g] = copy[g]
    BY <1>1, <1>3 DEF Typed, PeerTypeOK
  <1>7. ReadersFresh(r)'
    <2> SUFFICES ASSUME raced[r] = {}
                 PROVE  /\ FreshSync(sync[r].boot)' /\ FreshPass(access[r])'
                        /\ \A g \in Handlers : on[g] = r => FreshRotation(g)'
      BY <1>4 DEF ReadersFresh
    <2>1. FreshSync(sync[r].boot) /\ FreshPass(access[r])
          /\ \A g \in Handlers : on[g] = r => FreshRotation(g)
      BY DEF ReplicaInv, ReadersFresh
    <2>2. FreshSync(sync[r].boot)' /\ FreshPass(access[r])'
      BY <1>0, <1>4, <2>1, BootStays, PassStays
    <2>3. ASSUME NEW g \in Handlers, on[g] = r PROVE FreshRotation(g)'
      BY <1>0, <1>5, <1>6, <2>1, <2>3, RotationStays
    <2> QED
      BY <2>2, <2>3
  <1>8. LoopDue(r)' <=> LoopDue(r)
    BY <1>3, <1>4, <1>6 DEF LoopDue, Typed, PeerTypeOK
  <1>9. LoopFresh(r)'
    BY <1>0, <1>4, <1>8, LoopStays DEF ReplicaInv, LoopFresh
  <1>10. Repaired(r)'
    <2>1. /\ \A row : Adds(sync[r].boot, row) => Adds(sync[r].boot, row)'
          /\ \A row : Adds(sync[r].loop, row) => Adds(sync[r].loop, row)'
          /\ \A k \in Keys : Touches(sync[r].boot, k) => Touches(sync[r].boot, k)'
          /\ \A k \in Keys : Touches(sync[r].loop, k) => Touches(sync[r].loop, k)'
      BY <1>4 DEF Adds, Touches
    <2> SUFFICES ASSUME (fails = 0 /\ raced[r] = {} /\ ~LoopDue(r) /\ ~Comparing(r))'
                 PROVE  Served(r)' /\ Justified(r)'
      BY DEF Repaired
    <2>2. Served(r) /\ Justified(r)
      BY <1>4, <1>8 DEF ReplicaInv, Repaired, Comparing
    <2> QED
      BY <1>0, <1>4, <2>1, <2>2, ServedStays, JustifiedStays
  <1> QED
    BY <1>7, <1>9, <1>10 DEF ReplicaInv

\* What a request's end or its next step does to the handlers.
LEMMA ProceedDoes ==
    ASSUME Typed, NEW h \in Handlers, NEW events, Proceed(h, events)
    PROVE  /\ \A g \in Handlers \ {h} :
                pc'[g] = pc[g] /\ job'[g] = job[g] /\ copy'[g] = copy[g]
           /\ events # <<>> => pc'[h] = "emit"
           /\ pc'[h] # "write"
           /\ \/ job'[h] = NoJob
              \/ job'[h] = job[h] /\ copy'[h] = copy[h]
  BY DEF Proceed, EndRequest, Typed, PeerTypeOK

LEMMA EndRequestDoes ==
    ASSUME Typed, NEW h \in Handlers, EndRequest(h)
    PROVE  /\ \A g \in Handlers \ {h} :
                pc'[g] = pc[g] /\ job'[g] = job[g] /\ copy'[g] = copy[g]
           /\ pc'[h] = "idle" /\ job'[h] = NoJob
  BY DEF EndRequest, Typed, PeerTypeOK

\* The write of a rotation: afterwards the row has the new key, and nobody the
\* old one.
LEMMA RotationWrites ==
    ASSUME Typed, UniqueKeys, NEW h \in Handlers, pc[h] = "write", FreshRotation(h),
           Writable(job[h], copy[h]), rows' = NewTable(job[h], copy[h]),
           pc'[h] # "write", job'[h] = job[h], copy'[h] = copy[h]
    PROVE  FreshRotation(h)'
  <1> SUFFICES ASSUME job[h].op = "rotate"
               PROVE  /\ rows'[job[h].slot] =
                            [copy[h][job[h].slot] EXCEPT !.key = job[h].key]
                      /\ Unused(copy[h][job[h].slot].key)'
    BY DEF FreshRotation, Unused
  <1>1. job[h] \in Job /\ ReadOK(job[h], copy[h]) /\ rows \in Table
    BY HandlerReads DEF Typed, PeerTypeOK
  <1>2. job[h].slot \in Slots /\ SlotOp(job[h]) /\ Target(job[h], copy[h]) = {job[h].slot}
    BY <1>1, JobShape DEF SlotOp, Target
  <1>3. PICK read \in Row : read = copy[h][job[h].slot]
    BY <1>1, <1>2 DEF ReadOK
  <1>4. rows[job[h].slot] = read /\ Unused(job[h].key)
    BY <1>3 DEF FreshRotation
  <1>5. job[h].slot \in Stored
    BY <1>2, <1>3, <1>4, PeerAssumption DEF Stored
  <1>6. rows'[job[h].slot] = [read EXCEPT !.key = job[h].key]
    BY <1>1, <1>2, <1>3, <1>4, NewTableAt, ChangedRow
  <1>7. \A s \in Slots \ {job[h].slot} : rows'[s] = rows[s]
    BY <1>1, <1>2, NewTableAt
  <1>8. job[h].key # read.key
    BY <1>4, <1>5 DEF Unused
  <1>9. ASSUME NEW s \in Stored' PROVE rows'[s].key # read.key
    <2>1. CASE s = job[h].slot
      BY <1>6, <1>8, <2>1 DEF Row
    <2>2. CASE s # job[h].slot
      <3>1. s \in Stored /\ rows'[s] = rows[s]
        BY <1>7, <2>2 DEF Stored
      <3> QED
        BY <1>4, <1>5, <2>2, <3>1 DEF UniqueKeys
    <2> QED
      BY <2>1, <2>2
  <1> QED
    BY <1>3, <1>6, <1>9 DEF Unused

\* The rotation of the handler that writes, whatever becomes of its request.
LEMMA WriterFresh ==
    ASSUME Typed, UniqueKeys, NEW h \in Handlers, Write(h), FreshRotation(h)
    PROVE  FreshRotation(h)'
  <1>1. pc[h] = "write"
    BY DEF Write
  <1>2. CASE job'[h] = NoJob
    BY <1>2, NoJobOp DEF FreshRotation
  <1>3. CASE job'[h] # NoJob
    <2>1. ~EndRequest(h)
      BY <1>3, EndRequestDoes
    <2>2. /\ Writable(job[h], copy[h]) /\ rows' = NewTable(job[h], copy[h])
          /\ \E events : Proceed(h, events)
      BY <2>1, WriteDoes
    <2>3. pc'[h] # "write" /\ job'[h] = job[h] /\ copy'[h] = copy[h]
      BY <1>3, <2>2, ProceedDoes
    <2> QED
      BY <1>1, <2>2, <2>3, RotationWrites
  <1> QED
    BY <1>2, <1>3

LEMMA WriteHandlers ==
    ASSUME Typed, NEW h \in Handlers, Write(h)
    PROVE  /\ \A g \in Handlers \ {h} :
                pc'[g] = pc[g] /\ job'[g] = job[g] /\ copy'[g] = copy[g]
           /\ pc[h] = "write"
  BY WriteDoes, ProceedDoes, EndRequestDoes DEF Write

\* A write that changes the table: every reader of r that asks for no resync is
\* recorded, and another run of resyncLoop is due.
LEMMA ChangeKeeps ==
    ASSUME Typed, SingleProcess, UniqueKeys, NEW h \in Handlers, Write(h),
           UNCHANGED deployment, rows' # rows, NEW r \in Running, ReplicaInv(r)
    PROVE  ReplicaInv(r)'
  <1>0. r \in Replicas
    BY RunningReplicas
  <1>1. raced'[r] = raced[r] \cup Stale(r, h)
    <2>1. raced' = [q \in Replicas |-> raced[q] \cup Stale(q, h)]
      BY WriteDoes
    <2> QED
      BY <1>0, <2>1
  <1>2. UNCHANGED <<sync, access, on, connected>>
    BY DEF Write, deployment
  <1>3. ReadersFresh(r)'
    <2> SUFFICES ASSUME raced'[r] = {}
                 PROVE  /\ FreshSync(sync[r].boot)' /\ FreshPass(access[r])'
                        /\ \A g \in Handlers : on[g] = r => FreshRotation(g)'
      BY <1>2 DEF ReadersFresh
    <2>1. raced[r] = {} /\ Stale(r, h) = {}
      BY <1>1
    <2>2. sync[r].boot.pc \notin {"peers", "apply"} /\ access[r].pc = "idle"
      BY <2>1 DEF Stale
    <2>3. \A g \in Handlers \ {h} : on[g] = r => job[g].op # "rotate"
      BY <2>1 DEF Stale
    <2>4. FreshSync(sync[r].boot)' /\ FreshPass(access[r])'
      BY <1>2, <2>2 DEF FreshSync, FreshPass
    <2>5. ASSUME NEW g \in Handlers, on[g] = r PROVE FreshRotation(g)'
      <3>1. CASE g = h
        BY <2>1, <2>5, <3>1, WriterFresh DEF ReplicaInv, ReadersFresh
      <3>2. CASE g # h
        BY <2>3, <2>5, <3>2, WriteHandlers DEF FreshRotation
      <3> QED
        BY <3>1, <3>2
    <2> QED
      BY <2>4, <2>5
  <1>4. LoopDue(r)'
    <2>1. ~(EndRequest(h) /\ UNCHANGED <<rows, raced, queue, notes>>)
      OBVIOUS
    <2>2. CASE backend = "gorm"
      <3>1. on[h] = r
        BY <2>2 DEF SingleProcess, Running
      <3>2. pc'[h] = "emit"
        BY <2>1, <2>2, WriteDoes, ProceedDoes
      <3> QED
        BY <1>2, <3>1, <3>2 DEF LoopDue
    <2>3. CASE backend # "gorm"
      <3>1. notes' = [q \in Replicas |->
                IF connected[q] /\ rows' # rows /\ notes[q] < MaxNotes
                THEN notes[q] + 1 ELSE notes[q]]
        BY <2>1, <2>3, WriteDoes
      <3>2. notes[r] \in 0 .. MaxNotes
        BY <1>0 DEF Typed, PeerTypeOK
      <3>3. notes'[r] > 0 \/ ~connected[r]
        BY <1>0, <3>1, <3>2, Bounds
      <3> QED
        BY <1>2, <3>3 DEF LoopDue
    <2> QED
      BY <2>2, <2>3
  <1> QED
    BY <1>0, <1>3, <1>4, DueKeeps

\* A write that leaves the table as it is.
LEMMA SameTableKeeps ==
    ASSUME Typed, UniqueKeys, NEW h \in Handlers, Write(h),
           UNCHANGED deployment, rows' = rows, NEW r \in Replicas, ReplicaInv(r)
    PROVE  ReplicaInv(r)'
  <1>0. TableStays
    BY ClockStays DEF Write
  <1>1. UNCHANGED <<sync, access, on, connected, resync, peers, fails>>
    BY DEF Write, deployment
  <1>2. UNCHANGED raced
    BY WriteDoes
  <1>3. ReadersFresh(r)'
    <2> SUFFICES ASSUME raced[r] = {}
                 PROVE  /\ FreshSync(sync[r].boot)' /\ FreshPass(access[r])'
                        /\ \A g \in Handlers : on[g] = r => FreshRotation(g)'
      BY <1>1, <1>2 DEF ReadersFresh
    <2>1. FreshSync(sync[r].boot) /\ FreshPass(access[r])
          /\ \A g \in Handlers : on[g] = r => FreshRotation(g)
      BY DEF ReplicaInv, ReadersFresh
    <2>2. FreshSync(sync[r].boot)' /\ FreshPass(access[r])'
      BY <1>0, <1>1, <2>1, BootStays, PassStays
    <2>3. ASSUME NEW g \in Handlers, on[g] = r PROVE FreshRotation(g)'
      BY <1>0, <2>1, <2>3, WriterFresh, WriteHandlers, RotationStays
    <2> QED
      BY <2>2, <2>3
  <1>4. LoopDue(r) => LoopDue(r)'
    <2>1. notes[r] > 0 => notes'[r] > 0
      <3>1. notes[r] \in 0 .. MaxNotes
        BY DEF Typed, PeerTypeOK
      <3>2. \/ UNCHANGED notes
            \/ notes' = [q \in Replicas |->
                IF connected[q] /\ rows' # rows /\ notes[q] < MaxNotes
                THEN notes[q] + 1 ELSE notes[q]]
        BY WriteDoes
      <3> QED
        BY <3>1, <3>2
    <2>2. \A g \in Handlers : pc[g] = "emit" => pc'[g] = "emit"
      BY WriteHandlers
    <2> QED
      BY <1>1, <2>1, <2>2 DEF LoopDue
  <1>5. LoopFresh(r)'
    BY <1>0, <1>1, <1>4, LoopStays DEF ReplicaInv, LoopFresh
  <1>6. Repaired(r)'
    <2>1. /\ \A row : Adds(sync[r].boot, row) => Adds(sync[r].boot, row)'
          /\ \A row : Adds(sync[r].loop, row) => Adds(sync[r].loop, row)'
          /\ \A k \in Keys : Touches(sync[r].boot, k) => Touches(sync[r].boot, k)'
          /\ \A k \in Keys : Touches(sync[r].loop, k) => Touches(sync[r].loop, k)'
      BY <1>1 DEF Adds, Touches
    <2> SUFFICES ASSUME (fails = 0 /\ raced[r] = {} /\ ~LoopDue(r) /\ ~Comparing(r))'
                 PROVE  Served(r)' /\ Justified(r)'
      BY DEF Repaired
    <2>2. Served(r) /\ Justified(r)
      BY <1>1, <1>2, <1>4 DEF ReplicaInv, Repaired, Comparing
    <2> QED
      BY <1>0, <1>1, <2>1, <2>2, ServedStays, JustifiedStays
  <1> QED
    BY <1>3, <1>5, <1>6 DEF ReplicaInv

\* The readers of r after a step of handler h beyond its write.
LEMMA ReadersAfter ==
    ASSUME Typed, TableStays, NEW r \in Replicas, ReadersFresh(r), NEW h \in Handlers,
           UNCHANGED <<on, raced, sync, access>>, pc[h] # "write", pc'[h] # "write",
           job'[h] = NoJob \/ (job'[h] = job[h] /\ copy'[h] = copy[h]),
           \A g \in Handlers \ {h} :
                pc'[g] = pc[g] /\ job'[g] = job[g] /\ copy'[g] = copy[g]
    PROVE  ReadersFresh(r)'
  <1> SUFFICES ASSUME raced[r] = {}
               PROVE  /\ FreshSync(sync[r].boot)' /\ FreshPass(access[r])'
                      /\ \A g \in Handlers : on[g] = r => FreshRotation(g)'
    BY DEF ReadersFresh
  <1>1. FreshSync(sync[r].boot) /\ FreshPass(access[r])
        /\ \A g \in Handlers : on[g] = r => FreshRotation(g)
    BY DEF ReadersFresh
  <1>2. FreshSync(sync[r].boot)' /\ FreshPass(access[r])'
    BY <1>1, BootStays, PassStays
  <1>3. job'[h] = NoJob => FreshRotation(h)'
    BY NoJobOp DEF FreshRotation
  <1>4. ASSUME NEW g \in Handlers, on[g] = r PROVE FreshRotation(g)'
    BY <1>1, <1>3, <1>4, RotationStays
  <1> QED
    BY <1>2, <1>4

LEMMA EmitKeeps ==
    ASSUME Typed, NEW h \in Handlers, Emit(h), UNCHANGED deployment,
           NEW r \in Replicas, ReplicaInv(r)
    PROVE  ReplicaInv(r)'
  <1>0. TableStays
    BY ClockStays DEF Emit
  <1>1. /\ pc[h] = "emit" /\ Proceed(h, Tail(queue[h]))
        /\ UNCHANGED <<on, raced, sync, access, notes, connected>>
    BY DEF Emit, deployment
  <1>2. CASE on[h] = r
    <2>1. resync'[r]
      BY <1>2, EmitDoes DEF Typed, PeerTypeOK
    <2>2. ReadersFresh(r)'
      BY <1>0, <1>1, ProceedDoes, ReadersAfter DEF ReplicaInv
    <2> QED
      BY <2>1, <2>2, DueKeeps DEF LoopDue
  <1>3. CASE on[h] # r
    <2>1. /\ peers'[r] = peers[r] /\ resync'[r] = resync[r]
          /\ fails' = 0 => fails = 0
      BY <1>3, EmitDoes DEF Typed, PeerTypeOK
    <2> QED
      BY <1>0, <1>1, <1>3, <2>1, ProceedDoes, ReplicaFrame
  <1> QED
    BY <1>2, <1>3

\* The variables of r that steps on its interface alone leave as they are.
LEMMA DueSame ==
    ASSUME NEW r, UNCHANGED <<on, resync, notes, connected>>,
           sync'[r].loop.pc = "list" <=> sync[r].loop.pc = "list",
           \A h \in Handlers : pc'[h] = "emit" <=> pc[h] = "emit"
    PROVE  LoopDue(r)' <=> LoopDue(r)
  BY DEF LoopDue

LEMMA RotateRemoveKeeps ==
    ASSUME Typed, UniqueKeys, NEW h \in Handlers, RotateRemove(h), UNCHANGED deployment,
           NEW r \in Replicas, ReplicaInv(r)
    PROVE  ReplicaInv(r)'
  <1>0. TableStays
    BY ClockStays DEF RotateRemove
  <1>1. /\ pc[h] = "rotateRemove" /\ pc' = [pc EXCEPT ![h] = "rotateApply"]
        /\ UNCHANGED <<job, copy, on, raced, sync, access, notes, connected, resync>>
    BY DEF RotateRemove, deployment, replicaVars
  <1>2. PICK read \in Row : read = copy[h][job[h].slot]
    BY RotateDoes
  <1>3. SetPeer(on[h], read.key, NoPeer) /\ read.key \in Keys /\ on[h] \in Replicas
        /\ job[h].op = "rotate"
    BY <1>2, RotateDoes, RowParts DEF RotateRemove
  <1>4. \A g \in Handlers : g # h => pc'[g] = pc[g]
    BY <1>1 DEF Typed, PeerTypeOK
  <1>5. pc'[h] = "rotateApply"
    BY <1>1 DEF Typed, PeerTypeOK
  <1>6. CASE on[h] # r
    <2>1. peers'[r] = peers[r] /\ (fails' = 0 => fails = 0)
      BY <1>3, <1>6, SetPeerDoes
    <2> QED
      BY <1>0, <1>1, <1>4, <1>6, <2>1, ReplicaFrame
  <1>7. CASE on[h] = r
    <2>1. ReadersFresh(r)'
      BY <1>0, <1>1, <1>4, <1>5, ReadersAfter DEF ReplicaInv
    <2>2. LoopDue(r)' <=> LoopDue(r)
      BY <1>1, <1>4, <1>5, DueSame
    <2>3. LoopFresh(r)'
      BY <1>0, <1>1, <2>2, LoopStays DEF ReplicaInv, LoopFresh
    <2>4. Repaired(r)'
      <3> SUFFICES ASSUME (fails = 0 /\ raced[r] = {} /\ ~LoopDue(r) /\ ~Comparing(r))'
                   PROVE  Served(r)' /\ Justified(r)'
        BY DEF Repaired
      <3>0. fails' = 0 /\ NoPeer \in Confs \cup {NoPeer} /\ SetPeer(r, read.key, NoPeer)
        BY <1>3, <1>7
      <3>1. fails = 0 /\ peers'[r] = [peers[r] EXCEPT ![read.key] = NoPeer]
        BY <1>3, <3>0, SetPeerDoes
      <3>2. Served(r) /\ Justified(r)
        BY <1>1, <2>2, <3>1 DEF ReplicaInv, Repaired, Comparing
      <3>3. FreshRotation(h)
        BY <1>1, <1>7 DEF ReplicaInv, ReadersFresh
      <3>4. Unwanted(read.key)
        BY <1>1, <1>2, <1>3, <3>3 DEF FreshRotation, Unused, Unwanted
      <3>5. /\ \A row : Adds(sync[r].boot, row) => Adds(sync[r].boot, row)'
            /\ \A row : Adds(sync[r].loop, row) => Adds(sync[r].loop, row)'
            /\ \A k \in Keys : Touches(sync[r].boot, k) => Touches(sync[r].boot, k)'
            /\ \A k \in Keys : Touches(sync[r].loop, k) => Touches(sync[r].loop, k)'
        BY <1>1 DEF Adds, Touches
      <3> QED
        BY <1>0, <1>3, <3>1, <3>2, <3>4, <3>5, RemoveKeeps
    <2> QED
      BY <2>1, <2>3, <2>4 DEF ReplicaInv
  <1> QED
    BY <1>6, <1>7

LEMMA RotateApplyKeeps ==
    ASSUME Typed, UniqueKeys, NEW h \in Handlers, RotateApply(h), UNCHANGED deployment,
           NEW r \in Replicas, ReplicaInv(r)
    PROVE  ReplicaInv(r)'
  <1>0. TableStays
    BY ClockStays DEF RotateApply
  <1>1. /\ pc[h] = "rotateApply" /\ EndRequest(h)
        /\ UNCHANGED <<on, raced, sync, access, notes, connected, resync>>
    BY DEF RotateApply, deployment, replicaVars
  <1>2. PICK new \in Row : new = [copy[h][job[h].slot] EXCEPT !.key = job[h].key]
    BY RotateDoes
  <1>3. /\ ApplyPeer(on[h], new) /\ on[h] \in Replicas /\ job[h].op = "rotate"
        /\ job[h].slot \in Slots
    BY <1>2, RotateDoes DEF RotateApply
  <1>4. /\ \A g \in Handlers \ {h} :
                pc'[g] = pc[g] /\ job'[g] = job[g] /\ copy'[g] = copy[g]
        /\ pc'[h] = "idle" /\ job'[h] = NoJob
    BY <1>1, EndRequestDoes
  <1>6. CASE on[h] # r
    <2>1. peers'[r] = peers[r] /\ (fails' = 0 => fails = 0)
      BY <1>3, <1>6, ApplyPeerDoes
    <2> QED
      BY <1>0, <1>1, <1>4, <1>6, <2>1, ReplicaFrame
  <1>7. CASE on[h] = r
    <2>1. ReadersFresh(r)'
      BY <1>0, <1>1, <1>4, ReadersAfter DEF ReplicaInv
    <2>2. LoopDue(r)' <=> LoopDue(r)
      BY <1>1, <1>4, DueSame
    <2>3. LoopFresh(r)'
      BY <1>0, <1>1, <2>2, LoopStays DEF ReplicaInv, LoopFresh
    <2>4. Repaired(r)'
      <3> SUFFICES ASSUME (fails = 0 /\ raced[r] = {} /\ ~LoopDue(r) /\ ~Comparing(r))'
                   PROVE  Served(r)' /\ Justified(r)'
        BY DEF Repaired
      <3>1. fails = 0 /\ peers'[r] = [peers[r] EXCEPT ![new.key] = PeerOf(new)]
        BY <1>3, <1>7, ApplyPeerDoes
      <3>2. Served(r) /\ Justified(r)
        BY <1>1, <2>2, <3>1 DEF ReplicaInv, Repaired, Comparing
      <3>3. FreshRotation(h)
        BY <1>1, <1>7 DEF ReplicaInv, ReadersFresh
      <3>4. PICK t \in Stored : rows[t] = new
        <4>1. rows[job[h].slot] = new
          BY <1>1, <1>2, <1>3, <3>3 DEF FreshRotation
        <4> QED
          BY <1>3, <4>1, PeerAssumption DEF Stored
      <3>5. /\ \A row : Adds(sync[r].boot, row) => Adds(sync[r].boot, row)'
            /\ \A row : Adds(sync[r].loop, row) => Adds(sync[r].loop, row)'
            /\ \A k \in Keys : Touches(sync[r].boot, k) => Touches(sync[r].boot, k)'
            /\ \A k \in Keys : Touches(sync[r].loop, k) => Touches(sync[r].loop, k)'
        BY <1>1 DEF Adds, Touches
      <3>6. CASE AccessAllowed(new)
        <4>1. /\ peers'[r] = [peers[r] EXCEPT ![rows[t].key] = rows[t].conf]
              /\ ~rows[t].disabled
          BY <3>1, <3>4, <3>6 DEF PeerOf, AccessAllowed
        <4> QED
          BY <1>0, <3>2, <3>4, <3>5, <4>1, AddKeeps
      <3>7. CASE ~AccessAllowed(new)
        <4>1. peers'[r] = [peers[r] EXCEPT ![new.key] = NoPeer] /\ new.key \in Keys
          BY <3>1, <3>7, RowParts DEF PeerOf
        <4>2. Unwanted(new.key)
          BY <3>4, <3>7 DEF Unwanted, UniqueKeys
        <4> QED
          BY <1>0, <3>2, <3>5, <4>1, <4>2, RemoveKeeps
      <3> QED
        BY <3>6, <3>7
    <2> QED
      BY <2>1, <2>3, <2>4 DEF ReplicaInv
  <1> QED
    BY <1>6, <1>7

\* What every step of a synchronization of r leaves alone.
LEMMA SyncStepFrame ==
    ASSUME Typed, NEW r, NEW a, NEW from, NEW to, SyncStep(r, a, from, to),
           UNCHANGED deployment
    PROVE  /\ TableStays
           /\ UNCHANGED <<on, pc, job, copy, access, notes, connected, raced>>
  BY ClockStays DEF SyncStep, handlerVars, deployment

\* A synchronization of another replica.
LEMMA SyncElsewhere ==
    ASSUME Typed, NEW q \in Replicas, NEW a \in Syncers, NEW from, NEW to \in Syncer,
           SyncStep(q, a, from, to), UNCHANGED deployment,
           NEW r \in Replicas, r # q, ReplicaInv(r),
           peers'[r] = peers[r], resync'[r] = resync[r], fails' = 0 => fails = 0
    PROVE  ReplicaInv(r)'
  <1>1. sync'[r] = sync[r]
    BY SyncStepDoes
  <1> QED
    BY <1>1, SyncStepFrame, ReplicaFrame

\* The readers of r when only its first synchronization moves.
LEMMA ReadersMove ==
    ASSUME Typed, TableStays, NEW r \in Replicas, ReadersFresh(r),
           UNCHANGED <<on, pc, job, copy, access, raced>>,
           raced[r] = {} => FreshSync(sync[r].boot)'
    PROVE  ReadersFresh(r)'
  <1> SUFFICES ASSUME raced[r] = {}
               PROVE  FreshPass(access[r])' /\ \A h \in Handlers : on[h] = r => FreshRotation(h)'
    BY DEF ReadersFresh
  <1>1. FreshPass(access[r]) /\ \A h \in Handlers : on[h] = r => FreshRotation(h)
    BY DEF ReadersFresh
  <1> QED
    BY <1>1, PassStays, RotationStays

LEMMA ResyncReceiveKeeps ==
    ASSUME Typed, NEW q \in Replicas, ResyncReceive(q), UNCHANGED deployment,
           NEW r \in Replicas, ReplicaInv(r)
    PROVE  ReplicaInv(r)'
  <1>1. /\ SyncStep(q, "loop", "wait", AtRest("list")) /\ AtRest("list") \in Syncer
        /\ AtRest("list").pc = "list" /\ "loop" \in Syncers
        /\ UNCHANGED <<peers, fails>>
        /\ resync' = [resync EXCEPT ![q] = FALSE]
    BY AtRestType DEF ResyncReceive, Syncers
  <1>2. CASE r # q
    <2>1. resync'[r] = resync[r]
      BY <1>1, <1>2 DEF Typed, PeerTypeOK
    <2> QED
      BY <1>1, <1>2, <2>1, SyncElsewhere
  <1>3. CASE r = q
    <2>1. sync'[r].loop.pc = "list" /\ sync'[r].boot = sync[r].boot
      BY <1>1, <1>3, SyncStepDoes
    <2>2. TableStays /\ UNCHANGED <<on, pc, job, copy, access, raced>>
      BY <1>1, SyncStepFrame
    <2>3. ReadersFresh(r)'
      BY <2>1, <2>2, ReadersStay DEF ReplicaInv
    <2> QED
      BY <2>1, <2>3, DueKeeps DEF LoopDue
  <1> QED
    BY <1>2, <1>3

LEMMA SyncListDevicesKeeps ==
    ASSUME Typed, NEW q \in Replicas, NEW a \in Syncers, SyncListDevices(q, a),
           UNCHANGED deployment, NEW r \in Replicas, ReplicaInv(r)
    PROVE  ReplicaInv(r)'
  <1>1. /\ SyncStep(q, a, "list", Listed) /\ Listed \in Syncer
        /\ Listed.pc = "peers" /\ Listed.seen = rows
        /\ UNCHANGED <<resync, peers, fails>>
    BY ListedType DEF SyncListDevices, Listed
  <1>2. CASE r # q
    BY <1>1, <1>2, SyncElsewhere
  <1>3. CASE r = q /\ a = "boot"
    <2>1. /\ sync'[r].boot.pc = "peers" /\ sync'[r].boot.seen = rows
          /\ sync'[r].loop = sync[r].loop
      BY <1>1, <1>3, SyncStepDoes
    <2>2. TableStays /\ UNCHANGED <<on, pc, job, copy, access, notes, connected, raced>>
      BY <1>1, SyncStepFrame
    <2>3. FreshSync(sync[r].boot)'
      BY <2>1, <2>2 DEF FreshSync, TableStays
    <2>4. ReadersFresh(r)'
      BY <2>2, <2>3, ReadersMove DEF ReplicaInv
    <2>5. LoopDue(r)' <=> LoopDue(r)
      BY <1>1, <2>1, <2>2, DueSame
    <2>6. LoopFresh(r)'
      BY <2>1, <2>2, <2>5, LoopStays DEF ReplicaInv, LoopFresh
    <2>7. Repaired(r)'
      BY <2>1 DEF Repaired, Comparing
    <2> QED
      BY <2>4, <2>6, <2>7 DEF ReplicaInv
  <1>4. CASE r = q /\ a = "loop"
    <2>1. /\ sync'[r].loop.pc = "peers" /\ sync'[r].loop.seen = rows
          /\ sync'[r].boot = sync[r].boot
      BY <1>1, <1>4, SyncStepDoes
    <2>2. TableStays /\ UNCHANGED <<on, pc, job, copy, access, raced>>
      BY <1>1, SyncStepFrame
    <2>3. FreshSync(sync[r].loop)'
      BY <2>1, <2>2 DEF FreshSync, TableStays
    <2>4. ReadersFresh(r)'
      BY <2>1, <2>2, ReadersStay DEF ReplicaInv
    <2>5. LoopFresh(r)'
      BY <2>3 DEF LoopFresh
    <2>6. Repaired(r)'
      BY <2>1 DEF Repaired, Comparing
    <2> QED
      BY <2>4, <2>5, <2>6 DEF ReplicaInv
  <1> QED
    BY <1>2, <1>3, <1>4 DEF Syncers

\* A comparison with what the table still holds finds every difference.
LEMMA ComparedFinds ==
    ASSUME Typed, NEW r \in Replicas, NEW y, y = DoneOr(Compared(r, rows))
    PROVE  /\ FreshSync(y) /\ y.pc \in {"wait", "apply"}
           /\ \A s \in Stored : AccessAllowed(rows[s]) =>
                peers[r][rows[s].key] = rows[s].conf \/ Adds(y, rows[s])
           /\ \A k \in Keys : peers[r][k] # NoPeer =>
                \/ \E s \in Stored : /\ rows[s].key = k /\ ~rows[s].disabled
                                     /\ rows[s].conf = peers[r][k]
                \/ Touches(y, k)
  <1>1. PICK x \in Syncer :
            /\ x = Compared(r, rows) /\ x.pc = "apply"
            /\ x.remove = {k \in Keys : peers[r][k] # NoPeer} \
                          {row.key : row \in AllowedRows(rows)}
            /\ x.add = {row \in AllowedRows(rows) : peers[r][row.key] # row.conf}
    BY ComparedType DEF Typed, PeerTypeOK
  <1>2. \A s \in Stored : AccessAllowed(rows[s]) => rows[s] \in AllowedRows(rows)
    BY DEF AllowedRows, Stored
  <1>3. \A row \in AllowedRows(rows) :
            ~row.disabled /\ \E s \in Stored : rows[s] = row
    BY DEF AllowedRows, Stored, AccessAllowed
  <1>4. y = x \/ (y.pc = "wait" /\ x.remove = {} /\ x.add = {})
    BY <1>1, DoneOrCases
  <1>5. FreshSync(x)
    BY <1>1, <1>2, <1>3 DEF FreshSync, Unwanted, Stored
  <1>6. \A s \in Stored : AccessAllowed(rows[s]) =>
            peers[r][rows[s].key] = rows[s].conf \/ rows[s] \in x.add
    BY <1>1, <1>2
  <1>7. ASSUME NEW k \in Keys, peers[r][k] # NoPeer
        PROVE  \/ \E s \in Stored : /\ rows[s].key = k /\ ~rows[s].disabled
                                    /\ rows[s].conf = peers[r][k]
               \/ k \in x.remove \/ \E row \in x.add : row.key = k
    <2>1. CASE \E row \in AllowedRows(rows) : row.key = k
      BY <1>1, <1>3, <2>1
    <2>2. CASE ~\E row \in AllowedRows(rows) : row.key = k
      BY <1>1, <1>7, <2>2
    <2> QED
      BY <2>1, <2>2
  <1>8. FreshSync(y) /\ y.pc \in {"wait", "apply"}
    BY <1>1, <1>4, <1>5 DEF FreshSync
  <1> QED
    BY <1>1, <1>4, <1>6, <1>7, <1>8 DEF Adds, Touches

\* Served and Justified, from a comparison whose result synchronization a holds.
LEMMA FoundKeeps ==
    ASSUME Typed, rows' = rows, now' = now, NEW r \in Replicas, peers'[r] = peers[r],
           NEW y, y = DoneOr(Compared(r, rows)),
           sync'[r].boot = y \/ sync'[r].loop = y
    PROVE  Served(r)' /\ Justified(r)'
  <1>1. Stored' = Stored
    BY DEF Stored
  <1>2. \A s \in Stored : AccessAllowed(rows[s])' => AccessAllowed(rows[s])
    BY DEF AccessAllowed, Expired
  <1>3. ASSUME NEW s \in Stored, AccessAllowed(rows[s])'
        PROVE  \/ peers'[r][rows[s].key] = rows[s].conf
               \/ Adds(sync'[r].boot, rows[s]) \/ Adds(sync'[r].loop, rows[s])
    BY <1>2, <1>3, ComparedFinds
  <1>4. ASSUME NEW k \in Keys, peers'[r][k] # NoPeer
        PROVE  \/ \E s \in Stored : /\ rows[s].key = k /\ ~rows[s].disabled
                                    /\ rows[s].conf = peers'[r][k]
               \/ Touches(sync'[r].boot, k) \/ Touches(sync'[r].loop, k)
    BY <1>4, ComparedFinds
  <1>5. Served(r)'
    BY <1>1, <1>3 DEF Served, Adds
  <1>6. Justified(r)'
    BY <1>1, <1>4 DEF Justified, Touches
  <1> QED
    BY <1>5, <1>6

LEMMA SyncListPeersKeeps ==
    ASSUME Typed, NEW q \in Replicas, NEW a \in Syncers, SyncListPeers(q, a),
           UNCHANGED deployment, NEW r \in Replicas, ReplicaInv(r)
    PROVE  ReplicaInv(r)'
  <1>1. PICK y \in Syncer :
            /\ y = DoneOr(Compared(q, sync[q][a].seen))
            /\ SyncStep(q, a, "peers", y)
            /\ UNCHANGED <<resync, peers, fails>>
    BY SyncListPeersStep
  <1>2. CASE r # q
    BY <1>1, <1>2, SyncElsewhere
  <1>3. ASSUME r = q PROVE ReplicaInv(r)'
    <2>1. /\ sync[r][a].pc = "peers" /\ rows' = rows /\ now' = now
      BY <1>1, <1>3 DEF SyncStep
    <2>2. TableStays /\ UNCHANGED <<on, pc, job, copy, access, notes, connected, raced>>
      BY <1>1, SyncStepFrame
    <2>3. FreshSync(sync[r][a]) => y = DoneOr(Compared(r, rows))
      BY <1>1, <1>3, <2>1 DEF FreshSync
    <2>4. ASSUME FreshSync(sync[r][a]) PROVE FreshSync(y)'
      <3>1. FreshSync(y) /\ \A k : Unwanted(k) => Unwanted(k)'
        BY <2>2, <2>3, <2>4, ComparedFinds, UnwantedStays
      <3> QED
        BY <3>1, <2>1 DEF FreshSync
    <2>5. y.pc \in {"wait", "apply"}
      <3>1. PICK z \in Syncer : z = Compared(q, sync[q][a].seen) /\ z.pc = "apply"
        BY SyncListPeersStep, ComparedType
      <3> QED
        BY <1>1, <3>1, DoneOrCases
    <2>6. CASE a = "boot"
      <3>1. sync'[r].boot = y /\ sync'[r].loop = sync[r].loop /\ sync[r].boot = sync[r][a]
        BY <1>1, <1>3, <2>6, SyncStepDoes
      <3>2. raced[r] = {} => FreshSync(sync[r][a])
        BY <3>1 DEF ReplicaInv, ReadersFresh
      <3>3. raced[r] = {} => FreshSync(sync[r].boot)'
        BY <2>4, <3>1, <3>2 DEF FreshSync
      <3>4. ReadersFresh(r)'
        BY <2>2, <3>3, ReadersMove DEF ReplicaInv
      <3>5. LoopDue(r)' <=> LoopDue(r)
        BY <1>1, <2>2, <3>1, DueSame
      <3>6. LoopFresh(r)'
        BY <2>2, <3>1, <3>5, LoopStays DEF ReplicaInv, LoopFresh
      <3>7. Repaired(r)'
        BY <1>1, <2>1, <2>2, <2>3, <3>1, <3>2, FoundKeeps DEF Repaired
      <3> QED
        BY <3>4, <3>6, <3>7 DEF ReplicaInv
    <2>7. CASE a = "loop"
      <3>1. sync'[r].loop = y /\ sync'[r].boot = sync[r].boot /\ sync[r].loop = sync[r][a]
        BY <1>1, <1>3, <2>7, SyncStepDoes
      <3>2. ReadersFresh(r)'
        BY <2>2, <3>1, ReadersStay DEF ReplicaInv
      <3>3. LoopDue(r)' <=> LoopDue(r)
        BY <1>1, <2>1, <2>2, <2>5, <3>1, DueSame
      <3>4. ~LoopDue(r) => FreshSync(sync[r][a])
        BY <3>1 DEF ReplicaInv, LoopFresh
      <3>5. LoopFresh(r)'
        BY <2>4, <3>1, <3>3, <3>4 DEF LoopFresh, FreshSync
      <3>6. Repaired(r)'
        BY <1>1, <2>1, <2>2, <2>3, <3>1, <3>3, <3>4, FoundKeeps DEF Repaired
      <3> QED
        BY <3>2, <3>5, <3>6 DEF ReplicaInv
    <2> QED
      BY <2>6, <2>7 DEF Syncers
  <1> QED
    BY <1>2, <1>3

\* A list that only gets shorter stays true of the table.
LEMMA ShorterFresh ==
    ASSUME Typed, TableStays, NEW x, NEW y, FreshSync(x), x.pc = "apply",
           y.pc = "wait" \/ (y.pc = "apply" /\ y.add \subseteq x.add
                                            /\ y.remove \subseteq x.remove)
    PROVE  FreshSync(y)'
  BY UnwantedStays DEF FreshSync, TableStays

\* An element of the lists of a synchronization that is done with.
LEMMA OneLess ==
    ASSUME NEW x \in Syncer, x.pc = "apply", NEW k, NEW row
    PROVE  /\ LET y == DoneOr([x EXCEPT !.remove = @ \ {k}])
              IN  /\ y \in Syncer
                  /\ \/ y.pc = "wait"
                     \/ y.pc = "apply" /\ y.add \subseteq x.add /\ y.remove \subseteq x.remove
                  /\ \A new : Adds(x, new) => Adds(y, new)
                  /\ \A j \in Keys \ {k} : Touches(x, j) => Touches(y, j)
           /\ LET y == DoneOr([x EXCEPT !.add = @ \ {row}])
              IN  /\ y \in Syncer
                  /\ \/ y.pc = "wait"
                     \/ y.pc = "apply" /\ y.add \subseteq x.add /\ y.remove \subseteq x.remove
                  /\ \A new : new # row => (Adds(x, new) => Adds(y, new))
                  /\ \A j \in Keys \ {row.key} : Touches(x, j) => Touches(y, j)
  <1>1. PICK y \in Syncer : y = [x EXCEPT !.remove = @ \ {k}]
    BY DEF Syncer
  <1>2. y.pc = "apply" /\ y.add = x.add /\ y.remove = x.remove \ {k}
    BY <1>1 DEF Syncer
  <1>3. PICK z \in Syncer : z = [x EXCEPT !.add = @ \ {row}]
    BY DEF Syncer
  <1>4. z.pc = "apply" /\ z.add = x.add \ {row} /\ z.remove = x.remove
    BY <1>3 DEF Syncer
  <1>5. LET d == DoneOr(y)
        IN  /\ d \in Syncer
            /\ \/ d.pc = "wait"
               \/ d.pc = "apply" /\ d.add \subseteq x.add /\ d.remove \subseteq x.remove
            /\ \A new : Adds(x, new) => Adds(d, new)
            /\ \A j \in Keys \ {k} : Touches(x, j) => Touches(d, j)
    BY <1>2, DoneOrCases DEF Adds, Touches
  <1>6. LET d == DoneOr(z)
        IN  /\ d \in Syncer
            /\ \/ d.pc = "wait"
               \/ d.pc = "apply" /\ d.add \subseteq x.add /\ d.remove \subseteq x.remove
            /\ \A new : new # row => (Adds(x, new) => Adds(d, new))
            /\ \A j \in Keys \ {row.key} : Touches(x, j) => Touches(d, j)
    BY <1>4, DoneOrCases DEF Adds, Touches
  <1> QED
    BY <1>1, <1>3, <1>5, <1>6

\* A step that shortens the lists of synchronization a of r, but for the peers.
LEMMA ShorterKeeps ==
    ASSUME Typed, NEW r \in Replicas, NEW a \in Syncers, NEW y \in Syncer,
           SyncStep(r, a, "apply", y), UNCHANGED deployment, UNCHANGED resync,
           y.pc = "wait" \/ (y.pc = "apply" /\ y.add \subseteq sync[r][a].add
                                            /\ y.remove \subseteq sync[r][a].remove),
           ReplicaInv(r)
    PROVE  /\ ReadersFresh(r)' /\ LoopFresh(r)'
           /\ LoopDue(r)' <=> LoopDue(r)
           /\ Comparing(r)' <=> Comparing(r)
           /\ raced[r] = {} /\ ~LoopDue(r) => FreshSync(sync[r][a])
  <1>1. sync[r][a].pc = "apply"
    BY DEF SyncStep
  <1>2. TableStays /\ UNCHANGED <<on, pc, job, copy, access, notes, connected, raced>>
    BY SyncStepFrame
  <1>3. FreshSync(sync[r][a]) => FreshSync(y)'
    BY <1>1, <1>2, ShorterFresh
  <1>4. CASE a = "boot"
    <2>1. sync'[r].boot = y /\ sync'[r].loop = sync[r].loop /\ sync[r].boot = sync[r][a]
      BY <1>4, SyncStepDoes
    <2>2. raced[r] = {} => FreshSync(sync[r][a])
      BY <2>1 DEF ReplicaInv, ReadersFresh
    <2>3. raced[r] = {} => FreshSync(sync[r].boot)'
      BY <1>3, <2>1, <2>2 DEF FreshSync
    <2>4. ReadersFresh(r)'
      BY <1>2, <2>3, ReadersMove DEF ReplicaInv
    <2>5. LoopDue(r)' <=> LoopDue(r)
      BY <1>2, <2>1, DueSame
    <2>6. LoopFresh(r)'
      BY <1>2, <2>1, <2>5, LoopStays DEF ReplicaInv, LoopFresh
    <2>7. Comparing(r)' <=> Comparing(r)
      BY <1>1, <2>1 DEF Comparing
    <2> QED
      BY <2>2, <2>4, <2>5, <2>6, <2>7
  <1>5. CASE a = "loop"
    <2>1. sync'[r].loop = y /\ sync'[r].boot = sync[r].boot /\ sync[r].loop = sync[r][a]
      BY <1>5, SyncStepDoes
    <2>2. ReadersFresh(r)'
      BY <1>2, <2>1, ReadersStay DEF ReplicaInv
    <2>3. LoopDue(r)' <=> LoopDue(r)
      BY <1>1, <1>2, <2>1, DueSame
    <2>4. ~LoopDue(r) => FreshSync(sync[r][a])
      BY <2>1 DEF ReplicaInv, LoopFresh
    <2>5. LoopFresh(r)'
      BY <1>3, <2>1, <2>3, <2>4 DEF LoopFresh, FreshSync
    <2>6. Comparing(r)' <=> Comparing(r)
      BY <1>1, <2>1 DEF Comparing
    <2> QED
      BY <2>2, <2>3, <2>4, <2>5, <2>6
  <1> QED
    BY <1>4, <1>5 DEF Syncers

LEMMA SyncRemovePeerKeeps ==
    ASSUME Typed, NEW q \in Replicas, NEW a \in Syncers, SyncRemovePeer(q, a),
           UNCHANGED deployment, NEW r \in Replicas, ReplicaInv(r)
    PROVE  ReplicaInv(r)'
  <1>1. PICK x \in Syncer : x = sync[q][a] /\ x.pc = "apply"
    BY SyncerAt DEF SyncRemovePeer, SyncStep
  <1>2. PICK k \in x.remove :
            /\ SyncStep(q, a, "apply", DoneOr([x EXCEPT !.remove = @ \ {k}]))
            /\ SetPeer(q, k, NoPeer)
            /\ UNCHANGED resync
    BY <1>1 DEF SyncRemovePeer
  <1>3. k \in Keys /\ NoPeer \in Confs \cup {NoPeer}
    BY <1>1, <1>2 DEF Syncer
  <1>y. PICK y : y = DoneOr([x EXCEPT !.remove = @ \ {k}])
    OBVIOUS
  <1>4. /\ y \in Syncer
        /\ SyncStep(q, a, "apply", y)
        /\ y.pc = "wait" \/ (y.pc = "apply" /\ y.add \subseteq x.add
                                            /\ y.remove \subseteq x.remove)
        /\ \A new : Adds(x, new) => Adds(y, new)
        /\ \A j \in Keys \ {k} : Touches(x, j) => Touches(y, j)
    BY <1>1, <1>2, <1>y, OneLess
  <1>5. CASE r # q
    <2>1. peers'[r] = peers[r] /\ (fails' = 0 => fails = 0)
      BY <1>2, <1>3, <1>5, SetPeerDoes
    <2> QED
      BY <1>2, <1>4, <1>5, <2>1, SyncElsewhere
  <1>6. CASE r = q
    <2>1. /\ ReadersFresh(r)' /\ LoopFresh(r)'
          /\ LoopDue(r)' <=> LoopDue(r)
          /\ Comparing(r)' <=> Comparing(r)
          /\ raced[r] = {} /\ ~LoopDue(r) => FreshSync(x)
      BY <1>1, <1>2, <1>4, <1>6, ShorterKeeps
    <2>2. TableStays /\ UNCHANGED raced
      BY <1>4, SyncStepFrame
    <2>3. Repaired(r)'
      <3> SUFFICES ASSUME (fails = 0 /\ raced[r] = {} /\ ~LoopDue(r) /\ ~Comparing(r))'
                   PROVE  Served(r)' /\ Justified(r)'
        BY DEF Repaired
      <3>0. fails' = 0 /\ SetPeer(r, k, NoPeer)
        BY <1>2, <1>6
      <3>1. fails = 0 /\ peers'[r] = [peers[r] EXCEPT ![k] = NoPeer]
        BY <1>3, <3>0, SetPeerDoes
      <3>2. Served(r) /\ Justified(r)
        BY <2>1, <2>2, <3>1 DEF ReplicaInv, Repaired
      <3>3. Unwanted(k)
        BY <1>1, <1>2, <2>1, <2>2 DEF FreshSync
      <3>4. /\ \A new : Adds(sync[r].boot, new) => Adds(sync[r].boot, new)'
            /\ \A new : Adds(sync[r].loop, new) => Adds(sync[r].loop, new)'
            /\ \A j \in Keys \ {k} : Touches(sync[r].boot, j) => Touches(sync[r].boot, j)'
            /\ \A j \in Keys \ {k} : Touches(sync[r].loop, j) => Touches(sync[r].loop, j)'
        <4>1. CASE a = "boot"
          <5>1. sync'[r].boot = y /\ sync'[r].loop = sync[r].loop /\ sync[r].boot = x
            BY <1>1, <1>4, <1>6, <4>1, SyncStepDoes
          <5> QED
            BY <1>4, <5>1 DEF Adds, Touches
        <4>2. CASE a = "loop"
          <5>1. sync'[r].loop = y /\ sync'[r].boot = sync[r].boot /\ sync[r].loop = x
            BY <1>1, <1>4, <1>6, <4>2, SyncStepDoes
          <5> QED
            BY <1>4, <5>1 DEF Adds, Touches
        <4> QED
          BY <4>1, <4>2 DEF Syncers
      <3> QED
        BY <1>3, <2>2, <3>1, <3>2, <3>3, <3>4, RemoveKeeps
    <2> QED
      BY <2>1, <2>3 DEF ReplicaInv
  <1> QED
    BY <1>5, <1>6

LEMMA SyncAddPeerKeeps ==
    ASSUME Typed, UniqueKeys, NEW q \in Replicas, NEW a \in Syncers, SyncAddPeer(q, a),
           UNCHANGED deployment, NEW r \in Replicas, ReplicaInv(r)
    PROVE  ReplicaInv(r)'
  <1>1. PICK x \in Syncer : x = sync[q][a] /\ x.pc = "apply"
    BY SyncerAt DEF SyncAddPeer, SyncStep
  <1>2. PICK row \in x.add :
            /\ SyncStep(q, a, "apply", DoneOr([x EXCEPT !.add = @ \ {row}]))
            /\ SetPeer(q, row.key, row.conf)
            /\ UNCHANGED resync
    BY <1>1 DEF SyncAddPeer
  <1>3. row \in Row /\ row.key \in Keys /\ row.conf \in Confs
    BY <1>1, <1>2, RowParts DEF Syncer
  <1>y. PICK y : y = DoneOr([x EXCEPT !.add = @ \ {row}])
    OBVIOUS
  <1>4. /\ y \in Syncer
        /\ SyncStep(q, a, "apply", y)
        /\ y.pc = "wait" \/ (y.pc = "apply" /\ y.add \subseteq x.add
                                            /\ y.remove \subseteq x.remove)
        /\ \A new : new # row => (Adds(x, new) => Adds(y, new))
        /\ \A j \in Keys \ {row.key} : Touches(x, j) => Touches(y, j)
    BY <1>1, <1>2, <1>y, OneLess
  <1>5. CASE r # q
    <2>1. peers'[r] = peers[r] /\ (fails' = 0 => fails = 0)
      BY <1>2, <1>3, <1>5, SetPeerDoes
    <2> QED
      BY <1>2, <1>4, <1>5, <2>1, SyncElsewhere
  <1>6. CASE r = q
    <2>1. /\ ReadersFresh(r)' /\ LoopFresh(r)'
          /\ LoopDue(r)' <=> LoopDue(r)
          /\ Comparing(r)' <=> Comparing(r)
          /\ raced[r] = {} /\ ~LoopDue(r) => FreshSync(x)
      BY <1>1, <1>2, <1>4, <1>6, ShorterKeeps
    <2>2. TableStays /\ UNCHANGED raced
      BY <1>4, SyncStepFrame
    <2>3. Repaired(r)'
      <3> SUFFICES ASSUME (fails = 0 /\ raced[r] = {} /\ ~LoopDue(r) /\ ~Comparing(r))'
                   PROVE  Served(r)' /\ Justified(r)'
        BY DEF Repaired
      <3>0. fails' = 0 /\ SetPeer(r, row.key, row.conf)
        BY <1>2, <1>6
      <3>1. fails = 0 /\ peers'[r] = [peers[r] EXCEPT ![row.key] = row.conf]
        BY <1>3, <3>0, SetPeerDoes
      <3>2. Served(r) /\ Justified(r)
        BY <2>1, <2>2, <3>1 DEF ReplicaInv, Repaired
      <3>3. PICK t \in Stored : rows[t] = row /\ ~row.disabled
        <4>1. ~row.disabled /\ \E s \in Slots : rows[s] = row
          BY <1>1, <1>2, <2>1, <2>2 DEF FreshSync
        <4> QED
          BY <1>3, <4>1, PeerAssumption DEF Stored
      <3>4. /\ \A new : new # row => (Adds(sync[r].boot, new) => Adds(sync[r].boot, new)')
            /\ \A new : new # row => (Adds(sync[r].loop, new) => Adds(sync[r].loop, new)')
            /\ \A j \in Keys \ {row.key} :
                    Touches(sync[r].boot, j) => Touches(sync[r].boot, j)'
            /\ \A j \in Keys \ {row.key} :
                    Touches(sync[r].loop, j) => Touches(sync[r].loop, j)'
        <4>1. CASE a = "boot"
          <5>1. sync'[r].boot = y /\ sync'[r].loop = sync[r].loop /\ sync[r].boot = x
            BY <1>1, <1>4, <1>6, <4>1, SyncStepDoes
          <5> QED
            BY <1>4, <5>1 DEF Adds, Touches
        <4>2. CASE a = "loop"
          <5>1. sync'[r].loop = y /\ sync'[r].boot = sync[r].boot /\ sync[r].loop = x
            BY <1>1, <1>4, <1>6, <4>2, SyncStepDoes
          <5> QED
            BY <1>4, <5>1 DEF Adds, Touches
        <4> QED
          BY <4>1, <4>2 DEF Syncers
      <3> QED
        BY <1>3, <2>2, <3>1, <3>2, <3>3, <3>4, AddKeeps
    <2> QED
      BY <2>1, <2>3 DEF ReplicaInv
  <1> QED
    BY <1>5, <1>6

\* A resynchronization that fails ends, and the failure is counted.
LEMMA SyncFailsKeeps ==
    ASSUME Typed, NEW q \in Replicas, SyncFails(q), UNCHANGED deployment,
           NEW r \in Replicas, ReplicaInv(r)
    PROVE  ReplicaInv(r)'
  <1>1. /\ SyncStep(q, "loop", sync[q].loop.pc, AtRest("wait")) /\ AtRest("wait") \in Syncer
        /\ AtRest("wait").pc = "wait" /\ "loop" \in Syncers
        /\ UNCHANGED <<peers, resync>>
    BY AtRestType DEF SyncFails, Syncers
  <1>2. fails' # 0
    BY Bounds DEF SyncFails, Typed, PeerTypeOK
  <1>3. CASE r # q
    BY <1>1, <1>2, <1>3, SyncElsewhere
  <1>4. CASE r = q
    <2>1. sync'[r].loop.pc = "wait" /\ sync'[r].boot = sync[r].boot
      BY <1>1, <1>4, SyncStepDoes
    <2>2. TableStays /\ UNCHANGED <<on, pc, job, copy, access, raced>>
      BY <1>1, SyncStepFrame
    <2>3. ReadersFresh(r)'
      BY <2>1, <2>2, ReadersStay DEF ReplicaInv
    <2>4. LoopFresh(r)'
      BY <2>1 DEF LoopFresh, FreshSync
    <2>5. Repaired(r)'
      BY <1>2 DEF Repaired
    <2> QED
      BY <2>3, <2>4, <2>5 DEF ReplicaInv
  <1> QED
    BY <1>3, <1>4

-----------------------------------------------------------------------------
(* The access pass, the listener and the end of a process.                 *)

LEMMA AccessStepFrame ==
    ASSUME Typed, NEW r, NEW from, NEW to, AccessStep(r, from, to), UNCHANGED deployment
    PROVE  /\ TableStays
           /\ UNCHANGED <<on, pc, job, copy, resync, sync, notes, connected, raced>>
  BY ClockStays DEF AccessStep, handlerVars, deployment

LEMMA AccessElsewhere ==
    ASSUME Typed, NEW q \in Replicas, NEW from, NEW to \in Pass,
           AccessStep(q, from, to), UNCHANGED deployment,
           NEW r \in Replicas, r # q, ReplicaInv(r),
           peers'[r] = peers[r], fails' = 0 => fails = 0
    PROVE  ReplicaInv(r)'
  <1>1. access'[r] = access[r]
    BY AccessStepDoes
  <1> QED
    BY <1>1, AccessStepFrame, ReplicaFrame

\* The access pass of r moves on: what it holds is fresh, and the rest stays.
LEMMA PassMoves ==
    ASSUME Typed, NEW r \in Replicas, NEW from, NEW to \in Pass,
           AccessStep(r, from, to), UNCHANGED deployment, ReplicaInv(r),
           FreshPass(access[r]) => FreshPass(to)'
    PROVE  /\ ReadersFresh(r)' /\ LoopFresh(r)'
           /\ LoopDue(r)' <=> LoopDue(r)
           /\ Comparing(r)' <=> Comparing(r)
           /\ \A row : Adds(sync[r].boot, row) => Adds(sync[r].boot, row)'
           /\ \A row : Adds(sync[r].loop, row) => Adds(sync[r].loop, row)'
           /\ \A k \in Keys : Touches(sync[r].boot, k) => Touches(sync[r].boot, k)'
           /\ \A k \in Keys : Touches(sync[r].loop, k) => Touches(sync[r].loop, k)'
  <1>1. TableStays /\ UNCHANGED <<on, pc, job, copy, resync, sync, notes, connected, raced>>
    BY AccessStepFrame
  <1>2. access'[r] = to
    BY AccessStepDoes
  <1>3. ReadersFresh(r)'
    <2> SUFFICES ASSUME raced[r] = {}
                 PROVE  /\ FreshSync(sync[r].boot)' /\ FreshPass(access[r])'
                        /\ \A h \in Handlers : on[h] = r => FreshRotation(h)'
      BY <1>1 DEF ReadersFresh
    <2>1. FreshSync(sync[r].boot) /\ FreshPass(access[r])
          /\ \A h \in Handlers : on[h] = r => FreshRotation(h)
      BY DEF ReplicaInv, ReadersFresh
    <2>2. FreshPass(access[r])'
      BY <1>2, <2>1 DEF FreshPass
    <2> QED
      BY <1>1, <2>1, <2>2, BootStays, RotationStays
  <1>4. LoopDue(r)' <=> LoopDue(r)
    BY <1>1, DueSame
  <1>5. LoopFresh(r)'
    BY <1>1, <1>4, LoopStays DEF ReplicaInv, LoopFresh
  <1> QED
    BY <1>1, <1>3, <1>4, <1>5 DEF Comparing, Adds, Touches

\* A step of the pass that does not touch the interface.
LEMMA PassKeeps ==
    ASSUME Typed, NEW q \in Replicas, NEW from, NEW to \in Pass,
           AccessStep(q, from, to), UNCHANGED deployment, UNCHANGED peers,
           fails' = 0 => fails = 0,
           FreshPass(access[q]) => FreshPass(to)',
           NEW r \in Replicas, ReplicaInv(r)
    PROVE  ReplicaInv(r)'
  <1>1. CASE r # q
    BY <1>1, AccessElsewhere
  <1>2. CASE r = q
    <2>0. TableStays /\ UNCHANGED raced
      BY AccessStepFrame
    <2>1. /\ ReadersFresh(r)' /\ LoopFresh(r)'
          /\ LoopDue(r)' <=> LoopDue(r)
          /\ Comparing(r)' <=> Comparing(r)
          /\ \A row : Adds(sync[r].boot, row) => Adds(sync[r].boot, row)'
          /\ \A row : Adds(sync[r].loop, row) => Adds(sync[r].loop, row)'
          /\ \A k \in Keys : Touches(sync[r].boot, k) => Touches(sync[r].boot, k)'
          /\ \A k \in Keys : Touches(sync[r].loop, k) => Touches(sync[r].loop, k)'
      BY <1>2, PassMoves
    <2>2. Repaired(r)'
      <3> SUFFICES ASSUME (fails = 0 /\ raced[r] = {} /\ ~LoopDue(r) /\ ~Comparing(r))'
                   PROVE  Served(r)' /\ Justified(r)'
        BY DEF Repaired
      <3>1. Served(r) /\ Justified(r)
        BY <2>0, <2>1 DEF ReplicaInv, Repaired
      <3> QED
        BY <2>0, <2>1, <3>1, ServedStays, JustifiedStays
    <2> QED
      BY <2>1, <2>2 DEF ReplicaInv
  <1> QED
    BY <1>1, <1>2

LEMMA AccessListDevicesKeeps ==
    ASSUME Typed, UniqueKeys, NEW q \in Replicas, AccessListDevices(q),
           UNCHANGED deployment, NEW r \in Replicas, ReplicaInv(r)
    PROVE  ReplicaInv(r)'
  <1>1. PICK to \in Pass :
            /\ to = Found /\ to.pc = "peers"
            /\ to.blocked = {rows[s].key : s \in {x \in Stored : ~AccessAllowed(rows[x])}}
    BY FoundType
  <1>2. AccessStep(q, "idle", to) /\ UNCHANGED <<peers, fails>>
    BY <1>1 DEF AccessListDevices, Found
  <1>3. \A k \in to.blocked : Unwanted(k)
    BY <1>1 DEF Unwanted, UniqueKeys
  <1>4. FreshPass(to)'
    <2>1. \A k : Unwanted(k) => Unwanted(k)'
      BY <1>2, AccessStepFrame, UnwantedStays
    <2> QED
      BY <1>1, <1>3, <2>1 DEF FreshPass
  <1> QED
    BY <1>2, <1>4, PassKeeps

LEMMA AccessListPeersKeeps ==
    ASSUME Typed, NEW q \in Replicas, AccessListPeers(q),
           UNCHANGED deployment, NEW r \in Replicas, ReplicaInv(r)
    PROVE  ReplicaInv(r)'
  <1>1. PICK K \in SUBSET Keys : K = {k \in access[q].blocked : peers[q][k] # NoPeer}
    BY PassAt
  <1>2. PICK to \in Pass :
            /\ to = AccessRemaining(K)
            /\ to.pc = "idle" \/ (to.pc = "remove" /\ to.remove = K)
    BY RemainingType
  <1>3. AccessStep(q, "peers", to) /\ UNCHANGED <<peers, fails>> /\ access[q].pc = "peers"
    BY <1>1, <1>2 DEF AccessListPeers, AccessStep
  <1>4. FreshPass(access[q]) => FreshPass(to)'
    <2>1. \A k : Unwanted(k) => Unwanted(k)'
      BY <1>3, AccessStepFrame, UnwantedStays
    <2> QED
      BY <1>1, <1>2, <1>3, <2>1 DEF FreshPass
  <1> QED
    BY <1>3, <1>4, PassKeeps

LEMMA AccessFailsKeeps ==
    ASSUME Typed, NEW q \in Replicas, AccessFails(q),
           UNCHANGED deployment, NEW r \in Replicas, ReplicaInv(r)
    PROVE  ReplicaInv(r)'
  <1>0. AccessAtRest \in Pass /\ AccessAtRest.pc = "idle"
    BY DEF AccessAtRest, Pass
  <1>1. PICK to \in Pass : to = AccessAtRest /\ to.pc = "idle"
    BY <1>0
  <1>2. AccessStep(q, "peers", to) /\ UNCHANGED peers
    BY <1>1 DEF AccessFails
  <1>3. fails' # 0
    BY Bounds DEF AccessFails, Typed, PeerTypeOK
  <1>4. FreshPass(to)'
    BY <1>1 DEF FreshPass
  <1> QED
    BY <1>2, <1>3, <1>4, PassKeeps

LEMMA AccessRemovePeerKeeps ==
    ASSUME Typed, NEW q \in Replicas, AccessRemovePeer(q),
           UNCHANGED deployment, NEW r \in Replicas, ReplicaInv(r)
    PROVE  ReplicaInv(r)'
  <1>1. PICK k \in access[q].remove :
            /\ AccessStep(q, "remove", AccessRemaining(access[q].remove \ {k}))
            /\ SetPeer(q, k, NoPeer)
    BY DEF AccessRemovePeer
  <1>2. k \in Keys /\ NoPeer \in Confs \cup {NoPeer}
    BY PassAt
  <1>3. PICK K \in SUBSET Keys : K = access[q].remove \ {k}
    BY PassAt
  <1>4. PICK to \in Pass :
            /\ to = AccessRemaining(K)
            /\ to.pc = "idle" \/ (to.pc = "remove" /\ to.remove = K)
    BY RemainingType
  <1>5. AccessStep(q, "remove", to) /\ access[q].pc = "remove"
    BY <1>1, <1>3, <1>4 DEF AccessStep
  <1>6. TableStays /\ UNCHANGED raced
    BY <1>5, AccessStepFrame
  <1>7. FreshPass(access[q]) => FreshPass(to)'
    BY <1>3, <1>4, <1>5, <1>6, UnwantedStays DEF FreshPass
  <1>8. CASE r # q
    <2>1. peers'[r] = peers[r] /\ (fails' = 0 => fails = 0)
      BY <1>1, <1>2, <1>8, SetPeerDoes
    <2> QED
      BY <1>5, <1>8, <2>1, AccessElsewhere
  <1>9. CASE r = q
    <2>1. /\ ReadersFresh(r)' /\ LoopFresh(r)'
          /\ LoopDue(r)' <=> LoopDue(r)
          /\ Comparing(r)' <=> Comparing(r)
          /\ \A row : Adds(sync[r].boot, row) => Adds(sync[r].boot, row)'
          /\ \A row : Adds(sync[r].loop, row) => Adds(sync[r].loop, row)'
          /\ \A j \in Keys : Touches(sync[r].boot, j) => Touches(sync[r].boot, j)'
          /\ \A j \in Keys : Touches(sync[r].loop, j) => Touches(sync[r].loop, j)'
      BY <1>5, <1>7, <1>9, PassMoves
    <2>2. Repaired(r)'
      <3> SUFFICES ASSUME (fails = 0 /\ raced[r] = {} /\ ~LoopDue(r) /\ ~Comparing(r))'
                   PROVE  Served(r)' /\ Justified(r)'
        BY DEF Repaired
      <3>0. fails' = 0 /\ SetPeer(r, k, NoPeer)
        BY <1>1, <1>9
      <3>1. fails = 0 /\ peers'[r] = [peers[r] EXCEPT ![k] = NoPeer]
        BY <1>2, <3>0, SetPeerDoes
      <3>2. Served(r) /\ Justified(r)
        BY <1>6, <2>1, <3>1 DEF ReplicaInv, Repaired
      <3>3. FreshPass(access[q])
        BY <1>6, <1>9 DEF ReplicaInv, ReadersFresh
      <3>4. Unwanted(k)
        BY <1>1, <1>5, <3>3 DEF FreshPass
      <3> QED
        BY <1>2, <1>6, <2>1, <3>1, <3>2, <3>4, RemoveKeeps
    <2> QED
      BY <2>1, <2>2 DEF ReplicaInv
  <1> QED
    BY <1>8, <1>9

\* What the listener hears, loses and finds again always asks for a resync.
LEMMA ListenerKeeps ==
    ASSUME Typed, NEW q \in Replicas, Notified(q) \/ Disconnect(q) \/ Reconnect(q),
           UNCHANGED deployment, NEW r \in Replicas, ReplicaInv(r)
    PROVE  ReplicaInv(r)'
  <1>1. UNCHANGED <<rows, now, on, pc, job, copy, peers, sync, access, fails, raced>>
    BY DEF Notified, Disconnect, Reconnect, handlerVars, deployment
  <1>2. TableStays
    BY <1>1, ClockStays
  <1>3. CASE r # q
    <2>1. resync'[r] = resync[r] /\ notes'[r] = notes[r] /\ connected'[r] = connected[r]
      BY <1>3 DEF Notified, Disconnect, Reconnect, Resync, Typed, PeerTypeOK
    <2> QED
      BY <1>1, <1>2, <2>1, ReplicaFrame
  <1>4. CASE r = q
    <2>1. resync'[r] \/ ~connected'[r]
      BY <1>4 DEF Notified, Disconnect, Reconnect, Resync, Typed, PeerTypeOK
    <2>2. ReadersFresh(r)'
      BY <1>1, <1>2, ReadersStay DEF ReplicaInv
    <2> QED
      BY <2>1, <2>2, DueKeeps DEF LoopDue
  <1> QED
    BY <1>3, <1>4

\* A process that starts anew synchronizes first.
LEMMA RestartKeeps ==
    ASSUME Typed, NEW q \in Replicas, Restart(q),
           UNCHANGED deployment, NEW r \in Replicas, ReplicaInv(r)
    PROVE  ReplicaInv(r)'
  <1>1. UNCHANGED <<rows, now, on, fails>>
    BY DEF Restart, deployment
  <1>2. TableStays
    BY <1>1, ClockStays
  <1>3. \A h \in Handlers :
            /\ on[h] = q => job'[h] = NoJob
            /\ on[h] # q => pc'[h] = pc[h] /\ job'[h] = job[h] /\ copy'[h] = copy[h]
    BY DEF Restart
  <1>4. CASE r # q
    <2>1. /\ resync'[r] = resync[r] /\ notes'[r] = notes[r] /\ connected'[r] = connected[r]
          /\ peers'[r] = peers[r] /\ sync'[r] = sync[r] /\ access'[r] = access[r]
          /\ raced'[r] = raced[r]
      BY <1>4 DEF Restart, Typed, PeerTypeOK
    <2> QED
      BY <1>1, <1>2, <1>3, <1>4, <2>1, ReplicaFrame
  <1>5. CASE r = q
    <2>1. sync'[r].boot = AtRest("list") /\ sync'[r].loop = AtRest("wait")
          /\ access'[r] = AccessAtRest
      BY <1>5 DEF Restart, Typed, PeerTypeOK
    <2>2. sync'[r].boot.pc = "list" /\ sync'[r].loop.pc = "wait" /\ access'[r].pc = "idle"
      BY <2>1, AtRestType DEF AccessAtRest
    <2>3. ASSUME NEW h \in Handlers, on[h] = r PROVE FreshRotation(h)'
      BY <1>3, <1>5, <2>3, NoJobOp DEF FreshRotation
    <2>4. ReadersFresh(r)'
      BY <1>1, <2>2, <2>3 DEF ReadersFresh, FreshSync, FreshPass
    <2>5. LoopFresh(r)'
      BY <2>2 DEF LoopFresh, FreshSync
    <2>6. Repaired(r)'
      BY <2>2 DEF Repaired, Comparing
    <2> QED
      BY <2>4, <2>5, <2>6 DEF ReplicaInv
  <1> QED
    BY <1>4, <1>5

-----------------------------------------------------------------------------
(* The peers follow the table.                                             *)

Synced == UniqueKeys /\ \A r \in Running : ReplicaInv(r)

LEMMA SyncedInit == Init => Synced
  <1> SUFFICES ASSUME Init PROVE Synced
    OBVIOUS
  <1>1. Typed /\ UniqueKeys
    BY TypedInit, UniqueKeysInit
  <1>2. ASSUME NEW r \in Running PROVE ReplicaInv(r)
    <2>1. r \in Replicas
      BY <1>1, RunningReplicas
    <2>2. sync[r].boot.pc = "list" /\ sync[r].loop.pc = "wait" /\ access[r].pc = "idle"
      BY <2>1, AtRestType DEF Init
    <2>3. \A h \in Handlers : FreshRotation(h)
      BY NoJobOp DEF Init, FreshRotation
    <2> QED
      BY <2>2, <2>3 DEF ReplicaInv, ReadersFresh, LoopFresh, Repaired, Comparing,
                        FreshSync, FreshPass
  <1> QED
    BY <1>1, <1>2 DEF Synced

LEMMA SyncedKept == Typed /\ SingleProcess /\ Synced /\ [Next]_vars => Synced'
  <1> SUFFICES ASSUME Typed, SingleProcess, Synced, [Next]_vars PROVE Synced'
    OBVIOUS
  <1>0. UniqueKeys /\ UniqueKeys'
    BY UniqueKeysKept DEF Synced
  <1>1. UNCHANGED deployment
    BY DEF Next, vars, deployment
  <1>2. Running' = Running
    BY <1>1 DEF Running, deployment
  <1> SUFFICES ASSUME NEW r \in Running PROVE ReplicaInv(r)'
    BY <1>0, <1>2 DEF Synced
  <1>3. r \in Replicas /\ ReplicaInv(r)
    BY RunningReplicas DEF Synced
  <1>4. CASE UNCHANGED vars
    BY <1>3, <1>4, StutterKeeps
  <1>5. CASE Next
    <2>1. CASE Tick
      BY <1>1, <1>3, <2>1, TickKeeps
    <2>2. ASSUME NEW h \in Handlers, Write(h) PROVE ReplicaInv(r)'
      BY <1>0, <1>1, <1>3, <2>2, ChangeKeeps, SameTableKeeps
    <2>3. ASSUME NEW h \in Handlers, Start(h) \/ HandlerStep(h) PROVE ReplicaInv(r)'
      BY <1>0, <1>1, <1>3, <2>2, <2>3, StartKeeps, EmitKeeps, RotateRemoveKeeps,
         RotateApplyKeeps DEF HandlerStep
    <2>4. ASSUME NEW q \in Running, LoopStep(q) PROVE ReplicaInv(r)'
      <3>1. q \in Replicas
        BY RunningReplicas
      <3>2. CASE ResyncReceive(q)
        BY <1>1, <1>3, <3>1, <3>2, ResyncReceiveKeeps
      <3>3. ASSUME NEW a \in Syncers,
                   \/ SyncListDevices(q, a) \/ SyncListPeers(q, a)
                   \/ SyncRemovePeer(q, a) \/ SyncAddPeer(q, a)
            PROVE  ReplicaInv(r)'
        BY <1>0, <1>1, <1>3, <3>1, <3>3, SyncListDevicesKeeps, SyncListPeersKeeps,
           SyncRemovePeerKeeps, SyncAddPeerKeeps
      <3> QED
        BY <2>4, <3>2, <3>3 DEF LoopStep
    <2>5. ASSUME NEW q \in Running, PassStep(q) \/ SyncFails(q) \/ AccessFails(q)
          PROVE  ReplicaInv(r)'
      <3>1. q \in Replicas
        BY RunningReplicas
      <3> QED
        BY <1>0, <1>1, <1>3, <2>5, <3>1, AccessListDevicesKeeps, AccessListPeersKeeps,
           AccessRemovePeerKeeps, SyncFailsKeeps, AccessFailsKeeps DEF PassStep
    <2>6. ASSUME NEW q \in Running,
                 Notified(q) \/ Disconnect(q) \/ Reconnect(q) \/ Restart(q)
          PROVE  ReplicaInv(r)'
      <3>1. q \in Replicas
        BY RunningReplicas
      <3> QED
        BY <1>1, <1>3, <2>6, <3>1, ListenerKeeps, RestartKeeps
    <2> QED
      BY <1>5, <2>1, <2>3, <2>4, <2>5, <2>6 DEF Next
  <1> QED
    BY <1>4, <1>5

\* Nothing under way leaves nothing to repair.
LEMMA SyncedFollows == Typed /\ Synced => PeersFollow
  <1> SUFFICES ASSUME Typed, Synced, NEW r \in Running,
                      Quiet(r), fails = 0, raced[r] = {}
               PROVE  InSync(r)
    BY DEF PeersFollow
  <1>1. r \in Replicas /\ Repaired(r)
    BY RunningReplicas DEF Synced, ReplicaInv
  <1>2. sync[r].boot.pc = "wait" /\ sync[r].loop.pc = "wait"
    BY DEF Quiet, Syncers
  <1>3. ~LoopDue(r)
    <2>1. notes[r] = 0 /\ ~resync[r] /\ connected[r] /\ \A h \in Handlers : pc[h] = "idle"
      BY DEF Quiet
    <2> QED
      BY <1>2, <2>1 DEF LoopDue
  <1>4. ~Comparing(r)
    BY <1>2 DEF Comparing
  <1>5. Served(r) /\ Justified(r)
    BY <1>1, <1>3, <1>4 DEF Repaired
  <1>6. \A x : ~Adds(sync[r].boot, x) /\ ~Adds(sync[r].loop, x)
    BY <1>2 DEF Adds
  <1>7. \A x : ~Touches(sync[r].boot, x) /\ ~Touches(sync[r].loop, x)
    BY <1>2 DEF Touches
  <1> QED
    BY <1>5, <1>6, <1>7 DEF InSync, Served, Justified

LEMMA SyncedAlways == Spec => []Synced
  <1>1. Init /\ []Typed /\ []SingleProcess /\ [][Next]_vars => []Synced
    BY SyncedInit, SyncedKept, PTL
  <1> QED
    BY <1>1, TypedAlways, SingleProcessAlways, PTL DEF Spec

\* THEOREM: whenever nothing is under way on a replica, no call to its interface
\* failed, and no write met a reader that asks for no resync, the interface has
\* exactly the peers of the devices table (StartSync, sync, resyncLoop,
\* removeBlockedPeers, RotateDeviceKey and the callbacks of the storage events):
\* for any number of replicas, handlers, devices, notifications and restarts.
THEOREM PeersAlwaysFollow == Spec => []PeersFollow
  BY TypedAlways, SyncedAlways, SyncedFollows, PTL
=============================================================================
