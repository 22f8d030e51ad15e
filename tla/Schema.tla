------------------------------- MODULE Schema -------------------------------
(***************************************************************************)
(* How a process opens the database: SQLStorage.Open with the schema lock, *)
(* runMigrations and the watcher of Postgres, in servers of an old and of  *)
(* a new version that start, stop and crash while others run, and in the   *)
(* command that copies one storage backend to another (cmd/migrate).       *)
(*                                                                         *)
(* A migration is the parts of the schema that it adds (a table, columns,  *)
(* an index, a wider column), in order: AutoMigrate looks whether one is   *)
(* missing and adds it.                                                    *)
(***************************************************************************)
EXTENDS Integers, Sequences, FiniteSets, Functions

CONSTANTS
    Servers, Copiers,
    Backends,     \* the kinds of database to consider
    Migrations,   \* a sequence of sequences of parts
    Knows,        \* how many of them the program of a process knows
    NotOnSQLite,  \* parts that a migration leaves out on SQLite
    Items,        \* a sequence: what the source holds, in the order it is copied
    MaxStarts,    \* bound of the starts
    MaxFaults,    \* bound of crashes, failing statements and lost connections
    NoBody

Processes == Servers \cup Copiers

ASSUME SchemaAssumption ==
    /\ Servers \cap Copiers = {}
    /\ NoBody \notin Processes
    /\ Backends \subseteq {"postgres", "mysql", "sqlite3"}
    /\ Len(Migrations) \in Nat /\ DOMAIN Migrations = 1 .. Len(Migrations)
    /\ Len(Items) \in Nat /\ DOMAIN Items = 1 .. Len(Items)
    /\ \A p \in Processes : Knows[p] \in 0 .. Len(Migrations)
    \* a migration that was released never changes, and parts are added once
    /\ \A i, j \in DOMAIN Migrations : i # j => Range(Migrations[i]) \cap Range(Migrations[j]) = {}
    /\ {MaxStarts, MaxFaults} \subseteq Nat

VARIABLES
    backend,
    schema,     \* the parts that are committed
    applied,    \* the table schema_migrations: indices of Migrations
    lock,       \* who holds the schema lock in the database
    trigger,    \* whether the trigger that reports updates is on the table
    process,
    dest,       \* what the copied-to database holds: indices of Items
    starts, faults,
    lost,       \* history: a connection that held the lock died
    collided,   \* history: a statement found what another process just made
    cutOff,     \* history: an attaching process ended with the trigger dropped
    copied      \* history: a copy has reported success

vars == <<backend, schema, applied, lock, trigger, process, dest, starts, faults,
          lost, collided, cutOff, copied>>
database == <<schema, applied>>
bounds == <<starts, faults>>
history == <<lost, collided, cutOff, copied>>

Parts == UNION {Range(Migrations[i]) : i \in DOMAIN Migrations}
PartsOf(i) == {part \in Range(Migrations[i]) :
                  backend = "sqlite3" => part \notin NotOnSQLite}
Known(p) == 1 .. Knows[p]

Down == [pc |-> "down", done |-> {}, todo |-> {}, tx |-> {}, next |-> 0]
At(p, pc) == process[p].pc = pc
Goes(p, pc) == process' = [process EXCEPT ![p].pc = pc]

\* In the lock: the function that withSchemaLock runs.
Inside == {"find", "migrate", "look", "alter", "record", "drop", "create"}

PCs == Inside \cup {"down", "lock", "attached", "open", "copy"}

Init ==
    /\ backend \in Backends
    /\ schema = {} /\ applied = {} /\ lock = NoBody /\ trigger = FALSE
    /\ process = [p \in Processes |-> Down]
    /\ dest = {} /\ starts = 0 /\ faults = 0
    /\ lost = FALSE /\ collided = FALSE /\ cutOff = FALSE /\ copied = FALSE

-----------------------------------------------------------------------------
(* Open.  SQLite is a single-instance backend and has no lock.             *)

Start(p) ==
    /\ At(p, "down")
    /\ starts < MaxStarts
    /\ starts' = starts + 1
    /\ IF backend = "sqlite3"
       THEN {q \in Processes : ~At(q, "down")} = {} /\ Goes(p, "find")
       ELSE Goes(p, "lock")
    /\ UNCHANGED <<backend, database, lock, trigger, dest, faults, history>>

\* Mutant: the lock is asked for, not waited for.
AcquireAlways(p) ==
    /\ At(p, "lock")
    /\ lock' = IF lock = NoBody THEN p ELSE lock
    /\ Goes(p, "find")
    /\ UNCHANGED <<backend, database, trigger, dest, bounds, history>>

Acquire(p) ==
    /\ At(p, "lock") /\ lock = NoBody
    /\ lock' = p
    /\ Goes(p, "find")
    /\ UNCHANGED <<backend, database, trigger, dest, bounds, history>>

\* The process, or its start, ends: what it had not committed is rolled back, and
\* the lock is released, by hand or with its connection.
Ends(p) ==
    /\ process' = [process EXCEPT ![p] = Down]
    /\ lock' = IF lock = p THEN NoBody ELSE lock
    /\ cutOff' = (cutOff \/ At(p, "create"))

\* schemaLockTimeout: the other process is still at work.
AcquireTimesOut(p) ==
    /\ At(p, "lock") /\ lock # NoBody
    /\ Ends(p)
    /\ UNCHANGED <<backend, database, trigger, dest, bounds, lost, collided, copied>>

Fault == faults < MaxFaults /\ faults' = faults + 1

\* A statement fails, or the process is killed.
Crash(p) ==
    /\ ~At(p, "down")
    /\ Fault
    /\ Ends(p)
    /\ UNCHANGED <<backend, database, trigger, dest, starts, lost, collided, copied>>

\* The connection of the lock dies; the migrations run on other connections.
LoseLock(p) ==
    /\ lock = p
    /\ Fault
    /\ lock' = NoBody /\ lost' = TRUE
    /\ UNCHANGED <<backend, database, trigger, process, dest, starts, collided,
                   cutOff, copied>>

\* Mutant: what this version does not know is left alone.
FindAnyway(p) ==
    /\ At(p, "find")
    /\ process' = [process EXCEPT ![p].pc = "migrate", ![p].done = applied]
    /\ UNCHANGED <<backend, database, lock, trigger, dest, bounds, history>>

\* runMigrations: which were applied; one that this version does not know was
\* applied by a newer version, and the start is refused.
Find(p) ==
    /\ At(p, "find")
    /\ IF applied \subseteq Known(p)
       THEN /\ process' = [process EXCEPT ![p].pc = "migrate", ![p].done = applied]
            /\ UNCHANGED <<lock, cutOff>>
       ELSE Ends(p)
    /\ UNCHANGED <<backend, database, trigger, dest, bounds, lost, collided, copied>>

Pending(p) == Known(p) \ process[p].done
First(p, i) == i \in Pending(p) /\ \A j \in Pending(p) : i <= j

\* The next migration that was not applied; after the last one attachWatcher, which
\* changes the schema on Postgres only.
Migrate(p) ==
    /\ At(p, "migrate")
    /\ \/ \E i \in Pending(p) :
            /\ First(p, i)
            /\ process' = [process EXCEPT ![p].pc = "look", ![p].next = i]
       \/ /\ Pending(p) = {}
          /\ Goes(p, IF backend = "postgres" THEN "drop" ELSE "attached")
    /\ UNCHANGED <<backend, database, lock, trigger, dest, bounds, history>>

\* Mutant: a migration that has begun counts as applied.
LookOnce(p) ==
    LET parts == PartsOf(process[p].next)
    IN  /\ At(p, "look")
        /\ process' = [process EXCEPT ![p].todo = parts,
                ![p].pc = IF parts = {} \/ parts \cap schema # {} THEN "record" ELSE "alter"]
        /\ UNCHANGED <<backend, database, lock, trigger, dest, bounds, history>>

\* AutoMigrate passes over what is there, also after the migration was cut off.
Look(p) ==
    LET missing == PartsOf(process[p].next) \ (schema \cup process[p].tx)
    IN  /\ At(p, "look")
        /\ process' = [process EXCEPT ![p].todo = missing,
                                      ![p].pc = IF missing = {} THEN "record" ELSE "alter"]
        /\ UNCHANGED <<backend, database, lock, trigger, dest, bounds, history>>

\* The missing part that comes first in the migration.
Foremost(p, part) ==
    LET order == Migrations[process[p].next]
    IN  \E k \in DOMAIN order :
            order[k] = part /\ \A j \in 1 .. k - 1 : order[j] \notin process[p].todo

InOtherTx(p) == UNION {process[q].tx : q \in Processes \ {p}}

\* What another process made in the meantime is an error, as is a second row in
\* schema_migrations.
Collides(p) ==
    /\ collided' = TRUE
    /\ Ends(p)
    /\ UNCHANGED <<backend, database, trigger, dest, bounds, lost, copied>>

\* A part is added.  On MySQL each statement commits; elsewhere it is in the
\* transaction, and another transaction that adds the same waits.  The migration
\* that widens a column (0012) would find its part there and do it once more
\* instead of failing; that takes two inside at once, hence a lost lock.
Alter(p) ==
    /\ At(p, "alter")
    /\ \E part \in process[p].todo :
        /\ Foremost(p, part) /\ part \notin InOtherTx(p)
        /\ IF part \in schema THEN Collides(p)
           ELSE /\ process' = [process EXCEPT ![p].todo = @ \ {part}, ![p].pc = "look",
                                    ![p].tx = IF backend = "mysql" THEN @ ELSE @ \cup {part}]
                /\ schema' = IF backend = "mysql" THEN schema \cup {part} ELSE schema
                /\ UNCHANGED <<backend, applied, lock, trigger, dest, bounds, history>>

\* The migration is recorded, and the transaction commits.
Record(p) ==
    /\ At(p, "record")
    /\ IF process[p].next \in applied THEN Collides(p)
       ELSE /\ applied' = applied \cup {process[p].next}
            /\ schema' = schema \cup process[p].tx
            /\ process' = [process EXCEPT ![p].pc = "migrate", ![p].tx = {},
                                          ![p].done = @ \cup {process[p].next}]
            /\ UNCHANGED <<backend, lock, trigger, dest, bounds, history>>

\* Mutant: the trigger is dropped last.
DropTriggerLast(p) ==
    /\ At(p, "drop")
    /\ trigger' = FALSE
    /\ Goes(p, "attached")
    /\ UNCHANGED <<backend, database, lock, dest, bounds, history>>

\* attachUpdateTrigger: the trigger is dropped and created again.
DropTrigger(p) ==
    /\ At(p, "drop")
    /\ trigger' = FALSE
    /\ Goes(p, "create")
    /\ UNCHANGED <<backend, database, lock, dest, bounds, history>>

CreateTrigger(p) ==
    /\ At(p, "create")
    /\ IF trigger THEN Collides(p)
       ELSE /\ trigger' = TRUE /\ cutOff' = FALSE
            /\ Goes(p, "attached")
            /\ UNCHANGED <<backend, database, lock, dest, bounds, lost, collided, copied>>

\* The lock is released: the database is open.
Opened(p) ==
    /\ At(p, "attached")
    /\ lock' = IF lock = p THEN NoBody ELSE lock
    /\ Goes(p, "open")
    /\ UNCHANGED <<backend, database, trigger, dest, bounds, history>>

Close(p) ==
    /\ At(p, "open")
    /\ Ends(p)
    /\ UNCHANGED <<backend, database, trigger, dest, bounds, lost, collided, copied>>

-----------------------------------------------------------------------------
(* copyAll: the users with their passwords, second factors and passkeys,   *)
(* then the devices, then the tokens, one after the other; the source does *)
(* not change.  Users and devices are written over what is there, and a    *)
(* passkey that is there is left alone; a token that is there is an error. *)
(* A user is one item: the row, the password and the second factor are     *)
(* three writes over what is there, and a copy that is cut off between     *)
(* them is run again from the start.                                       *)

CopyAt(p) == process[p].next

CopyStart(p) ==
    /\ At(p, "open") /\ p \in Copiers
    /\ process' = [process EXCEPT ![p].pc = "copy", ![p].next = 1]
    /\ UNCHANGED <<backend, database, lock, trigger, dest, bounds, history>>

\* Mutant: the tokens and devices go first.
CopyItemBackwards(p) ==
    LET i == Len(Items) + 1 - CopyAt(p)
    IN  /\ At(p, "copy") /\ i > 0
        /\ dest' = dest \cup {i}
        /\ process' = [process EXCEPT ![p].next = @ + 1]
        /\ UNCHANGED <<backend, database, lock, trigger, bounds, history>>

CopyItem(p) ==
    LET i == CopyAt(p)
    IN  /\ At(p, "copy") /\ i <= Len(Items)
        /\ IF Items[i] = "token" /\ i \in dest
           THEN /\ Ends(p)
                /\ UNCHANGED <<backend, database, trigger, dest, bounds, lost, collided, copied>>
           ELSE /\ dest' = dest \cup {i}
                /\ process' = [process EXCEPT ![p].next = @ + 1]
                /\ UNCHANGED <<backend, database, lock, trigger, bounds, history>>

CopyDone(p) ==
    /\ At(p, "copy") /\ CopyAt(p) > Len(Items)
    /\ Ends(p)
    /\ copied' = TRUE
    /\ UNCHANGED <<backend, database, trigger, dest, bounds, lost, collided>>

-----------------------------------------------------------------------------
Step(p) ==
    \/ Acquire(p) \/ AcquireTimesOut(p) \/ Find(p) \/ Migrate(p) \/ Look(p) \/ Alter(p)
    \/ Record(p) \/ DropTrigger(p) \/ CreateTrigger(p) \/ Opened(p)
    \/ CopyStart(p) \/ CopyItem(p) \/ CopyDone(p)

Next == \E p \in Processes :
    Start(p) \/ Step(p) \/ Crash(p) \/ LoseLock(p) \/ Close(p)

Spec == Init /\ [][Next]_vars

-----------------------------------------------------------------------------
\* Every variable has its type: the ground of every other invariant.
SchemaTypeOK ==
    /\ backend \in Backends
    /\ schema \subseteq Parts /\ applied \subseteq DOMAIN Migrations
    /\ lock \in Processes \cup {NoBody}
    /\ process \in [Processes -> [pc : PCs, done : SUBSET DOMAIN Migrations,
                                  todo : SUBSET Parts, tx : SUBSET Parts, next : Nat]]
    /\ dest \subseteq DOMAIN Items
    /\ starts \in Nat /\ faults \in Nat
    /\ trigger \in BOOLEAN /\ lost \in BOOLEAN /\ collided \in BOOLEAN
    /\ cutOff \in BOOLEAN /\ copied \in BOOLEAN

\* A migration that is recorded is complete, whatever was cut off on the way there
\* (on MySQL too, where half of one stays behind), and they were applied in their
\* order: so a server that has opened the database finds every part it needs.
RecordedIsThere ==
    /\ \A i \in applied : PartsOf(i) \subseteq schema
    /\ \A i \in applied : 1 .. i \subseteq applied
    /\ \A p \in Processes : At(p, "open") \/ At(p, "copy") => Known(p) \subseteq applied

\* The processes that start at the same time take turns, and a migration that was cut
\* off is completed by running it again: no start finds that a part of the schema, a
\* record or the trigger is there already, unless the connection of the lock died.
TakeTurns == collided => lost

\* No process opens a database that a newer version has migrated, however the two
\* starts interleave.
NewerRefused ==
    [][\A p \in Processes : At(p, "attached") /\ process'[p].pc = "open" =>
            lost \/ applied \subseteq Known(p)]_vars

\* The updates of devices are reported to the servers, but in the moment in which a
\* process that starts replaces the trigger, and after one that ended there.
UpdatesReported ==
    backend = "postgres" /\ ~trigger /\ ~cutOff =>
        \/ {p \in Servers : At(p, "open")} = {}
        \/ {p \in Processes : At(p, "create")} # {}

\* The comment at copyAll: nobody is left behind.  What was copied at any time is in
\* the order in which the rights of the people come first, their second factors
\* before what they own, and a copy that reports success is complete.
CopyWhole ==
    /\ \A i \in dest : 1 .. i \subseteq dest
    /\ copied => dest = DOMAIN Items
=============================================================================
