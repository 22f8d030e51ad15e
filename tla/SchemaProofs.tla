---------------------------- MODULE SchemaProofs ----------------------------
(***************************************************************************)
(* What Schema guarantees for any number of servers, versions, migrations, *)
(* parts, starts and faults.                                               *)
(***************************************************************************)
EXTENDS Schema, TLAPS

Migrating == {"look", "alter", "record"}
Working == {"migrate"} \cup Migrating
Migrated == {"drop", "create", "attached", "open", "copy"}
Found == {"drop", "create", "attached"} \cup Working

\* What a process knows of the database, whether or not it still has the lock:
\* what it saw applied is applied, and the one it works on is the next.
KnowledgeInv ==
    \A p \in Processes :
        /\ process[p].done \subseteq applied
        /\ process[p].pc \in Migrating =>
              process[p].next \in Known(p) /\ 1 .. process[p].next - 1 \subseteq applied
        /\ At(p, "record") => PartsOf(process[p].next) \subseteq schema \cup process[p].tx
        /\ process[p].pc \in Migrated => Known(p) \subseteq applied

\* What is recorded is there, and in order.
RecordedInv ==
    /\ \A i \in applied : PartsOf(i) \subseteq schema
    /\ \A i \in applied : 1 .. i \subseteq applied

\* As long as no connection of the lock died, one process at a time is between
\* the lock and its release; on SQLite one process runs at all.
TurnInv ==
    /\ backend # "sqlite3" =>
        \A p \in Processes : process[p].pc \in Inside \cup {"attached"} => lock = p
    /\ backend = "sqlite3" =>
        \A p, q \in Processes : ~At(p, "down") /\ ~At(q, "down") => p = q

\* So what the process in the lock saw of the database is still so.
FreshInv ==
    \A p \in Processes :
        /\ process[p].pc \in Found => applied \subseteq Known(p)
        /\ process[p].pc \in Working => process[p].done = applied
        /\ process[p].pc \in Migrating => process[p].next \notin applied
        /\ At(p, "alter") => process[p].todo \cap schema = {}
        /\ At(p, "create") => ~trigger

\* A database that is open, or about to be, has its trigger, but while one is
\* being replaced and after a process ended in between.
TriggerInv ==
    backend = "postgres" /\ ~trigger /\ ~cutOff =>
        \/ \A p \in Processes : process[p].pc \notin {"attached", "open", "copy"}
        \/ \E p \in Processes : At(p, "create")

\* A copy has written everything before the item it is at.
CopyInv ==
    /\ \A p \in Processes : At(p, "copy") =>
        process[p].next \in 1 .. Len(Items) + 1 /\ 1 .. process[p].next - 1 \subseteq dest
    /\ dest \subseteq DOMAIN Items
    /\ \A i \in dest : 1 .. i \subseteq dest
    /\ copied => dest = DOMAIN Items

-----------------------------------------------------------------------------
(* Types, and what a step does to the process that takes it.               *)

ProcessRow == [pc : PCs, done : SUBSET DOMAIN Migrations, todo : SUBSET Parts,
               tx : SUBSET Parts, next : Nat]

\* After the step, process p is as given, and every other as before.
Sets(p, pc, done, todo, tx, next) ==
    /\ process' \in [Processes -> ProcessRow]
    /\ \A q \in Processes \ {p} : process'[q] = process[q]
    /\ process'[p].pc = pc /\ process'[p].done = done /\ process'[p].todo = todo
    /\ process'[p].tx = tx /\ process'[p].next = next

\* Process p goes to another place in its program.
Moves(p, pc) == Sets(p, pc, process[p].done, process[p].todo, process[p].tx,
                     process[p].next)

\* The row of a process that goes on, and that of one that ends.
LEMMA MoveShape ==
    ASSUME SchemaTypeOK, NEW p \in Processes
    PROVE  /\ process[p] \in ProcessRow
           /\ \A l \in PCs : Goes(p, l) => Moves(p, l)
           /\ Ends(p) => Sets(p, "down", {}, {}, {}, 0)
  <1>1. process \in [Processes -> ProcessRow]
    BY DEF SchemaTypeOK, ProcessRow
  <1>2. process[p] \in ProcessRow
    BY <1>1
  <1>3. ASSUME NEW l \in PCs, Goes(p, l) PROVE Moves(p, l)
    BY <1>1, <1>2, <1>3 DEF Goes, Moves, Sets, ProcessRow
  <1>4. ASSUME Ends(p) PROVE Sets(p, "down", {}, {}, {}, 0)
    <2>1. Down \in ProcessRow
      BY DEF Down, ProcessRow, PCs
    <2> QED BY <1>1, <1>4, <2>1 DEF Ends, Sets, Down
  <1> QED BY <1>2, <1>3, <1>4

\* A part of a migration is a part of the schema.
LEMMA PartsOfType ==
    ASSUME NEW i \in DOMAIN Migrations
    PROVE  PartsOf(i) \subseteq Parts
  BY DEF PartsOf, Parts

\* The migrations that a program knows are among all.
LEMMA KnownType ==
    ASSUME NEW p \in Processes
    PROVE  Known(p) \subseteq DOMAIN Migrations /\ Knows[p] \in Nat
  BY SchemaAssumption DEF Known

\* Steps that only move.
LEMMA PlainShapes ==
    ASSUME SchemaTypeOK, NEW p \in Processes
    PROVE  /\ Start(p) => \E l \in {"find", "lock"} : Moves(p, l)
           /\ Acquire(p) => Moves(p, "find")
           /\ DropTrigger(p) => Moves(p, "create")
           /\ Opened(p) => Moves(p, "open")
           /\ AcquireTimesOut(p) \/ Crash(p) \/ Close(p) \/ CopyDone(p) \/ Collides(p)
                => Sets(p, "down", {}, {}, {}, 0)
  <1> USE DEF PCs, Inside
  <1>1. Start(p) => \E l \in {"find", "lock"} : Moves(p, l)
    BY MoveShape DEF Start
  <1>2. Acquire(p) => Moves(p, "find")
    BY MoveShape DEF Acquire
  <1>3. DropTrigger(p) => Moves(p, "create")
    BY MoveShape DEF DropTrigger
  <1>4. Opened(p) => Moves(p, "open")
    BY MoveShape DEF Opened
  <1>5. AcquireTimesOut(p) \/ Crash(p) \/ Close(p) \/ CopyDone(p) \/ Collides(p)
            => Sets(p, "down", {}, {}, {}, 0)
    BY MoveShape DEF AcquireTimesOut, Crash, Close, CopyDone, Collides
  <1> QED BY <1>1, <1>2, <1>3, <1>4, <1>5

\* Steps that keep what they found.
LEMMA WorkShapes ==
    ASSUME SchemaTypeOK, NEW p \in Processes
    PROVE  /\ Find(p) => \/ Ends(p) /\ Sets(p, "down", {}, {}, {}, 0)
                         \/ /\ applied \subseteq Known(p)
                            /\ Sets(p, "migrate", applied, process[p].todo,
                                    process[p].tx, process[p].next)
                            /\ UNCHANGED <<lock, cutOff>>
           /\ Migrate(p) =>
                \/ \E i \in Pending(p) :
                    /\ First(p, i)
                    /\ Sets(p, "look", process[p].done, process[p].todo,
                            process[p].tx, i)
                \/ /\ Pending(p) = {}
                   /\ \/ backend = "postgres" /\ Moves(p, "drop")
                      \/ backend # "postgres" /\ Moves(p, "attached")
           /\ Look(p) /\ process[p].next \in DOMAIN Migrations =>
                LET missing == PartsOf(process[p].next) \ (schema \cup process[p].tx)
                IN  Sets(p, IF missing = {} THEN "record" ELSE "alter",
                         process[p].done, missing, process[p].tx, process[p].next)
           /\ Record(p) /\ process[p].next \in DOMAIN Migrations =>
                \/ Collides(p) /\ process[p].next \in applied
                \/ /\ Sets(p, "migrate", process[p].done \cup {process[p].next},
                           process[p].todo, {}, process[p].next)
                   /\ schema' = schema \cup process[p].tx
                   /\ applied' = applied \cup {process[p].next}
                   /\ UNCHANGED <<backend, lock, trigger, dest, bounds, history>>
  <1> USE DEF PCs, Inside
  <1>0. process \in [Processes -> ProcessRow] /\ process[p] \in ProcessRow
    BY DEF SchemaTypeOK, ProcessRow
  <1>1. ASSUME Find(p)
        PROVE  \/ Ends(p) /\ Sets(p, "down", {}, {}, {}, 0)
               \/ /\ applied \subseteq Known(p)
                  /\ Sets(p, "migrate", applied, process[p].todo,
                          process[p].tx, process[p].next)
                  /\ UNCHANGED <<lock, cutOff>>
    <2>1. CASE applied \subseteq Known(p)
      <3>1. applied \subseteq DOMAIN Migrations
        BY DEF SchemaTypeOK
      <3>2. /\ process' = [process EXCEPT ![p].pc = "migrate", ![p].done = applied]
            /\ UNCHANGED <<lock, cutOff>>
        BY <1>1, <2>1 DEF Find
      <3> QED BY <1>0, <2>1, <3>1, <3>2 DEF Sets, ProcessRow
    <2>2. CASE ~(applied \subseteq Known(p))
      BY <1>1, <2>2, MoveShape DEF Find
    <2> QED BY <2>1, <2>2
  <1>2. ASSUME Migrate(p)
        PROVE  \/ \E i \in Pending(p) :
                    /\ First(p, i)
                    /\ Sets(p, "look", process[p].done, process[p].todo,
                            process[p].tx, i)
               \/ /\ Pending(p) = {}
                  /\ \/ backend = "postgres" /\ Moves(p, "drop")
                     \/ backend # "postgres" /\ Moves(p, "attached")
    <2>1. ASSUME NEW i \in Pending(p), First(p, i),
                 process' = [process EXCEPT ![p].pc = "look", ![p].next = i]
          PROVE  Sets(p, "look", process[p].done, process[p].todo, process[p].tx, i)
      <3>1. i \in Nat
        BY KnownType DEF Pending, Known
      <3> QED BY <1>0, <2>1, <3>1 DEF Sets, ProcessRow
    <2> QED BY <1>2, <2>1, MoveShape DEF Migrate
  <1>3. ASSUME Look(p), process[p].next \in DOMAIN Migrations
        PROVE  LET missing == PartsOf(process[p].next) \ (schema \cup process[p].tx)
               IN  Sets(p, IF missing = {} THEN "record" ELSE "alter",
                        process[p].done, missing, process[p].tx, process[p].next)
    <2> DEFINE missing == PartsOf(process[p].next) \ (schema \cup process[p].tx)
    <2>1. missing \subseteq Parts
      BY <1>3, PartsOfType
    <2>2. process' = [process EXCEPT ![p].todo = missing,
                          ![p].pc = IF missing = {} THEN "record" ELSE "alter"]
      BY <1>3 DEF Look
    <2> HIDE DEF missing
    <2>3. Sets(p, IF missing = {} THEN "record" ELSE "alter",
               process[p].done, missing, process[p].tx, process[p].next)
      BY <1>0, <2>1, <2>2 DEF Sets, ProcessRow
    <2> QED BY <2>3 DEF missing
  <1>4. ASSUME Record(p), process[p].next \in DOMAIN Migrations
        PROVE  \/ Collides(p) /\ process[p].next \in applied
               \/ /\ Sets(p, "migrate", process[p].done \cup {process[p].next},
                          process[p].todo, {}, process[p].next)
                  /\ schema' = schema \cup process[p].tx
                  /\ applied' = applied \cup {process[p].next}
                  /\ UNCHANGED <<backend, lock, trigger, dest, bounds, history>>
    <2>1. CASE process[p].next \in applied
      BY <1>4, <2>1 DEF Record
    <2>2. CASE process[p].next \notin applied
      <3>1. process' = [process EXCEPT ![p].pc = "migrate", ![p].tx = {},
                                       ![p].done = @ \cup {process[p].next}]
        BY <1>4, <2>2 DEF Record
      <3>2. Sets(p, "migrate", process[p].done \cup {process[p].next},
                 process[p].todo, {}, process[p].next)
        BY <1>0, <1>4, <3>1 DEF Sets, ProcessRow
      <3> QED BY <1>4, <2>2, <3>2 DEF Record
    <2> QED BY <2>1, <2>2
  <1> QED BY <1>1, <1>2, <1>3, <1>4

\* Steps that add a part, the trigger or an item of the copy.
LEMMA WriteShapes ==
    ASSUME SchemaTypeOK, NEW p \in Processes
    PROVE  /\ Alter(p) => \E part \in process[p].todo :
                \/ part \in schema /\ Collides(p)
                \/ /\ part \notin schema
                   /\ Sets(p, "look", process[p].done, process[p].todo \ {part},
                           IF backend = "mysql" THEN process[p].tx
                           ELSE process[p].tx \cup {part}, process[p].next)
                   /\ schema' = IF backend = "mysql" THEN schema \cup {part} ELSE schema
                   /\ UNCHANGED <<backend, applied, lock, trigger, dest, bounds, history>>
           /\ CreateTrigger(p) =>
                \/ trigger /\ Collides(p)
                \/ /\ Moves(p, "attached") /\ trigger' = TRUE /\ cutOff' = FALSE
                   /\ UNCHANGED <<backend, database, lock, dest, bounds, lost,
                                  collided, copied>>
           /\ CopyStart(p) => Sets(p, "copy", process[p].done, process[p].todo,
                                   process[p].tx, 1)
           /\ CopyItem(p) =>
                \/ Ends(p) /\ Sets(p, "down", {}, {}, {}, 0) /\ UNCHANGED dest
                \/ /\ Sets(p, "copy", process[p].done, process[p].todo,
                           process[p].tx, process[p].next + 1)
                   /\ dest' = dest \cup {process[p].next}
                   /\ UNCHANGED <<lock, cutOff>>
  <1> USE DEF PCs, Inside
  <1>0. process \in [Processes -> ProcessRow] /\ process[p] \in ProcessRow
    BY DEF SchemaTypeOK, ProcessRow
  <1>1. ASSUME NEW part \in process[p].todo,
               process' = [process EXCEPT ![p].todo = @ \ {part}, ![p].pc = "look",
                              ![p].tx = IF backend = "mysql" THEN @ ELSE @ \cup {part}]
        PROVE  Sets(p, "look", process[p].done, process[p].todo \ {part},
                    IF backend = "mysql" THEN process[p].tx
                    ELSE process[p].tx \cup {part}, process[p].next)
    <2>1. part \in Parts
      BY <1>0 DEF ProcessRow
    <2>2. CASE backend = "mysql"
      BY <1>0, <1>1, <2>1, <2>2 DEF Sets, ProcessRow
    <2>3. CASE backend # "mysql"
      BY <1>0, <1>1, <2>1, <2>3 DEF Sets, ProcessRow
    <2> QED BY <2>2, <2>3
  <1>2. ASSUME Alter(p)
        PROVE  \E part \in process[p].todo :
                \/ part \in schema /\ Collides(p)
                \/ /\ part \notin schema
                   /\ Sets(p, "look", process[p].done, process[p].todo \ {part},
                           IF backend = "mysql" THEN process[p].tx
                           ELSE process[p].tx \cup {part}, process[p].next)
                   /\ schema' = IF backend = "mysql" THEN schema \cup {part} ELSE schema
                   /\ UNCHANGED <<backend, applied, lock, trigger, dest, bounds, history>>
    <2>1. PICK part \in process[p].todo :
              IF part \in schema THEN Collides(p)
              ELSE /\ process' = [process EXCEPT ![p].todo = @ \ {part}, ![p].pc = "look",
                                    ![p].tx = IF backend = "mysql" THEN @ ELSE @ \cup {part}]
                   /\ schema' = IF backend = "mysql" THEN schema \cup {part} ELSE schema
                   /\ UNCHANGED <<backend, applied, lock, trigger, dest, bounds, history>>
      BY <1>2 DEF Alter
    <2>2. CASE part \in schema
      BY <2>1, <2>2
    <2>3. CASE part \notin schema
      <3>1. Sets(p, "look", process[p].done, process[p].todo \ {part},
                 IF backend = "mysql" THEN process[p].tx
                 ELSE process[p].tx \cup {part}, process[p].next)
        BY <1>1, <2>1, <2>3
      <3> QED BY <2>1, <2>3, <3>1
    <2> QED BY <2>2, <2>3
  <1>3. ASSUME CreateTrigger(p)
        PROVE  \/ trigger /\ Collides(p)
               \/ /\ Moves(p, "attached") /\ trigger' = TRUE /\ cutOff' = FALSE
                  /\ UNCHANGED <<backend, database, lock, dest, bounds, lost,
                                 collided, copied>>
    BY <1>3, MoveShape DEF CreateTrigger
  <1>4. ASSUME CopyStart(p)
        PROVE  Sets(p, "copy", process[p].done, process[p].todo, process[p].tx, 1)
    BY <1>0, <1>4 DEF CopyStart, Sets, ProcessRow
  <1>5. ASSUME CopyItem(p)
        PROVE  \/ Ends(p) /\ Sets(p, "down", {}, {}, {}, 0) /\ UNCHANGED dest
               \/ /\ Sets(p, "copy", process[p].done, process[p].todo,
                          process[p].tx, process[p].next + 1)
                  /\ dest' = dest \cup {process[p].next}
                  /\ UNCHANGED <<lock, cutOff>>
    <2>1. CASE Ends(p) /\ UNCHANGED dest
      BY <2>1, MoveShape
    <2>2. CASE /\ process' = [process EXCEPT ![p].next = @ + 1]
               /\ dest' = dest \cup {process[p].next}
               /\ UNCHANGED <<lock, cutOff>>
      <3>1. process[p].pc = "copy"
        BY <1>5 DEF CopyItem, At
      <3>2. process[p].next + 1 \in Nat
        BY <1>0 DEF ProcessRow
      <3> QED BY <1>0, <2>2, <3>1, <3>2 DEF Sets, ProcessRow
    <2> QED BY <1>5, <2>1, <2>2 DEF CopyItem, CopyAt, history
  <1> QED BY <1>2, <1>3, <1>4, <1>5

-----------------------------------------------------------------------------
(* What a process knows, and what is recorded.                             *)

\* The type of what a step leaves, part by part.
LEMMA TypeKept ==
    ASSUME SchemaTypeOK, UNCHANGED backend,
           schema' \subseteq Parts, applied' \subseteq DOMAIN Migrations,
           lock' \in Processes \cup {NoBody},
           process' \in [Processes -> ProcessRow], dest' \subseteq DOMAIN Items,
           starts' \in Nat, faults' \in Nat,
           trigger' \in BOOLEAN, lost' \in BOOLEAN, collided' \in BOOLEAN,
           cutOff' \in BOOLEAN, copied' \in BOOLEAN
    PROVE  SchemaTypeOK'
  BY DEF SchemaTypeOK, ProcessRow

\* The step of a process that ends.
LEMMA EndsType ==
    ASSUME SchemaTypeOK, NEW p \in Processes, Ends(p)
    PROVE  lock' \in Processes \cup {NoBody} /\ cutOff' \in BOOLEAN
  BY DEF SchemaTypeOK, Ends

\* Every step keeps the types.
LEMMA TypeStep ==
    ASSUME SchemaTypeOK, KnowledgeInv, CopyInv, NEW p \in Processes,
           Start(p) \/ Step(p) \/ Crash(p) \/ LoseLock(p) \/ Close(p)
    PROVE  SchemaTypeOK'
  <1> USE DEF database, bounds, history
  <1>0. /\ backend \in Backends
        /\ schema \subseteq Parts /\ applied \subseteq DOMAIN Migrations
        /\ lock \in Processes \cup {NoBody}
        /\ process \in [Processes -> ProcessRow] /\ dest \subseteq DOMAIN Items
        /\ starts \in Nat /\ faults \in Nat
        /\ trigger \in BOOLEAN /\ lost \in BOOLEAN /\ collided \in BOOLEAN
        /\ cutOff \in BOOLEAN /\ copied \in BOOLEAN
    BY DEF SchemaTypeOK, ProcessRow
  <1>1. CASE Start(p)
    <2>1. process' \in [Processes -> ProcessRow]
      BY <1>1, PlainShapes DEF Moves, Sets
    <2> QED BY <1>0, <1>1, <2>1, TypeKept DEF Start
  <1>2. CASE Acquire(p)
    <2>1. process' \in [Processes -> ProcessRow]
      BY <1>2, PlainShapes DEF Moves, Sets
    <2> QED BY <1>0, <1>2, <2>1, TypeKept DEF Acquire
  <1>3. CASE AcquireTimesOut(p) \/ Crash(p) \/ Close(p) \/ CopyDone(p)
    <2>1. process' \in [Processes -> ProcessRow]
      BY <1>3, PlainShapes DEF Sets
    <2>2. Ends(p)
      BY <1>3 DEF AcquireTimesOut, Crash, Close, CopyDone
    <2>3. lock' \in Processes \cup {NoBody} /\ cutOff' \in BOOLEAN
      BY <2>2, EndsType
    <2>4. UNCHANGED <<backend, database, trigger, dest, starts, lost, collided>>
      BY <1>3 DEF AcquireTimesOut, Crash, Close, CopyDone
    <2>5. copied' \in BOOLEAN
      BY <1>0, <1>3 DEF AcquireTimesOut, Crash, Close, CopyDone
    <2>6. faults' \in Nat
      BY <1>0, <1>3 DEF AcquireTimesOut, Crash, Close, CopyDone, Fault
    <2> QED BY <1>0, <2>1, <2>3, <2>4, <2>5, <2>6, TypeKept
  <1>4. CASE LoseLock(p)
    BY <1>0, <1>4, TypeKept DEF LoseLock, Fault
  <1>5. CASE Find(p)
    <2>1. process' \in [Processes -> ProcessRow]
      BY <1>5, WorkShapes DEF Sets
    <2>2. lock' \in Processes \cup {NoBody} /\ cutOff' \in BOOLEAN
      BY <1>0, <1>5, WorkShapes, EndsType
    <2> QED BY <1>0, <1>5, <2>1, <2>2, TypeKept DEF Find
  <1>6. CASE Migrate(p)
    <2>1. process' \in [Processes -> ProcessRow]
      BY <1>6, WorkShapes DEF Moves, Sets
    <2> QED BY <1>0, <1>6, <2>1, TypeKept DEF Migrate
  <1>7. CASE Look(p)
    <2>1. process[p].next \in DOMAIN Migrations
      BY <1>7, KnownType DEF Look, At, KnowledgeInv, Migrating
    <2>2. process' \in [Processes -> ProcessRow]
      BY <1>7, <2>1, WorkShapes DEF Sets
    <2> QED BY <1>0, <1>7, <2>2, TypeKept DEF Look
  <1>8. ASSUME Collides(p) PROVE SchemaTypeOK'
    <2>1. process' \in [Processes -> ProcessRow]
      BY <1>8, PlainShapes DEF Sets
    <2>2. lock' \in Processes \cup {NoBody} /\ cutOff' \in BOOLEAN
      BY <1>8, EndsType DEF Collides
    <2> QED BY <1>0, <1>8, <2>1, <2>2, TypeKept DEF Collides
  <1>9. CASE Alter(p)
    <2>1. PICK part \in process[p].todo :
                \/ part \in schema /\ Collides(p)
                \/ /\ part \notin schema
                   /\ Sets(p, "look", process[p].done, process[p].todo \ {part},
                           IF backend = "mysql" THEN process[p].tx
                           ELSE process[p].tx \cup {part}, process[p].next)
                   /\ schema' = IF backend = "mysql" THEN schema \cup {part} ELSE schema
                   /\ UNCHANGED <<backend, applied, lock, trigger, dest, bounds, history>>
      BY <1>9, WriteShapes
    <2>2. part \in Parts
      BY <1>0 DEF ProcessRow
    <2>3. CASE ~Collides(p)
      <3>1. process' \in [Processes -> ProcessRow]
        BY <2>1, <2>3 DEF Sets
      <3> QED BY <1>0, <2>1, <2>2, <2>3, <3>1, TypeKept
    <2> QED BY <1>8, <2>3
  <1>10. CASE Record(p)
    <2>1. process[p].next \in DOMAIN Migrations
      BY <1>10, KnownType DEF Record, At, KnowledgeInv, Migrating
    <2>2. process[p].tx \subseteq Parts
      BY <1>0 DEF ProcessRow
    <2>3. CASE ~Collides(p)
      <3>1. /\ process' \in [Processes -> ProcessRow]
            /\ schema' = schema \cup process[p].tx
            /\ applied' = applied \cup {process[p].next}
            /\ UNCHANGED <<backend, lock, trigger, dest, bounds, history>>
        BY <1>10, <2>1, <2>3, WorkShapes DEF Sets
      <3> QED BY <1>0, <2>1, <2>2, <3>1, TypeKept
    <2> QED BY <1>8, <2>3
  <1>11. CASE DropTrigger(p)
    <2>1. process' \in [Processes -> ProcessRow]
      BY <1>11, PlainShapes DEF Moves, Sets
    <2> QED BY <1>0, <1>11, <2>1, TypeKept DEF DropTrigger
  <1>12. CASE CreateTrigger(p)
    <2>1. CASE ~Collides(p)
      <3>1. /\ process' \in [Processes -> ProcessRow] /\ trigger' = TRUE /\ cutOff' = FALSE
            /\ UNCHANGED <<backend, database, lock, dest, bounds, lost, collided, copied>>
        BY <1>12, <2>1, WriteShapes DEF Moves, Sets
      <3> QED BY <1>0, <3>1, TypeKept
    <2> QED BY <1>8, <2>1
  <1>13. CASE Opened(p)
    <2>1. process' \in [Processes -> ProcessRow]
      BY <1>13, PlainShapes DEF Moves, Sets
    <2> QED BY <1>0, <1>13, <2>1, TypeKept DEF Opened
  <1>14. CASE CopyStart(p)
    <2>1. process' \in [Processes -> ProcessRow]
      BY <1>14, WriteShapes DEF Sets
    <2> QED BY <1>0, <1>14, <2>1, TypeKept DEF CopyStart
  <1>15. CASE CopyItem(p)
    <2>1. process' \in [Processes -> ProcessRow]
      BY <1>15, WriteShapes DEF Sets
    <2>2. lock' \in Processes \cup {NoBody} /\ cutOff' \in BOOLEAN
      BY <1>0, <1>15, WriteShapes, EndsType
    <2>3. dest' \subseteq DOMAIN Items
      <3>1. process[p].next \in DOMAIN Items
        BY <1>15, SchemaAssumption DEF CopyItem, CopyAt, CopyInv
      <3> QED BY <1>0, <1>15, <3>1, WriteShapes
    <2> QED BY <1>0, <1>15, <2>1, <2>2, <2>3, TypeKept DEF CopyItem
  <1> QED
    BY <1>1, <1>2, <1>3, <1>4, <1>5, <1>6, <1>7, <1>9, <1>10, <1>11, <1>12, <1>13,
       <1>14, <1>15 DEF Step
\* The schema and its records only grow.
LEMMA Grows ==
    ASSUME NEW p \in Processes,
           Start(p) \/ Step(p) \/ Crash(p) \/ LoseLock(p) \/ Close(p)
    PROVE  applied \subseteq applied' /\ schema \subseteq schema' /\ UNCHANGED backend
  <1> USE DEF database
  <1>1. CASE Start(p) \/ Crash(p) \/ LoseLock(p) \/ Close(p)
    BY <1>1 DEF Start, Crash, LoseLock, Close
  <1>2. CASE Acquire(p) \/ AcquireTimesOut(p) \/ Find(p) \/ Migrate(p) \/ Look(p)
    BY <1>2 DEF Acquire, AcquireTimesOut, Find, Migrate, Look
  <1>3. CASE Alter(p)
    BY <1>3 DEF Alter, Collides
  <1>4. CASE Record(p)
    BY <1>4 DEF Record, Collides
  <1>5. CASE DropTrigger(p) \/ CreateTrigger(p) \/ Opened(p)
    BY <1>5 DEF DropTrigger, CreateTrigger, Collides, Opened
  <1>6. CASE CopyStart(p) \/ CopyItem(p) \/ CopyDone(p)
    BY <1>6 DEF CopyStart, CopyItem, CopyDone
  <1> QED BY <1>1, <1>2, <1>3, <1>4, <1>5, <1>6 DEF Step

\* What the process that takes the step has to know for itself; the others
\* know no less than before.
LEMMA KnowledgeKept ==
    ASSUME SchemaTypeOK, KnowledgeInv, NEW p \in Processes,
           applied \subseteq applied', schema \subseteq schema', UNCHANGED backend,
           \A q \in Processes \ {p} : process'[q] = process[q],
           process'[p].done \subseteq applied',
           process'[p].pc \in Migrating =>
               /\ process'[p].next \in Known(p)
               /\ 1 .. process'[p].next - 1 \subseteq applied',
           process'[p].pc = "record" =>
               PartsOf(process'[p].next) \subseteq schema' \cup process'[p].tx,
           process'[p].pc \in Migrated => Known(p) \subseteq applied'
    PROVE  KnowledgeInv'
  <1> SUFFICES ASSUME NEW q \in Processes
               PROVE  /\ process'[q].done \subseteq applied'
                      /\ process'[q].pc \in Migrating =>
                            /\ process'[q].next \in Known(q)
                            /\ 1 .. process'[q].next - 1 \subseteq applied'
                      /\ process'[q].pc = "record" =>
                            PartsOf(process'[q].next) \subseteq schema' \cup process'[q].tx
                      /\ process'[q].pc \in Migrated => Known(q) \subseteq applied'
    BY DEF KnowledgeInv, At, PartsOf, Known
  <1>1. CASE q = p
    BY <1>1
  <1>2. CASE q # p
    BY <1>2 DEF KnowledgeInv, At
  <1> QED BY <1>1, <1>2

\* A record that is not new is still complete.
LEMMA RecordedKept ==
    ASSUME RecordedInv, UNCHANGED <<applied, backend>>, schema \subseteq schema'
    PROVE  RecordedInv'
  <1>1. \A i : PartsOf(i)' = PartsOf(i)
    BY DEF PartsOf
  <1> QED BY <1>1 DEF RecordedInv

\* Every step keeps what processes know, and what is recorded.
LEMMA KnowledgeStep ==
    ASSUME SchemaTypeOK, KnowledgeInv, RecordedInv, NEW p \in Processes,
           Start(p) \/ Step(p) \/ Crash(p) \/ LoseLock(p) \/ Close(p)
    PROVE  KnowledgeInv' /\ RecordedInv'
  <1> USE DEF database, bounds, history
  <1>0. /\ process[p] \in ProcessRow
        /\ process[p].done \subseteq applied
        /\ process[p].pc \in Migrating => /\ process[p].next \in Known(p)
                                          /\ 1 .. process[p].next - 1 \subseteq applied
        /\ process[p].pc \in Migrated => Known(p) \subseteq applied
    BY MoveShape DEF KnowledgeInv
  <1>g. applied \subseteq applied' /\ schema \subseteq schema' /\ UNCHANGED backend
    BY Grows
  <1>1. ASSUME Sets(p, "down", {}, {}, {}, 0), UNCHANGED applied
        PROVE  KnowledgeInv' /\ RecordedInv'
    <2>1. KnowledgeInv'
      BY <1>g, <1>1, KnowledgeKept DEF Sets, Migrating, Migrated
    <2> QED BY <1>g, <1>1, <2>1, RecordedKept
  <1>2. ASSUME NEW l \in {"find", "lock", "drop", "create", "attached", "open"},
               Moves(p, l), UNCHANGED applied,
               l \in {"drop", "create", "attached", "open"} => Known(p) \subseteq applied
        PROVE  KnowledgeInv' /\ RecordedInv'
    <2>1. KnowledgeInv'
      BY <1>0, <1>g, <1>2, KnowledgeKept DEF Moves, Sets, Migrating, Migrated
    <2> QED BY <1>g, <1>2, <2>1, RecordedKept
  <1>3. CASE Start(p) \/ Acquire(p)
    BY <1>2, <1>3, PlainShapes DEF Start, Acquire
  <1>4. CASE DropTrigger(p) \/ Opened(p)
    <2>1. Known(p) \subseteq applied
      BY <1>0, <1>4 DEF DropTrigger, Opened, At, Migrated
    <2> QED BY <1>2, <1>4, <2>1, PlainShapes DEF DropTrigger, Opened
  <1>5. CASE AcquireTimesOut(p) \/ Crash(p) \/ Close(p) \/ CopyDone(p) \/ Collides(p)
    <2>1. UNCHANGED applied
      BY <1>5 DEF AcquireTimesOut, Crash, Close, CopyDone, Collides
    <2> QED BY <1>1, <1>5, <2>1, PlainShapes
  <1>6. CASE LoseLock(p)
    <2>1. UNCHANGED <<process, applied>>
      BY <1>6 DEF LoseLock
    <2>2. At(p, "record") => PartsOf(process[p].next) \subseteq schema \cup process[p].tx
      BY DEF KnowledgeInv
    <2>3. KnowledgeInv'
      BY <1>0, <1>g, <2>1, <2>2, KnowledgeKept DEF At
    <2> QED BY <1>g, <2>1, <2>3, RecordedKept
  <1>7. CASE Find(p)
    <2>1. UNCHANGED applied
      BY <1>7 DEF Find
    <2>2. CASE Sets(p, "migrate", applied, process[p].todo, process[p].tx, process[p].next)
      <3>1. KnowledgeInv'
        BY <1>g, <2>1, <2>2, KnowledgeKept DEF Sets, Migrating, Migrated
      <3> QED BY <1>g, <2>1, <3>1, RecordedKept
    <2> QED BY <1>1, <1>7, <2>1, <2>2, WorkShapes
  <1>8. CASE Migrate(p)
    <2>1. UNCHANGED applied
      BY <1>8 DEF Migrate
    <2>2. ASSUME NEW i \in Pending(p), First(p, i),
                 Sets(p, "look", process[p].done, process[p].todo, process[p].tx, i)
          PROVE  KnowledgeInv' /\ RecordedInv'
      <3>1. i \in Known(p) /\ Known(p) = 1 .. Knows[p] /\ Knows[p] \in Nat
        BY KnownType DEF Pending, Known
      <3>2. \A j \in 1 .. i - 1 : j \in Known(p) /\ j \notin Pending(p)
        BY <2>2, <3>1 DEF First
      <3>3. 1 .. i - 1 \subseteq applied
        BY <1>0, <3>2 DEF Pending
      <3>4. KnowledgeInv'
        BY <1>0, <1>g, <2>1, <2>2, <3>1, <3>3, KnowledgeKept DEF Sets, Migrating, Migrated
      <3> QED BY <1>g, <2>1, <3>4, RecordedKept
    <2>3. ASSUME Pending(p) = {}, NEW l \in {"drop", "attached"}, Moves(p, l)
          PROVE  KnowledgeInv' /\ RecordedInv'
      <3>1. Known(p) \subseteq applied
        BY <1>0, <2>3 DEF Pending
      <3> QED BY <1>2, <2>1, <2>3, <3>1
    <2> QED BY <1>8, <2>2, <2>3, WorkShapes
  <1>9. CASE Look(p)
    <2>1. UNCHANGED <<applied, schema>> /\ process[p].pc \in Migrating
      BY <1>9 DEF Look, At, Migrating
    <2>2. process[p].next \in DOMAIN Migrations
      BY <1>0, <2>1, KnownType
    <2> DEFINE missing == PartsOf(process[p].next) \ (schema \cup process[p].tx)
    <2>3. Sets(p, IF missing = {} THEN "record" ELSE "alter",
               process[p].done, missing, process[p].tx, process[p].next)
      BY <1>9, <2>2, WorkShapes
    <2>4. missing = {} => PartsOf(process[p].next) \subseteq schema \cup process[p].tx
      OBVIOUS
    <2> HIDE DEF missing
    <2>5. process'[p].pc = "record" => missing = {}
      BY <2>3 DEF Sets
    <2>6. process'[p].pc \notin Migrated
      BY <2>3 DEF Sets, Migrated
    <2>7. KnowledgeInv'
      BY <1>0, <1>g, <2>1, <2>3, <2>4, <2>5, <2>6, KnowledgeKept DEF Sets
    <2> QED BY <1>g, <2>1, <2>7, RecordedKept
  <1>10. CASE Alter(p)
    <2>1. PICK part \in process[p].todo :
                \/ part \in schema /\ Collides(p)
                \/ /\ part \notin schema
                   /\ Sets(p, "look", process[p].done, process[p].todo \ {part},
                           IF backend = "mysql" THEN process[p].tx
                           ELSE process[p].tx \cup {part}, process[p].next)
                   /\ schema' = IF backend = "mysql" THEN schema \cup {part} ELSE schema
                   /\ UNCHANGED <<backend, applied, lock, trigger, dest, bounds, history>>
      BY <1>10, WriteShapes
    <2>2. CASE ~Collides(p)
      <3>1. process[p].pc \in Migrating
        BY <1>10 DEF Alter, At, Migrating
      <3>2. KnowledgeInv'
        BY <1>0, <1>g, <2>1, <2>2, <3>1, KnowledgeKept DEF Sets, Migrated
      <3> QED BY <1>g, <2>1, <2>2, <3>2, RecordedKept
    <2> QED BY <1>5, <2>2
  <1>11. CASE Record(p)
    <2>1. At(p, "record") /\ process[p].pc \in Migrating
      BY <1>11 DEF Record, At, Migrating
    <2>2. process[p].next \in DOMAIN Migrations /\ process[p].next \in Nat
      BY <1>0, <2>1, KnownType DEF Known
    <2>3. CASE ~Collides(p)
      <3>1. /\ Sets(p, "migrate", process[p].done \cup {process[p].next},
                    process[p].todo, {}, process[p].next)
            /\ schema' = schema \cup process[p].tx
            /\ applied' = applied \cup {process[p].next}
        BY <1>11, <2>2, <2>3, WorkShapes
      <3>2. KnowledgeInv'
        BY <1>0, <1>g, <3>1, KnowledgeKept DEF Sets, Migrating, Migrated
      <3>3. PartsOf(process[p].next) \subseteq schema'
        BY <2>1, <3>1 DEF KnowledgeInv
      <3>4. \A i : PartsOf(i)' = PartsOf(i)
        BY <1>g DEF PartsOf
      <3>5. \A i \in applied' : PartsOf(i)' \subseteq schema'
        BY <1>g, <3>1, <3>3, <3>4 DEF RecordedInv
      <3>6. 1 .. process[p].next \subseteq applied'
        BY <1>0, <2>1, <2>2, <3>1
      <3>7. \A i \in applied' : 1 .. i \subseteq applied'
        BY <1>g, <3>1, <3>6 DEF RecordedInv
      <3> QED BY <3>2, <3>5, <3>7 DEF RecordedInv
    <2> QED BY <1>5, <2>3
  <1>12. CASE CreateTrigger(p)
    <2>1. Known(p) \subseteq applied
      BY <1>0, <1>12 DEF CreateTrigger, At, Migrated
    <2> QED BY <1>2, <1>5, <1>12, <2>1, WriteShapes
  <1>13. CASE CopyStart(p)
    <2>1. Known(p) \subseteq applied /\ UNCHANGED applied
      BY <1>0, <1>13 DEF CopyStart, At, Migrated
    <2>2. Sets(p, "copy", process[p].done, process[p].todo, process[p].tx, 1)
      BY <1>13, WriteShapes
    <2>3. KnowledgeInv'
      BY <1>0, <1>g, <2>1, <2>2, KnowledgeKept DEF Sets, Migrating
    <2> QED BY <1>g, <2>1, <2>3, RecordedKept
  <1>14. CASE CopyItem(p)
    <2>1. Known(p) \subseteq applied /\ UNCHANGED applied
      BY <1>0, <1>14 DEF CopyItem, At, Migrated
    <2>2. CASE Sets(p, "copy", process[p].done, process[p].todo, process[p].tx,
                    process[p].next + 1)
      <3>1. KnowledgeInv'
        BY <1>0, <1>g, <2>1, <2>2, KnowledgeKept DEF Sets, Migrating
      <3> QED BY <1>g, <2>1, <3>1, RecordedKept
    <2> QED BY <1>1, <1>14, <2>1, <2>2, WriteShapes
  <1> QED
    BY <1>3, <1>4, <1>5, <1>6, <1>7, <1>8, <1>9, <1>10, <1>11, <1>12, <1>13, <1>14
       DEF Step

-----------------------------------------------------------------------------
(* The copy of a storage.                                                  *)

\* Every step keeps the order of a copy.
LEMMA CopyStep ==
    ASSUME SchemaTypeOK, CopyInv, NEW p \in Processes,
           Start(p) \/ Step(p) \/ Crash(p) \/ LoseLock(p) \/ Close(p)
    PROVE  CopyInv'
  <1> USE SchemaAssumption DEF database, bounds, history
  <1>0. process[p] \in ProcessRow
    BY MoveShape
  <1>1. ASSUME \A q \in Processes \ {p} : process'[q] = process[q],
               process'[p].pc # "copy", UNCHANGED dest, copied' => copied
        PROVE  CopyInv'
    BY <1>1 DEF CopyInv, At
  <1>2. CASE Start(p) \/ Acquire(p) \/ DropTrigger(p) \/ Opened(p)
    <2>1. UNCHANGED <<dest, copied>>
      BY <1>2 DEF Start, Acquire, DropTrigger, Opened
    <2> QED BY <1>1, <1>2, <2>1, PlainShapes DEF Moves, Sets
  <1>3. CASE AcquireTimesOut(p) \/ Crash(p) \/ Close(p) \/ Collides(p)
    <2>1. UNCHANGED <<dest, copied>>
      BY <1>3 DEF AcquireTimesOut, Crash, Close, Collides
    <2> QED BY <1>1, <1>3, <2>1, PlainShapes DEF Sets
  <1>4. CASE LoseLock(p)
    BY <1>4 DEF LoseLock, CopyInv, At
  <1>5. CASE Find(p) \/ Migrate(p)
    <2>1. UNCHANGED <<dest, copied>>
      BY <1>5 DEF Find, Migrate
    <2> QED BY <1>1, <1>5, <2>1, WorkShapes DEF Moves, Sets
  <1>6. CASE Look(p)
    <2>1. UNCHANGED <<dest, copied>> /\ process'[p].pc # "copy"
      BY <1>0, <1>6 DEF Look, SchemaTypeOK, ProcessRow
    <2>2. \A q \in Processes \ {p} : process'[q] = process[q]
      BY <1>6 DEF Look, SchemaTypeOK
    <2> QED BY <1>1, <2>1, <2>2
  <1>7. CASE Record(p) /\ ~Collides(p)
    <2>1. UNCHANGED <<dest, copied>> /\ process'[p].pc # "copy"
      BY <1>0, <1>7 DEF Record, SchemaTypeOK, ProcessRow
    <2>2. \A q \in Processes \ {p} : process'[q] = process[q]
      BY <1>7 DEF Record, SchemaTypeOK
    <2> QED BY <1>1, <2>1, <2>2
  <1>8. CASE (Alter(p) \/ CreateTrigger(p)) /\ ~Collides(p)
    BY <1>1, <1>8, WriteShapes DEF Moves, Sets
  <1>9. CASE CopyStart(p)
    <2>1. /\ \A q \in Processes \ {p} : process'[q] = process[q]
          /\ process'[p].next = 1 /\ UNCHANGED <<dest, copied>>
      BY <1>9, WriteShapes DEF CopyStart, Sets
    <2> QED BY <2>1 DEF CopyInv, At
  <1>10. CASE CopyItem(p)
    <2>1. /\ process[p].next \in 1 .. Len(Items) /\ process[p].next \in Nat
          /\ 1 .. process[p].next - 1 \subseteq dest /\ UNCHANGED copied
      BY <1>10 DEF CopyItem, CopyAt, CopyInv
    <2>2. CASE Sets(p, "down", {}, {}, {}, 0) /\ UNCHANGED dest
      BY <1>1, <2>1, <2>2 DEF Sets
    <2>3. CASE /\ Sets(p, "copy", process[p].done, process[p].todo, process[p].tx,
                       process[p].next + 1)
               /\ dest' = dest \cup {process[p].next}
      <3>1. /\ \A q \in Processes \ {p} : process'[q] = process[q]
            /\ process'[p].next = process[p].next + 1
        BY <2>3 DEF Sets
      <3>2. 1 .. process[p].next \subseteq dest'
        BY <2>1, <2>3
      <3>3. dest' \subseteq DOMAIN Items
        BY <2>1, <2>3 DEF CopyInv
      <3>4. copied' => dest' = DOMAIN Items
        BY <2>1, <2>3, <3>3 DEF CopyInv
      <3>5. \A i \in dest' : 1 .. i \subseteq dest'
        BY <2>3, <3>2 DEF CopyInv
      <3>6. ASSUME NEW q \in Processes, process'[q].pc = "copy"
            PROVE  /\ process'[q].next \in 1 .. Len(Items) + 1
                   /\ 1 .. process'[q].next - 1 \subseteq dest'
        <4>1. CASE q = p
          BY <2>1, <3>1, <3>2, <4>1
        <4>2. CASE q # p
          BY <2>3, <3>1, <3>6, <4>2 DEF CopyInv, At
        <4> QED BY <4>1, <4>2
      <3> QED BY <3>3, <3>4, <3>5, <3>6 DEF CopyInv, At
    <2> QED BY <1>10, <2>2, <2>3, WriteShapes
  <1>11. CASE CopyDone(p)
    <2>1. /\ \A q \in Processes \ {p} : process'[q] = process[q]
          /\ process'[p].pc # "copy" /\ UNCHANGED dest
      BY <1>11, PlainShapes DEF CopyDone, Sets
    <2>2. process[p].next = Len(Items) + 1 /\ 1 .. process[p].next - 1 \subseteq dest
      BY <1>11 DEF CopyDone, CopyAt, CopyInv
    <2>3. DOMAIN Items \subseteq dest
      <3>1. process[p].next - 1 = Len(Items)
        BY <2>2
      <3> QED BY <2>2, <3>1
    <2>4. dest = DOMAIN Items
      BY <2>3 DEF CopyInv
    <2> QED BY <2>1, <2>4 DEF CopyInv, At
  <1> QED
    BY <1>2, <1>3, <1>4, <1>5, <1>6, <1>7, <1>8, <1>9, <1>10, <1>11 DEF Step

-----------------------------------------------------------------------------
(* Turns: who is in the lock, and what stays as the process in it saw it.  *)

Between == Inside \cup {"attached"}

\* At most one process is between the lock and its release.
LEMMA OneAtATime ==
    ASSUME SchemaTypeOK, TurnInv, NEW p \in Processes, NEW q \in Processes,
           process[p].pc \in Between, process[q].pc \in Between
    PROVE  p = q
  BY DEF TurnInv, Between, Inside, At

\* A step of a process that is in the lock already, or leaves it.
LEMMA TurnKept ==
    ASSUME SchemaTypeOK, TurnInv, NEW p \in Processes, UNCHANGED backend,
           \A q \in Processes \ {p} : process'[q] = process[q],
           process'[p].pc # "down" => process[p].pc # "down",
           process'[p].pc \in Between => process[p].pc \in Between /\ UNCHANGED lock,
           lock' = lock \/ (lock = p /\ lock' = NoBody)
    PROVE  TurnInv'
  <1>1. ASSUME backend # "sqlite3", NEW q \in Processes, process'[q].pc \in Between
        PROVE  lock' = q
    BY <1>1, SchemaAssumption DEF TurnInv, Between
  <1>2. ASSUME backend = "sqlite3", NEW q \in Processes, NEW r \in Processes,
               process'[q].pc # "down", process'[r].pc # "down"
        PROVE  q = r
    <2>1. process[q].pc # "down" /\ process[r].pc # "down"
      BY <1>2
    <2> QED BY <1>2, <2>1 DEF TurnInv, At
  <1> QED BY <1>1, <1>2 DEF TurnInv, Between, At

\* The database stays as the process in the lock saw it: only a step of a
\* process in the lock changes it, and that is the one that saw it.
LEMMA FreshKept ==
    ASSUME SchemaTypeOK, TurnInv, FreshInv, NEW p \in Processes,
           \A q \in Processes \ {p} : process'[q] = process[q],
           process[p].pc \in Between \/ UNCHANGED <<applied, schema, trigger>>,
           process'[p].pc \in Found => applied' \subseteq Known(p),
           process'[p].pc \in Working => process'[p].done = applied',
           process'[p].pc \in Migrating => process'[p].next \notin applied',
           process'[p].pc = "alter" => process'[p].todo \cap schema' = {},
           process'[p].pc = "create" => ~trigger'
    PROVE  FreshInv'
  <1> SUFFICES ASSUME NEW q \in Processes
               PROVE  /\ process'[q].pc \in Found => applied' \subseteq Known(q)
                      /\ process'[q].pc \in Working => process'[q].done = applied'
                      /\ process'[q].pc \in Migrating => process'[q].next \notin applied'
                      /\ process'[q].pc = "alter" => process'[q].todo \cap schema' = {}
                      /\ process'[q].pc = "create" => ~trigger'
    BY DEF FreshInv, At, Known
  <1>1. CASE q = p
    BY <1>1
  <1>2. CASE q # p /\ process[q].pc \in Between
    <2>1. UNCHANGED <<applied, schema, trigger>>
      BY <1>2, OneAtATime
    <2> QED BY <1>2, <2>1 DEF FreshInv, At
  <1>3. CASE q # p /\ process[q].pc \notin Between
    <2>1. process'[q].pc \notin Found \cup {"alter", "create"} \cup Working \cup Migrating
      BY <1>3 DEF Between, Inside, Found, Working, Migrating
    <2> QED BY <2>1
  <1> QED BY <1>1, <1>2, <1>3

\* As long as no connection of the lock is lost, processes take turns, what the
\* one in the lock saw stays so, and nothing it makes is there already.
LEMMA TurnStep ==
    ASSUME SchemaTypeOK, KnowledgeInv, TurnInv, FreshInv, ~collided,
           NEW p \in Processes, ~lost',
           Start(p) \/ Step(p) \/ Crash(p) \/ LoseLock(p) \/ Close(p)
    PROVE  TurnInv' /\ FreshInv' /\ ~collided'
  <1> USE DEF database, bounds, history
  <1>0. /\ process[p] \in ProcessRow
        /\ process[p].pc \in Found => applied \subseteq Known(p)
        /\ process[p].pc \in Working => process[p].done = applied
        /\ process[p].pc \in Migrating => process[p].next \notin applied
        /\ process[p].pc \in Migrating => process[p].next \in Known(p)
        /\ At(p, "alter") => process[p].todo \cap schema = {}
        /\ At(p, "create") => ~trigger
    BY MoveShape DEF FreshInv, KnowledgeInv
  <1>g. UNCHANGED backend
    BY Grows
  <1>1. ASSUME Sets(p, "down", {}, {}, {}, 0), Ends(p), UNCHANGED <<database, trigger>>
        PROVE  TurnInv' /\ FreshInv'
    <2>1. TurnInv'
      BY <1>g, <1>1, TurnKept DEF Sets, Ends, Between, Inside
    <2>2. FreshInv'
      BY <1>1, FreshKept DEF Sets, Found, Working, Migrating
    <2> QED BY <2>1, <2>2
  <1>2. CASE Start(p)
    <2>1. PICK l \in {"find", "lock"} : Moves(p, l)
      BY <1>2, PlainShapes
    <2>2. UNCHANGED <<database, trigger, lock, collided>> /\ process[p].pc = "down"
      BY <1>2 DEF Start, At
    <2>3. /\ \A q \in Processes \ {p} : process'[q] = process[q]
          /\ process'[p].pc \notin Found \cup {"alter", "create"} \cup Working \cup Migrating
      BY <2>1 DEF Moves, Sets, Found, Working, Migrating
    <2>4. FreshInv'
      BY <2>2, <2>3, FreshKept
    <2>5. TurnInv'
      <3>1. CASE backend = "sqlite3"
        <4>1. \A q \in Processes : process[q].pc = "down"
          BY <1>2, <3>1 DEF Start, At
        <4> QED BY <1>g, <2>3, <3>1, <4>1 DEF TurnInv, At
      <3>2. CASE backend # "sqlite3"
        <4>1. Goes(p, "lock")
          BY <1>2, <3>2 DEF Start
        <4>2. process'[p].pc = "lock"
          BY <4>1, MoveShape DEF Moves, Sets, PCs
        <4> QED BY <1>g, <2>2, <2>3, <3>2, <4>2 DEF TurnInv, At, Inside
      <3> QED BY <3>1, <3>2
    <2> QED BY <2>2, <2>4, <2>5
  <1>3. CASE Acquire(p)
    <2>1. Moves(p, "find")
      BY <1>3, PlainShapes
    <2>2. /\ UNCHANGED <<database, trigger, collided>> /\ process[p].pc = "lock"
          /\ lock = NoBody /\ lock' = p
      BY <1>3 DEF Acquire, At
    <2>3. /\ \A q \in Processes \ {p} : process'[q] = process[q]
          /\ process'[p].pc \notin Found \cup {"alter", "create"} \cup Working \cup Migrating
      BY <2>1 DEF Moves, Sets, Found, Working, Migrating
    <2>4. FreshInv'
      BY <2>2, <2>3, FreshKept
    <2>5. TurnInv'
      BY <1>g, <2>2, <2>3, SchemaAssumption DEF TurnInv, At
    <2> QED BY <2>2, <2>4, <2>5
  <1>4. CASE AcquireTimesOut(p) \/ Crash(p) \/ Close(p) \/ CopyDone(p)
    <2>1. UNCHANGED <<database, trigger, collided>> /\ Ends(p)
      BY <1>4 DEF AcquireTimesOut, Crash, Close, CopyDone
    <2> QED BY <1>1, <1>4, <2>1, PlainShapes
  <1>5. CASE LoseLock(p)
    BY <1>5 DEF LoseLock
  <1>6. CASE Find(p)
    <2>1. UNCHANGED <<database, trigger, collided>> /\ process[p].pc = "find"
      BY <1>6 DEF Find, At
    <2>2. CASE Ends(p) /\ Sets(p, "down", {}, {}, {}, 0)
      BY <1>1, <2>1, <2>2
    <2>3. CASE /\ applied \subseteq Known(p)
               /\ Sets(p, "migrate", applied, process[p].todo, process[p].tx,
                       process[p].next)
               /\ UNCHANGED <<lock, cutOff>>
      <3>1. TurnInv'
        BY <1>g, <2>1, <2>3, TurnKept DEF Sets, Between, Inside
      <3>2. FreshInv'
        BY <2>1, <2>3, FreshKept DEF Sets, Working, Migrating
      <3> QED BY <2>1, <3>1, <3>2
    <2> QED BY <1>6, <2>2, <2>3, WorkShapes
  <1>7. CASE Migrate(p)
    <2>1. /\ UNCHANGED <<database, trigger, collided, lock>>
          /\ process[p].pc = "migrate" /\ process[p].done = applied
          /\ applied \subseteq Known(p)
      BY <1>0, <1>7 DEF Migrate, At, Found, Working
    <2>2. ASSUME NEW i \in Pending(p),
                 Sets(p, "look", process[p].done, process[p].todo, process[p].tx, i)
          PROVE  TurnInv' /\ FreshInv'
      <3>1. i \notin applied
        BY <2>1 DEF Pending
      <3>2. TurnInv'
        BY <1>g, <2>1, <2>2, TurnKept DEF Sets, Between, Inside
      <3>3. FreshInv'
        BY <2>1, <2>2, <3>1, FreshKept DEF Sets, Working
      <3> QED BY <3>2, <3>3
    <2>3. ASSUME NEW l \in {"drop", "attached"}, Moves(p, l)
          PROVE  TurnInv' /\ FreshInv'
      <3>1. TurnInv'
        BY <1>g, <2>1, <2>3, TurnKept DEF Moves, Sets, Between, Inside
      <3>2. FreshInv'
        BY <2>1, <2>3, FreshKept DEF Moves, Sets, Working, Migrating
      <3> QED BY <3>1, <3>2
    <2> QED BY <1>7, <2>1, <2>2, <2>3, WorkShapes
  <1>8. CASE Look(p)
    <2>1. /\ UNCHANGED <<database, trigger, collided, lock>>
          /\ process[p].pc = "look" /\ process[p].pc \in Migrating
      BY <1>8 DEF Look, At, Migrating
    <2>2. process[p].next \in DOMAIN Migrations
      BY <1>0, <2>1, KnownType
    <2> DEFINE missing == PartsOf(process[p].next) \ (schema \cup process[p].tx)
    <2>3. Sets(p, IF missing = {} THEN "record" ELSE "alter",
               process[p].done, missing, process[p].tx, process[p].next)
      BY <1>8, <2>2, WorkShapes
    <2>4. missing \cap schema = {}
      OBVIOUS
    <2> HIDE DEF missing
    <2>5. /\ process'[p].pc \in {"record", "alter"} /\ process'[p].todo = missing
          /\ process'[p].next = process[p].next /\ process'[p].done = process[p].done
          /\ \A q \in Processes \ {p} : process'[q] = process[q]
      BY <2>3 DEF Sets
    <2>6. TurnInv'
      BY <1>g, <2>1, <2>5, TurnKept DEF Between, Inside
    <2>7. FreshInv'
      BY <1>0, <2>1, <2>4, <2>5, FreshKept DEF Found, Working, Migrating
    <2> QED BY <2>1, <2>6, <2>7
  <1>9. CASE Alter(p)
    <2>1. PICK part \in process[p].todo :
                \/ part \in schema /\ Collides(p)
                \/ /\ part \notin schema
                   /\ Sets(p, "look", process[p].done, process[p].todo \ {part},
                           IF backend = "mysql" THEN process[p].tx
                           ELSE process[p].tx \cup {part}, process[p].next)
                   /\ schema' = IF backend = "mysql" THEN schema \cup {part} ELSE schema
                   /\ UNCHANGED <<backend, applied, lock, trigger, dest, bounds, history>>
      BY <1>9, WriteShapes
    <2>2. process[p].pc = "alter" /\ part \notin schema
      BY <1>0, <1>9 DEF Alter, At
    <2>3. /\ process'[p].pc = "look" /\ process'[p].next = process[p].next
          /\ process'[p].done = process[p].done
          /\ \A q \in Processes \ {p} : process'[q] = process[q]
      BY <2>1, <2>2 DEF Sets
    <2>4. TurnInv'
      BY <1>g, <2>1, <2>2, <2>3, TurnKept DEF Between, Inside
    <2>5. FreshInv'
      BY <1>0, <2>1, <2>2, <2>3, FreshKept DEF Found, Working, Migrating, Between, Inside
    <2> QED BY <2>1, <2>2, <2>4, <2>5
  <1>10. CASE Record(p)
    <2>1. process[p].pc = "record" /\ process[p].pc \in Migrating
      BY <1>10 DEF Record, At, Migrating
    <2>2. process[p].next \in DOMAIN Migrations /\ process[p].next \notin applied
      BY <1>0, <2>1, KnownType
    <2>3. /\ Sets(p, "migrate", process[p].done \cup {process[p].next},
                  process[p].todo, {}, process[p].next)
          /\ applied' = applied \cup {process[p].next}
          /\ UNCHANGED <<backend, lock, trigger, dest, bounds, history>>
      BY <1>10, <2>2, WorkShapes
    <2>4. TurnInv'
      BY <1>g, <2>1, <2>3, TurnKept DEF Sets, Between, Inside
    <2>5. applied' \subseteq Known(p)
      BY <1>0, <2>1, <2>3 DEF Found, Working
    <2>6. process[p].done \cup {process[p].next} = applied'
      BY <1>0, <2>1, <2>3 DEF Working
    <2>7. FreshInv'
      BY <2>1, <2>3, <2>5, <2>6, FreshKept DEF Sets, Working, Migrating, Between, Inside
    <2> QED BY <2>3, <2>4, <2>7
  <1>11. CASE DropTrigger(p)
    <2>1. /\ UNCHANGED <<database, lock, collided>> /\ process[p].pc = "drop"
          /\ trigger' = FALSE
      BY <1>11 DEF DropTrigger, At
    <2>2. Moves(p, "create")
      BY <1>11, PlainShapes
    <2>3. TurnInv'
      BY <1>g, <2>1, <2>2, TurnKept DEF Moves, Sets, Between, Inside
    <2>4. FreshInv'
      BY <1>0, <2>1, <2>2, FreshKept DEF Moves, Sets, Migrating, Working, Found, Between, Inside
    <2> QED BY <2>1, <2>3, <2>4
  <1>12. CASE CreateTrigger(p)
    <2>1. process[p].pc = "create" /\ ~trigger
      BY <1>0, <1>12 DEF CreateTrigger, At
    <2>2. Moves(p, "attached") /\ UNCHANGED <<database, lock, collided>>
      BY <1>12, <2>1, WriteShapes
    <2>3. TurnInv'
      BY <1>g, <2>1, <2>2, TurnKept DEF Moves, Sets, Between, Inside
    <2>4. FreshInv'
      BY <1>0, <2>1, <2>2, FreshKept DEF Moves, Sets, Migrating, Working, Found, Between, Inside
    <2> QED BY <2>2, <2>3, <2>4
  <1>13. CASE Opened(p)
    <2>1. /\ UNCHANGED <<database, trigger, collided>> /\ process[p].pc = "attached"
          /\ lock' = IF lock = p THEN NoBody ELSE lock
      BY <1>13 DEF Opened, At
    <2>2. Moves(p, "open")
      BY <1>13, PlainShapes
    <2>3. TurnInv'
      BY <1>g, <2>1, <2>2, TurnKept DEF Moves, Sets, Between, Inside
    <2>4. FreshInv'
      BY <2>1, <2>2, FreshKept DEF Moves, Sets, Migrating, Working, Found
    <2> QED BY <2>1, <2>3, <2>4
  <1>14. CASE CopyStart(p)
    <2>1. UNCHANGED <<database, trigger, collided, lock>> /\ process[p].pc = "open"
      BY <1>14 DEF CopyStart, At
    <2>2. process'[p].pc = "copy" /\ \A q \in Processes \ {p} : process'[q] = process[q]
      BY <1>14, WriteShapes DEF Sets
    <2>3. TurnInv'
      BY <1>g, <2>1, <2>2, TurnKept DEF Between, Inside
    <2>4. FreshInv'
      BY <2>1, <2>2, FreshKept DEF Migrating, Working, Found
    <2> QED BY <2>1, <2>3, <2>4
  <1>15. CASE CopyItem(p)
    <2>1. UNCHANGED <<database, trigger, collided>> /\ process[p].pc = "copy"
      BY <1>15 DEF CopyItem, At
    <2>2. CASE Ends(p) /\ Sets(p, "down", {}, {}, {}, 0)
      BY <1>1, <2>1, <2>2
    <2>3. CASE /\ Sets(p, "copy", process[p].done, process[p].todo, process[p].tx,
                       process[p].next + 1)
               /\ UNCHANGED lock
      <3>1. TurnInv'
        BY <1>g, <2>1, <2>3, TurnKept DEF Sets, Between, Inside
      <3>2. FreshInv'
        BY <2>1, <2>3, FreshKept DEF Sets, Migrating, Working, Found
      <3> QED BY <2>1, <3>1, <3>2
    <2> QED BY <1>15, <2>2, <2>3, WriteShapes
  <1> QED
    BY <1>2, <1>3, <1>4, <1>5, <1>6, <1>7, <1>8, <1>9, <1>10, <1>11, <1>12, <1>13,
       <1>14, <1>15 DEF Step

\* A lost connection stays lost.
LEMMA LostStays ==
    ASSUME NEW p \in Processes, lost,
           Start(p) \/ Step(p) \/ Crash(p) \/ LoseLock(p) \/ Close(p)
    PROVE  lost'
  <1> USE DEF history
  <1>1. CASE Start(p) \/ Crash(p) \/ LoseLock(p) \/ Close(p)
    BY <1>1 DEF Start, Crash, LoseLock, Close
  <1>2. CASE Acquire(p) \/ AcquireTimesOut(p) \/ Find(p) \/ Migrate(p) \/ Look(p)
    BY <1>2 DEF Acquire, AcquireTimesOut, Find, Migrate, Look
  <1>3. CASE Alter(p) \/ Record(p)
    BY <1>3 DEF Alter, Record, Collides
  <1>4. CASE DropTrigger(p) \/ CreateTrigger(p) \/ Opened(p)
    BY <1>4 DEF DropTrigger, CreateTrigger, Collides, Opened
  <1>5. CASE CopyStart(p) \/ CopyItem(p) \/ CopyDone(p)
    BY <1>5 DEF CopyStart, CopyItem, CopyDone
  <1> QED BY <1>1, <1>2, <1>3, <1>4, <1>5 DEF Step

-----------------------------------------------------------------------------
(* The trigger that reports updates.                                       *)

\* A step of a process that neither replaces the trigger nor ends while it is
\* gone, and opens no database without it.
LEMMA TriggerKept ==
    ASSUME SchemaTypeOK, TriggerInv, NEW p \in Processes,
           UNCHANGED <<backend, trigger, cutOff>>,
           \A q \in Processes \ {p} : process'[q] = process[q],
           process[p].pc # "create",
           backend = "postgres" /\ process'[p].pc \in {"attached", "open", "copy"} =>
               process[p].pc \in {"attached", "open", "copy"}
    PROVE  TriggerInv'
  <1>1. ASSUME \E q \in Processes : At(q, "create")
        PROVE  \E q \in Processes : At(q, "create")'
    BY <1>1 DEF At
  <1>2. ASSUME backend = "postgres",
               \A q \in Processes : process[q].pc \notin {"attached", "open", "copy"}
        PROVE  \A q \in Processes : process'[q].pc \notin {"attached", "open", "copy"}
    BY <1>2
  <1> QED BY <1>1, <1>2 DEF TriggerInv

\* Whatever a process does, the trigger is there or being replaced, or it was
\* cut off in between.
LEMMA TriggerStep ==
    ASSUME SchemaTypeOK, KnowledgeInv, TriggerInv, NEW p \in Processes,
           Start(p) \/ Step(p) \/ Crash(p) \/ LoseLock(p) \/ Close(p)
    PROVE  TriggerInv'
  <1> USE DEF database, bounds, history
  <1>0. process[p] \in ProcessRow
    BY MoveShape
  <1>g. UNCHANGED backend
    BY Grows
  <1>1. ASSUME Ends(p), UNCHANGED trigger PROVE TriggerInv'
    <2>1. CASE process[p].pc = "create"
      BY <1>1, <2>1 DEF Ends, At, TriggerInv
    <2>2. CASE process[p].pc # "create"
      <3>1. UNCHANGED cutOff
        BY <1>1, <2>2 DEF Ends, At, SchemaTypeOK
      <3>2. Sets(p, "down", {}, {}, {}, 0)
        BY <1>1, MoveShape
      <3> QED BY <1>g, <1>1, <2>2, <3>1, <3>2, TriggerKept DEF Sets
    <2> QED BY <2>1, <2>2
  <1>2. CASE AcquireTimesOut(p) \/ Crash(p) \/ Close(p) \/ CopyDone(p) \/ Collides(p)
    <2>1. Ends(p) /\ UNCHANGED trigger
      BY <1>2 DEF AcquireTimesOut, Crash, Close, CopyDone, Collides
    <2> QED BY <1>1, <2>1
  <1>3. CASE Start(p) \/ Acquire(p)
    <2>1. UNCHANGED <<trigger, cutOff>> /\ process[p].pc \in {"down", "lock"}
      BY <1>3 DEF Start, Acquire, At
    <2> QED BY <1>g, <1>3, <2>1, PlainShapes, TriggerKept DEF Moves, Sets
  <1>4. CASE LoseLock(p)
    BY <1>4 DEF LoseLock, TriggerInv, At
  <1>5. CASE Find(p)
    <2>1. UNCHANGED trigger /\ process[p].pc = "find"
      BY <1>5 DEF Find, At
    <2> QED BY <1>g, <1>1, <1>5, <2>1, WorkShapes, TriggerKept DEF Sets
  <1>6. CASE Migrate(p)
    <2>1. UNCHANGED <<trigger, cutOff>> /\ process[p].pc = "migrate"
      BY <1>6 DEF Migrate, At
    <2> QED BY <1>g, <1>6, <2>1, WorkShapes, TriggerKept DEF Moves, Sets
  <1>7. CASE Look(p)
    <2>1. UNCHANGED <<trigger, cutOff>> /\ process[p].pc = "look"
      BY <1>7 DEF Look, At
    <2>2. /\ process'[p].pc \in {"record", "alter"}
          /\ \A q \in Processes \ {p} : process'[q] = process[q]
      BY <1>0, <1>7 DEF Look, SchemaTypeOK, ProcessRow
    <2> QED BY <1>g, <2>1, <2>2, TriggerKept
  <1>8. CASE Alter(p) /\ ~Collides(p)
    <2>1. process[p].pc = "alter"
      BY <1>8 DEF Alter, At
    <2> QED BY <1>g, <1>8, <2>1, WriteShapes, TriggerKept DEF Sets
  <1>9. CASE Record(p) /\ ~Collides(p)
    <2>1. process[p].pc = "record" /\ process[p].pc \in Migrating
      BY <1>9 DEF Record, At, Migrating
    <2>2. process[p].next \in DOMAIN Migrations
      BY <2>1, KnownType DEF KnowledgeInv
    <2> QED BY <1>g, <1>9, <2>1, <2>2, WorkShapes, TriggerKept DEF Sets
  <1>10. CASE DropTrigger(p)
    <2>1. process'[p].pc = "create"
      BY <1>10, PlainShapes DEF Moves, Sets
    <2> QED BY <2>1 DEF TriggerInv, At
  <1>11. CASE CreateTrigger(p) /\ ~Collides(p)
    <2>1. trigger' = TRUE
      BY <1>11, WriteShapes
    <2> QED BY <2>1 DEF TriggerInv
  <1>12. CASE Opened(p)
    <2>1. UNCHANGED <<trigger, cutOff>> /\ process[p].pc = "attached"
      BY <1>12 DEF Opened, At
    <2> QED BY <1>g, <1>12, <2>1, PlainShapes, TriggerKept DEF Moves, Sets
  <1>13. CASE CopyStart(p)
    <2>1. UNCHANGED <<trigger, cutOff>> /\ process[p].pc = "open"
      BY <1>13 DEF CopyStart, At
    <2> QED BY <1>g, <1>13, <2>1, WriteShapes, TriggerKept DEF Sets
  <1>14. CASE CopyItem(p)
    <2>1. UNCHANGED trigger /\ process[p].pc = "copy"
      BY <1>14 DEF CopyItem, At
    <2> QED BY <1>g, <1>1, <1>14, <2>1, WriteShapes, TriggerKept DEF Sets
  <1> QED
    BY <1>2, <1>3, <1>4, <1>5, <1>6, <1>7, <1>8, <1>9, <1>10, <1>11, <1>12, <1>13,
       <1>14 DEF Step

-----------------------------------------------------------------------------
(* The theorems.                                                           *)

\* What holds whether or not a connection of the lock is lost.
LEMMA SchemaHolds ==
    Spec => [](SchemaTypeOK /\ KnowledgeInv /\ RecordedInv /\ CopyInv /\ TriggerInv)
  <1> DEFINE Inv == SchemaTypeOK /\ KnowledgeInv /\ RecordedInv /\ CopyInv /\ TriggerInv
  <1>1. Init => Inv
    <2> SUFFICES ASSUME Init PROVE Inv
      OBVIOUS
    <2>1. Down \in ProcessRow /\ Down.pc = "down" /\ Down.done = {}
      BY DEF Down, ProcessRow, PCs
    <2>2. process \in [Processes -> ProcessRow] /\ \A p \in Processes : process[p] = Down
      BY <2>1 DEF Init
    <2>3. SchemaTypeOK
      BY <2>2 DEF Init, SchemaTypeOK, ProcessRow
    <2>4. KnowledgeInv
      BY <2>1, <2>2 DEF KnowledgeInv, Migrating, Migrated, At
    <2>5. RecordedInv
      BY DEF Init, RecordedInv
    <2>6. CopyInv
      BY <2>1, <2>2 DEF Init, CopyInv, At
    <2>7. TriggerInv
      BY <2>1, <2>2 DEF TriggerInv
    <2> QED BY <2>3, <2>4, <2>5, <2>6, <2>7
  <1>2. Inv /\ [Next]_vars => Inv'
    <2> SUFFICES ASSUME Inv, [Next]_vars PROVE Inv'
      OBVIOUS
    <2>1. CASE UNCHANGED vars
      BY <2>1 DEF vars, SchemaTypeOK, KnowledgeInv, RecordedInv, CopyInv, TriggerInv,
                  PartsOf, At
    <2>2. CASE Next
      BY <2>2, TypeStep, KnowledgeStep, CopyStep, TriggerStep DEF Next
    <2> QED BY <2>1, <2>2
  <1> QED BY <1>1, <1>2, PTL DEF Spec

\* What holds as long as none is lost.
LEMMA TurnsHold == Spec => [](~lost => TurnInv /\ FreshInv /\ ~collided)
  <1> DEFINE Inv == ~lost => TurnInv /\ FreshInv /\ ~collided
  <1>1. Init => Inv
    <2> SUFFICES ASSUME Init PROVE TurnInv /\ FreshInv /\ ~collided
      OBVIOUS
    <2>1. \A p \in Processes : process[p].pc = "down"
      BY DEF Init, Down
    <2>2. TurnInv
      BY <2>1 DEF TurnInv, Inside, At
    <2>3. FreshInv
      BY <2>1 DEF FreshInv, Found, Working, Migrating, At
    <2> QED BY <2>2, <2>3 DEF Init
  <1>2. SchemaTypeOK /\ KnowledgeInv /\ Inv /\ [Next]_vars => Inv'
    <2> SUFFICES ASSUME SchemaTypeOK, KnowledgeInv, Inv, [Next]_vars, ~lost'
                 PROVE  TurnInv' /\ FreshInv' /\ ~collided'
      OBVIOUS
    <2>1. CASE UNCHANGED vars
      BY <2>1 DEF vars, TurnInv, FreshInv, At
    <2>2. CASE Next
      BY <2>2, TurnStep, LostStays DEF Next
    <2> QED BY <2>1, <2>2
  <1> QED BY <1>1, <1>2, SchemaHolds, PTL DEF Spec

\* A migration that runMigrations has recorded is complete, and no migration is
\* recorded before an earlier one, on every kind of database, wherever a process
\* was killed and even if the lock was lost: a process whose Open has returned
\* finds every part of the schema that it knows.
THEOREM MigrationsComplete == Spec => []RecordedIsThere
  <1>1. KnowledgeInv /\ RecordedInv => RecordedIsThere
    BY DEF KnowledgeInv, RecordedInv, RecordedIsThere, Migrated, At
  <1> QED BY <1>1, SchemaHolds, PTL

\* Processes that open the database at the same time take turns: none of them
\* fails because another made the same part, record or trigger, unless the
\* connection of the lock died.
THEOREM StartsTakeTurns == Spec => []TakeTurns
  <1>1. (~lost => TurnInv /\ FreshInv /\ ~collided) => TakeTurns
    BY DEF TakeTurns
  <1> QED BY <1>1, TurnsHold, PTL

\* An old version never opens a database that a newer one has migrated, also
\* when both start at once: what runMigrations compared is still so when the
\* lock is released.
THEOREM NewerIsRefused == Spec => NewerRefused
  <1>1. (~lost => TurnInv /\ FreshInv /\ ~collided) /\ [Next]_vars =>
            [\A p \in Processes : At(p, "attached") /\ process'[p].pc = "open" =>
                 lost \/ applied \subseteq Known(p)]_vars
    BY DEF FreshInv, Found, At
  <1> QED BY <1>1, TurnsHold, PTL DEF Spec, NewerRefused

\* While a server runs on Postgres, the trigger that reports updates is on the
\* table, but while a start replaces it and after one that ended in between.
THEOREM TriggerStays == Spec => []UpdatesReported
  <1>1. TriggerInv => UpdatesReported
    BY DEF TriggerInv, UpdatesReported, At, Processes
  <1> QED BY <1>1, SchemaHolds, PTL

\* What copyAll has written is always the beginning of what the source holds,
\* in its order, and a copy that reports success is complete, for sources of
\* any size and whatever was copied and cut off before.
THEOREM CopyComplete == Spec => []CopyWhole
  <1>1. CopyInv => CopyWhole
    BY DEF CopyInv, CopyWhole
  <1> QED BY <1>1, SchemaHolds, PTL
=============================================================================
