----------------------- MODULE DeviceAllocationProofs -----------------------
(***************************************************************************)
(* What DeviceAllocation guarantees for any number of replicas, handlers,  *)
(* owners, names, keys and addresses, and that it implements DeviceTable.  *)
(***************************************************************************)
EXTENDS DeviceAllocationRefines, FiniteSetTheorems, TLAPS

-----------------------------------------------------------------------------
(* Types.  A handler inside an operation has a request of that kind.       *)

AddSteps == {"addList", "addAddresses", "addCount", "addWrite"}
RenameSteps == {"renameGet", "renameList", "renameWrite"}
RoutesSteps == {"routesGet", "routesCheck", "routesWrite"}
RotateSteps == {"rotateGet", "rotateCheck", "rotateWrite"}
DeleteSteps == {"deleteGet", "deleteWrite"}
OwnerSteps == {"ownerList", "ownerDelete"}

RequestInv ==
    \A h \in Handlers :
        /\ pc[h] \in {"mutex", "dblock"} => req[h] \in LockedRequest
        /\ pc[h] \in AddSteps => req[h] \in AddRequest
        /\ pc[h] \in RenameSteps => req[h] \in RenameRequest
        /\ pc[h] \in RoutesSteps => req[h] \in RoutesRequest
        /\ pc[h] \in RotateSteps => req[h] \in RotateRequest
        /\ pc[h] \in DeleteSteps => req[h] \in DeleteRequest
        /\ pc[h] \in OwnerSteps => req[h] \in DeleteForOwnerRequest

\* The address that addDeviceLocked picks is one of a client.
LEMMA ChoicesType ==
    ASSUME NEW want \in Manual \cup {Automatic}, NEW a \in Choices(want)
    PROVE  a \in [v4: Client4 \cup {NoAddr}, v6: Client6 \cup {NoAddr}]
  BY DEF Choices, NextAddresses, NextFree, ManualAllowed

\* A request that waits for the lock starts in the operation of its kind.
LEMMA LockedFirstStep ==
    ASSUME NEW r \in LockedRequest
    PROVE  /\ FirstStep[r.op] \in {"addList", "renameGet", "routesGet"}
           /\ FirstStep[r.op] = "addList" => r \in AddRequest
           /\ FirstStep[r.op] = "renameGet" => r \in RenameRequest
           /\ FirstStep[r.op] = "routesGet" => r \in RoutesRequest
  BY DEF FirstStep, LockedRequest, AddRequest, RenameRequest, RoutesRequest

\* So does one that takes no lock.
LEMMA UnlockedFirstStep ==
    ASSUME NEW r \in UnlockedRequest
    PROVE  /\ UnlockedFirst[r.op] \in {"rotateGet", "deleteGet", "ownerList"}
           /\ UnlockedFirst[r.op] = "rotateGet" => r \in RotateRequest
           /\ UnlockedFirst[r.op] = "deleteGet" => r \in DeleteRequest
           /\ UnlockedFirst[r.op] = "ownerList" => r \in DeleteForOwnerRequest
  BY DEF UnlockedFirst, UnlockedRequest, RotateRequest, DeleteRequest,
         DeleteForOwnerRequest

\* The shape of a step that only moves the pc of one handler: what it has to
\* keep is that the handler's request fits where it goes.
LEMMA MoveKeepsTypes ==
    ASSUME TypeOK, RequestInv, NEW h \in Handlers, NEW l \in Steps,
           pc' = [pc EXCEPT ![h] = l], UNCHANGED req,
           l \in {"mutex", "dblock"} => req[h] \in LockedRequest,
           l \in AddSteps => req[h] \in AddRequest,
           l \in RenameSteps => req[h] \in RenameRequest,
           l \in RoutesSteps => req[h] \in RoutesRequest,
           l \in RotateSteps => req[h] \in RotateRequest,
           l \in DeleteSteps => req[h] \in DeleteRequest,
           l \in OwnerSteps => req[h] \in DeleteForOwnerRequest
    PROVE  pc' \in [Handlers -> Steps] /\ RequestInv'
  <1>1. pc' \in [Handlers -> Steps]
    BY DEF TypeOK, Steps
  <1>2. \A g \in Handlers : g # h => pc'[g] = pc[g]
    BY DEF TypeOK
  <1>3. pc'[h] = l
    BY DEF TypeOK
  <1> QED BY <1>1, <1>2, <1>3 DEF RequestInv

\* The end of a request.
LEMMA ForgetKeepsTypes ==
    ASSUME TypeOK, RequestInv, NEW h \in Handlers, Goto(h, "idle"), Forget(h)
    PROVE  /\ pc' \in [Handlers -> Steps]
           /\ req' \in [Handlers -> Request]
           /\ addr' \in [Handlers -> [v4: Client4 \cup {NoAddr},
                                      v6: Client6 \cup {NoAddr}]]
           /\ existing' \in [Handlers -> BOOLEAN]
           /\ listed' \in [Handlers -> SUBSET Names]
           /\ RequestInv'
  <1>1. pc' \in [Handlers -> Steps]
    BY DEF TypeOK, Steps, Goto, HoldsMutex, Unlocked
  <1>2. req' \in [Handlers -> Request]
    BY DEF TypeOK, Forget, Request
  <1>3. addr' \in [Handlers -> [v4: Client4 \cup {NoAddr}, v6: Client6 \cup {NoAddr}]]
    BY DEF TypeOK, Forget, NoAddress
  <1>4. existing' \in [Handlers -> BOOLEAN] /\ listed' \in [Handlers -> SUBSET Names]
    BY DEF TypeOK, Forget
  <1>5. pc'[h] = "idle"
    BY DEF TypeOK, Goto
  <1>6. \A g \in Handlers : g # h => pc'[g] = pc[g] /\ req'[g] = req[g]
    BY DEF TypeOK, Goto, Forget
  <1>7. RequestInv'
    BY <1>5, <1>6 DEF RequestInv, AddSteps, RenameSteps, RoutesSteps,
       RotateSteps, DeleteSteps, OwnerSteps
  <1> QED BY <1>1, <1>2, <1>3, <1>4, <1>7

\* Every step of a handler keeps the types.
LEMMA HandlerKeepsTypes ==
    ASSUME TypeOK, RequestInv, NEW h \in Handlers,
           StartLocked(h) \/ StartUnlocked(h) \/ Step(h)
           \/ GrantDbLock(h) \/ DropSession(h)
    PROVE  TypeOK' /\ RequestInv'
  <1> USE DEF AddSteps, RenameSteps, RoutesSteps, RotateSteps, DeleteSteps,
              OwnerSteps, HoldsMutex, Unlocked, Critical, locks, locals, Goto
  <1>0. pc[h] \in Steps /\ req[h] \in Request
    BY DEF TypeOK
  <1>1. CASE StartLocked(h)
    <2>1. PICK r \in LockedRequest : Start(h, r, "mutex")
      BY <1>1 DEF StartLocked
    <2>2. pc' \in [Handlers -> Steps] /\ req' \in [Handlers -> Request]
      BY <2>1 DEF Start, TypeOK, Steps, Request
    <2>3. pc'[h] = "mutex" /\ req'[h] = r
      BY <2>1 DEF Start, TypeOK
    <2>4. \A g \in Handlers : g # h => pc'[g] = pc[g] /\ req'[g] = req[g]
      BY <2>1 DEF Start, TypeOK
    <2>5. RequestInv'
      BY <2>3, <2>4 DEF RequestInv
    <2> QED BY <2>1, <2>2, <2>5 DEF Start, TypeOK
  <1>2. CASE StartUnlocked(h)
    <2>1. PICK r \in UnlockedRequest : Start(h, r, UnlockedFirst[r.op])
      BY <1>2 DEF StartUnlocked
    <2>2. pc' \in [Handlers -> Steps] /\ req' \in [Handlers -> Request]
      BY <2>1, UnlockedFirstStep DEF Start, TypeOK, Steps, Request
    <2>3. pc'[h] = UnlockedFirst[r.op] /\ req'[h] = r
      BY <2>1 DEF Start, TypeOK
    <2>4. \A g \in Handlers : g # h => pc'[g] = pc[g] /\ req'[g] = req[g]
      BY <2>1 DEF Start, TypeOK
    <2>5. RequestInv'
      BY <2>3, <2>4, UnlockedFirstStep DEF RequestInv
    <2> QED BY <2>1, <2>2, <2>5 DEF Start, TypeOK
  <1>3. CASE LockMutex(h)
    <2>1. req[h] \in LockedRequest
      BY <1>3 DEF LockMutex, RequestInv
    <2>2. PICK l \in Steps : /\ Goto(h, l)
                             /\ l = "dblock" \/ l = FirstStep[req[h].op]
      BY <1>3, <2>1, LockedFirstStep DEF LockMutex, Steps
    <2>3. pc' \in [Handlers -> Steps] /\ RequestInv'
      BY <1>3, <2>1, <2>2, LockedFirstStep, MoveKeepsTypes DEF LockMutex
    <2> QED BY <1>3, <2>3 DEF LockMutex, TypeOK
  <1>4. CASE AcquireDbLock(h)
    <2>1. req[h] \in LockedRequest
      BY <1>4 DEF AcquireDbLock, RequestInv
    <2>2. pc' \in [Handlers -> Steps] /\ RequestInv'
      BY <1>4, <2>1, LockedFirstStep, MoveKeepsTypes DEF AcquireDbLock, Steps
    <2> QED BY <1>4, <2>2 DEF AcquireDbLock, TypeOK
  <1>5. CASE AcquireFails(h) \/ DiscardConn(h) \/ ReleaseDbLock(h)
    <2>1. pc' \in [Handlers -> Steps] /\ RequestInv'
      BY <1>5, MoveKeepsTypes DEF AcquireFails, DiscardConn, ReleaseDbLock, Steps
    <2> QED BY <1>5, <2>1 DEF AcquireFails, DiscardConn, ReleaseDbLock,
                             EndSession, TypeOK
  <1>6. CASE UnlockMutex(h)
    <2>1. mutex' \in [Replicas -> Handlers \cup {Nobody}]
      BY <1>6 DEF UnlockMutex, TypeOK
    <2> QED BY <1>6, <2>1, ForgetKeepsTypes DEF UnlockMutex, TypeOK
  <1>7. CASE GrantDbLock(h) \/ DropSession(h)
    BY <1>7 DEF GrantDbLock, DropSession, TypeOK, RequestInv
  <1>8. CASE AddList(h) \/ RenameGet(h) \/ RenameList(h) \/ RoutesGet(h)
             \/ RoutesCheck(h)
    <2>1. pc' \in [Handlers -> Steps] /\ RequestInv'
      <3>1. PICK l \in Steps :
                /\ Goto(h, l) /\ UNCHANGED req
                /\ \/ l = "release"
                   \/ pc[h] \in AddSteps /\ l \in AddSteps
                   \/ pc[h] \in RenameSteps /\ l \in RenameSteps
                   \/ pc[h] \in RoutesSteps /\ l \in RoutesSteps
        BY <1>8 DEF AddList, RenameGet, RenameList, RoutesGet, RoutesCheck,
                    ReadStep, Steps
      <3> QED BY <3>1, MoveKeepsTypes DEF RequestInv
    <2> QED BY <1>8, <2>1 DEF AddList, RenameGet, RenameList, RoutesGet,
                             RoutesCheck, ReadStep, TypeOK
  <1>9. CASE AddAddresses(h)
    <2>1. req[h].want \in Manual \cup {Automatic}
      BY <1>9 DEF AddAddresses, RequestInv, AddRequest
    <2>2. addr' \in [Handlers -> [v4: Client4 \cup {NoAddr}, v6: Client6 \cup {NoAddr}]]
      BY <1>9, <2>1, ChoicesType DEF AddAddresses, TypeOK
    <2>3. pc' \in [Handlers -> Steps] /\ RequestInv'
      BY <1>9, MoveKeepsTypes DEF AddAddresses, ReadStep, Steps, RequestInv
    <2> QED BY <1>9, <2>2, <2>3 DEF AddAddresses, ReadStep, TypeOK
  <1>10. CASE AddCount(h)
    <2>1. pc' \in [Handlers -> Steps] /\ RequestInv'
      BY <1>10, MoveKeepsTypes DEF AddCount, ReadStep, Steps, RequestInv
    <2> QED BY <1>10, <2>1 DEF AddCount, ReadStep, TypeOK
  <1>11. CASE AddWrite(h)
    <2>1. req[h] \in AddRequest /\ Client4 \subseteq Range4 /\ Client6 \subseteq Range6
      BY <1>11, AllocationAssumption
         DEF AddWrite, RequestInv, Client4, Client6, Range4, Range6
    <2>2. [key |-> req[h].key, v4 |-> addr[h].v4, v6 |-> addr[h].v6,
           routes |-> {}] \in Device
      BY <2>1 DEF AddRequest, Device, TypeOK
    <2>3. devices' \in [Slots -> Device \cup {NoDevice}]
      BY <1>11, <2>1, <2>2 DEF AddWrite, WriteRow, AddRequest, TypeOK
    <2>4. pc' \in [Handlers -> Steps] /\ RequestInv'
      BY <1>11, MoveKeepsTypes DEF AddWrite, WriteRow, Steps
    <2> QED BY <1>11, <2>3, <2>4 DEF AddWrite, WriteRow, TypeOK
  <1>12. CASE RenameWrite(h)
    <2>1. req[h].slot \in Slots /\ NewSlot(h) \in Slots
      BY <1>12 DEF RenameWrite, RequestInv, RenameRequest, NewSlot, Slots
    <2>2. devices' \in [Slots -> Device \cup {NoDevice}]
      BY <1>12, <2>1 DEF RenameWrite, WriteRow, TypeOK
    <2>3. pc' \in [Handlers -> Steps] /\ RequestInv'
      BY <1>12, MoveKeepsTypes DEF RenameWrite, WriteRow, Steps
    <2> QED BY <1>12, <2>2, <2>3 DEF RenameWrite, WriteRow, TypeOK
  <1>13. CASE RoutesWrite(h)
    <2>1. req[h].slot \in Slots /\ req[h].routes \in SUBSET Prefixes
      BY <1>13 DEF RoutesWrite, RequestInv, RoutesRequest
    <2>2. devices' \in [Slots -> Device \cup {NoDevice}]
      BY <1>13, <2>1 DEF RoutesWrite, WriteRow, TypeOK, Device
    <2>3. pc' \in [Handlers -> Steps] /\ RequestInv'
      BY <1>13, MoveKeepsTypes DEF RoutesWrite, WriteRow, Steps
    <2> QED BY <1>13, <2>2, <2>3 DEF RoutesWrite, WriteRow, TypeOK
  <1>14. CASE RotateGet(h) \/ RotateCheck(h) \/ DeleteGet(h)
    <2>1. CASE Goto(h, "idle") /\ Forget(h)
      BY <1>14, <2>1, ForgetKeepsTypes
         DEF RotateGet, RotateCheck, DeleteGet, CheckStep, TypeOK
    <2>2. CASE UNCHANGED locals
      <3>1. PICK l \in Steps :
                /\ Goto(h, l)
                /\ \/ l = "idle"
                   \/ pc[h] \in RotateSteps /\ l \in RotateSteps
                   \/ pc[h] \in DeleteSteps /\ l \in DeleteSteps
        BY <1>14 DEF RotateGet, RotateCheck, DeleteGet, CheckStep, Steps
      <3>2. pc' \in [Handlers -> Steps] /\ RequestInv'
        BY <2>2, <3>1, MoveKeepsTypes DEF RequestInv
      <3> QED BY <1>14, <2>2, <3>2
                 DEF RotateGet, RotateCheck, DeleteGet, CheckStep, TypeOK
    <2> QED BY <1>14, <2>1, <2>2 DEF RotateGet, RotateCheck, DeleteGet, CheckStep
  <1>15. CASE RotateWrite(h)
    <2>1. req[h].slot \in Slots /\ req[h].key \in Keys
      BY <1>15 DEF RotateWrite, LastWrite, RequestInv, RotateRequest
    <2>2. devices' \in [Slots -> Device \cup {NoDevice}]
      BY <1>15, <2>1 DEF RotateWrite, LastWrite, TypeOK, Device
    <2> QED BY <1>15, <2>2, ForgetKeepsTypes DEF RotateWrite, LastWrite, TypeOK
  <1>16. CASE DeleteWrite(h)
    <2>1. devices' \in [Slots -> Device \cup {NoDevice}]
      BY <1>16 DEF DeleteWrite, LastWrite, TypeOK
    <2> QED BY <1>16, <2>1, ForgetKeepsTypes DEF DeleteWrite, LastWrite, TypeOK
  <1>17. CASE OwnerList(h)
    <2>1. listed' \in [Handlers -> SUBSET Names]
      BY <1>17 DEF OwnerList, OwnedBy, TypeOK
    <2>2. pc' \in [Handlers -> Steps] /\ RequestInv'
      BY <1>17, MoveKeepsTypes DEF OwnerList, Steps, RequestInv
    <2> QED BY <1>17, <2>1, <2>2 DEF OwnerList, TypeOK
  <1>18. CASE OwnerDelete(h)
    <2>1. devices' \in [Slots -> Device \cup {NoDevice}]
      BY <1>18 DEF OwnerDelete, LastWrite, TypeOK
    <2> QED BY <1>18, <2>1, ForgetKeepsTypes DEF OwnerDelete, LastWrite, TypeOK
  <1>19. CASE QueryFails(h)
    <2>1. CASE Goto(h, "idle") /\ Forget(h)
      BY <1>19, <2>1, ForgetKeepsTypes DEF QueryFails, TypeOK
    <2>2. CASE Goto(h, "release") /\ UNCHANGED locals
      <3>1. pc' \in [Handlers -> Steps] /\ RequestInv'
        BY <2>2, MoveKeepsTypes DEF Steps
      <3> QED BY <1>19, <2>2, <3>1 DEF QueryFails, TypeOK
    <2> QED BY <1>19, <2>1, <2>2 DEF QueryFails
  <1> QED
    BY <1>1, <1>2, <1>3, <1>4, <1>5, <1>6, <1>7, <1>8, <1>9, <1>10, <1>11, <1>12,
       <1>13, <1>14, <1>15, <1>16, <1>17, <1>18, <1>19 DEF Step

\* A crash keeps the types.
LEMMA CrashKeepsTypes ==
    ASSUME TypeOK, RequestInv, NEW r \in Replicas, Crash(r)
    PROVE  TypeOK' /\ RequestInv'
  <1>1. pc' \in [Handlers -> Steps]
    BY DEF Crash, TypeOK, Steps
  <1>2. req' \in [Handlers -> Request]
    BY DEF Crash, TypeOK, Request
  <1>3. addr' \in [Handlers -> [v4: Client4 \cup {NoAddr}, v6: Client6 \cup {NoAddr}]]
    BY DEF Crash, TypeOK, NoAddress
  <1>4. existing' \in [Handlers -> BOOLEAN] /\ listed' \in [Handlers -> SUBSET Names]
    BY DEF Crash, TypeOK
  <1>5. mutex' \in [Replicas -> Handlers \cup {Nobody}] /\ dbLock' \in Handlers \cup {Nobody}
    BY DEF Crash, TypeOK
  <1>6. \A g \in Handlers : pc'[g] = "idle" \/ (pc'[g] = pc[g] /\ req'[g] = req[g])
    BY DEF Crash, TypeOK
  <1>7. RequestInv'
    BY <1>6 DEF RequestInv, AddSteps, RenameSteps, RoutesSteps, RotateSteps,
                DeleteSteps, OwnerSteps
  <1> QED BY <1>1, <1>2, <1>3, <1>4, <1>5, <1>7 DEF Crash, TypeOK

\* Every variable keeps its type, and a handler's request is of the kind of the
\* operation it is in, whatever handlers, crashes and lost sessions do.
THEOREM TypeCorrect == Spec => [](TypeOK /\ RequestInv)
  <1>1. Init => TypeOK /\ RequestInv
    <2> SUFFICES ASSUME Init PROVE TypeOK /\ RequestInv
      OBVIOUS
    <2>1. addr \in [Handlers -> [v4: Client4 \cup {NoAddr}, v6: Client6 \cup {NoAddr}]]
      BY DEF Init, NoAddress
    <2>2. req \in [Handlers -> Request] /\ pc \in [Handlers -> Steps]
      BY DEF Init, Request, Steps
    <2>3. RequestInv
      BY DEF Init, RequestInv, AddSteps, RenameSteps, RoutesSteps, RotateSteps,
             DeleteSteps, OwnerSteps
    <2> QED BY <2>1, <2>2, <2>3 DEF Init, TypeOK
  <1>2. TypeOK /\ RequestInv /\ [Next]_vars => TypeOK' /\ RequestInv'
    <2> SUFFICES ASSUME TypeOK, RequestInv, [Next]_vars
                 PROVE  TypeOK' /\ RequestInv'
      OBVIOUS
    <2>1. CASE UNCHANGED vars
      BY <2>1 DEF vars, TypeOK, RequestInv
    <2>2. CASE Next
      BY <2>2, HandlerKeepsTypes, CrashKeepsTypes DEF Next
    <2> QED BY <2>1, <2>2
  <1> QED BY <1>1, <1>2, PTL DEF Spec

-----------------------------------------------------------------------------
(* The allocation lock.                                                    *)

\* A handler past the mutex has it; one inside the protected function, or on
\* its way out, has the database's lock as well, unless a session was lost.
LockInv ==
    /\ \A h \in Handlers : pc[h] \in HoldsMutex => mutex[On[h]] = h
    /\ Distributed /\ ~dropped =>
        \A h \in Handlers : pc[h] \in Critical \cup {"release"} => dbLock = h

\* A step inside the protected function leaves the locks alone.
InsideStep(h) ==
    \/ AddList(h) \/ AddAddresses(h) \/ AddCount(h) \/ AddWrite(h)
    \/ RenameGet(h) \/ RenameList(h) \/ RenameWrite(h)
    \/ RoutesGet(h) \/ RoutesCheck(h) \/ RoutesWrite(h)
    \/ QueryFails(h) /\ pc[h] \in Critical

\* A step of a request that takes no lock, its first step included.
OutsideStep(h) ==
    \/ StartLocked(h) \/ StartUnlocked(h)
    \/ RotateGet(h) \/ RotateCheck(h) \/ RotateWrite(h)
    \/ DeleteGet(h) \/ DeleteWrite(h) \/ OwnerList(h) \/ OwnerDelete(h)
    \/ QueryFails(h) /\ pc[h] \in Unlocked

\* A step inside the lock stays inside or goes on to the release, and touches
\* neither the locks nor another handler's locals.
LEMMA InsideShape ==
    ASSUME TypeOK, NEW h \in Handlers, InsideStep(h)
    PROVE  /\ pc[h] \in Critical /\ pc'[h] \in Critical \cup {"release"}
           /\ \A g \in Handlers \ {h} : pc'[g] = pc[g]
           /\ UNCHANGED <<mutex, dbLock, dropped, req, listed>>
           /\ \A g \in Handlers \ {h} : addr'[g] = addr[g] /\ existing'[g] = existing[g]
  <1> USE DEF Critical, locks, locals, Goto
  <1>1. CASE AddList(h) \/ AddAddresses(h) \/ AddCount(h) \/ RenameGet(h)
             \/ RenameList(h) \/ RoutesGet(h) \/ RoutesCheck(h)
    BY <1>1 DEF AddList, AddAddresses, AddCount, RenameGet, RenameList, RoutesGet,
                RoutesCheck, ReadStep, TypeOK
  <1>2. CASE AddWrite(h) \/ RenameWrite(h) \/ RoutesWrite(h)
    BY <1>2 DEF AddWrite, RenameWrite, RoutesWrite, WriteRow, TypeOK
  <1>3. CASE QueryFails(h) /\ pc[h] \in Critical
    <2>1. pc[h] \notin Unlocked
      BY <1>3 DEF Unlocked
    <2> QED BY <1>3, <2>1 DEF QueryFails, TypeOK
  <1> QED BY <1>1, <1>2, <1>3 DEF InsideStep

\* A step outside the lock stays outside it, and touches neither the locks nor
\* another handler's locals.
LEMMA OutsideShape ==
    ASSUME TypeOK, NEW h \in Handlers, OutsideStep(h)
    PROVE  /\ pc[h] \notin HoldsMutex /\ pc'[h] \notin HoldsMutex
           /\ \A g \in Handlers \ {h} : pc'[g] = pc[g] /\ req'[g] = req[g]
           /\ UNCHANGED <<mutex, dbLock, dropped>>
           /\ \A g \in Handlers \ {h} : addr'[g] = addr[g] /\ existing'[g] = existing[g]
  <1> USE DEF Critical, HoldsMutex, Unlocked, locks, locals, Goto
  <1>1. CASE StartLocked(h)
    BY <1>1 DEF StartLocked, Start, TypeOK
  <1>2. CASE StartUnlocked(h)
    <2>1. PICK r \in UnlockedRequest : Start(h, r, UnlockedFirst[r.op])
      BY <1>2 DEF StartUnlocked
    <2>2. UnlockedFirst[r.op] \in {"rotateGet", "deleteGet", "ownerList"}
      BY UnlockedFirstStep
    <2> QED BY <2>1, <2>2 DEF Start, TypeOK
  <1>3. CASE RotateGet(h) \/ RotateCheck(h) \/ DeleteGet(h)
    BY <1>3 DEF RotateGet, RotateCheck, DeleteGet, CheckStep, Forget, TypeOK
  <1>4. CASE RotateWrite(h) \/ DeleteWrite(h) \/ OwnerDelete(h)
    BY <1>4 DEF RotateWrite, DeleteWrite, OwnerDelete, LastWrite, Forget, TypeOK
  <1>5. CASE OwnerList(h)
    BY <1>5 DEF OwnerList, TypeOK
  <1>6. CASE QueryFails(h) /\ pc[h] \in Unlocked
    BY <1>6 DEF QueryFails, Forget, TypeOK
  <1> QED BY <1>1, <1>2, <1>3, <1>4, <1>5, <1>6 DEF OutsideStep

\* Every step of a handler is inside the lock, outside it, or moves the lock.
LEMMA StepKinds ==
    ASSUME NEW h \in Handlers, StartLocked(h) \/ StartUnlocked(h) \/ Step(h)
                               \/ GrantDbLock(h) \/ DropSession(h)
    PROVE  \/ InsideStep(h) \/ OutsideStep(h) \/ LockMutex(h) \/ GrantDbLock(h)
           \/ AcquireDbLock(h) \/ AcquireFails(h) \/ DiscardConn(h)
           \/ ReleaseDbLock(h) \/ UnlockMutex(h) \/ DropSession(h)
  BY DEF Step, InsideStep, OutsideStep, QueryFails

\* The locks are handed over one at a time.
LEMMA LockStep ==
    ASSUME TypeOK, RequestInv, LockInv, NEW h \in Handlers,
           StartLocked(h) \/ StartUnlocked(h) \/ Step(h)
           \/ GrantDbLock(h) \/ DropSession(h)
    PROVE  LockInv'
  <1> USE AllocationAssumption DEF locks, locals, Goto
  <1>1. CASE InsideStep(h)
    <2>1. pc[h] \in HoldsMutex
      BY <1>1, InsideShape DEF HoldsMutex
    <2> QED BY <1>1, <2>1, InsideShape DEF LockInv
  <1>2. CASE OutsideStep(h)
    <2>1. pc'[h] \notin Critical \cup {"release"}
      BY <1>2, OutsideShape DEF HoldsMutex
    <2> QED BY <1>2, <2>1, OutsideShape DEF LockInv
  <1>3. CASE LockMutex(h)
    <2>1. \A g \in Handlers \ {h} : pc'[g] = pc[g]
      BY <1>3 DEF LockMutex, TypeOK
    <2>2. mutex'[On[h]] = h
      BY <1>3 DEF LockMutex, TypeOK
    <2>3. \A g \in Handlers \ {h} : pc[g] \in HoldsMutex => mutex'[On[g]] = g
      BY <1>3 DEF LockMutex, TypeOK, LockInv
    <2>4. Distributed => pc'[h] = "dblock"
      BY <1>3 DEF LockMutex, TypeOK
    <2> QED BY <1>3, <2>1, <2>2, <2>3, <2>4 DEF LockMutex, LockInv, Critical
  <1>4. CASE GrantDbLock(h)
    BY <1>4 DEF GrantDbLock, LockInv
  <1>5. CASE AcquireDbLock(h)
    BY <1>5 DEF AcquireDbLock, LockInv, TypeOK, HoldsMutex
  <1>6. CASE AcquireFails(h)
    BY <1>6 DEF AcquireFails, LockInv, TypeOK, HoldsMutex, Critical
  <1>7. CASE DiscardConn(h) \/ ReleaseDbLock(h)
    BY <1>7 DEF DiscardConn, ReleaseDbLock, EndSession, LockInv, TypeOK, HoldsMutex,
                Critical
  <1>8. CASE UnlockMutex(h)
    <2>1. \A g \in Handlers \ {h} : pc'[g] = pc[g]
      BY <1>8 DEF UnlockMutex, TypeOK
    <2>2. pc'[h] = "idle"
      BY <1>8 DEF UnlockMutex, TypeOK
    <2>3. \A g \in Handlers \ {h} : pc[g] \in HoldsMutex => mutex'[On[g]] = g
      BY <1>8 DEF UnlockMutex, TypeOK, LockInv, HoldsMutex
    <2> QED BY <1>8, <2>1, <2>2, <2>3 DEF UnlockMutex, LockInv, HoldsMutex, Critical
  <1>9. CASE DropSession(h)
    BY <1>9 DEF DropSession, LockInv
  <1> QED BY <1>1, <1>2, <1>3, <1>4, <1>5, <1>6, <1>7, <1>8, <1>9, StepKinds

\* A crash gives back the locks of its own handlers only.
LEMMA LockCrash ==
    ASSUME TypeOK, LockInv, NEW r \in Replicas, Crash(r)
    PROVE  LockInv'
  <1>1. \A g \in Handlers : pc'[g] = "idle" \/ (On[g] # r /\ pc'[g] = pc[g])
    BY DEF Crash, TypeOK
  <1>2. \A g \in Handlers : On[g] # r => mutex'[On[g]] = mutex[On[g]]
    BY AllocationAssumption DEF Crash, TypeOK
  <1>3. \A g \in Handlers : On[g] # r /\ dbLock = g => dbLock' = g
    BY DEF Crash
  <1> QED BY <1>1, <1>2, <1>3 DEF LockInv, HoldsMutex, Critical, Crash

\* Who holds the locks excludes everybody else.
LEMMA LockInvExcludes ==
    ASSUME TypeOK, LockInv
    PROVE  LockExclusion
  <1> SUFFICES ASSUME ~dropped, NEW g \in Handlers, NEW h \in Handlers,
                      pc[g] \in Critical, pc[h] \in Critical
               PROVE  g = h
    BY DEF LockExclusion
  <1>1. CASE Distributed
    BY <1>1 DEF LockInv
  <1>2. CASE ~Distributed
    BY <1>2, AllocationAssumption DEF LockInv, HoldsMutex
  <1> QED BY <1>1, <1>2

\* LockInv is an invariant.
LEMMA LockHolds == Spec => []LockInv
  <1>1. Init => LockInv
    BY DEF Init, LockInv, HoldsMutex, Critical
  <1>2. TypeOK /\ RequestInv /\ LockInv /\ [Next]_vars => LockInv'
    <2> SUFFICES ASSUME TypeOK, RequestInv, LockInv, [Next]_vars PROVE LockInv'
      OBVIOUS
    <2>1. CASE UNCHANGED vars
      BY <2>1 DEF vars, LockInv
    <2>2. CASE Next
      BY <2>2, LockStep, LockCrash DEF Next
    <2> QED BY <2>1, <2>2
  <1> QED BY <1>1, <1>2, TypeCorrect, PTL DEF Spec

\* At most one request is inside the function that WithAllocationLock protects,
\* over all replicas, for as long as no session that holds the lock is lost.
THEOREM MutualExclusion == Spec => []LockExclusion
  <1>1. TypeOK /\ LockInv => LockExclusion
    BY LockInvExcludes
  <1> QED BY <1>1, LockHolds, TypeCorrect, PTL

-----------------------------------------------------------------------------
(* What the table holds while handlers that hold the lock read and write.  *)

\* No stored device has one of the addresses.
AddressFree(a) ==
    \A s \in Stored : /\ a.v4 # NoAddr => devices[s].v4 # a.v4
                      /\ a.v6 # NoAddr => devices[s].v6 # a.v6

RoutesApart ==
    \A s \in Stored : \A r \in devices[s].routes :
        /\ ~Overlaps(r, ReservedPoints)
        /\ \A t \in Stored \ {s} : \A q \in devices[t].routes : ~Overlaps(q, r)

\* What handler h read is still so when it writes.
ReadsHold(h) ==
    /\ pc[h] \in {"addAddresses", "addCount", "addWrite"} =>
        devices[req[h].slot] = NoDevice
    /\ pc[h] \in {"addCount", "addWrite"} => AddressFree(addr[h])
    /\ pc[h] = "addWrite" => existing[h] = FALSE
    /\ pc[h] = "routesWrite" => RoutesAllowed(req[h].slot, req[h].routes)

TableInv == AddressesUnique /\ RoutesApart /\ \A h \in Handlers : ReadsHold(h)

\* Deleting devices and rotating keys: what is left has the addresses and the
\* routes it had.
Shrinks ==
    \A s \in Slots : devices'[s] # NoDevice =>
        /\ devices[s] # NoDevice
        /\ devices'[s].v4 = devices[s].v4
        /\ devices'[s].v6 = devices[s].v6
        /\ devices'[s].routes = devices[s].routes

\* A smaller table keeps what handlers that do not move have read.
LEMMA ShrinkKeepsReads ==
    ASSUME TypeOK, RequestInv, Shrinks, NEW g \in Handlers, ReadsHold(g),
           UNCHANGED <<pc[g], req[g], addr[g], existing[g]>>
    PROVE  ReadsHold(g)'
  <1>1. pc[g] \in AddSteps => req[g].slot \in Slots
    BY DEF RequestInv, AddRequest
  <1>2. Stored' \subseteq Stored
    BY DEF Stored, Shrinks
  <1>3. pc[g] \in {"addAddresses", "addCount", "addWrite"} =>
            devices'[req[g].slot] = NoDevice
    BY <1>1 DEF ReadsHold, Shrinks, AddSteps
  <1>4. pc[g] \in {"addCount", "addWrite"} => AddressFree(addr[g])'
    BY <1>2 DEF ReadsHold, AddressFree, Shrinks, Stored
  <1>5. pc[g] = "routesWrite" => RoutesAllowed(req[g].slot, req[g].routes)'
    BY <1>2 DEF ReadsHold, RoutesAllowed, Shrinks, Stored
  <1> QED BY <1>3, <1>4, <1>5 DEF ReadsHold

\* A smaller table keeps addresses unique and routes apart.
LEMMA ShrinkKeepsTable ==
    ASSUME TypeOK, Shrinks, AddressesUnique, RoutesApart
    PROVE  AddressesUnique' /\ RoutesApart'
  <1>1. Stored' \subseteq Stored
    BY DEF Stored, Shrinks
  <1>2. AddressesUnique'
    BY <1>1 DEF AddressesUnique, Shrinks, Stored
  <1>3. RoutesApart'
    BY <1>1 DEF RoutesApart, Shrinks, Stored
  <1> QED BY <1>2, <1>3

\* Outside the lock, the table only shrinks.
LEMMA OutsideShrinks ==
    ASSUME TypeOK, RequestInv, NEW h \in Handlers, OutsideStep(h)
    PROVE  Shrinks
  <1>1. CASE RotateWrite(h)
    <2>1. req[h].slot \in Slots
      BY <1>1 DEF RotateWrite, LastWrite, RequestInv, RotateRequest, RotateSteps
    <2>2. devices[req[h].slot] # NoDevice => devices[req[h].slot] \in Device
      BY <2>1 DEF TypeOK
    <2> QED BY <1>1, <2>1, <2>2 DEF RotateWrite, LastWrite, Shrinks, TypeOK, Device
  <1>2. CASE DeleteWrite(h)
    BY <1>2 DEF DeleteWrite, LastWrite, Shrinks, TypeOK
  <1>3. CASE OwnerDelete(h)
    BY <1>3 DEF OwnerDelete, LastWrite, Shrinks, TypeOK
  <1>4. CASE UNCHANGED devices
    BY <1>4 DEF Shrinks
  <1> QED
    BY <1>1, <1>2, <1>3, <1>4
       DEF OutsideStep, StartLocked, StartUnlocked, Start, RotateGet, RotateCheck,
           DeleteGet, CheckStep, OwnerList, QueryFails

\* The address that addDeviceLocked picks is one no device has.
LEMMA ChoicesFree ==
    ASSUME TypeOK, NEW want \in Manual \cup {Automatic}, NEW a \in Choices(want)
    PROVE  AddressFree(a)
  <1>1. a.v4 # NoAddr => a.v4 \notin Used4
    BY DEF Choices, NextAddresses, NextFree, ManualAllowed
  <1>2. a.v6 # NoAddr => a.v6 \notin Used6
    BY DEF Choices, NextAddresses, NextFree, ManualAllowed
  <1> QED BY <1>1, <1>2 DEF AddressFree, Used4, Used6

\* The row that Save inserts has an address of its own and no routes.
LEMMA InsertKeepsTable ==
    ASSUME TypeOK, AddressesUnique, RoutesApart,
           NEW slot \in Slots, NEW row \in Device,
           devices' = [devices EXCEPT ![slot] = row],
           AddressFree(row), row.routes = {}, NoDevice \notin Device
    PROVE  AddressesUnique' /\ RoutesApart'
  <1>1. Stored' = Stored \cup {slot} /\ devices'[slot] = row
    BY DEF Stored, TypeOK
  <1>2. \A s \in Stored \ {slot} : devices'[s] = devices[s]
    BY DEF Stored, TypeOK
  <1>3. AddressesUnique'
    BY <1>1, <1>2 DEF AddressesUnique, AddressFree
  <1>4. RoutesApart'
    BY <1>1, <1>2 DEF RoutesApart
  <1> QED BY <1>3, <1>4

\* A renamed row takes its addresses and its routes along.
LEMMA MoveKeepsTable ==
    ASSUME TypeOK, AddressesUnique, RoutesApart,
           NEW from \in Stored, NEW to \in Slots \ Stored,
           devices' = [devices EXCEPT ![to] = devices[from], ![from] = NoDevice]
    PROVE  AddressesUnique' /\ RoutesApart'
  <1>1. Stored' = (Stored \ {from}) \cup {to}
    BY DEF Stored, TypeOK
  <1>2. devices'[to] = devices[from]
    BY DEF Stored, TypeOK
  <1>3. \A s \in Stored \ {from} : devices'[s] = devices[s]
    BY DEF Stored, TypeOK
  <1>4. AddressesUnique'
    <2> SUFFICES ASSUME NEW s \in Stored', NEW t \in Stored', s # t
                 PROVE  /\ devices'[s].v4 = devices'[t].v4 => devices'[s].v4 = NoAddr
                        /\ devices'[s].v6 = devices'[t].v6 => devices'[s].v6 = NoAddr
      BY DEF AddressesUnique
    <2>1. PICK s0 \in Stored, t0 \in Stored :
              s0 # t0 /\ devices'[s] = devices[s0] /\ devices'[t] = devices[t0]
      BY <1>1, <1>2, <1>3
    <2> QED BY <2>1 DEF AddressesUnique
  <1>5. RoutesApart'
    <2> SUFFICES ASSUME NEW s \in Stored', NEW r \in devices'[s].routes
                 PROVE  /\ ~Overlaps(r, ReservedPoints)
                        /\ \A t \in Stored' \ {s} :
                            \A q \in devices'[t].routes : ~Overlaps(q, r)
      BY DEF RoutesApart
    <2>1. PICK s0 \in Stored : /\ devices'[s] = devices[s0]
                               /\ s = to => s0 = from
                               /\ s # to => s0 = s
      BY <1>1, <1>2, <1>3
    <2>2. ~Overlaps(r, ReservedPoints)
      BY <2>1 DEF RoutesApart
    <2>3. ASSUME NEW t \in Stored' \ {s}, NEW q \in devices'[t].routes
          PROVE  ~Overlaps(q, r)
      <3>1. PICK t0 \in Stored \ {s0} : devices'[t] = devices[t0]
        BY <1>1, <1>2, <1>3, <2>1
      <3> QED BY <2>1, <3>1 DEF RoutesApart
    <2> QED BY <2>2, <2>3
  <1> QED BY <1>4, <1>5

\* Routes that checkRoutes accepted leave all routes apart.
LEMMA RoutesKeepTable ==
    ASSUME TypeOK, AddressesUnique, RoutesApart,
           NEW slot \in Stored, NEW routes \in SUBSET Prefixes,
           RoutesAllowed(slot, routes),
           devices' = [devices EXCEPT ![slot] = [@ EXCEPT !.routes = routes]],
           NoDevice \notin Device
    PROVE  AddressesUnique' /\ RoutesApart'
  <1>1. slot \in Slots /\ devices[slot] \in Device
    BY DEF Stored, TypeOK
  <1>2. /\ devices'[slot] = [devices[slot] EXCEPT !.routes = routes]
        /\ devices'[slot] \in Device
    BY <1>1 DEF TypeOK, Device
  <1>3. /\ devices'[slot].v4 = devices[slot].v4
        /\ devices'[slot].v6 = devices[slot].v6
        /\ devices'[slot].routes = routes
    BY <1>1, <1>2 DEF Device
  <1>4. \A s \in Slots \ {slot} : devices'[s] = devices[s]
    BY DEF TypeOK
  <1>5. Stored' = Stored
    BY <1>1, <1>2, <1>4 DEF Stored
  <1>6. AddressesUnique'
    BY <1>1, <1>3, <1>4, <1>5 DEF AddressesUnique, Stored
  <1>7. RoutesApart'
    <2> SUFFICES ASSUME NEW s \in Stored, NEW r \in devices'[s].routes
                 PROVE  /\ ~Overlaps(r, ReservedPoints)
                        /\ \A t \in Stored \ {s} :
                            \A q \in devices'[t].routes : ~Overlaps(q, r)
      BY <1>5 DEF RoutesApart
    <2>1. CASE s = slot
      BY <1>3, <1>4, <2>1 DEF RoutesAllowed, Stored
    <2>2. CASE s # slot
      <3>1. r \in devices[s].routes
        BY <1>4, <2>2 DEF Stored
      <3>2. ASSUME NEW q \in routes PROVE ~Overlaps(q, r)
        BY <2>2, <3>1, <3>2 DEF RoutesAllowed, Overlaps
      <3>3. ~Overlaps(r, ReservedPoints)
        BY <3>1 DEF RoutesApart
      <3>4. ASSUME NEW t \in Stored \ {s}, NEW q \in devices'[t].routes
            PROVE  ~Overlaps(q, r)
        <4>1. CASE t = slot
          BY <1>3, <3>2, <4>1
        <4>2. CASE t # slot
          <5>1. q \in devices[t].routes
            BY <1>4, <4>2 DEF Stored
          <5> QED BY <3>1, <5>1 DEF RoutesApart
        <4> QED BY <4>1, <4>2
      <3> QED BY <3>3, <3>4
    <2> QED BY <2>1, <2>2
  <1> QED BY <1>6, <1>7

\* Inside the lock, what the handler reads is so and stays so, and what it
\* writes keeps the table right.
LEMMA InsideKeepsTable ==
    ASSUME TypeOK, RequestInv, LockInv, ~dropped, TableInv,
           NEW h \in Handlers, InsideStep(h)
    PROVE  TableInv'
  <1> USE DEF locks, locals, Goto
  <1>0. ReadsHold(h) /\ AddressesUnique /\ RoutesApart
    BY DEF TableInv
  <1>1. ASSUME NEW g \in Handlers \ {h} PROVE ReadsHold(g)'
    <2>1. pc[h] \in Critical /\ pc'[g] = pc[g]
      BY InsideShape
    <2>2. pc[g] \notin Critical
      BY <2>1, LockInvExcludes DEF LockExclusion
    <2> QED BY <2>1, <2>2 DEF ReadsHold, Critical
  <1>2. ASSUME UNCHANGED devices, ReadsHold(h)' PROVE TableInv'
    <2>1. AddressesUnique' /\ RoutesApart'
      BY <1>0, <1>2 DEF AddressesUnique, RoutesApart, Stored
    <2> QED BY <1>1, <1>2, <2>1 DEF TableInv
  <1>3. ASSUME pc'[h] \in {"release", "renameList", "renameWrite", "routesCheck"}
        PROVE  ReadsHold(h)'
    BY <1>3 DEF ReadsHold
  <1>4. CASE AddList(h)
    <2>1. UNCHANGED <<devices, req>>
      BY <1>4 DEF AddList, ReadStep
    <2>2. \/ pc'[h] = "release"
          \/ pc'[h] = "addAddresses" /\ devices[req[h].slot] = NoDevice
      BY <1>4 DEF AddList, ReadStep, TypeOK
    <2>3. ReadsHold(h)'
      BY <1>3, <2>1, <2>2 DEF ReadsHold
    <2> QED BY <1>2, <2>1, <2>3
  <1>5. CASE AddAddresses(h)
    <2>1. UNCHANGED <<devices, req>> /\ devices[req[h].slot] = NoDevice
      BY <1>0, <1>5 DEF AddAddresses, ReadStep, ReadsHold
    <2>2. req[h].want \in Manual \cup {Automatic}
      BY <1>5 DEF AddAddresses, RequestInv, AddRequest, AddSteps
    <2>3. \/ pc'[h] = "release"
          \/ pc'[h] = "addCount" /\ addr'[h] \in Choices(req[h].want)
      BY <1>5 DEF AddAddresses, ReadStep, TypeOK
    <2>4. addr'[h] \in Choices(req[h].want) => AddressFree(addr[h])'
      <3>1. addr'[h] \in Choices(req[h].want) => AddressFree(addr'[h])
        BY <2>2, ChoicesFree
      <3> QED BY <2>1, <3>1 DEF AddressFree, Stored
    <2>5. ReadsHold(h)'
      BY <1>3, <2>1, <2>3, <2>4 DEF ReadsHold
    <2> QED BY <1>2, <2>1, <2>5
  <1>6. CASE AddCount(h)
    <2>1. UNCHANGED <<devices, req, addr>> /\ devices[req[h].slot] = NoDevice
      BY <1>0, <1>6 DEF AddCount, ReadStep, ReadsHold
    <2>2. pc'[h] = "addWrite" /\ existing'[h] = FALSE
      BY <1>6, <2>1 DEF AddCount, ReadStep, TypeOK
    <2>3. AddressFree(addr[h])
      BY <1>0, <1>6 DEF AddCount, ReadStep, ReadsHold
    <2>4. AddressFree(addr[h])'
      BY <2>1, <2>3 DEF AddressFree, Stored
    <2>5. ReadsHold(h)'
      BY <2>1, <2>2, <2>4 DEF ReadsHold
    <2> QED BY <1>2, <2>1, <2>5
  <1>7. CASE AddWrite(h)
    <2> DEFINE slot == req[h].slot
               row == [key |-> req[h].key, v4 |-> addr[h].v4, v6 |-> addr[h].v6,
                       routes |-> {}]
    <2>1. req[h] \in AddRequest /\ Client4 \subseteq Range4 /\ Client6 \subseteq Range6
      BY <1>7, AllocationAssumption
         DEF AddWrite, RequestInv, AddSteps, Client4, Client6, Range4, Range6
    <2>2. slot \in Slots /\ row \in Device
      BY <2>1 DEF AddRequest, Device, TypeOK
    <2>3. AddressFree(addr[h])
      BY <1>0, <1>7 DEF AddWrite, ReadsHold
    <2>4. AddressFree(row)
      BY <2>3 DEF AddressFree
    <2>5. pc'[h] = "release"
      BY <1>7 DEF AddWrite, WriteRow, TypeOK
    <2>6. UNCHANGED devices \/ devices' = [devices EXCEPT ![slot] = row]
      BY <1>7 DEF AddWrite, WriteRow
    <2>7. CASE UNCHANGED devices
      BY <1>2, <1>3, <2>5, <2>7
    <2>8. CASE devices' = [devices EXCEPT ![slot] = row]
      <3>1. AddressesUnique' /\ RoutesApart'
        BY <1>0, <2>2, <2>4, <2>8, InsertKeepsTable, ManualAssumption
      <3> QED BY <1>1, <1>3, <2>5, <3>1 DEF TableInv
    <2> QED BY <2>6, <2>7, <2>8
  <1>8. CASE RenameGet(h) \/ RenameList(h) \/ RoutesGet(h)
             \/ (QueryFails(h) /\ pc[h] \in Critical)
    <2>1. UNCHANGED devices
      BY <1>8 DEF RenameGet, RenameList, RoutesGet, ReadStep, QueryFails
    <2>2. pc[h] \in Critical => pc[h] \notin Unlocked
      BY DEF Critical, Unlocked
    <2>3. pc'[h] \in {"release", "renameList", "renameWrite", "routesCheck"}
      BY <1>8, <2>2 DEF RenameGet, RenameList, RoutesGet, ReadStep, QueryFails, TypeOK
    <2> QED BY <1>2, <1>3, <2>1, <2>3
  <1>9. CASE RenameWrite(h)
    <2>1. req[h].slot \in Slots /\ NewSlot(h) \in Slots
      BY <1>9 DEF RenameWrite, RequestInv, RenameRequest, RenameSteps, NewSlot, Slots
    <2>2. pc'[h] = "release"
      BY <1>9 DEF RenameWrite, WriteRow, TypeOK
    <2>3. CASE UNCHANGED devices
      BY <1>2, <1>3, <2>2, <2>3
    <2>4. CASE /\ devices[req[h].slot] # NoDevice /\ devices[NewSlot(h)] = NoDevice
               /\ devices' = [devices EXCEPT ![NewSlot(h)] = devices[req[h].slot],
                                             ![req[h].slot] = NoDevice]
      <3>1. req[h].slot \in Stored /\ NewSlot(h) \in Slots \ Stored
        BY <2>1, <2>4 DEF Stored
      <3>2. AddressesUnique' /\ RoutesApart'
        BY <1>0, <2>4, <3>1, MoveKeepsTable
      <3> QED BY <1>1, <1>3, <2>2, <3>2 DEF TableInv
    <2> QED BY <1>9, <2>3, <2>4 DEF RenameWrite, WriteRow
  <1>10. CASE RoutesCheck(h)
    <2>1. UNCHANGED <<devices, req>>
      BY <1>10 DEF RoutesCheck, ReadStep
    <2>2. \/ pc'[h] = "release"
          \/ pc'[h] = "routesWrite" /\ RoutesAllowed(req[h].slot, req[h].routes)
      BY <1>10 DEF RoutesCheck, ReadStep, TypeOK
    <2>3. RoutesAllowed(req[h].slot, req[h].routes) =>
            RoutesAllowed(req[h].slot, req[h].routes)'
      BY <2>1 DEF RoutesAllowed, Stored
    <2>4. ReadsHold(h)'
      BY <1>3, <2>2, <2>3 DEF ReadsHold
    <2> QED BY <1>2, <2>1, <2>4
  <1>11. CASE RoutesWrite(h)
    <2>1. /\ req[h].slot \in Slots /\ req[h].routes \in SUBSET Prefixes
          /\ RoutesAllowed(req[h].slot, req[h].routes)
      BY <1>0, <1>11 DEF RoutesWrite, RequestInv, RoutesRequest, RoutesSteps, ReadsHold
    <2>2. pc'[h] = "release"
      BY <1>11 DEF RoutesWrite, WriteRow, TypeOK
    <2> DEFINE table == [devices EXCEPT ![req[h].slot] =
                            [@ EXCEPT !.routes = req[h].routes]]
    <2>3. devices' = IF devices[req[h].slot] # NoDevice THEN table ELSE devices
      BY <1>11 DEF RoutesWrite, WriteRow
    <2>4. CASE devices[req[h].slot] = NoDevice
      <3>1. UNCHANGED devices
        <4> HIDE DEF table
        <4> QED BY <2>3, <2>4
      <3> QED BY <1>2, <1>3, <2>2, <3>1
    <2>5. CASE devices[req[h].slot] # NoDevice
      <3>1. devices' = table
        <4> HIDE DEF table
        <4> QED BY <2>3, <2>5
      <3>2. req[h].slot \in Stored
        BY <2>1, <2>5 DEF Stored
      <3>3. AddressesUnique' /\ RoutesApart'
        BY <1>0, <2>1, <3>1, <3>2, RoutesKeepTable, ManualAssumption
      <3> QED BY <1>1, <1>3, <2>2, <3>3 DEF TableInv
    <2> QED BY <2>4, <2>5
  <1> QED BY <1>4, <1>5, <1>6, <1>7, <1>8, <1>9, <1>10, <1>11 DEF InsideStep

\* A step that changes no row, and moves at most handlers out of their reads.
LEMMA IdleKeepsTable ==
    ASSUME TypeOK, RequestInv, TableInv, UNCHANGED devices,
           \A g \in Handlers :
               \/ pc'[g] \notin {"addAddresses", "addCount", "addWrite", "routesWrite"}
               \/ UNCHANGED <<pc[g], req[g], addr[g], existing[g]>>
    PROVE  TableInv'
  <1>1. Shrinks
    BY DEF Shrinks
  <1>2. AddressesUnique' /\ RoutesApart'
    BY <1>1, ShrinkKeepsTable DEF TableInv
  <1>3. ASSUME NEW g \in Handlers PROVE ReadsHold(g)'
    <2>1. CASE pc'[g] \notin {"addAddresses", "addCount", "addWrite", "routesWrite"}
      BY <2>1 DEF ReadsHold
    <2>2. CASE UNCHANGED <<pc[g], req[g], addr[g], existing[g]>>
      <3>1. ReadsHold(g)
        BY DEF TableInv
      <3> QED BY <1>1, <2>2, <3>1, ShrinkKeepsReads
    <2> QED BY <2>1, <2>2
  <1> QED BY <1>2, <1>3 DEF TableInv

\* Every step keeps the table right as long as no lock session is lost.
LEMMA TableStep ==
    ASSUME TypeOK, RequestInv, LockInv, ~dropped => TableInv, Next, ~dropped'
    PROVE  TableInv'
  <1> USE DEF locks, locals, Goto
  <1>1. ASSUME NEW r \in Replicas, Crash(r) PROVE TableInv'
    <2>1. ~dropped /\ UNCHANGED devices
      BY <1>1 DEF Crash
    <2>2. \A g \in Handlers : \/ pc'[g] = "idle"
                              \/ UNCHANGED <<pc[g], req[g], addr[g], existing[g]>>
      BY <1>1 DEF Crash, TypeOK
    <2> QED BY <2>1, <2>2, IdleKeepsTable
  <1>2. ASSUME NEW h \in Handlers,
               StartLocked(h) \/ StartUnlocked(h) \/ Step(h)
               \/ GrantDbLock(h) \/ DropSession(h)
        PROVE  TableInv'
    <2>1. CASE InsideStep(h)
      <3>1. ~dropped
        BY <2>1, InsideShape
      <3> QED BY <2>1, <3>1, InsideKeepsTable
    <2>2. CASE OutsideStep(h)
      <3>1. ~dropped
        BY <2>2, OutsideShape
      <3>2. Shrinks
        BY <2>2, OutsideShrinks
      <3>3. AddressesUnique' /\ RoutesApart'
        BY <3>1, <3>2, ShrinkKeepsTable DEF TableInv
      <3>4. ReadsHold(h)'
        BY <2>2, OutsideShape DEF ReadsHold, HoldsMutex, Critical
      <3>5. ASSUME NEW g \in Handlers \ {h} PROVE ReadsHold(g)'
        <4>1. ReadsHold(g) /\ UNCHANGED <<pc[g], req[g], addr[g], existing[g]>>
          BY <2>2, <3>1, OutsideShape DEF TableInv
        <4> QED BY <3>2, <4>1, ShrinkKeepsReads
      <3> QED BY <3>3, <3>4, <3>5 DEF TableInv
    <2>3. CASE LockMutex(h) \/ AcquireDbLock(h)
      <3>1. req[h] \in LockedRequest
        BY <2>3 DEF LockMutex, AcquireDbLock, RequestInv
      <3>2. ~dropped /\ UNCHANGED <<devices, req, addr, existing>>
        BY <2>3 DEF LockMutex, AcquireDbLock
      <3>3. pc'[h] = "dblock" \/ pc'[h] = FirstStep[req[h].op]
        BY <2>3 DEF LockMutex, AcquireDbLock, TypeOK
      <3>4. \A g \in Handlers \ {h} : pc'[g] = pc[g]
        BY <2>3 DEF LockMutex, AcquireDbLock, TypeOK
      <3>5. pc'[h] \notin {"addAddresses", "addCount", "addWrite", "routesWrite"}
        BY <3>1, <3>3, LockedFirstStep
      <3> QED BY <3>2, <3>4, <3>5, IdleKeepsTable
    <2>4. CASE AcquireFails(h) \/ DiscardConn(h) \/ ReleaseDbLock(h)
      <3>1. ~dropped /\ UNCHANGED <<devices, req, addr, existing>>
        BY <2>4 DEF AcquireFails, DiscardConn, ReleaseDbLock
      <3>2. pc'[h] \in {"discard", "unlock"} /\ \A g \in Handlers \ {h} : pc'[g] = pc[g]
        BY <2>4 DEF AcquireFails, DiscardConn, ReleaseDbLock, TypeOK
      <3> QED BY <3>1, <3>2, IdleKeepsTable
    <2>5. CASE GrantDbLock(h)
      <3>1. ~dropped /\ UNCHANGED <<devices, pc, req, addr, existing>>
        BY <2>5 DEF GrantDbLock
      <3> QED BY <3>1, IdleKeepsTable
    <2>6. CASE UnlockMutex(h)
      <3>1. ~dropped /\ UNCHANGED devices /\ pc'[h] = "idle"
        BY <2>6 DEF UnlockMutex, TypeOK
      <3>2. \A g \in Handlers \ {h} : UNCHANGED <<pc[g], req[g], addr[g], existing[g]>>
        BY <2>6 DEF UnlockMutex, Forget, TypeOK
      <3> QED BY <3>1, <3>2, IdleKeepsTable
    <2>7. CASE DropSession(h)
      BY <2>7 DEF DropSession
    <2> QED BY <1>2, <2>1, <2>2, <2>3, <2>4, <2>5, <2>6, <2>7, StepKinds
  <1> QED BY <1>1, <1>2 DEF Next

\* The lock protects what its comments say: while no lock session is lost, the
\* table is right and what a handler inside has read is still so.
LEMMA TableHolds == Spec => [](~dropped => TableInv)
  <1>1. Init => TableInv
    BY DEF Init, TableInv, AddressesUnique, RoutesApart, ReadsHold, Stored
  <1>2. TypeOK /\ RequestInv /\ LockInv /\ (~dropped => TableInv) /\ [Next]_vars
            => (~dropped => TableInv)'
    <2> SUFFICES ASSUME TypeOK, RequestInv, LockInv, ~dropped => TableInv,
                        [Next]_vars, ~dropped'
                 PROVE  TableInv'
      OBVIOUS
    <2>1. CASE UNCHANGED vars
      BY <2>1, IdleKeepsTable DEF vars
    <2>2. CASE Next
      BY <2>2, TableStep
    <2> QED BY <2>1, <2>2
  <1> QED BY <1>1, <1>2, TypeCorrect, LockHolds, PTL DEF Spec

\* No two devices get the same VPN address, however many replicas add, rename
\* and delete devices at once, unless a session that holds the lock is lost.
THEOREM AddressSafety == Spec => []AddressesUniqueUnderLock
  <1>1. (~dropped => TableInv) => AddressesUniqueUnderLock
    BY DEF TableInv, AddressesUniqueUnderLock
  <1> QED BY <1>1, TableHolds, PTL

\* No network is routed to two devices, nor one that is the VPN's own, however
\* many requests set routes at once: what checkRoutes found is still so when
\* SetRoutes writes.
THEOREM RouteSafety == Spec => []RoutesDisjoint
  <1>1. (~dropped => TableInv) => RoutesDisjoint
    BY DEF TableInv, RoutesApart, RoutesDisjoint
  <1> QED BY <1>1, TableHolds, PTL

-----------------------------------------------------------------------------
(* The database's lock always has somebody who gives it back.              *)

\* A handler of the session that holds the database's lock stays on the way to
\* releasing it or to discarding the connection.
LEMMA StrayStep ==
    ASSUME TypeOK, RequestInv, NoStrayLock, NEW h \in Handlers,
           StartLocked(h) \/ StartUnlocked(h) \/ Step(h)
           \/ GrantDbLock(h) \/ DropSession(h)
    PROVE  NoStrayLock'
  <1> USE AllocationAssumption DEF locks, locals, Goto
  <1>0. dbLock \in Handlers \cup {Nobody}
    BY DEF TypeOK
  <1>1. CASE InsideStep(h)
    BY <1>0, <1>1, InsideShape DEF NoStrayLock
  <1>2. CASE OutsideStep(h)
    <2>1. dbLock # h
      BY <1>2, OutsideShape DEF NoStrayLock, HoldsMutex
    <2> QED BY <1>0, <1>2, <2>1, OutsideShape DEF NoStrayLock
  <1>3. CASE LockMutex(h)
    <2>1. dbLock # h
      BY <1>3 DEF LockMutex, NoStrayLock, Critical
    <2> QED BY <1>0, <1>3, <2>1 DEF LockMutex, NoStrayLock, TypeOK
  <1>4. CASE GrantDbLock(h)
    BY <1>4 DEF GrantDbLock, NoStrayLock
  <1>5. CASE AcquireDbLock(h)
    <2>1. req[h] \in LockedRequest
      BY <1>5 DEF AcquireDbLock, RequestInv
    <2>2. pc'[h] \in Critical
      BY <1>5, <2>1, LockedFirstStep DEF AcquireDbLock, TypeOK, Critical
    <2> QED BY <1>5, <2>2 DEF AcquireDbLock, NoStrayLock
  <1>6. CASE AcquireFails(h)
    BY <1>0, <1>6 DEF AcquireFails, NoStrayLock, TypeOK
  <1>7. CASE DiscardConn(h) \/ ReleaseDbLock(h)
    BY <1>0, <1>7 DEF DiscardConn, ReleaseDbLock, EndSession, NoStrayLock, TypeOK
  <1>8. CASE UnlockMutex(h)
    <2>1. dbLock # h
      BY <1>8 DEF UnlockMutex, NoStrayLock, Critical
    <2> QED BY <1>0, <1>8, <2>1 DEF UnlockMutex, NoStrayLock, TypeOK
  <1>9. CASE DropSession(h)
    BY <1>9 DEF DropSession, NoStrayLock
  <1> QED BY <1>1, <1>2, <1>3, <1>4, <1>5, <1>6, <1>7, <1>8, <1>9, StepKinds

\* Whatever times out, fails or crashes, the database's lock is free or held
\* by the session of a handler that is on its way to release or discard it:
\* no replica waits for a lock that nobody will give back.
THEOREM LockReturned == Spec => []NoStrayLock
  <1>1. Init => NoStrayLock
    BY DEF Init, NoStrayLock
  <1>2. TypeOK /\ RequestInv /\ NoStrayLock /\ [Next]_vars => NoStrayLock'
    <2> SUFFICES ASSUME TypeOK, RequestInv, NoStrayLock, [Next]_vars
                 PROVE  NoStrayLock'
      OBVIOUS
    <2>1. CASE UNCHANGED vars
      BY <2>1 DEF vars, NoStrayLock
    <2>2. ASSUME NEW r \in Replicas, Crash(r) PROVE NoStrayLock'
      BY <2>2, AllocationAssumption DEF Crash, NoStrayLock, TypeOK
    <2> QED BY <2>1, <2>2, StrayStep DEF Next
  <1> QED BY <1>1, <1>2, TypeCorrect, PTL DEF Spec

-----------------------------------------------------------------------------
(* Every device has an address that a client may have.  This needs no lock. *)

\* An address that a client may have, of at least one family.
Usable(a) == /\ a.v4 \in Client4 \cup {NoAddr}
             /\ a.v6 \in Client6 \cup {NoAddr}
             /\ a.v4 # NoAddr \/ a.v6 # NoAddr

\* What addDeviceLocked carries to the row it writes is usable as well.
UsableInv ==
    /\ \A s \in Stored : Usable(devices[s])
    /\ \A h \in Handlers : pc[h] \in {"addCount", "addWrite"} => Usable(addr[h])

\* The address that addDeviceLocked picks is usable.
LEMMA ChoicesUsable ==
    ASSUME NEW want \in Manual \cup {Automatic}, NEW a \in Choices(want)
    PROVE  Usable(a)
  <1>1. a \in [v4: Client4 \cup {NoAddr}, v6: Client6 \cup {NoAddr}] /\ a # NoAddress
    BY ChoicesType DEF Choices
  <1> QED BY <1>1 DEF Usable, NoAddress

\* A step that leaves every row usable and every other handler where it is.
LEMMA UsableKept ==
    ASSUME TypeOK, UsableInv, NEW h \in Handlers,
           \A g \in Handlers \ {h} : pc'[g] = pc[g] /\ addr'[g] = addr[g],
           pc'[h] \in {"addCount", "addWrite"} => Usable(addr'[h]),
           \A s \in Slots : devices'[s] # NoDevice => Usable(devices'[s])
    PROVE  UsableInv'
  <1>1. \A s \in Stored' : Usable(devices[s])'
    BY DEF Stored, Usable
  <1>2. \A g \in Handlers : pc'[g] \in {"addCount", "addWrite"} => Usable(addr[g])'
    BY DEF UsableInv, Usable
  <1> QED BY <1>1, <1>2 DEF UsableInv

\* Steps inside the lock keep the addresses usable.
LEMMA UsableInside ==
    ASSUME TypeOK, RequestInv, UsableInv, NEW h \in Handlers, InsideStep(h)
    PROVE  UsableInv'
  <1> USE DEF locks, locals, Goto
  <1>1. \A g \in Handlers \ {h} : pc'[g] = pc[g] /\ addr'[g] = addr[g]
    BY InsideShape
  <1>2. \A s \in Slots : devices[s] # NoDevice => Usable(devices[s])
    BY DEF UsableInv, Stored
  <1>3. CASE AddWrite(h)
    <2> DEFINE row == [key |-> req[h].key, v4 |-> addr[h].v4, v6 |-> addr[h].v6,
                       routes |-> {}]
    <2>1. Usable(row)
      BY <1>3 DEF AddWrite, UsableInv, Usable
    <2>2. pc'[h] = "release"
      BY <1>3 DEF AddWrite, WriteRow, TypeOK
    <2>3. UNCHANGED devices \/ devices' = [devices EXCEPT ![req[h].slot] = row]
      BY <1>3 DEF AddWrite, WriteRow
    <2>4. \A s \in Slots : devices'[s] # NoDevice => Usable(devices'[s])
      <3> HIDE DEF row
      <3> QED BY <1>2, <2>1, <2>3 DEF TypeOK
    <2> QED BY <1>1, <2>2, <2>4, UsableKept
  <1>4. CASE RenameWrite(h)
    <2>1. pc'[h] = "release"
      BY <1>4 DEF RenameWrite, WriteRow, TypeOK
    <2>2. req[h].slot \in Slots
      BY <1>4 DEF RenameWrite, RequestInv, RenameRequest, RenameSteps
    <2>3. \A s \in Slots : devices'[s] # NoDevice => Usable(devices'[s])
      BY <1>2, <1>4, <2>2 DEF RenameWrite, WriteRow, TypeOK
    <2> QED BY <1>1, <2>1, <2>3, UsableKept
  <1>5. CASE RoutesWrite(h)
    <2>1. pc'[h] = "release"
      BY <1>5 DEF RoutesWrite, WriteRow, TypeOK
    <2>2. req[h].slot \in Slots
      BY <1>5 DEF RoutesWrite, RequestInv, RoutesRequest, RoutesSteps
    <2>3. \A s \in Slots : devices[s] # NoDevice => devices[s] \in Device
      BY DEF TypeOK
    <2>4. \A s \in Slots : devices'[s] # NoDevice =>
              /\ devices[s] # NoDevice
              /\ devices'[s].v4 = devices[s].v4 /\ devices'[s].v6 = devices[s].v6
      BY <1>5, <2>2, <2>3 DEF RoutesWrite, WriteRow, TypeOK, Device
    <2>5. \A s \in Slots : devices'[s] # NoDevice => Usable(devices'[s])
      BY <1>2, <2>4 DEF Usable
    <2> QED BY <1>1, <2>1, <2>5, UsableKept
  <1>6. CASE AddAddresses(h)
    <2>1. req[h].want \in Manual \cup {Automatic} /\ UNCHANGED devices
      BY <1>6 DEF AddAddresses, ReadStep, RequestInv, AddRequest, AddSteps
    <2>2. pc'[h] = "release" \/ addr'[h] \in Choices(req[h].want)
      BY <1>6 DEF AddAddresses, ReadStep, TypeOK
    <2>3. pc'[h] \in {"addCount", "addWrite"} => Usable(addr'[h])
      BY <2>1, <2>2, ChoicesUsable
    <2> QED BY <1>1, <1>2, <2>1, <2>3, UsableKept
  <1>7. CASE AddCount(h)
    BY <1>1, <1>2, <1>7, UsableKept DEF AddCount, ReadStep, UsableInv
  <1>8. CASE AddList(h) \/ RenameGet(h) \/ RenameList(h) \/ RoutesGet(h)
             \/ RoutesCheck(h) \/ (QueryFails(h) /\ pc[h] \in Critical)
    <2>1. UNCHANGED devices
      BY <1>8 DEF AddList, RenameGet, RenameList, RoutesGet, RoutesCheck, ReadStep,
                  QueryFails
    <2>2. pc[h] \in Critical => pc[h] \notin Unlocked
      BY DEF Critical, Unlocked
    <2>3. pc'[h] \notin {"addCount", "addWrite"}
      BY <1>8, <2>2 DEF AddList, RenameGet, RenameList, RoutesGet, RoutesCheck,
                       ReadStep, QueryFails, TypeOK
    <2> QED BY <1>1, <1>2, <2>1, <2>3, UsableKept
  <1> QED BY <1>3, <1>4, <1>5, <1>6, <1>7, <1>8 DEF InsideStep

\* Every other step writes no new address.
LEMMA UsableElsewhere ==
    ASSUME TypeOK, RequestInv, UsableInv, NEW h \in Handlers,
           \/ OutsideStep(h) \/ LockMutex(h) \/ GrantDbLock(h)
           \/ AcquireDbLock(h) \/ AcquireFails(h) \/ DiscardConn(h)
           \/ ReleaseDbLock(h) \/ UnlockMutex(h) \/ DropSession(h)
    PROVE  UsableInv'
  <1> USE DEF locks, locals, Goto
  <1>1. \A s \in Slots : devices[s] # NoDevice => Usable(devices[s])
    BY DEF UsableInv, Stored
  <1>2. CASE OutsideStep(h)
    <2>1. \A s \in Slots : devices'[s] # NoDevice => Usable(devices'[s])
      BY <1>1, <1>2, OutsideShrinks DEF Shrinks, Usable
    <2>2. pc'[h] \notin {"addCount", "addWrite"}
      BY <1>2, OutsideShape DEF HoldsMutex, Critical
    <2> QED BY <1>2, <2>1, <2>2, OutsideShape, UsableKept
  <1>3. CASE LockMutex(h) \/ AcquireDbLock(h)
    <2>1. req[h] \in LockedRequest
      BY <1>3 DEF LockMutex, AcquireDbLock, RequestInv
    <2>2. pc'[h] = "dblock" \/ pc'[h] = FirstStep[req[h].op]
      BY <1>3 DEF LockMutex, AcquireDbLock, TypeOK
    <2>3. pc'[h] \notin {"addCount", "addWrite"}
      BY <2>1, <2>2, LockedFirstStep
    <2>4. UNCHANGED <<devices, addr>> /\ \A g \in Handlers \ {h} : pc'[g] = pc[g]
      BY <1>3 DEF LockMutex, AcquireDbLock, TypeOK
    <2> QED BY <1>1, <2>3, <2>4, UsableKept
  <1>4. CASE AcquireFails(h) \/ DiscardConn(h) \/ ReleaseDbLock(h)
    <2>1. UNCHANGED <<devices, addr>> /\ \A g \in Handlers \ {h} : pc'[g] = pc[g]
      BY <1>4 DEF AcquireFails, DiscardConn, ReleaseDbLock, TypeOK
    <2>2. pc'[h] \in {"discard", "unlock"}
      BY <1>4 DEF AcquireFails, DiscardConn, ReleaseDbLock, TypeOK
    <2> QED BY <1>1, <2>1, <2>2, UsableKept
  <1>5. CASE GrantDbLock(h) \/ DropSession(h)
    <2>1. UNCHANGED <<devices, pc, addr>>
      BY <1>5 DEF GrantDbLock, DropSession
    <2> QED BY <1>1, <2>1, UsableKept DEF UsableInv
  <1>6. CASE UnlockMutex(h)
    <2>1. UNCHANGED devices /\ pc'[h] = "idle"
      BY <1>6 DEF UnlockMutex, TypeOK
    <2>2. \A g \in Handlers \ {h} : pc'[g] = pc[g] /\ addr'[g] = addr[g]
      BY <1>6 DEF UnlockMutex, Forget, TypeOK
    <2> QED BY <1>1, <2>1, <2>2, UsableKept
  <1> QED BY <1>2, <1>3, <1>4, <1>5, <1>6

\* UsableInv is an invariant.
LEMMA UsableHolds == Spec => []UsableInv
  <1>1. Init => UsableInv
    BY DEF Init, UsableInv, Stored
  <1>2. TypeOK /\ RequestInv /\ UsableInv /\ [Next]_vars => UsableInv'
    <2> SUFFICES ASSUME TypeOK, RequestInv, UsableInv, [Next]_vars PROVE UsableInv'
      OBVIOUS
    <2>1. CASE UNCHANGED vars
      BY <2>1 DEF vars, UsableInv, Stored, Usable
    <2>2. ASSUME NEW r \in Replicas, Crash(r) PROVE UsableInv'
      <3>1. UNCHANGED devices
        BY <2>2 DEF Crash
      <3>2. \A g \in Handlers :
                pc'[g] = "idle" \/ (pc'[g] = pc[g] /\ addr'[g] = addr[g])
        BY <2>2 DEF Crash, TypeOK
      <3> QED BY <3>1, <3>2 DEF UsableInv, Stored, Usable
    <2>3. ASSUME NEW h \in Handlers,
                 StartLocked(h) \/ StartUnlocked(h) \/ Step(h)
                 \/ GrantDbLock(h) \/ DropSession(h)
          PROVE  UsableInv'
      BY <2>3, StepKinds, UsableInside, UsableElsewhere
    <2> QED BY <2>1, <2>2, <2>3 DEF Next
  <1> QED BY <1>1, <1>2, TypeCorrect, PTL DEF Spec

\* No device ever has the network address, the server's address or one outside
\* the subnet, and none has no address at all, for subnets of any size and even
\* when the lock is lost: what addDeviceLocked validates is what gets written.
THEOREM AddressValidity == Spec => []AddressesUsable
  <1>1. UsableInv => AddressesUsable
    BY DEF UsableInv, Usable, AddressesUsable
  <1> QED BY <1>1, UsableHolds, PTL

-----------------------------------------------------------------------------
(* The limit of devices per user.                                          *)

Below(o) == Cardinality(OwnedBy(o)) < MaxDevicesPerUser

\* No user is over the limit, and the owner for whom a handler adds a device
\* is still below it when the handler writes.
QuotaInv ==
    MaxDevicesPerUser > 0 =>
        /\ \A o \in Owners : Cardinality(OwnedBy(o)) <= MaxDevicesPerUser
        /\ \A h \in Handlers : pc[h] \in {"addAddresses", "addCount", "addWrite"} =>
              Below(req[h].slot[1])

\* The names of a user's devices are finitely many.
LEMMA OwnedFinite ==
    ASSUME NEW o
    PROVE  IsFiniteSet(OwnedBy(o)) /\ Cardinality(OwnedBy(o)) \in Nat
  <1>1. OwnedBy(o) \in SUBSET Names /\ IsFiniteSet(Names)
    BY AllocationAssumption DEF OwnedBy
  <1> HIDE DEF OwnedBy
  <1>2. IsFiniteSet(OwnedBy(o))
    BY <1>1, FS_Subset
  <1> QED BY <1>2, FS_CardinalityType

\* The same in the next state.
LEMMA OwnedFinitePrime ==
    ASSUME NEW o
    PROVE  IsFiniteSet(OwnedBy(o)') /\ Cardinality(OwnedBy(o)') \in Nat
  <1>1. OwnedBy(o)' \in SUBSET Names /\ IsFiniteSet(Names)
    BY AllocationAssumption DEF OwnedBy
  <1> DEFINE S == OwnedBy(o)'
  <1> HIDE DEF S
  <1>2. S \in SUBSET Names
    BY <1>1 DEF S
  <1>3. IsFiniteSet(S)
    BY <1>1, <1>2, FS_Subset
  <1>4. Cardinality(S) \in Nat
    BY <1>3, FS_CardinalityType
  <1> QED BY <1>3, <1>4 DEF S

\* A user who gets no new name has no more devices than before.
LEMMA FewerOwned ==
    ASSUME NEW o, OwnedBy(o)' \subseteq OwnedBy(o)
    PROVE  Cardinality(OwnedBy(o)') <= Cardinality(OwnedBy(o))
  <1> DEFINE S == OwnedBy(o)
             T == OwnedBy(o)'
  <1>1. IsFiniteSet(S) /\ T \in SUBSET S
    BY OwnedFinite
  <1> HIDE DEF S, T
  <1>2. Cardinality(T) <= Cardinality(S)
    BY <1>1, FS_Subset
  <1> QED BY <1>2 DEF S, T

\* One name more is one device more.
LEMMA OneMoreOwned ==
    ASSUME NEW o, NEW n, OwnedBy(o)' \subseteq OwnedBy(o) \cup {n}
    PROVE  Cardinality(OwnedBy(o)') <= Cardinality(OwnedBy(o)) + 1
  <1> DEFINE S == OwnedBy(o)
             T == OwnedBy(o)'
             U == S \cup {n}
  <1>1. IsFiniteSet(S) /\ Cardinality(S) \in Nat /\ T \in SUBSET U
    BY OwnedFinite
  <1>2. Cardinality(T) \in Nat
    BY OwnedFinitePrime
  <1> HIDE DEF S, T
  <1>3. IsFiniteSet(U) /\ Cardinality(U) = IF n \in S THEN Cardinality(S)
                                           ELSE Cardinality(S) + 1
    BY <1>1, FS_AddElement
  <1> HIDE DEF U
  <1>4. Cardinality(T) <= Cardinality(U)
    BY <1>1, <1>3, FS_Subset
  <1>5. Cardinality(T) <= Cardinality(S) + 1
    BY <1>1, <1>2, <1>3, <1>4
  <1> QED BY <1>5 DEF S, T

\* A renamed device is one name less and one name more.
LEMMA RenamedOwned ==
    ASSUME NEW o, NEW from \in OwnedBy(o), NEW to,
           OwnedBy(o)' \subseteq (OwnedBy(o) \ {from}) \cup {to}
    PROVE  Cardinality(OwnedBy(o)') <= Cardinality(OwnedBy(o))
  <1> DEFINE S == OwnedBy(o)
             R == S \ {from}
             U == R \cup {to}
             T == OwnedBy(o)'
  <1>1. IsFiniteSet(S) /\ Cardinality(S) \in Nat /\ from \in S /\ T \in SUBSET U
    BY OwnedFinite
  <1>2. Cardinality(T) \in Nat
    BY OwnedFinitePrime
  <1> HIDE DEF S, T
  <1>3. IsFiniteSet(R) /\ Cardinality(R) = Cardinality(S) - 1
    BY <1>1, FS_RemoveElement
  <1> HIDE DEF R
  <1>4. IsFiniteSet(U) /\ Cardinality(U) = IF to \in R THEN Cardinality(R)
                                           ELSE Cardinality(R) + 1
    BY <1>3, FS_AddElement
  <1> HIDE DEF U
  <1>5. Cardinality(T) <= Cardinality(U)
    BY <1>1, <1>4, FS_Subset
  <1>6. Cardinality(T) <= Cardinality(S)
    BY <1>1, <1>2, <1>3, <1>4, <1>5
  <1> QED BY <1>6 DEF S, T

\* A step that gives nobody a device and lets no handler past the limit's check.
LEMMA QuotaKept ==
    ASSUME TypeOK, RequestInv, QuotaInv,
           \A o \in Owners : OwnedBy(o)' \subseteq OwnedBy(o),
           \A g \in Handlers :
               \/ pc'[g] \notin {"addAddresses", "addCount", "addWrite"}
               \/ /\ UNCHANGED req[g]
                  /\ pc[g] \in {"addAddresses", "addCount", "addWrite"}
    PROVE  QuotaInv'
  <1> SUFFICES ASSUME MaxDevicesPerUser > 0
               PROVE  /\ \A o \in Owners : Cardinality(OwnedBy(o)') <= MaxDevicesPerUser
                      /\ \A g \in Handlers :
                            pc'[g] \in {"addAddresses", "addCount", "addWrite"} =>
                                Cardinality(OwnedBy(req[g].slot[1])') < MaxDevicesPerUser
    BY DEF QuotaInv, Below
  <1> USE AllocationAssumption
  <1>1. \A o \in Owners : /\ Cardinality(OwnedBy(o)') <= Cardinality(OwnedBy(o))
                          /\ Cardinality(OwnedBy(o)) \in Nat
                          /\ Cardinality(OwnedBy(o)') \in Nat
    BY FewerOwned, OwnedFinite, OwnedFinitePrime
  <1>2. \A o \in Owners : Cardinality(OwnedBy(o)') <= MaxDevicesPerUser
    BY <1>1 DEF QuotaInv
  <1>3. ASSUME NEW g \in Handlers, pc'[g] \in {"addAddresses", "addCount", "addWrite"}
        PROVE  Cardinality(OwnedBy(req[g].slot[1])') < MaxDevicesPerUser
    <2>1. req[g].slot[1] \in Owners /\ UNCHANGED req[g]
      BY <1>3 DEF RequestInv, AddRequest, AddSteps, Slots
    <2>2. Cardinality(OwnedBy(req[g].slot[1])) < MaxDevicesPerUser
      BY <1>3 DEF QuotaInv, Below
    <2> QED BY <1>1, <2>1, <2>2
  <1> QED BY <1>2, <1>3

\* Inside the lock only addDeviceLocked gives a user one more device, and only
\* one for whom it found room.
LEMMA QuotaInside ==
    ASSUME TypeOK, RequestInv, LockInv, ~dropped, QuotaInv,
           NEW h \in Handlers, InsideStep(h)
    PROVE  QuotaInv'
  <1> DEFINE Counted == {"addAddresses", "addCount", "addWrite"}
  <1> USE AllocationAssumption DEF locks, locals, Goto
  <1>1. ASSUME NEW g \in Handlers \ {h} PROVE pc'[g] \notin Counted
    <2>1. pc[h] \in Critical /\ pc'[g] = pc[g]
      BY InsideShape
    <2>2. pc[g] \notin Critical
      BY <2>1, LockInvExcludes DEF LockExclusion
    <2> QED BY <2>1, <2>2 DEF Critical
  <1>2. ASSUME UNCHANGED devices, pc'[h] \in Counted => pc[h] \in Counted
        PROVE  QuotaInv'
    <2>1. \A o \in Owners : OwnedBy(o)' \subseteq OwnedBy(o)
      BY <1>2 DEF OwnedBy
    <2>2. UNCHANGED req
      BY InsideShape
    <2> QED BY <1>1, <1>2, <2>1, <2>2, QuotaKept
  <1>3. CASE AddList(h)
    <2> DEFINE o == req[h].slot[1]
    <2>1. UNCHANGED <<devices, req>>
      BY <1>3 DEF AddList, ReadStep
    <2>2. pc'[h] = "release" \/ (pc'[h] = "addAddresses" /\ ~OverQuota(o))
      BY <1>3 DEF AddList, ReadStep, TypeOK
    <2>3. CASE pc'[h] = "release"
      BY <1>2, <2>1, <2>3
    <2>4. CASE pc'[h] = "addAddresses" /\ ~OverQuota(o)
      <3> SUFFICES ASSUME MaxDevicesPerUser > 0
                   PROVE  /\ \A p \in Owners : Cardinality(OwnedBy(p)') <= MaxDevicesPerUser
                          /\ \A g \in Handlers : pc'[g] \in Counted =>
                                Cardinality(OwnedBy(req[g].slot[1])') < MaxDevicesPerUser
        BY DEF QuotaInv, Below
      <3>1. \A p : OwnedBy(p)' = OwnedBy(p)
        BY <2>1 DEF OwnedBy
      <3>2. \A p \in Owners : Cardinality(OwnedBy(p)') <= MaxDevicesPerUser
        BY <3>1 DEF QuotaInv
      <3>3. Cardinality(OwnedBy(o)) < MaxDevicesPerUser
        BY <2>4, OwnedFinite DEF OverQuota
      <3>4. Cardinality(OwnedBy(req[h].slot[1])') < MaxDevicesPerUser
        BY <2>1, <3>3 DEF OwnedBy
      <3> QED BY <1>1, <3>2, <3>4
    <2> QED BY <2>2, <2>3, <2>4
  <1>4. CASE AddWrite(h)
    <2> DEFINE slot == req[h].slot
               row == [key |-> req[h].key, v4 |-> addr[h].v4, v6 |-> addr[h].v6,
                       routes |-> {}]
    <2>1. slot \in Slots /\ pc'[h] = "release" /\ pc[h] \in Counted
      BY <1>4 DEF AddWrite, WriteRow, RequestInv, AddRequest, AddSteps, TypeOK
    <2>2. UNCHANGED devices \/ devices' = [devices EXCEPT ![slot] = row]
      BY <1>4 DEF AddWrite, WriteRow
    <2>3. CASE UNCHANGED devices
      BY <1>2, <2>1, <2>3
    <2>4. CASE devices' = [devices EXCEPT ![slot] = row]
      <3> SUFFICES ASSUME MaxDevicesPerUser > 0, NEW o \in Owners
                   PROVE  Cardinality(OwnedBy(o)') <= MaxDevicesPerUser
        BY <1>1, <2>1 DEF QuotaInv
      <3>1. \A t \in Slots \ {slot} : devices'[t] = devices[t]
        BY <2>4 DEF TypeOK
      <3>2. CASE o = slot[1]
        <4>1. Cardinality(OwnedBy(o)) < MaxDevicesPerUser
          BY <2>1, <3>2 DEF QuotaInv, Below
        <4>2. OwnedBy(o)' \subseteq OwnedBy(o) \cup {slot[2]}
          BY <2>1, <3>1, <3>2 DEF OwnedBy, Slots
        <4>3. Cardinality(OwnedBy(o)') <= Cardinality(OwnedBy(o)) + 1
          BY <4>2, OneMoreOwned
        <4> QED BY <4>1, <4>3, OwnedFinite, OwnedFinitePrime
      <3>3. CASE o # slot[1]
        <4>1. OwnedBy(o)' \subseteq OwnedBy(o)
          BY <2>1, <3>1, <3>3 DEF OwnedBy, Slots
        <4>2. Cardinality(OwnedBy(o)') <= Cardinality(OwnedBy(o))
          BY <4>1, FewerOwned
        <4> QED BY <4>2, OwnedFinite, OwnedFinitePrime DEF QuotaInv
      <3> QED BY <3>2, <3>3
    <2> QED BY <2>2, <2>3, <2>4
  <1>5. CASE RenameWrite(h)
    <2> DEFINE slot == req[h].slot
    <2>1. /\ slot \in Slots /\ NewSlot(h) \in Slots /\ pc'[h] = "release"
          /\ NewSlot(h) = <<slot[1], req[h].newName>>
      BY <1>5 DEF RenameWrite, WriteRow, RequestInv, RenameRequest, RenameSteps,
                  NewSlot, Slots, TypeOK
    <2>2. CASE UNCHANGED devices
      BY <1>2, <2>1, <2>2
    <2>3. CASE /\ devices[slot] # NoDevice
               /\ devices[NewSlot(h)] = NoDevice
               /\ devices' = [devices EXCEPT ![NewSlot(h)] = devices[slot],
                                             ![slot] = NoDevice]
      <3> SUFFICES ASSUME MaxDevicesPerUser > 0, NEW o \in Owners
                   PROVE  Cardinality(OwnedBy(o)') <= MaxDevicesPerUser
        BY <1>1, <2>1 DEF QuotaInv
      <3>1. /\ \A t \in Slots \ {slot, NewSlot(h)} : devices'[t] = devices[t]
            /\ devices'[slot] = NoDevice
        BY <2>1, <2>3 DEF TypeOK
      <3>2. Cardinality(OwnedBy(o)') <= Cardinality(OwnedBy(o))
        <4>1. CASE o = slot[1]
          <5>1. slot[2] \in OwnedBy(o) /\ slot = <<o, slot[2]>>
            BY <2>1, <2>3, <4>1 DEF OwnedBy, Slots
          <5>2. OwnedBy(o)' \subseteq (OwnedBy(o) \ {slot[2]}) \cup {req[h].newName}
            BY <2>1, <3>1, <4>1, <5>1 DEF OwnedBy, Slots
          <5> QED BY <5>1, <5>2, RenamedOwned
        <4>2. CASE o # slot[1]
          <5>1. OwnedBy(o)' \subseteq OwnedBy(o)
            BY <2>1, <3>1, <4>2 DEF OwnedBy, Slots
          <5> QED BY <5>1, FewerOwned
        <4> QED BY <4>1, <4>2
      <3> QED BY <3>2, OwnedFinite, OwnedFinitePrime DEF QuotaInv
    <2> QED BY <1>5, <2>2, <2>3 DEF RenameWrite, WriteRow
  <1>6. CASE RoutesWrite(h)
    <2>1. req[h].slot \in Slots /\ pc'[h] = "release"
      BY <1>6 DEF RoutesWrite, WriteRow, RequestInv, RoutesRequest, RoutesSteps, TypeOK
    <2>2. \A t \in Slots : devices'[t] # NoDevice => devices[t] # NoDevice
      BY <1>6, <2>1 DEF RoutesWrite, WriteRow, TypeOK
    <2>3. \A o \in Owners : OwnedBy(o)' \subseteq OwnedBy(o)
      BY <2>2 DEF OwnedBy, Slots
    <2> QED BY <1>1, <2>1, <2>3, QuotaKept
  <1>7. CASE AddAddresses(h) \/ AddCount(h)
    BY <1>2, <1>7 DEF AddAddresses, AddCount, ReadStep
  <1>8. CASE RenameGet(h) \/ RenameList(h) \/ RoutesGet(h) \/ RoutesCheck(h)
             \/ (QueryFails(h) /\ pc[h] \in Critical)
    <2>1. UNCHANGED devices
      BY <1>8 DEF RenameGet, RenameList, RoutesGet, RoutesCheck, ReadStep, QueryFails
    <2>2. pc[h] \in Critical => pc[h] \notin Unlocked
      BY DEF Critical, Unlocked
    <2>3. pc'[h] \notin Counted
      BY <1>8, <2>2 DEF RenameGet, RenameList, RoutesGet, RoutesCheck, ReadStep,
                       QueryFails, TypeOK
    <2> QED BY <1>2, <2>1, <2>3
  <1> QED BY <1>3, <1>4, <1>5, <1>6, <1>7, <1>8 DEF InsideStep

\* Every other step gives nobody a device.
LEMMA QuotaElsewhere ==
    ASSUME TypeOK, RequestInv, QuotaInv, NEW h \in Handlers,
           \/ OutsideStep(h) \/ LockMutex(h) \/ GrantDbLock(h)
           \/ AcquireDbLock(h) \/ AcquireFails(h) \/ DiscardConn(h)
           \/ ReleaseDbLock(h) \/ UnlockMutex(h)
    PROVE  QuotaInv'
  <1> DEFINE Counted == {"addAddresses", "addCount", "addWrite"}
  <1> USE DEF locks, locals, Goto
  <1>1. \A o \in Owners : UNCHANGED devices => OwnedBy(o)' \subseteq OwnedBy(o)
    BY DEF OwnedBy
  <1>2. CASE OutsideStep(h)
    <2>1. \A o \in Owners : OwnedBy(o)' \subseteq OwnedBy(o)
      BY <1>2, OutsideShrinks DEF Shrinks, OwnedBy, Slots
    <2>2. pc'[h] \notin Counted
      BY <1>2, OutsideShape DEF HoldsMutex, Critical
    <2> QED BY <1>2, <2>1, <2>2, OutsideShape, QuotaKept
  <1>3. CASE LockMutex(h) \/ AcquireDbLock(h)
    <2>1. req[h] \in LockedRequest
      BY <1>3 DEF LockMutex, AcquireDbLock, RequestInv
    <2>2. pc'[h] = "dblock" \/ pc'[h] = FirstStep[req[h].op]
      BY <1>3 DEF LockMutex, AcquireDbLock, TypeOK
    <2>3. pc'[h] \notin Counted
      BY <2>1, <2>2, LockedFirstStep
    <2>4. UNCHANGED <<devices, req>> /\ \A g \in Handlers \ {h} : pc'[g] = pc[g]
      BY <1>3 DEF LockMutex, AcquireDbLock, TypeOK
    <2> QED BY <1>1, <2>3, <2>4, QuotaKept
  <1>4. CASE AcquireFails(h) \/ DiscardConn(h) \/ ReleaseDbLock(h)
    <2>1. UNCHANGED <<devices, req>> /\ \A g \in Handlers \ {h} : pc'[g] = pc[g]
      BY <1>4 DEF AcquireFails, DiscardConn, ReleaseDbLock, TypeOK
    <2>2. pc'[h] \in {"discard", "unlock"}
      BY <1>4 DEF AcquireFails, DiscardConn, ReleaseDbLock, TypeOK
    <2> QED BY <1>1, <2>1, <2>2, QuotaKept
  <1>5. CASE GrantDbLock(h)
    <2>1. UNCHANGED <<devices, pc, req>>
      BY <1>5 DEF GrantDbLock
    <2> QED BY <1>1, <2>1, QuotaKept
  <1>6. CASE UnlockMutex(h)
    <2>1. UNCHANGED devices /\ pc'[h] = "idle"
      BY <1>6 DEF UnlockMutex, TypeOK
    <2>2. \A g \in Handlers \ {h} : pc'[g] = pc[g] /\ req'[g] = req[g]
      BY <1>6 DEF UnlockMutex, Forget, TypeOK
    <2> QED BY <1>1, <2>1, <2>2, QuotaKept
  <1> QED BY <1>2, <1>3, <1>4, <1>5, <1>6

\* QuotaInv holds as long as no lock session is lost.
LEMMA QuotaHolds == Spec => [](~dropped => QuotaInv)
  <1>1. Init => QuotaInv
    <2> SUFFICES ASSUME Init PROVE QuotaInv
      OBVIOUS
    <2>1. \A o \in Owners : OwnedBy(o) = {}
      BY DEF Init, OwnedBy, Slots
    <2>2. \A o \in Owners : Cardinality(OwnedBy(o)) = 0
      BY <2>1, FS_EmptySet
    <2> QED BY <2>2, AllocationAssumption DEF Init, QuotaInv
  <1>2. TypeOK /\ RequestInv /\ LockInv /\ (~dropped => QuotaInv) /\ [Next]_vars
            => (~dropped => QuotaInv)'
    <2> SUFFICES ASSUME TypeOK, RequestInv, LockInv, ~dropped => QuotaInv,
                        [Next]_vars, ~dropped'
                 PROVE  QuotaInv'
      OBVIOUS
    <2>1. CASE UNCHANGED vars
      <3>1. ~dropped /\ UNCHANGED <<pc, req>> /\ \A o : OwnedBy(o)' \subseteq OwnedBy(o)
        BY <2>1 DEF vars, OwnedBy
      <3> QED BY <3>1, QuotaKept
    <2>2. ASSUME NEW r \in Replicas, Crash(r) PROVE QuotaInv'
      <3>1. ~dropped /\ \A o : OwnedBy(o)' \subseteq OwnedBy(o)
        BY <2>2 DEF Crash, OwnedBy
      <3>2. \A g \in Handlers :
                pc'[g] = "idle" \/ (pc'[g] = pc[g] /\ req'[g] = req[g])
        BY <2>2 DEF Crash, TypeOK
      <3> QED BY <3>1, <3>2, QuotaKept
    <2>3. ASSUME NEW h \in Handlers,
                 StartLocked(h) \/ StartUnlocked(h) \/ Step(h)
                 \/ GrantDbLock(h) \/ DropSession(h)
          PROVE  QuotaInv'
      <3>1. CASE InsideStep(h)
        BY <3>1, InsideShape, QuotaInside
      <3>2. CASE OutsideStep(h)
        BY <3>2, OutsideShape, QuotaElsewhere
      <3>3. CASE DropSession(h)
        BY <3>3 DEF DropSession
      <3>4. CASE \/ LockMutex(h) \/ GrantDbLock(h) \/ AcquireDbLock(h)
                 \/ AcquireFails(h) \/ DiscardConn(h) \/ ReleaseDbLock(h)
                 \/ UnlockMutex(h)
        <4>1. ~dropped
          BY <3>4 DEF LockMutex, GrantDbLock, AcquireDbLock, AcquireFails,
                      DiscardConn, ReleaseDbLock, UnlockMutex
        <4> QED BY <3>4, <4>1, QuotaElsewhere
      <3> QED BY <2>3, <3>1, <3>2, <3>3, <3>4, StepKinds
    <2> QED BY <2>1, <2>2, <2>3 DEF Next
  <1> QED BY <1>1, <1>2, TypeCorrect, LockHolds, PTL DEF Spec

\* No user gets more devices than the limit, however many requests of theirs
\* run at once on however many replicas: what addDeviceLocked counted is still
\* below the limit when Save inserts the row.
THEOREM QuotaSafety == Spec => []QuotaHeld
  <1>1. (~dropped => QuotaInv) => QuotaHeld
    BY DEF QuotaInv, QuotaHeld
  <1> QED BY <1>1, QuotaHolds, PTL

-----------------------------------------------------------------------------
(* The refinement: every write of a handler is an operation of the atomic  *)
(* table in the state in which it happens.  The facts that make it so are  *)
(* the invariants above: what a handler inside the lock has read still     *)
(* holds.                                                                  *)

\* The two modules name the same rows.
LEMMA SameRows ==
    /\ Table!TableSlots = Slots
    /\ Table!Filled = Stored
  BY DEF Table!TableSlots, Table!Filled, Slots, Stored

\* The instance counts as this module does.
LEMMA SameCardinality ==
    ASSUME NEW S
    PROVE  Table!Cardinality(S) = Cardinality(S)
  BY DEF Table!Cardinality, Cardinality

\* DeviceTable counts rows, DeviceAllocation the names of one owner.
LEMMA SameCount ==
    ASSUME NEW o \in Owners
    PROVE  Cardinality(Table!DevicesOf(o)) = Cardinality(OwnedBy(o))
  <1> DEFINE S == OwnedBy(o)
             T == Table!DevicesOf(o)
             f == [n \in S |-> <<o, n>>]
  <1>1. IsFiniteSet(S)
    BY OwnedFinite
  <1>2. \A n \in S : <<o, n>> \in T
    BY SameRows DEF OwnedBy, Table!DevicesOf, Stored, Slots
  <1>3. \A t \in T : t[2] \in S /\ t = <<o, t[2]>>
    BY SameRows DEF OwnedBy, Table!DevicesOf, Stored, Slots
  <1> HIDE DEF S, T
  <1>4. f \in Bijection(S, T)
    <2>1. f \in [S -> T]
      BY <1>2
    <2>2. \A a, b \in S : f[a] = f[b] => a = b
      OBVIOUS
    <2>3. \A t \in T : \E a \in S : f[a] = t
      BY <1>3
    <2> QED BY <2>1, <2>2, <2>3
            DEF Bijection, Injection, Surjection, IsInjective
  <1>5. ExistsBijection(S, T)
    BY <1>4 DEF ExistsBijection
  <1>6. Cardinality(T) = Cardinality(S)
    BY <1>1, <1>5, FS_Bijection
  <1> QED BY <1>6 DEF S, T

\* addDeviceLocked and Save: the row that is inserted is one that Add allows.
LEMMA AddImplements ==
    ASSUME TypeOK, RequestInv, UsableInv, ~dropped => TableInv, ~dropped => QuotaInv,
           NEW h \in Handlers, AddWrite(h)
    PROVE  Table!TableNext \/ UNCHANGED Table!tableVars
  <1> DEFINE slot == req[h].slot
             key == req[h].key
             a == addr[h]
             row == [key |-> key, v4 |-> a.v4, v6 |-> a.v6, routes |-> {}]
  <1> USE DEF locks, locals, Goto
  <1>1. pc[h] = "addWrite" /\ req[h] \in AddRequest
    BY DEF AddWrite, RequestInv, AddSteps
  <1>2. slot \in Slots /\ key \in Keys /\ slot[1] \in Owners
    BY <1>1 DEF AddRequest, Slots
  <1>3. a \in Table!AddressRow
    BY DEF TypeOK, Table!AddressRow, Client4, Client6
  <1>4. CASE ~((existing[h] <=> devices[slot] # NoDevice) /\ KeyFree(slot, key))
    BY <1>4 DEF AddWrite, WriteRow, Table!tableVars
  <1>5. CASE (existing[h] <=> devices[slot] # NoDevice) /\ KeyFree(slot, key)
    <2>1. devices' = [devices EXCEPT ![slot] = row] /\ UNCHANGED dropped
      BY <1>5 DEF AddWrite, WriteRow
    <2>2. Table!NobodyElseHas(slot, key)
      BY <1>5, SameRows DEF KeyFree, Table!NobodyElseHas
    <2>3. ASSUME ~dropped PROVE devices[slot] = NoDevice
      BY <1>1, <2>3 DEF TableInv, ReadsHold
    <2>4. ASSUME ~dropped PROVE Table!AddressFree(a)
      <3>1. AddressFree(a) /\ Usable(a)
        BY <1>1, <2>4 DEF TableInv, ReadsHold, UsableInv
      <3> QED BY <3>1, SameRows DEF AddressFree, Usable, Table!AddressFree
    <2>5. ASSUME ~dropped, MaxDevicesPerUser > 0
          PROVE  Cardinality(Table!DevicesOf(slot[1])) < MaxDevicesPerUser
      <3>1. Cardinality(OwnedBy(slot[1])) < MaxDevicesPerUser
        BY <1>1, <2>5 DEF QuotaInv, Below
      <3> QED BY <1>2, <3>1, SameCount
    <2>6. Table!Add(slot, key, a)
      BY <2>1, <2>2, <2>3, <2>4, <2>5, SameCardinality DEF Table!Add
    <2> HIDE DEF slot, key, a
    <2> QED BY <1>2, <1>3, <2>6, SameRows DEF Table!TableNext
  <1> QED BY <1>4, <1>5

\* Rename moves a row to a name that is free.
LEMMA RenameImplements ==
    ASSUME TypeOK, RequestInv, NEW h \in Handlers, RenameWrite(h)
    PROVE  Table!TableNext \/ UNCHANGED Table!tableVars
  <1> DEFINE slot == req[h].slot
             name == req[h].newName
  <1>1. slot \in Slots /\ name \in Names /\ NewSlot(h) = <<slot[1], name>>
    BY DEF RenameWrite, RequestInv, RenameRequest, RenameSteps, NewSlot
  <1>2. CASE UNCHANGED devices
    BY <1>2 DEF RenameWrite, WriteRow, Table!tableVars
  <1>3. CASE ~UNCHANGED devices
    <2>1. Table!Rename(slot, name)
      BY <1>1, <1>3 DEF RenameWrite, WriteRow, Table!Rename
    <2> HIDE DEF slot, name
    <2> QED BY <1>1, <2>1, SameRows DEF Table!TableNext
  <1> QED BY <1>2, <1>3

\* SetRoutes writes networks that are still free.
LEMMA RoutesImplement ==
    ASSUME TypeOK, RequestInv, ~dropped => TableInv, NEW h \in Handlers, RoutesWrite(h)
    PROVE  Table!TableNext \/ UNCHANGED Table!tableVars
  <1> DEFINE slot == req[h].slot
             routes == req[h].routes
  <1>1. slot \in Slots /\ routes \in SUBSET Prefixes /\ pc[h] = "routesWrite"
    BY DEF RoutesWrite, RequestInv, RoutesRequest, RoutesSteps
  <1>2. CASE devices[slot] = NoDevice
    BY <1>2 DEF RoutesWrite, WriteRow, Table!tableVars
  <1>3. CASE devices[slot] # NoDevice
    <2>1. /\ devices' = [devices EXCEPT ![slot] = [@ EXCEPT !.routes = routes]]
          /\ UNCHANGED dropped
      BY <1>3 DEF RoutesWrite, WriteRow
    <2>2. ASSUME ~dropped PROVE RoutesAllowed(slot, routes)
      BY <1>1, <2>2 DEF TableInv, ReadsHold
    <2>3. Table!SetRoutes(slot, routes)
      BY <1>3, <2>1, <2>2, SameRows DEF RoutesAllowed, Overlaps, Table!SetRoutes
    <2> HIDE DEF slot, routes
    <2> QED BY <1>1, <2>3, SameRows DEF Table!TableNext
  <1> QED BY <1>2, <1>3

\* SetKeys, Delete and DeleteForOwner, which take no lock.
LEMMA OutsideImplements ==
    ASSUME TypeOK, RequestInv, NEW h \in Handlers, OutsideStep(h)
    PROVE  Table!TableNext \/ UNCHANGED Table!tableVars
  <1> USE DEF locks, locals
  <1>0. UNCHANGED dropped
    BY OutsideShape
  <1>1. CASE RotateWrite(h)
    <2> DEFINE slot == req[h].slot
               key == req[h].key
    <2>1. slot \in Slots /\ key \in Keys
      BY <1>1 DEF RotateWrite, LastWrite, RequestInv, RotateRequest, RotateSteps
    <2>2. CASE ~(devices[slot] # NoDevice /\ KeyFree(slot, key))
      BY <1>0, <1>1, <2>2 DEF RotateWrite, LastWrite, Table!tableVars
    <2>3. CASE devices[slot] # NoDevice /\ KeyFree(slot, key)
      <3>1. devices' = [devices EXCEPT ![slot] = [@ EXCEPT !.key = key]]
        BY <1>1, <2>3 DEF RotateWrite, LastWrite
      <3>2. Table!SetKeys(slot, key)
        BY <1>0, <2>3, <3>1, SameRows DEF KeyFree, Table!NobodyElseHas, Table!SetKeys
      <3> HIDE DEF slot, key
      <3> QED BY <2>1, <3>2, SameRows DEF Table!TableNext
    <2> QED BY <2>2, <2>3
  <1>2. CASE DeleteWrite(h)
    <2> DEFINE slot == req[h].slot
    <2>1. slot \in Slots /\ devices' = [devices EXCEPT ![slot] = NoDevice]
      BY <1>2 DEF DeleteWrite, LastWrite, RequestInv, DeleteRequest, DeleteSteps
    <2>2. \A s \in Slots : s = slot <=> s[1] = slot[1] /\ s[2] = slot[2]
      BY <2>1 DEF Slots
    <2> HIDE DEF slot
    <2>3. devices' = [s \in Slots |-> IF s[1] = slot[1] /\ s[2] \in {slot[2]}
                                      THEN NoDevice ELSE devices[s]]
      BY <2>1, <2>2 DEF TypeOK
    <2>4. Table!Remove(slot[1], {slot[2]})
      BY <1>0, <2>3, SameRows DEF Table!Remove
    <2>5. slot[1] \in Owners /\ {slot[2]} \in SUBSET Names
      BY <2>1 DEF Slots
    <2> QED BY <2>4, <2>5 DEF Table!TableNext
  <1>3. CASE OwnerDelete(h)
    <2>1. req[h].owner \in Owners /\ listed[h] \in SUBSET Names
      BY <1>3 DEF OwnerDelete, LastWrite, RequestInv, DeleteForOwnerRequest,
                  OwnerSteps, TypeOK
    <2>2. Table!Remove(req[h].owner, listed[h])
      BY <1>0, <1>3, SameRows DEF OwnerDelete, LastWrite, Table!Remove
    <2> QED BY <2>1, <2>2 DEF Table!TableNext
  <1>4. CASE UNCHANGED devices
    BY <1>0, <1>4 DEF Table!tableVars
  <1> QED
    BY <1>1, <1>2, <1>3, <1>4
       DEF OutsideStep, StartLocked, StartUnlocked, Start, RotateGet, RotateCheck,
           DeleteGet, CheckStep, OwnerList, QueryFails

\* Every other step leaves the table alone, or loses the session of the lock.
LEMMA OthersImplement ==
    ASSUME NEW h \in Handlers,
           \/ AddList(h) \/ AddAddresses(h) \/ AddCount(h)
           \/ RenameGet(h) \/ RenameList(h) \/ RoutesGet(h) \/ RoutesCheck(h)
           \/ QueryFails(h) \/ LockMutex(h) \/ GrantDbLock(h)
           \/ AcquireDbLock(h) \/ AcquireFails(h) \/ DiscardConn(h)
           \/ ReleaseDbLock(h) \/ UnlockMutex(h) \/ DropSession(h)
    PROVE  Table!TableNext \/ UNCHANGED Table!tableVars
  <1>1. CASE DropSession(h)
    BY <1>1 DEF DropSession, Table!LoseSession, Table!TableNext
  <1>2. CASE UNCHANGED <<devices, dropped>>
    BY <1>2 DEF Table!tableVars
  <1> QED
    BY <1>1, <1>2
       DEF AddList, AddAddresses, AddCount, RenameGet, RenameList, RoutesGet,
           RoutesCheck, ReadStep, QueryFails, LockMutex, GrantDbLock, AcquireDbLock,
           AcquireFails, DiscardConn, ReleaseDbLock, UnlockMutex, DropSession

\* The requests, which interleave statement by statement on any number of
\* replicas and lose their lock, their process or a statement at any point,
\* look to a reader of the devices table as if each of them happened at once
\* at the moment it writes: the promise of WithAllocationLock's comment.
THEOREM Refinement == Spec => ImplementsTable
  <1>1. Init => Table!TableInit
    BY SameRows DEF Init, Table!TableInit
  <1>2. TypeOK /\ RequestInv /\ UsableInv /\ (~dropped => TableInv)
        /\ (~dropped => QuotaInv) /\ [Next]_vars
            => [Table!TableNext]_(Table!tableVars)
    <2> SUFFICES ASSUME TypeOK, RequestInv, UsableInv, ~dropped => TableInv,
                        ~dropped => QuotaInv, [Next]_vars
                 PROVE  Table!TableNext \/ UNCHANGED Table!tableVars
      OBVIOUS
    <2>1. CASE UNCHANGED vars
      BY <2>1 DEF vars, Table!tableVars
    <2>2. ASSUME NEW r \in Replicas, Crash(r)
          PROVE  UNCHANGED Table!tableVars
      BY <2>2 DEF Crash, Table!tableVars
    <2>3. ASSUME NEW h \in Handlers,
                 StartLocked(h) \/ StartUnlocked(h) \/ Step(h)
                 \/ GrantDbLock(h) \/ DropSession(h)
          PROVE  Table!TableNext \/ UNCHANGED Table!tableVars
      BY <2>3, StepKinds, AddImplements, RenameImplements, RoutesImplement,
         OutsideImplements, OthersImplement DEF InsideStep
    <2> QED BY <2>1, <2>2, <2>3 DEF Next
  <1> QED BY <1>1, <1>2, TypeCorrect, UsableHolds, TableHolds, QuotaHolds, PTL
          DEF Spec, ImplementsTable, Table!TableSpec

=============================================================================
