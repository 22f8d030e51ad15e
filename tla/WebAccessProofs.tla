-------------------------- MODULE WebAccessProofs --------------------------
(***************************************************************************)
(* What WebAccess guarantees for any number of requests, sessions, tokens  *)
(* and devices, and for any mix of the operations.                         *)
(***************************************************************************)
EXTENDS WebAccess, TLAPS

\* What has been handed out and is a way in no longer.
Gone == issued \ (sessions \cup tokens)

\* Where a request is in the steps of its operation.
PlanOf(q) ==
    /\ q.step \in {"find", "list", "end"} =>
          \/ q.kind = "deleteOthers" /\ q.rest = <<>>
          \/ q.kind = "password" /\ q.rest = <<"tokens">>
    /\ q.step = "tokens" =>
          \/ q.kind = "password" /\ q.rest = <<>>
          \/ q.kind = "revoke" /\ q.rest = <<"sessions", "devices">>
          \/ q.kind = "deleteUser" /\ q.rest = <<"sessions", "devices", "forget">>
    /\ q.step = "sessions" =>
          \/ q.kind = "revoke" /\ q.rest = <<"devices">>
          \/ q.kind = "deleteUser" /\ q.rest = <<"devices", "forget">>
    /\ q.step = "devices" =>
          \/ q.kind = "revoke" /\ q.rest = <<>>
          \/ q.kind = "deleteUser" /\ q.rest = <<"forget">>
    /\ q.step = "forget" => q.kind = "deleteUser" /\ q.rest = <<>>

PlanInv == \A r \in Requests : PlanOf(request[r])

\* What an operation has taken away is gone, and what it is about to end, and
\* the credential it came with, were handed out.
GoneOf(q) ==
    /\ q.taken \subseteq Gone
    /\ q.todo \subseteq issued
    /\ q.cred \in issued \cup {None}

GoneInv ==
    /\ \A r \in Requests : GoneOf(request[r])
    /\ \A k \in CutKinds : cut[k] \subseteq Gone

\* A session that asks for the others to end is kept, or has ended already.
AskerOf(q) ==
    ~q.failed /\ q.cred \in sessions =>
        /\ q.step = "list" => q.keep = q.cred
        /\ q.step = "end" => q.cred \notin q.todo

AskerInv == \A r \in Requests : AskerOf(request[r])

\* Between the devices and the user's row, DeleteUser has left no device that
\* was added through what it took away.
ForgetInv ==
    \A r \in Requests, d \in Devices :
        At(r, "forget") /\ devices[d] = "open" /\ madeBy[d] \in request[r].taken
            => d \in late

Moves(r, q) == request' = [request EXCEPT ![r] = q]

TypeInv == TypeOK /\ PlanInv

-----------------------------------------------------------------------------
(* Types, and the plan of each operation.                                  *)

LEMMA MoveShape ==
    ASSUME TypeInv, NEW r \in Requests, NEW q \in Request, Moves(r, q)
    PROVE  /\ request' \in [Requests -> Request]
           /\ request'[r] = q
           /\ \A o \in Requests \ {r} : request'[o] = request[o]
  BY DEF TypeInv, TypeOK, Moves

LEMMA MovePlan ==
    ASSUME TypeInv, NEW r \in Requests, NEW q \in Request, Moves(r, q), PlanOf(q)
    PROVE  request' \in [Requests -> Request] /\ PlanInv'
  <1>1. /\ request' \in [Requests -> Request]
        /\ request'[r] = q
        /\ \A o \in Requests \ {r} : request'[o] = request[o]
    BY MoveShape
  <1>2. ASSUME NEW o \in Requests PROVE PlanOf(request'[o])
    <2>1. CASE o = r
      BY <1>1, <2>1
    <2>2. CASE o # r
      <3>1. request'[o] = request[o]
        BY <1>1, <2>2
      <3> QED BY <3>1 DEF TypeInv, PlanInv
    <2> QED BY <2>1, <2>2
  <1> QED BY <1>1, <1>2 DEF PlanInv

LEMMA RequestFields ==
    ASSUME TypeInv, NEW r \in Requests
    PROVE  /\ request[r] \in Request
           /\ PlanOf(request[r])
  BY DEF TypeInv, TypeOK, PlanInv

\* The record of a request without an operation.
LEMMA NoRequestShape ==
    /\ NoRequest \in Request
    /\ PlanOf(NoRequest)
    /\ NoRequest.step = "idle" /\ NoRequest.kind = "none" /\ NoRequest.cred = None
    /\ NoRequest.todo = {} /\ NoRequest.taken = {}
  <1>1. <<>> \in Seq(Step)
    OBVIOUS
  <1> QED BY <1>1 DEF NoRequest, Request, PlanOf, Step

LEMMA DoneMoves ==
    ASSUME NEW r \in Requests, Done(r)
    PROVE  Moves(r, NoRequest)
  BY DEF Done, Moves

LEMMA GotoMoves ==
    ASSUME TypeInv, NEW r \in Requests, NEW s \in Step, Goto(r, s)
    PROVE  /\ Moves(r, [request[r] EXCEPT !.step = s])
           /\ [request[r] EXCEPT !.step = s] \in Request
  <1>1. request[r] \in Request
    BY RequestFields
  <1> QED BY <1>1 DEF Goto, Moves, Request, TypeInv, TypeOK

\* The steps of the operations, written out.
LEMMA StepsShape ==
    /\ Head(Steps("deleteOthers")) = "find" /\ Tail(Steps("deleteOthers")) = <<>>
    /\ Head(Steps("password")) = "find" /\ Tail(Steps("password")) = <<"tokens">>
    /\ Head(Steps("revoke")) = "tokens" /\ Tail(Steps("revoke")) = <<"sessions", "devices">>
    /\ Head(Steps("deleteUser")) = "tokens"
    /\ Tail(Steps("deleteUser")) = <<"sessions", "devices", "forget">>
  BY DEF Steps

\* What the next step of an operation is, or that it is over.
Onward(q, n, gone) ==
    /\ q.rest # <<>>
    /\ n = [q EXCEPT !.taken = @ \cup gone, !.todo = {}, !.step = Head(q.rest), !.rest = Tail(q.rest)]

Cutting == {"list", "end", "tokens", "sessions", "devices", "forget"}

LEMMA OnwardShape ==
    ASSUME NEW q \in Request, PlanOf(q), q.step \in Cutting, q.rest # <<>>,
           NEW gone \in SUBSET Credentials, NEW n, Onward(q, n, gone)
    PROVE  /\ n \in Request /\ PlanOf(n)
           /\ n.taken = q.taken \cup gone /\ n.todo = {} /\ n.cred = q.cred /\ n.kind = q.kind
           /\ n.step \in {"tokens", "sessions", "devices", "forget"}
           /\ n.step = "forget" => q.step = "devices"
  <1>1. /\ Head(<<"tokens">>) = "tokens" /\ Tail(<<"tokens">>) = <<>>
        /\ Head(<<"sessions", "devices">>) = "sessions" /\ Tail(<<"sessions", "devices">>) = <<"devices">>
        /\ Head(<<"sessions", "devices", "forget">>) = "sessions"
        /\ Tail(<<"sessions", "devices", "forget">>) = <<"devices", "forget">>
        /\ Head(<<"devices">>) = "devices" /\ Tail(<<"devices">>) = <<>>
        /\ Head(<<"devices", "forget">>) = "devices" /\ Tail(<<"devices", "forget">>) = <<"forget">>
        /\ Head(<<"forget">>) = "forget" /\ Tail(<<"forget">>) = <<>>
    OBVIOUS
  <1>2. /\ <<>> \in Seq(Step) /\ <<"devices">> \in Seq(Step) /\ <<"forget">> \in Seq(Step)
        /\ <<"devices", "forget">> \in Seq(Step)
    BY DEF Step
  <1> DEFINE h == Head(q.rest)
             t == Tail(q.rest)
  <1>3. /\ h \in {"tokens", "sessions", "devices", "forget"} /\ t \in Seq(Step)
        /\ h = "tokens" => q.kind = "password" /\ t = <<>>
        /\ h = "sessions" => \/ q.kind = "revoke" /\ t = <<"devices">>
                             \/ q.kind = "deleteUser" /\ t = <<"devices", "forget">>
        /\ h = "devices" => \/ q.kind = "revoke" /\ t = <<>>
                            \/ q.kind = "deleteUser" /\ t = <<"forget">>
        /\ h = "forget" => q.kind = "deleteUser" /\ t = <<>> /\ q.step = "devices"
    <2>1. CASE q.step \in {"list", "end"}
      BY <2>1, <1>1, <1>2 DEF PlanOf
    <2>2. CASE q.step = "tokens"
      BY <2>2, <1>1, <1>2 DEF PlanOf
    <2>3. CASE q.step = "sessions"
      BY <2>3, <1>1, <1>2 DEF PlanOf
    <2>4. CASE q.step = "devices"
      BY <2>4, <1>1, <1>2 DEF PlanOf
    <2>5. CASE q.step = "forget"
      BY <2>5, <1>1, <1>2 DEF PlanOf
    <2> QED BY <2>1, <2>2, <2>3, <2>4, <2>5 DEF Cutting
  <1>4. n = [q EXCEPT !.taken = @ \cup gone, !.todo = {}, !.step = h, !.rest = t]
    BY DEF Onward
  <1> HIDE DEF h, t
  <1>5. /\ n \in Request
        /\ n.taken = q.taken \cup gone /\ n.todo = {} /\ n.cred = q.cred /\ n.kind = q.kind
        /\ n.step = h /\ n.rest = t
    BY <1>3, <1>4 DEF Request, Step
  <1>6. PlanOf(n)
    BY <1>3, <1>5 DEF PlanOf
  <1> QED BY <1>3, <1>5, <1>6

\* One step of an operation: what it takes away is added to what it has taken,
\* and to the account of it when it ends.
LEMMA AdvanceShape ==
    ASSUME TypeInv, NEW r \in Requests, request[r].step \in Cutting,
           NEW gone \in SUBSET Credentials, Advance(r, gone)
    PROVE  /\ request[r].kind \in CutKinds
           /\ cut' \in [CutKinds -> SUBSET Credentials]
           /\ \A k \in CutKinds :
                 \/ cut'[k] = cut[k]
                 \/ /\ k = request[r].kind /\ request[r].rest = <<>>
                    /\ cut'[k] = cut[k] \cup request[r].taken \cup gone
           /\ \E n \in Request :
                 /\ Moves(r, n) /\ PlanOf(n)
                 /\ n.taken \subseteq request[r].taken \cup gone /\ n.todo = {}
                 /\ n.cred \in {request[r].cred, None}
                 /\ n.step \in {"idle", "tokens", "sessions", "devices", "forget"}
                 /\ n.step = "forget" => request[r].step = "devices"
  <1> DEFINE q == request[r]
             p == [q EXCEPT !.taken = @ \cup gone, !.todo = {}]
  <1>1. q \in Request /\ PlanOf(q)
    BY RequestFields
  <1>2. q.kind \in CutKinds
    BY <1>1 DEF PlanOf, Cutting, CutKinds, AdminKinds
  <1>3. p.rest = q.rest /\ p.failed = q.failed /\ p.kind = q.kind /\ p.taken = q.taken \cup gone
    BY <1>1 DEF Request
  <1>4. CASE q.rest = <<>>
    <2>1. /\ Done(r)
          /\ cut' = IF q.failed THEN cut ELSE [cut EXCEPT ![q.kind] = @ \cup q.taken \cup gone]
      <3>1. /\ Done(r)
            /\ cut' = IF p.failed THEN cut ELSE [cut EXCEPT ![p.kind] = @ \cup p.taken]
        BY <1>3, <1>4 DEF Advance
      <3>2. cut[q.kind] \cup (q.taken \cup gone) = cut[q.kind] \cup q.taken \cup gone
        OBVIOUS
      <3> QED BY <3>1, <3>2, <1>3
    <2>2. Moves(r, NoRequest)
      BY <2>1, DoneMoves
    <2>3. q.taken \in SUBSET Credentials
      BY <1>1 DEF Request
    <2>4. /\ cut' \in [CutKinds -> SUBSET Credentials]
          /\ \A k \in CutKinds :
                \/ cut'[k] = cut[k]
                \/ k = q.kind /\ cut'[k] = cut[k] \cup q.taken \cup gone
      BY <2>1, <2>3, <1>2 DEF TypeInv, TypeOK
    <2> QED BY <2>2, <2>4, <1>2, <1>4, NoRequestShape
  <1>5. CASE q.rest # <<>>
    <2> DEFINE n == [q EXCEPT !.taken = @ \cup gone, !.todo = {}, !.step = Head(q.rest), !.rest = Tail(q.rest)]
    <2>1. request' = [request EXCEPT ![r] = [p EXCEPT !.step = Head(p.rest), !.rest = Tail(p.rest)]]
          /\ UNCHANGED cut
      BY <1>3, <1>5 DEF Advance
    <2>2. [p EXCEPT !.step = Head(p.rest), !.rest = Tail(p.rest)] = n
      BY <1>1, <1>3 DEF Request
    <2>3. Moves(r, n)
      BY <2>1, <2>2 DEF Moves
    <2>4. Onward(q, n, gone)
      BY <1>5 DEF Onward
    <2> HIDE DEF n, q
    <2>5. /\ n \in Request /\ PlanOf(n)
          /\ n.taken = q.taken \cup gone /\ n.todo = {} /\ n.cred = q.cred
          /\ n.step \in {"tokens", "sessions", "devices", "forget"}
          /\ n.step = "forget" => q.step = "devices"
      <3>1. q.step \in Cutting
        BY DEF q
      <3> QED BY <2>4, <3>1, <1>1, <1>5, OnwardShape
    <2>6. cut \in [CutKinds -> SUBSET Credentials] /\ cut' = cut
      BY <2>1 DEF TypeInv, TypeOK
    <2>7. request[r] = q
      BY DEF q
    <2> QED BY <2>3, <2>5, <2>6, <2>7, <1>2
  <1> QED BY <1>4, <1>5
-----------------------------------------------------------------------------
(* Nothing comes back.                                                     *)

\* What one step may do to the rows: whatever appears has a new id.
OnlyNew ==
    /\ issued \subseteq issued'
    /\ sessions' \cap issued \subseteq sessions
    /\ tokens' \cap issued \subseteq tokens

\* One request takes a step; the rest of Next is time and the cleanup.
RequestStep(r) ==
    \/ \E kind \in ApiKinds, c \in Credentials : Authenticate(r, kind, c)
    \/ Touch(r)
    \/ \E t \in Tokens : CreateToken(r, t) \/ DeleteToken(r, t)
    \/ \E d \in Devices : AddDevice(r, d)
    \/ \E s \in Sessions : DeleteSession(r, s) \/ EndOther(r, s)
                           \/ CreateSession(r, s) \/ SignOut(r, s)
    \/ Refuse(r)
    \/ DeleteOtherSessions(r) \/ ChangePassword(r) \/ FindSession(r) \/ ListOthers(r)
    \/ \E kind \in AdminKinds : StartAdmin(r, kind)
    \/ DeleteTokensForOwner(r) \/ EndAllForOwner(r)
    \/ TakeDevices(r) \/ ForgetUser(r)
    \/ \E s \in Sessions \cup {None} : SignIn(r, s)
    \/ EndPrevious(r) \/ RecordLogin(r)
    \/ StorageFails(r)

LEMMA NextSplit ==
    Next <=> \/ \E r \in Requests : RequestStep(r)
             \/ \E c \in Credentials : Expire(c)
             \/ Cleanup
  BY DEF Next, RequestStep

\* The rows that a step of a request leaves.
LEMMA RowsOfStep ==
    ASSUME TypeInv, NEW r \in Requests, RequestStep(r)
    PROVE  /\ OnlyNew
           /\ sessions' \subseteq Sessions \cap issued'
           /\ tokens' \subseteq Tokens \cap issued'
           /\ issued' \subseteq Credentials
           /\ expired' = expired
  <1> USE DEF TypeInv, TypeOK, OnlyNew, store
  <1>1. ASSUME NEW kind \in ApiKinds, NEW c \in Credentials, Authenticate(r, kind, c)
        PROVE  UNCHANGED <<sessions, tokens, issued, expired>>
    BY <1>1 DEF Authenticate
  <1>2. ASSUME Touch(r)
        PROVE  UNCHANGED <<sessions, tokens, issued, expired>>
    BY <1>2 DEF Touch, TouchRow
  <1>3. ASSUME NEW t \in Tokens, CreateToken(r, t)
        PROVE  /\ sessions' = sessions /\ tokens' = tokens \cup {t}
               /\ issued' = issued \cup {t} /\ t \notin issued /\ expired' = expired
    BY <1>3 DEF CreateToken
  <1>4. ASSUME NEW t \in Tokens, DeleteToken(r, t)
        PROVE  /\ sessions' = sessions /\ tokens' = tokens \ {t}
               /\ issued' = issued /\ expired' = expired
    BY <1>4 DEF DeleteToken
  <1>5. ASSUME NEW d \in Devices, AddDevice(r, d)
        PROVE  UNCHANGED <<sessions, tokens, issued, expired>>
    BY <1>5 DEF AddDevice
  <1>6. ASSUME NEW s \in Sessions, DeleteSession(r, s) \/ EndOther(r, s) \/ SignOut(r, s)
        PROVE  /\ sessions' = sessions \ {s} /\ tokens' = tokens
               /\ issued' = issued /\ expired' = expired
    BY <1>6 DEF DeleteSession, EndOther, SignOut
  <1>7. ASSUME NEW s \in Sessions, CreateSession(r, s)
        PROVE  /\ sessions' = sessions \cup {s} /\ tokens' = tokens
               /\ issued' = issued \cup {s} /\ s \notin issued /\ expired' = expired
    BY <1>7 DEF CreateSession
  <1>8. ASSUME Refuse(r) \/ DeleteOtherSessions(r) \/ ChangePassword(r) \/ FindSession(r)
               \/ ListOthers(r) \/ TakeDevices(r) \/ ForgetUser(r) \/ RecordLogin(r)
               \/ StorageFails(r)
        PROVE  UNCHANGED <<sessions, tokens, issued, expired>>
    BY <1>8 DEF Refuse, DeleteOtherSessions, ChangePassword, StartSteps, FindSession, ListOthers,
                TakeDevices, ForgetUser, RecordLogin, StorageFails
  <1>9. ASSUME NEW kind \in AdminKinds, StartAdmin(r, kind)
        PROVE  UNCHANGED <<sessions, tokens, issued, expired>>
    BY <1>9 DEF StartAdmin
  <1>10. ASSUME DeleteTokensForOwner(r)
         PROVE  /\ sessions' = sessions /\ tokens' = {}
                /\ issued' = issued /\ expired' = expired
    BY <1>10 DEF DeleteTokensForOwner
  <1>11. ASSUME EndAllForOwner(r)
         PROVE  /\ sessions' = {} /\ tokens' = tokens
                /\ issued' = issued /\ expired' = expired
    BY <1>11 DEF EndAllForOwner
  <1>12. ASSUME NEW s \in Sessions \cup {None}, SignIn(r, s)
         PROVE  UNCHANGED <<sessions, tokens, issued, expired>>
    BY <1>12 DEF SignIn
  <1>13. ASSUME EndPrevious(r)
         PROVE  /\ sessions' \subseteq sessions /\ tokens' = tokens
                /\ issued' = issued /\ expired' = expired
    BY <1>13 DEF EndPrevious
  <1>14. /\ sessions' \subseteq sessions \cup ((issued' \ issued) \cap Sessions)
         /\ tokens' \subseteq tokens \cup ((issued' \ issued) \cap Tokens)
         /\ issued \subseteq issued' /\ issued' \subseteq Credentials
         /\ expired' = expired
    BY <1>1, <1>2, <1>3, <1>4, <1>5, <1>6, <1>7, <1>8, <1>9, <1>10, <1>11, <1>12, <1>13
       DEF RequestStep, Credentials
  <1> QED BY <1>14

\* The same for every step.
LEMMA RowsOfNext ==
    ASSUME TypeInv, Next
    PROVE  /\ OnlyNew
           /\ sessions' \subseteq Sessions \cap issued'
           /\ tokens' \subseteq Tokens \cap issued'
           /\ issued' \subseteq Credentials
           /\ expired' \subseteq issued'
  <1>1. ASSUME NEW r \in Requests, RequestStep(r)
        PROVE  /\ OnlyNew
               /\ sessions' \subseteq Sessions \cap issued'
               /\ tokens' \subseteq Tokens \cap issued'
               /\ issued' \subseteq Credentials
               /\ expired' \subseteq issued'
    BY <1>1, RowsOfStep DEF TypeInv, TypeOK, OnlyNew
  <1>2. ASSUME NEW c \in Credentials, Expire(c)
        PROVE  UNCHANGED <<sessions, tokens, issued>> /\ expired' = expired \cup {c} /\ c \in issued
    BY <1>2 DEF Expire, store
  <1>3. ASSUME Cleanup
        PROVE  sessions' \subseteq sessions /\ UNCHANGED <<tokens, issued, expired>>
    BY <1>3 DEF Cleanup
  <1> QED BY <1>1, <1>2, <1>3, NextSplit DEF TypeInv, TypeOK, OnlyNew

LEMMA GoneGrows ==
    ASSUME OnlyNew
    PROVE  Gone \subseteq Gone'
  BY DEF OnlyNew, Gone
-----------------------------------------------------------------------------
(* What a request is after a step of it.                                   *)

Core == TypeInv /\ GoneInv /\ AskerInv

Sound(r, n) ==
    /\ Moves(r, n) /\ PlanOf(n)
    /\ n.taken \subseteq issued' \ (sessions' \cup tokens')
    /\ n.todo \subseteq issued'
    /\ n.cred \in issued' \cup {None}
    /\ ~n.failed /\ n.cred \in sessions' =>
          /\ n.step = "list" => n.keep = n.cred
          /\ n.step = "end" => n.cred \notin n.todo
    /\ n.step = "forget" => TakeDevices(r)

LEMMA CoreOf ==
    ASSUME Core, NEW r \in Requests
    PROVE  /\ request[r] \in Request
           /\ PlanOf(request[r])
           /\ request[r].taken \subseteq Gone
           /\ request[r].todo \subseteq issued
           /\ request[r].cred \in issued \cup {None}
           /\ AskerOf(request[r])
  BY RequestFields DEF Core, GoneInv, GoneOf, AskerInv

\* The request ends.
LEMMA DoneSound ==
    ASSUME NEW r \in Requests, Done(r)
    PROVE  \E n \in Request : Sound(r, n)
  BY NoRequestShape, DoneMoves DEF Sound

\* The request goes on, outside of EndOthers, with what it had taken away.
LEMMA OnSound ==
    ASSUME Core, OnlyNew, NEW r \in Requests, NEW n \in Request, Moves(r, n), PlanOf(n),
           n.taken \subseteq request[r].taken, n.todo \subseteq issued,
           n.cred \in issued \cup {None}, n.step \notin {"list", "end", "forget"}
    PROVE  \E m \in Request : Sound(r, m)
  <1>1. request[r].taken \subseteq Gone
    BY CoreOf
  <1>2. n.taken \subseteq issued' \ (sessions' \cup tokens')
    BY <1>1, GoneGrows DEF Gone
  <1>3. issued \subseteq issued'
    BY DEF OnlyNew
  <1> QED BY <1>2, <1>3 DEF Sound

\* The request takes the next step of its operation, which took "gone" away.
LEMMA AdvanceSound ==
    ASSUME Core, OnlyNew, NEW r \in Requests, request[r].step \in Cutting,
           NEW gone \in SUBSET Credentials, Advance(r, gone),
           gone \subseteq issued' \ (sessions' \cup tokens'),
           request[r].step = "devices" => TakeDevices(r)
    PROVE  \E n \in Request : Sound(r, n)
  <1>1. TypeInv
    BY DEF Core
  <1>2. PICK n \in Request :
             /\ Moves(r, n) /\ PlanOf(n)
             /\ n.taken \subseteq request[r].taken \cup gone /\ n.todo = {}
             /\ n.cred \in {request[r].cred, None}
             /\ n.step \in {"idle", "tokens", "sessions", "devices", "forget"}
             /\ n.step = "forget" => request[r].step = "devices"
    BY <1>1, AdvanceShape
  <1>3. request[r].taken \subseteq issued' \ (sessions' \cup tokens')
    BY CoreOf, GoneGrows DEF Gone
  <1>4. n.cred \in issued' \cup {None}
    BY <1>2, CoreOf DEF OnlyNew
  <1> QED BY <1>2, <1>3, <1>4 DEF Sound

LEMMA StartedShape ==
    ASSUME NEW kind \in ApiKinds \cup AdminKinds \cup {"signIn"},
           NEW c \in Credentials \cup {None}, NEW s \in Step
    PROVE  /\ Started(kind, c, s) \in Request
           /\ Started(kind, c, s).kind = kind /\ Started(kind, c, s).step = s
           /\ Started(kind, c, s).cred = c /\ Started(kind, c, s).rest = <<>>
           /\ Started(kind, c, s).taken = {} /\ Started(kind, c, s).todo = {}
  BY NoRequestShape DEF Started, NoRequest, Request

LEMMA AuthenticateSound ==
    ASSUME Core, OnlyNew, NEW r \in Requests, NEW kind \in ApiKinds, NEW c \in Credentials,
           Authenticate(r, kind, c)
    PROVE  \E n \in Request : Sound(r, n)
  <1> DEFINE n == Started(kind, c, "touch")
  <1>1. /\ n \in Request /\ n.step = "touch" /\ n.cred = c /\ n.taken = {} /\ n.todo = {}
    BY StartedShape DEF Step
  <1>2. Moves(r, n) /\ c \in issued
    BY DEF Authenticate, Valid, Moves, Core, TypeInv, TypeOK
  <1> HIDE DEF n
  <1>3. PlanOf(n)
    BY <1>1 DEF PlanOf
  <1> QED BY <1>1, <1>2, <1>3, OnSound

LEMMA SignInSound ==
    ASSUME Core, OnlyNew, NEW r \in Requests, NEW s \in Sessions \cup {None}, SignIn(r, s)
    PROVE  \E n \in Request : Sound(r, n)
  <1> DEFINE w == IF s = None THEN "create" ELSE "endPrevious"
             n == Started("signIn", s, w)
  <1>1. w \in Step /\ w \in {"create", "endPrevious"} /\ s \in Credentials \cup {None}
    BY DEF Step, Credentials
  <1> HIDE DEF w
  <1>2. /\ n \in Request /\ n.step = w /\ n.cred = s /\ n.taken = {} /\ n.todo = {}
    BY <1>1, NoRequestShape DEF Started, NoRequest, Request
  <1>3. Moves(r, n) /\ s \in issued \cup {None}
    BY DEF SignIn, Valid, Moves, Core, TypeInv, TypeOK, w
  <1> HIDE DEF n
  <1>4. PlanOf(n)
    BY <1>1, <1>2 DEF PlanOf
  <1> QED BY <1>1, <1>2, <1>3, <1>4, OnSound

LEMMA StartAdminSound ==
    ASSUME Core, OnlyNew, NEW r \in Requests, NEW kind \in AdminKinds, StartAdmin(r, kind)
    PROVE  \E n \in Request : Sound(r, n)
  <1> DEFINE h == Head(Steps(kind))
             t == Tail(Steps(kind))
             m == Started(kind, None, h)
             n == [m EXCEPT !.rest = t]
  <1>1. /\ h = "tokens"
        /\ \/ kind = "revoke" /\ t = <<"sessions", "devices">>
           \/ kind = "deleteUser" /\ t = <<"sessions", "devices", "forget">>
    BY StepsShape DEF AdminKinds
  <1>2. Moves(r, n)
    BY DEF StartAdmin, Moves
  <1> HIDE DEF h, t
  <1>3. t \in Seq(Step)
    <2>1. /\ <<"sessions", "devices">> \in Seq(Step)
          /\ <<"sessions", "devices", "forget">> \in Seq(Step)
      BY DEF Step
    <2> QED BY <1>1, <2>1
  <1>4. /\ m \in Request /\ m.kind = kind /\ m.step = h /\ m.cred = None
        /\ m.taken = {} /\ m.todo = {}
    BY <1>1, StartedShape DEF Step
  <1> HIDE DEF m
  <1>5. /\ n \in Request /\ n.kind = kind /\ n.step = h /\ n.cred = None
        /\ n.taken = {} /\ n.todo = {} /\ n.rest = t
    BY <1>3, <1>4 DEF Request
  <1> HIDE DEF n
  <1>6. PlanOf(n)
    BY <1>1, <1>5 DEF PlanOf
  <1> QED BY <1>1, <1>2, <1>5, <1>6, OnSound

\* The request only goes to another place, outside of an operation that ends
\* sessions.
LEMMA GotoSound ==
    ASSUME Core, OnlyNew, NEW r \in Requests, NEW s \in {"act", "create", "record"}, Goto(r, s)
    PROVE  \E n \in Request : Sound(r, n)
  <1> DEFINE q == request[r]
             n == [q EXCEPT !.step = s]
  <1>1. s \in Step /\ TypeInv
    BY DEF Step, Core
  <1>2. Moves(r, n) /\ n \in Request
    BY <1>1, GotoMoves
  <1>3. q \in Request /\ q.todo \subseteq issued /\ q.cred \in issued \cup {None}
    BY CoreOf
  <1>4. n.step = s /\ n.taken = q.taken /\ n.todo = q.todo /\ n.cred = q.cred
    BY <1>3 DEF Request
  <1> HIDE DEF n
  <1>5. PlanOf(n)
    BY <1>4 DEF PlanOf
  <1> QED BY <1>2, <1>3, <1>4, <1>5, OnSound

LEMMA StartStepsSound ==
    ASSUME Core, OnlyNew, NEW r \in Requests, NEW kind \in {"deleteOthers", "password"},
           StartSteps(r, kind)
    PROVE  \E n \in Request : Sound(r, n)
  <1> DEFINE q == request[r]
             h == Head(Steps(q.kind))
             t == Tail(Steps(q.kind))
             n == [q EXCEPT !.step = h, !.rest = t]
  <1>1. q \in Request /\ q.todo \subseteq issued /\ q.cred \in issued \cup {None}
    BY CoreOf
  <1>2. q.kind = kind
    BY DEF StartSteps
  <1>3. /\ h = "find"
        /\ \/ kind = "deleteOthers" /\ t = <<>>
           \/ kind = "password" /\ t = <<"tokens">>
    BY <1>2, StepsShape
  <1>4. request' = [request EXCEPT ![r].step = h, ![r].rest = t]
    BY DEF StartSteps
  <1> HIDE DEF h, t
  <1>5. t \in Seq(Step) /\ h \in Step
    <2>1. <<>> \in Seq(Step) /\ <<"tokens">> \in Seq(Step) /\ "find" \in Step
      BY DEF Step
    <2> QED BY <1>3, <2>1
  <1>6. Moves(r, n)
    BY <1>4 DEF Moves, Core, TypeInv, TypeOK
  <1>7. /\ n \in Request /\ n.step = h /\ n.rest = t /\ n.kind = kind
        /\ n.taken = q.taken /\ n.todo = q.todo /\ n.cred = q.cred
    BY <1>1, <1>2, <1>5 DEF Request
  <1> HIDE DEF n
  <1>8. PlanOf(n)
    BY <1>3, <1>7 DEF PlanOf
  <1> QED BY <1>1, <1>3, <1>6, <1>7, <1>8, OnSound
\* FindSession: the session to keep is the one that asks, or it has ended.
LEMMA FindSound ==
    ASSUME Core, OnlyNew, NEW r \in Requests, FindSession(r)
    PROVE  \E n \in Request : Sound(r, n)
  <1> DEFINE q == request[r]
  <1>1. /\ q \in Request /\ PlanOf(q) /\ q.taken \subseteq Gone
        /\ q.todo \subseteq issued /\ q.cred \in issued \cup {None}
    BY CoreOf
  <1>2. q.step = "find" /\ UNCHANGED <<sessions, tokens, issued>>
    BY DEF FindSession, At, store
  <1>3. q.taken \subseteq issued' \ (sessions' \cup tokens')
    BY <1>1, <1>2 DEF Gone
  <1>4. "list" \in Step /\ TypeInv
    BY DEF Step, Core
  <1>5. CASE q.cred \in sessions
    <2> DEFINE n == [q EXCEPT !.step = "list", !.keep = q.cred]
    <2>1. request' = [request EXCEPT ![r].step = "list", ![r].keep = q.cred]
      BY <1>5 DEF FindSession
    <2>2. Moves(r, n)
      BY <2>1 DEF Moves, Core, TypeInv, TypeOK
    <2>3. q.cred \in Sessions
      BY <1>5, <1>4 DEF TypeInv, TypeOK
    <2>4. /\ n \in Request /\ n.step = "list" /\ n.rest = q.rest /\ n.kind = q.kind
          /\ n.taken = q.taken /\ n.todo = q.todo /\ n.cred = q.cred /\ n.keep = q.cred
      BY <1>1, <1>4, <2>3 DEF Request
    <2> HIDE DEF n
    <2>5. PlanOf(n)
      BY <1>1, <1>2, <2>4 DEF PlanOf
    <2> QED BY <1>1, <1>2, <1>3, <2>2, <2>4, <2>5 DEF Sound
  <1>6. CASE q.cred \notin sessions /\ q.kind = "deleteOthers"
    <2>1. Done(r)
      BY <1>6 DEF FindSession
    <2> QED BY <2>1, DoneSound
  <1>7. CASE q.cred \notin sessions /\ q.kind # "deleteOthers"
    <2> DEFINE n == [q EXCEPT !.step = "list"]
    <2>1. Goto(r, "list")
      BY <1>7 DEF FindSession
    <2>2. Moves(r, n) /\ n \in Request
      BY <1>4, <2>1, GotoMoves
    <2>3. /\ n.step = "list" /\ n.rest = q.rest /\ n.kind = q.kind
          /\ n.taken = q.taken /\ n.todo = q.todo /\ n.cred = q.cred
      BY <1>1 DEF Request
    <2> HIDE DEF n
    <2>4. PlanOf(n)
      BY <1>1, <1>2, <2>3 DEF PlanOf
    <2> QED BY <1>1, <1>2, <1>3, <1>7, <2>2, <2>3, <2>4 DEF Sound
  <1> QED BY <1>5, <1>6, <1>7

LEMMA ListSound ==
    ASSUME Core, OnlyNew, NEW r \in Requests, ListOthers(r)
    PROVE  \E n \in Request : Sound(r, n)
  <1> DEFINE q == request[r]
             others == sessions \ {q.keep}
  <1>1. /\ q \in Request /\ PlanOf(q) /\ q.taken \subseteq Gone /\ AskerOf(q)
        /\ q.todo \subseteq issued /\ q.cred \in issued \cup {None}
    BY CoreOf
  <1>2. q.step = "list" /\ UNCHANGED <<sessions, tokens, issued>>
    BY DEF ListOthers, At
  <1>3. q.taken \subseteq issued' \ (sessions' \cup tokens')
    BY <1>1, <1>2 DEF Gone
  <1>4. CASE others = {}
    <2>1. Advance(r, {})
      BY <1>4 DEF ListOthers
    <2>2. request[r].step \in Cutting /\ request[r].step # "devices"
      BY <1>2 DEF Cutting
    <2> QED BY <2>1, <2>2, AdvanceSound
  <1>5. CASE others # {}
    <2> DEFINE n == [q EXCEPT !.step = "end", !.todo = others]
    <2>1. request' = [request EXCEPT ![r].step = "end", ![r].todo = others]
      BY <1>5 DEF ListOthers
    <2>2. Moves(r, n)
      BY <2>1 DEF Moves, Core, TypeInv, TypeOK
    <2>3. "end" \in Step /\ others \in SUBSET Sessions /\ others \subseteq issued
      BY DEF Step, Core, TypeInv, TypeOK
    <2>4. ~q.failed /\ q.cred \in sessions => q.cred \notin others
      BY <1>1, <1>2 DEF AskerOf
    <2> HIDE DEF others
    <2>5. /\ n \in Request /\ n.step = "end" /\ n.rest = q.rest /\ n.kind = q.kind
          /\ n.taken = q.taken /\ n.todo = others /\ n.cred = q.cred /\ n.failed = q.failed
      BY <1>1, <2>3 DEF Request
    <2> HIDE DEF n
    <2>6. PlanOf(n)
      BY <1>1, <1>2, <2>5 DEF PlanOf
    <2> QED BY <1>1, <1>2, <1>3, <2>2, <2>3, <2>4, <2>5, <2>6 DEF Sound
  <1> QED BY <1>4, <1>5

LEMMA EndSound ==
    ASSUME Core, OnlyNew, NEW r \in Requests, NEW s \in Sessions, EndOther(r, s)
    PROVE  \E n \in Request : Sound(r, n)
  <1> DEFINE q == request[r]
  <1>1. /\ q \in Request /\ PlanOf(q) /\ q.taken \subseteq Gone /\ AskerOf(q)
        /\ q.todo \subseteq issued /\ q.cred \in issued \cup {None}
    BY CoreOf
  <1>2. /\ q.step = "end" /\ s \in q.todo
        /\ sessions' = sessions \ {s} /\ UNCHANGED <<tokens, issued>>
    BY DEF EndOther, At
  <1>3. {s} \subseteq issued' \ (sessions' \cup tokens')
    BY <1>1, <1>2, AccessAssumption DEF Core, TypeInv, TypeOK
  <1>4. CASE q.todo = {s}
    <2>1. Advance(r, {s})
      BY <1>4 DEF EndOther
    <2>2. request[r].step \in Cutting /\ request[r].step # "devices"
      BY <1>2 DEF Cutting
    <2>3. {s} \in SUBSET Credentials
      BY DEF Credentials
    <2> QED BY <2>1, <2>2, <2>3, <1>3, AdvanceSound
  <1>5. CASE q.todo # {s}
    <2> DEFINE n == [q EXCEPT !.todo = @ \ {s}, !.taken = @ \cup {s}]
    <2>1. request' = [request EXCEPT ![r].todo = @ \ {s}, ![r].taken = @ \cup {s}]
      BY <1>5 DEF EndOther
    <2>2. Moves(r, n)
      BY <2>1 DEF Moves, Core, TypeInv, TypeOK
    <2>3. /\ n \in Request /\ n.step = "end" /\ n.rest = q.rest /\ n.kind = q.kind
          /\ n.taken = q.taken \cup {s} /\ n.todo = q.todo \ {s} /\ n.cred = q.cred
          /\ n.failed = q.failed
      BY <1>1, <1>2 DEF Request, Credentials
    <2> HIDE DEF n
    <2>4. PlanOf(n)
      BY <1>1, <1>2, <2>3 DEF PlanOf
    <2>5. ~q.failed /\ q.cred \in sessions => q.cred \notin q.todo
      BY <1>1, <1>2 DEF AskerOf
    <2>6. q.taken \subseteq issued' \ (sessions' \cup tokens')
      BY <1>1, GoneGrows DEF Gone
    <2> QED BY <1>1, <1>2, <1>3, <2>2, <2>3, <2>4, <2>5, <2>6 DEF Sound
  <1> QED BY <1>4, <1>5

\* The steps that take the tokens, the sessions, the devices and the row.
LEMMA TakeSound ==
    ASSUME Core, OnlyNew, NEW r \in Requests,
           DeleteTokensForOwner(r) \/ EndAllForOwner(r) \/ TakeDevices(r) \/ ForgetUser(r)
    PROVE  \E n \in Request : Sound(r, n)
  <1>1. CASE DeleteTokensForOwner(r)
    <2>1. Advance(r, tokens) /\ request[r].step \in Cutting /\ request[r].step # "devices"
      BY <1>1 DEF DeleteTokensForOwner, At, Cutting
    <2>2. tokens \in SUBSET Credentials /\ tokens \subseteq issued' \ (sessions' \cup tokens')
      BY <1>1, AccessAssumption DEF DeleteTokensForOwner, Core, TypeInv, TypeOK, Credentials
    <2> QED BY <2>1, <2>2, AdvanceSound
  <1>2. CASE EndAllForOwner(r)
    <2>1. Advance(r, sessions) /\ request[r].step \in Cutting /\ request[r].step # "devices"
      BY <1>2 DEF EndAllForOwner, At, Cutting
    <2>2. sessions \in SUBSET Credentials /\ sessions \subseteq issued' \ (sessions' \cup tokens')
      BY <1>2, AccessAssumption DEF EndAllForOwner, Core, TypeInv, TypeOK, Credentials
    <2> QED BY <2>1, <2>2, AdvanceSound
  <1>3. CASE TakeDevices(r) \/ ForgetUser(r)
    <2>1. /\ Advance(r, {}) /\ request[r].step \in Cutting
          /\ request[r].step = "devices" => TakeDevices(r)
      BY <1>3 DEF TakeDevices, ForgetUser, At, Cutting
    <2> QED BY <2>1, AdvanceSound
  <1> QED BY <1>1, <1>2, <1>3

LEMMA FailsSound ==
    ASSUME Core, OnlyNew, NEW r \in Requests, StorageFails(r)
    PROVE  \E n \in Request : Sound(r, n)
  <1> DEFINE q == request[r]
             n == AfterError(r)
  <1>1. /\ q \in Request /\ PlanOf(q) /\ q.taken \subseteq Gone
        /\ q.todo \subseteq issued /\ q.cred \in issued \cup {None}
    BY CoreOf
  <1>2. Moves(r, n) /\ UNCHANGED <<sessions, tokens, issued>>
    BY DEF StorageFails, Moves, store
  <1>3. q.taken \subseteq issued' \ (sessions' \cup tokens')
    BY <1>1, <1>2 DEF Gone
  <1>4. \/ q.step = "touch" /\ n = [q EXCEPT !.step = "act"]
        \/ q.step = "endPrevious" /\ n = [q EXCEPT !.step = "create"]
        \/ /\ q.kind = "password" /\ q.step = "find"
           /\ n = [q EXCEPT !.step = "list", !.failed = TRUE]
        \/ /\ q.kind = "password" /\ q.step \in {"list", "end"}
           /\ n = [q EXCEPT !.step = "tokens", !.rest = <<>>, !.todo = {}, !.failed = TRUE]
        \/ n = NoRequest
    BY DEF AfterError, At
  <1> HIDE DEF n
  <1>5. CASE q.step = "touch" /\ n = [q EXCEPT !.step = "act"]
    <2>1. /\ n \in Request /\ n.step = "act" /\ n.taken = q.taken /\ n.todo = q.todo
          /\ n.cred = q.cred
      BY <1>1, <1>5 DEF Request, Step
    <2>2. PlanOf(n)
      BY <2>1 DEF PlanOf
    <2> QED BY <1>1, <1>2, <2>1, <2>2, OnSound
  <1>6. CASE q.step = "endPrevious" /\ n = [q EXCEPT !.step = "create"]
    <2>1. /\ n \in Request /\ n.step = "create" /\ n.taken = q.taken /\ n.todo = q.todo
          /\ n.cred = q.cred
      BY <1>1, <1>6 DEF Request, Step
    <2>2. PlanOf(n)
      BY <2>1 DEF PlanOf
    <2> QED BY <1>1, <1>2, <2>1, <2>2, OnSound
  <1>7. CASE /\ q.kind = "password" /\ q.step = "find"
             /\ n = [q EXCEPT !.step = "list", !.failed = TRUE]
    <2>1. /\ n \in Request /\ n.step = "list" /\ n.taken = q.taken /\ n.todo = q.todo
          /\ n.cred = q.cred /\ n.rest = q.rest /\ n.kind = q.kind /\ n.failed
      BY <1>1, <1>7 DEF Request, Step
    <2>2. PlanOf(n)
      BY <1>1, <1>7, <2>1 DEF PlanOf
    <2> QED BY <1>1, <1>2, <1>3, <2>1, <2>2 DEF Sound
  <1>8. CASE /\ q.kind = "password" /\ q.step \in {"list", "end"}
             /\ n = [q EXCEPT !.step = "tokens", !.rest = <<>>, !.todo = {}, !.failed = TRUE]
    <2>1. <<>> \in Seq(Step) /\ "tokens" \in Step
      BY DEF Step
    <2>2. /\ n \in Request /\ n.step = "tokens" /\ n.taken = q.taken /\ n.todo = {}
          /\ n.cred = q.cred /\ n.rest = <<>> /\ n.kind = "password"
      BY <1>1, <1>8, <2>1 DEF Request
    <2>3. PlanOf(n)
      BY <2>2 DEF PlanOf
    <2> QED BY <1>1, <1>2, <2>2, <2>3, OnSound
  <1>9. CASE n = NoRequest
    BY <1>2, <1>9, NoRequestShape DEF Sound
  <1> QED BY <1>4, <1>5, <1>6, <1>7, <1>8, <1>9

\* Every step of a request, but signing out, which is one step only.
LEMMA StepSound ==
    ASSUME Core, NEW r \in Requests, RequestStep(r)
    PROVE  (\E n \in Request : Sound(r, n)) \/ \E s \in Sessions : SignOut(r, s)
  <1>1. OnlyNew
    BY RowsOfStep DEF Core
  <1>2. ASSUME NEW t \in Tokens, CreateToken(r, t) \/ DeleteToken(r, t)
        PROVE  \E n \in Request : Sound(r, n)
    BY <1>2, DoneSound DEF CreateToken, DeleteToken
  <1>3. ASSUME NEW d \in Devices, AddDevice(r, d)
        PROVE  \E n \in Request : Sound(r, n)
    BY <1>3, DoneSound DEF AddDevice
  <1>4. ASSUME NEW s \in Sessions, DeleteSession(r, s)
        PROVE  \E n \in Request : Sound(r, n)
    BY <1>4, DoneSound DEF DeleteSession
  <1>5. ASSUME NEW s \in Sessions, CreateSession(r, s)
        PROVE  \E n \in Request : Sound(r, n)
    <2>1. Goto(r, "record")
      BY <1>5 DEF CreateSession
    <2> QED BY <1>1, <2>1, GotoSound
  <1>6. ASSUME Touch(r)
        PROVE  \E n \in Request : Sound(r, n)
    <2>1. Goto(r, "act")
      BY <1>6 DEF Touch
    <2> QED BY <1>1, <2>1, GotoSound
  <1>7. ASSUME EndPrevious(r)
        PROVE  \E n \in Request : Sound(r, n)
    <2>1. Goto(r, "create")
      BY <1>7 DEF EndPrevious
    <2> QED BY <1>1, <2>1, GotoSound
  <1>8. ASSUME Refuse(r) \/ RecordLogin(r)
        PROVE  \E n \in Request : Sound(r, n)
    BY <1>8, DoneSound DEF Refuse, RecordLogin
  <1>9. ASSUME DeleteOtherSessions(r) \/ ChangePassword(r)
        PROVE  \E n \in Request : Sound(r, n)
    <2>1. StartSteps(r, "deleteOthers") \/ StartSteps(r, "password")
      BY <1>9 DEF DeleteOtherSessions, ChangePassword
    <2> QED BY <1>1, <2>1, StartStepsSound
  <1>10. ASSUME FindSession(r)
         PROVE  \E n \in Request : Sound(r, n)
    BY <1>1, <1>10, FindSound
  <1>11. ASSUME ListOthers(r)
         PROVE  \E n \in Request : Sound(r, n)
    BY <1>1, <1>11, ListSound
  <1>12. ASSUME NEW s \in Sessions, EndOther(r, s)
         PROVE  \E n \in Request : Sound(r, n)
    BY <1>1, <1>12, EndSound
  <1>13. ASSUME DeleteTokensForOwner(r) \/ EndAllForOwner(r) \/ TakeDevices(r) \/ ForgetUser(r)
         PROVE  \E n \in Request : Sound(r, n)
    BY <1>1, <1>13, TakeSound
  <1>14. ASSUME StorageFails(r)
         PROVE  \E n \in Request : Sound(r, n)
    BY <1>1, <1>14, FailsSound
  <1>15. ASSUME NEW kind \in ApiKinds, NEW c \in Credentials, Authenticate(r, kind, c)
         PROVE  \E n \in Request : Sound(r, n)
    BY <1>1, <1>15, AuthenticateSound
  <1>16. ASSUME NEW kind \in AdminKinds, StartAdmin(r, kind)
         PROVE  \E n \in Request : Sound(r, n)
    BY <1>1, <1>16, StartAdminSound
  <1>17. ASSUME NEW s \in Sessions \cup {None}, SignIn(r, s)
         PROVE  \E n \in Request : Sound(r, n)
    BY <1>1, <1>17, SignInSound
  <1> QED BY <1>2, <1>3, <1>4, <1>5, <1>6, <1>7, <1>8, <1>9, <1>10, <1>11, <1>12, <1>13,
             <1>14, <1>15, <1>16, <1>17 DEF RequestStep
-----------------------------------------------------------------------------
(* What a step makes, and what an operation leaves when it ends.           *)

\* Whatever a step makes was made through a way in, or is late.
Made ==
    /\ devices' \in [Devices -> {"none", "open", "blocked"}]
    /\ madeBy' \in [Tokens \cup Devices -> Credentials \cup {None}]
    /\ late' \subseteq Tokens \cup Devices
    /\ \A d \in Devices : devices'[d] = "open" =>
          \/ devices[d] = "open" /\ madeBy'[d] = madeBy[d] /\ (d \in late => d \in late')
          \/ madeBy'[d] \notin Gone' \/ d \in late'
    /\ \A t \in tokens' :
          \/ t \in tokens /\ madeBy'[t] = madeBy[t] /\ (t \in late => t \in late')
          \/ madeBy'[t] \notin Gone' \/ t \in late'

\* What is added to the account of an operation when it ends without an error.
Ledger ==
    \A k \in CutKinds :
        \/ cut'[k] = cut[k]
        \/ k = "deleteOthers"
        \/ k = "password" /\ tokens' = {}
        \/ k = "revoke" /\ \A d \in Devices : devices'[d] # "open"
        \/ /\ k = "deleteUser" /\ UNCHANGED <<devices, madeBy, late>>
           /\ \E r \in Requests : At(r, "forget") /\ cut'[k] = cut[k] \cup request[r].taken

LEMMA MakeShape ==
    ASSUME TypeInv, NEW x \in Tokens \cup Devices, NEW c \in Credentials \cup {None}, Make(x, c)
    PROVE  /\ madeBy' \in [Tokens \cup Devices -> Credentials \cup {None}]
           /\ madeBy'[x] = c
           /\ \A y \in (Tokens \cup Devices) \ {x} :
                 madeBy'[y] = madeBy[y] /\ (y \in late <=> y \in late')
           /\ late' \subseteq Tokens \cup Devices
           /\ c \in sessions \cup tokens \/ x \in late'
  BY DEF TypeInv, TypeOK, Make

LEMMA MadeOfToken ==
    ASSUME Core, NEW r \in Requests, NEW t \in Tokens, CreateToken(r, t)
    PROVE  Made
  <1> DEFINE c == request[r].cred
  <1>1. TypeInv /\ c \in Credentials \cup {None}
    BY CoreOf DEF Core, Request
  <1>2. /\ tokens' = tokens \cup {t} /\ sessions' = sessions /\ devices' = devices
        /\ Make(t, c)
    BY DEF CreateToken
  <1> HIDE DEF c
  <1>3. t \in Tokens \cup Devices
    OBVIOUS
  <1>4. /\ madeBy' \in [Tokens \cup Devices -> Credentials \cup {None}]
        /\ madeBy'[t] = c
        /\ \A y \in (Tokens \cup Devices) \ {t} :
              madeBy'[y] = madeBy[y] /\ (y \in late <=> y \in late')
        /\ late' \subseteq Tokens \cup Devices
        /\ c \in sessions \cup tokens \/ t \in late'
    BY <1>1, <1>2, <1>3, MakeShape
  <1>5. c \in sessions \cup tokens => c \notin Gone'
    BY <1>2 DEF Gone
  <1>6. devices' \in [Devices -> {"none", "open", "blocked"}] /\ tokens \subseteq Tokens
    BY <1>1, <1>2 DEF TypeInv, TypeOK
  <1>7. ASSUME NEW d \in Devices
        PROVE  madeBy'[d] = madeBy[d] /\ (d \in late => d \in late')
    <2>1. d \in (Tokens \cup Devices) \ {t}
      BY AccessAssumption
    <2> QED BY <1>4, <2>1
  <1>8. ASSUME NEW y \in tokens'
        PROVE  \/ y \in tokens /\ madeBy'[y] = madeBy[y] /\ (y \in late => y \in late')
               \/ madeBy'[y] \notin Gone' \/ y \in late'
    <2>1. CASE y = t
      BY <1>4, <1>5, <2>1
    <2>2. CASE y # t
      BY <1>2, <1>4, <1>6, <2>2
    <2> QED BY <2>1, <2>2
  <1> QED BY <1>2, <1>4, <1>6, <1>7, <1>8 DEF Made

LEMMA MadeOfDevice ==
    ASSUME Core, NEW r \in Requests, NEW d \in Devices, AddDevice(r, d)
    PROVE  Made
  <1> DEFINE c == request[r].cred
  <1>1. TypeInv /\ c \in Credentials \cup {None}
    BY CoreOf DEF Core, Request
  <1>2. /\ tokens' = tokens /\ sessions' = sessions
        /\ devices' = [devices EXCEPT ![d] = "open"]
        /\ Make(d, c)
    BY DEF AddDevice
  <1> HIDE DEF c
  <1>3. d \in Tokens \cup Devices
    OBVIOUS
  <1>4. /\ madeBy' \in [Tokens \cup Devices -> Credentials \cup {None}]
        /\ madeBy'[d] = c
        /\ \A y \in (Tokens \cup Devices) \ {d} :
              madeBy'[y] = madeBy[y] /\ (y \in late <=> y \in late')
        /\ late' \subseteq Tokens \cup Devices
        /\ c \in sessions \cup tokens \/ d \in late'
    BY <1>1, <1>2, <1>3, MakeShape
  <1>5. c \in sessions \cup tokens => c \notin Gone'
    BY <1>2 DEF Gone
  <1>6. /\ devices' \in [Devices -> {"none", "open", "blocked"}] /\ tokens \subseteq Tokens
        /\ \A e \in Devices \ {d} : devices'[e] = devices[e]
    BY <1>1, <1>2 DEF TypeInv, TypeOK
  <1>7. ASSUME NEW t \in tokens'
        PROVE  t \in tokens /\ madeBy'[t] = madeBy[t] /\ (t \in late => t \in late')
    <2>1. t \in (Tokens \cup Devices) \ {d}
      BY <1>2, <1>6, AccessAssumption
    <2> QED BY <1>2, <1>4, <2>1
  <1>8. ASSUME NEW e \in Devices, devices'[e] = "open"
        PROVE  \/ devices[e] = "open" /\ madeBy'[e] = madeBy[e] /\ (e \in late => e \in late')
               \/ madeBy'[e] \notin Gone' \/ e \in late'
    <2>1. CASE e = d
      BY <1>4, <1>5, <2>1
    <2>2. CASE e # d
      BY <1>4, <1>6, <1>8, <2>2
    <2> QED BY <2>1, <2>2
  <1> QED BY <1>4, <1>6, <1>7, <1>8 DEF Made

\* A step that makes nothing.
LEMMA MadeNothing ==
    ASSUME TypeInv, tokens' \subseteq tokens, madeBy' = madeBy, late' = late,
           devices' \in [Devices -> {"none", "open", "blocked"}],
           \A d \in Devices : devices'[d] = "open" => devices[d] = "open"
    PROVE  Made
  BY DEF Made, TypeInv, TypeOK

LEMMA MadeOfStep ==
    ASSUME Core, NEW r \in Requests, RequestStep(r)
    PROVE  Made
  <1>1. TypeInv
    BY DEF Core
  <1>2. /\ devices \in [Devices -> {"none", "open", "blocked"}]
        /\ devices' = devices => devices' \in [Devices -> {"none", "open", "blocked"}]
    BY <1>1 DEF TypeInv, TypeOK
  <1>3. ASSUME tokens' \subseteq tokens, UNCHANGED <<devices, madeBy, late>>
        PROVE  Made
    BY <1>1, <1>2, <1>3, MadeNothing
  <1>4. ASSUME NEW kind \in ApiKinds, NEW c \in Credentials, Authenticate(r, kind, c)
        PROVE  Made
    BY <1>3, <1>4 DEF Authenticate, store
  <1>5. ASSUME Touch(r)
        PROVE  Made
    BY <1>3, <1>5 DEF Touch, TouchRow
  <1>6. ASSUME NEW t \in Tokens, CreateToken(r, t)
        PROVE  Made
    BY <1>6, MadeOfToken
  <1>7. ASSUME NEW t \in Tokens, DeleteToken(r, t)
        PROVE  Made
    BY <1>3, <1>7 DEF DeleteToken
  <1>8. ASSUME NEW d \in Devices, AddDevice(r, d)
        PROVE  Made
    BY <1>8, MadeOfDevice
  <1>9. ASSUME NEW s \in Sessions, DeleteSession(r, s) \/ EndOther(r, s) \/ CreateSession(r, s)
                                   \/ SignOut(r, s)
        PROVE  Made
    BY <1>3, <1>9 DEF DeleteSession, EndOther, CreateSession, SignOut
  <1>10. ASSUME Refuse(r) \/ DeleteOtherSessions(r) \/ ChangePassword(r) \/ FindSession(r)
                \/ ListOthers(r) \/ ForgetUser(r) \/ EndPrevious(r) \/ RecordLogin(r)
                \/ StorageFails(r) \/ DeleteTokensForOwner(r) \/ EndAllForOwner(r)
         PROVE  Made
    BY <1>3, <1>10 DEF Refuse, DeleteOtherSessions, ChangePassword, StartSteps, FindSession,
                       ListOthers, ForgetUser, EndPrevious, RecordLogin, StorageFails,
                       DeleteTokensForOwner, EndAllForOwner, store
  <1>11. ASSUME NEW kind \in AdminKinds, StartAdmin(r, kind)
         PROVE  Made
    BY <1>3, <1>11 DEF StartAdmin, store
  <1>12. ASSUME NEW s \in Sessions \cup {None}, SignIn(r, s)
         PROVE  Made
    BY <1>3, <1>12 DEF SignIn, store
  <1>13. ASSUME TakeDevices(r)
         PROVE  Made
    <2>1. /\ UNCHANGED <<tokens, madeBy, late>>
          /\ devices' = [d \in Devices |->
                            IF request[r].kind = "deleteUser" THEN "none"
                            ELSE IF devices[d] = "open" THEN "blocked" ELSE devices[d]]
      BY <1>13 DEF TakeDevices
    <2>2. /\ devices' \in [Devices -> {"none", "open", "blocked"}]
          /\ \A d \in Devices : devices'[d] # "open"
      BY <1>2, <2>1
    <2> QED BY <1>1, <2>1, <2>2, MadeNothing
  <1> QED BY <1>4, <1>5, <1>6, <1>7, <1>8, <1>9, <1>10, <1>11, <1>12, <1>13 DEF RequestStep

\* An operation ends with what it has taken away being gone.
LEMMA AdvanceLedger ==
    ASSUME Core, OnlyNew, NEW r \in Requests, request[r].step \in Cutting,
           NEW gone \in SUBSET Credentials, Advance(r, gone),
           gone \subseteq issued' \ (sessions' \cup tokens'),
           \/ request[r].step \in {"list", "end"} \/ request[r].rest # <<>>
           \/ request[r].step = "tokens" /\ tokens' = {}
           \/ request[r].step = "devices" /\ \A d \in Devices : devices'[d] # "open"
           \/ request[r].step = "forget" /\ gone = {} /\ UNCHANGED <<devices, madeBy, late>>
    PROVE  /\ cut' \in [CutKinds -> SUBSET Credentials]
           /\ \A k \in CutKinds : cut'[k] \subseteq Gone'
           /\ Ledger
  <1>1. TypeInv
    BY DEF Core
  <1>2. /\ request[r].kind \in CutKinds
        /\ cut' \in [CutKinds -> SUBSET Credentials]
        /\ \A k \in CutKinds :
              \/ cut'[k] = cut[k]
              \/ /\ k = request[r].kind /\ request[r].rest = <<>>
                 /\ cut'[k] = cut[k] \cup request[r].taken \cup gone
    BY <1>1, AdvanceShape
  <1>3. PlanOf(request[r]) /\ request[r].taken \subseteq Gone
    BY CoreOf
  <1>4. \A k \in CutKinds : cut[k] \subseteq Gone
    BY DEF Core, GoneInv
  <1>5. Gone \subseteq Gone' /\ gone \subseteq Gone'
    BY GoneGrows DEF Gone
  <1>6. \A k \in CutKinds : cut'[k] \subseteq Gone'
    BY <1>2, <1>3, <1>4, <1>5
  <1>7. ASSUME NEW k \in CutKinds, cut'[k] # cut[k]
        PROVE  \/ k = "deleteOthers"
               \/ k = "password" /\ tokens' = {}
               \/ k = "revoke" /\ \A d \in Devices : devices'[d] # "open"
               \/ /\ k = "deleteUser" /\ UNCHANGED <<devices, madeBy, late>>
                  /\ \E o \in Requests : At(o, "forget") /\ cut'[k] = cut[k] \cup request[o].taken
    <2>1. /\ k = request[r].kind /\ request[r].rest = <<>>
          /\ cut'[k] = cut[k] \cup request[r].taken \cup gone
      BY <1>2, <1>7
    <2>2. /\ <<"tokens">> # <<>> /\ <<"forget">> # <<>> /\ <<"devices">> # <<>>
          /\ <<"sessions", "devices">> # <<>> /\ <<"devices", "forget">> # <<>>
          /\ <<"sessions", "devices", "forget">> # <<>>
      OBVIOUS
    <2>3. CASE request[r].step \in {"list", "end"}
      BY <1>3, <2>1, <2>2, <2>3 DEF PlanOf
    <2>4. CASE request[r].step = "tokens" /\ tokens' = {}
      BY <1>3, <2>1, <2>2, <2>4 DEF PlanOf
    <2>5. CASE request[r].step = "devices" /\ \A d \in Devices : devices'[d] # "open"
      BY <1>3, <2>1, <2>2, <2>5 DEF PlanOf
    <2>6. CASE request[r].step = "forget" /\ gone = {} /\ UNCHANGED <<devices, madeBy, late>>
      <3>1. cut'[k] = cut[k] \cup request[r].taken
        BY <2>1, <2>6
      <3>2. k = "deleteUser" /\ At(r, "forget")
        BY <1>3, <2>1, <2>6 DEF PlanOf, At
      <3> QED BY <2>6, <3>1, <3>2
    <2> QED BY <2>1, <2>3, <2>4, <2>5, <2>6
  <1> QED BY <1>2, <1>6, <1>7 DEF Ledger

LEMMA LedgerOfStep ==
    ASSUME Core, NEW r \in Requests, RequestStep(r)
    PROVE  /\ cut' \in [CutKinds -> SUBSET Credentials]
           /\ \A k \in CutKinds : cut'[k] \subseteq Gone'
           /\ Ledger
  <1> DEFINE Goal == /\ cut' \in [CutKinds -> SUBSET Credentials]
                     /\ \A k \in CutKinds : cut'[k] \subseteq Gone'
                     /\ Ledger
  <1>1. OnlyNew /\ TypeInv
    BY RowsOfStep DEF Core
  <1>2. ASSUME UNCHANGED cut
        PROVE  Goal
    <2>1. Gone \subseteq Gone'
      BY <1>1, GoneGrows
    <2> QED BY <1>1, <1>2, <2>1 DEF Ledger, Core, GoneInv, TypeInv, TypeOK
  <1>3. ASSUME ListOthers(r)
        PROVE  Goal
    <2>1. request[r].step \in Cutting /\ request[r].step = "list"
      BY <1>3 DEF ListOthers, At, Cutting
    <2>2. Advance(r, {}) \/ UNCHANGED cut
      BY <1>3 DEF ListOthers
    <2> HIDE DEF Goal
    <2>3. Advance(r, {}) => Goal
      BY <1>1, <2>1, AdvanceLedger DEF Goal
    <2> QED BY <1>2, <2>2, <2>3
  <1>4. ASSUME NEW s \in Sessions, EndOther(r, s)
        PROVE  Goal
    <2>1. request[r].step \in Cutting /\ request[r].step = "end"
      BY <1>4 DEF EndOther, At, Cutting
    <2>2. Advance(r, {s}) \/ UNCHANGED cut
      BY <1>4 DEF EndOther
    <2>3. {s} \in SUBSET Credentials /\ {s} \subseteq issued' \ (sessions' \cup tokens')
      <3>1. request[r].todo \subseteq issued
        BY CoreOf
      <3> QED BY <1>1, <1>4, <3>1, AccessAssumption DEF EndOther, TypeInv, TypeOK, Credentials
    <2> HIDE DEF Goal
    <2>4. Advance(r, {s}) => Goal
      BY <1>1, <2>1, <2>3, AdvanceLedger DEF Goal
    <2> QED BY <1>2, <2>2, <2>4
  <1>5. ASSUME DeleteTokensForOwner(r)
        PROVE  Goal
    <2>1. Advance(r, tokens) /\ request[r].step \in Cutting /\ request[r].step = "tokens" /\ tokens' = {}
      BY <1>5 DEF DeleteTokensForOwner, At, Cutting
    <2>2. tokens \in SUBSET Credentials /\ tokens \subseteq issued' \ (sessions' \cup tokens')
      BY <1>1, <1>5, AccessAssumption DEF DeleteTokensForOwner, TypeInv, TypeOK, Credentials
    <2> QED BY <1>1, <2>1, <2>2, AdvanceLedger
  <1>6. ASSUME EndAllForOwner(r)
        PROVE  Goal
    <2>1. Advance(r, sessions) /\ request[r].step \in Cutting /\ request[r].step = "sessions"
      BY <1>6 DEF EndAllForOwner, At, Cutting
    <2>2. sessions \in SUBSET Credentials /\ sessions \subseteq issued' \ (sessions' \cup tokens')
      BY <1>1, <1>6, AccessAssumption DEF EndAllForOwner, TypeInv, TypeOK, Credentials
    <2>3. request[r].rest # <<>>
      <3>1. <<"devices">> # <<>> /\ <<"devices", "forget">> # <<>>
        OBVIOUS
      <3> QED BY <2>1, <3>1, CoreOf DEF PlanOf
    <2> QED BY <1>1, <2>1, <2>2, <2>3, AdvanceLedger
  <1>7. ASSUME TakeDevices(r)
        PROVE  Goal
    <2>1. Advance(r, {}) /\ request[r].step \in Cutting /\ request[r].step = "devices"
      BY <1>7 DEF TakeDevices, At, Cutting
    <2>2. \A d \in Devices : devices'[d] # "open"
      BY <1>1, <1>7 DEF TakeDevices, TypeInv, TypeOK
    <2> QED BY <1>1, <2>1, <2>2, AdvanceLedger
  <1>8. ASSUME ForgetUser(r)
        PROVE  Goal
    <2>1. Advance(r, {}) /\ request[r].step \in Cutting /\ request[r].step = "forget"
          /\ UNCHANGED <<devices, madeBy, late>>
      BY <1>8 DEF ForgetUser, At, Cutting
    <2> QED BY <1>1, <2>1, AdvanceLedger
  <1> HIDE DEF Goal
  <1>9. ASSUME NEW kind \in ApiKinds, NEW c \in Credentials, Authenticate(r, kind, c)
        PROVE  Goal
    BY <1>2, <1>9 DEF Authenticate, store
  <1>10. ASSUME NEW t \in Tokens, CreateToken(r, t) \/ DeleteToken(r, t)
         PROVE  Goal
    BY <1>2, <1>10 DEF CreateToken, DeleteToken
  <1>11. ASSUME NEW d \in Devices, AddDevice(r, d)
         PROVE  Goal
    BY <1>2, <1>11 DEF AddDevice
  <1>12. ASSUME NEW s \in Sessions, DeleteSession(r, s) \/ CreateSession(r, s) \/ SignOut(r, s)
         PROVE  Goal
    BY <1>2, <1>12 DEF DeleteSession, CreateSession, SignOut
  <1>13. ASSUME Touch(r) \/ Refuse(r) \/ DeleteOtherSessions(r) \/ ChangePassword(r)
                \/ FindSession(r) \/ EndPrevious(r) \/ RecordLogin(r) \/ StorageFails(r)
         PROVE  Goal
    BY <1>2, <1>13 DEF Touch, Refuse, DeleteOtherSessions, ChangePassword, StartSteps,
                       FindSession, EndPrevious, RecordLogin, StorageFails, store
  <1>14. ASSUME NEW kind \in AdminKinds, StartAdmin(r, kind)
         PROVE  Goal
    BY <1>2, <1>14 DEF StartAdmin, store
  <1>15. ASSUME NEW s \in Sessions \cup {None}, SignIn(r, s)
         PROVE  Goal
    BY <1>2, <1>15 DEF SignIn, store
  <1>16. Goal
    BY <1>3, <1>4, <1>5, <1>6, <1>7, <1>8, <1>9, <1>10, <1>11, <1>12, <1>13, <1>14, <1>15
       DEF RequestStep
  <1> QED BY <1>16 DEF Goal
-----------------------------------------------------------------------------
(* The invariants are kept.                                                *)

LEMMA RestOfTypes ==
    ASSUME TypeInv, NEW r \in Requests, RequestStep(r)
    PROVE  userRow' \in BOOLEAN /\ errors' \in 0 .. MaxErrors /\ cuts' \in 0 .. MaxCuts
  <1> USE DEF TypeInv, TypeOK, store
  <1>1. ASSUME NEW kind, Counted(kind)
        PROVE  cuts' \in 0 .. MaxCuts
    BY <1>1, AccessAssumption DEF Counted
  <1>2. ASSUME NEW kind \in ApiKinds, NEW c \in Credentials, Authenticate(r, kind, c)
        PROVE  UNCHANGED <<userRow, errors>> /\ cuts' \in 0 .. MaxCuts
    BY <1>1, <1>2 DEF Authenticate
  <1>3. ASSUME NEW kind \in AdminKinds, StartAdmin(r, kind)
        PROVE  UNCHANGED <<userRow, errors>> /\ cuts' \in 0 .. MaxCuts
    BY <1>1, <1>3 DEF StartAdmin
  <1>4. ASSUME StorageFails(r)
        PROVE  errors' \in 0 .. MaxErrors /\ UNCHANGED <<userRow, cuts>>
    BY <1>4, AccessAssumption DEF StorageFails
  <1>5. ASSUME ForgetUser(r) \/ RecordLogin(r)
        PROVE  userRow' \in BOOLEAN /\ UNCHANGED <<errors, cuts>>
    BY <1>5 DEF ForgetUser, RecordLogin
  <1>6. ASSUME NEW t \in Tokens, CreateToken(r, t) \/ DeleteToken(r, t)
        PROVE  UNCHANGED <<userRow, errors, cuts>>
    BY <1>6 DEF CreateToken, DeleteToken
  <1>7. ASSUME NEW d \in Devices, AddDevice(r, d)
        PROVE  UNCHANGED <<userRow, errors, cuts>>
    BY <1>7 DEF AddDevice
  <1>8. ASSUME NEW s \in Sessions, DeleteSession(r, s) \/ EndOther(r, s) \/ CreateSession(r, s)
                                   \/ SignOut(r, s)
        PROVE  UNCHANGED <<userRow, errors, cuts>>
    BY <1>8 DEF DeleteSession, EndOther, CreateSession, SignOut
  <1>9. ASSUME Touch(r) \/ Refuse(r) \/ DeleteOtherSessions(r) \/ ChangePassword(r)
               \/ FindSession(r) \/ ListOthers(r) \/ DeleteTokensForOwner(r)
               \/ EndAllForOwner(r) \/ TakeDevices(r) \/ EndPrevious(r)
        PROVE  UNCHANGED <<userRow, errors, cuts>>
    BY <1>9 DEF Touch, Refuse, DeleteOtherSessions, ChangePassword, StartSteps, FindSession,
                ListOthers, DeleteTokensForOwner, EndAllForOwner, TakeDevices, EndPrevious
  <1>10. ASSUME NEW s \in Sessions \cup {None}, SignIn(r, s)
         PROVE  UNCHANGED <<userRow, errors, cuts>>
    BY <1>10 DEF SignIn
  <1> QED BY <1>2, <1>3, <1>4, <1>5, <1>6, <1>7, <1>8, <1>9, <1>10 DEF RequestStep

\* What holds of the request that took the step holds of them all.
LEMMA RequestsKept ==
    ASSUME Core, OnlyNew, sessions' \subseteq Sessions,
           NEW r \in Requests, NEW n \in Request, Sound(r, n)
    PROVE  /\ request' \in [Requests -> Request] /\ PlanInv' /\ AskerInv'
           /\ \A o \in Requests : GoneOf(request[o])'
  <1>1. TypeInv /\ Moves(r, n) /\ PlanOf(n)
    BY DEF Core, Sound
  <1>2. /\ request' \in [Requests -> Request]
        /\ request'[r] = n
        /\ \A o \in Requests \ {r} : request'[o] = request[o]
    BY <1>1, MoveShape
  <1>3. PlanInv'
    BY <1>1, MovePlan
  <1>4. Gone \subseteq Gone'
    BY GoneGrows
  <1>5. ASSUME NEW o \in Requests
        PROVE  GoneOf(request[o])' /\ AskerOf(request[o])'
    <2>1. CASE o = r
      <3>1. /\ n.taken \subseteq Gone' /\ n.todo \subseteq issued' /\ n.cred \in issued' \cup {None}
            /\ ~n.failed /\ n.cred \in sessions' =>
                  /\ n.step = "list" => n.keep = n.cred
                  /\ n.step = "end" => n.cred \notin n.todo
        BY DEF Sound, Gone
      <3> QED BY <1>2, <2>1, <3>1 DEF GoneOf, AskerOf
    <2>2. CASE o # r
      <3>1. PICK q \in Request : q = request[o]
        BY CoreOf
      <3>2. request'[o] = q
        BY <1>2, <2>2, <3>1
      <3>3. /\ q.taken \subseteq Gone /\ q.todo \subseteq issued /\ q.cred \in issued \cup {None}
            /\ AskerOf(q)
        BY <3>1, CoreOf
      <3>4. q.taken \subseteq Gone' /\ q.todo \subseteq issued' /\ q.cred \in issued' \cup {None}
        BY <1>4, <3>3 DEF OnlyNew
      <3>5. q.cred \in sessions' => q.cred \in sessions
        <4>1. None \notin sessions'
          BY AccessAssumption DEF Credentials
        <4> QED BY <3>3, <4>1 DEF OnlyNew
      <3> QED BY <3>2, <3>3, <3>4, <3>5 DEF GoneOf, AskerOf
    <2> QED BY <2>1, <2>2
  <1> QED BY <1>2, <1>3, <1>5 DEF AskerInv
\* A step that leaves the requests alone.
LEMMA RequestsStand ==
    ASSUME Core, OnlyNew, sessions' \subseteq Sessions, request' = request
    PROVE  /\ request' \in [Requests -> Request] /\ PlanInv' /\ AskerInv'
           /\ \A o \in Requests : GoneOf(request[o])'
  <1>1. Gone \subseteq Gone'
    BY GoneGrows
  <1>2. request' \in [Requests -> Request] /\ PlanInv'
    BY DEF Core, TypeInv, TypeOK, PlanInv
  <1>3. ASSUME NEW o \in Requests
        PROVE  GoneOf(request[o])' /\ AskerOf(request[o])'
    <2>1. PICK q \in Request : q = request[o]
      BY CoreOf
    <2>2. request'[o] = q
      BY <2>1
    <2>3. /\ q.taken \subseteq Gone /\ q.todo \subseteq issued /\ q.cred \in issued \cup {None}
          /\ AskerOf(q)
      BY <2>1, CoreOf
    <2>4. q.taken \subseteq Gone' /\ q.todo \subseteq issued' /\ q.cred \in issued' \cup {None}
      BY <1>1, <2>3 DEF OnlyNew
    <2>5. q.cred \in sessions' => q.cred \in sessions
      <3>1. None \notin sessions'
        BY AccessAssumption DEF Credentials
      <3> QED BY <2>3, <3>1 DEF OnlyNew
    <2> QED BY <2>2, <2>3, <2>4, <2>5 DEF GoneOf, AskerOf
  <1> QED BY <1>2, <1>3 DEF AskerInv

\* What every step does to the parts that the properties are about.
LEMMA StepOfNext ==
    ASSUME Core, [Next]_vars
    PROVE  /\ OnlyNew /\ Made /\ Ledger
           /\ \A k \in CutKinds : cut'[k] \subseteq Gone'
           /\ sessions' \subseteq Sessions
           /\ cut' \in [CutKinds -> SUBSET Credentials]
           /\ \/ request' = request
              \/ \E r \in Requests, n \in Request : Sound(r, n)
  <1>1. TypeInv
    BY DEF Core
  <1>2. CASE \E r \in Requests : RequestStep(r)
    <2>1. PICK r \in Requests : RequestStep(r)
      BY <1>2
    <2>2. ASSUME NEW s \in Sessions, SignOut(r, s)
          PROVE  request' = request
      BY <2>2 DEF SignOut
    <2>3. OnlyNew /\ sessions' \subseteq Sessions
      BY <1>1, <2>1, RowsOfStep
    <2>4. Made
      BY <2>1, MadeOfStep
    <2>5. /\ cut' \in [CutKinds -> SUBSET Credentials]
          /\ \A k \in CutKinds : cut'[k] \subseteq Gone'
          /\ Ledger
      BY <2>1, LedgerOfStep
    <2>6. (\E n \in Request : Sound(r, n)) \/ request' = request
      BY <2>1, <2>2, StepSound
    <2> QED BY <2>3, <2>4, <2>5, <2>6
  <1>3. CASE (\E c \in Credentials : Expire(c)) \/ Cleanup \/ UNCHANGED vars
    <2>1. /\ sessions' \subseteq sessions
          /\ UNCHANGED <<issued, tokens, devices, request, madeBy, late, cut>>
      BY <1>3 DEF Expire, Cleanup, vars, store
    <2>2. OnlyNew /\ sessions' \subseteq Sessions
      BY <1>1, <2>1 DEF OnlyNew, TypeInv, TypeOK
    <2>3. devices' \in [Devices -> {"none", "open", "blocked"}]
      BY <1>1, <2>1 DEF TypeInv, TypeOK
    <2>4. Made
      BY <1>1, <2>1, <2>3, MadeNothing
    <2>5. /\ cut' \in [CutKinds -> SUBSET Credentials]
          /\ \A k \in CutKinds : cut'[k] \subseteq Gone'
          /\ Ledger
      BY <2>1, <2>2, GoneGrows DEF Ledger, Core, GoneInv, TypeInv, TypeOK
    <2> QED BY <2>1, <2>2, <2>4, <2>5
  <1> QED BY <1>2, <1>3, NextSplit

LEMMA CoreKept ==
    ASSUME Core, [Next]_vars
    PROVE  Core'
  <1>1. /\ OnlyNew /\ Made
        /\ \A k \in CutKinds : cut'[k] \subseteq Gone'
        /\ sessions' \subseteq Sessions
        /\ cut' \in [CutKinds -> SUBSET Credentials]
        /\ \/ request' = request
           \/ \E r \in Requests, n \in Request : Sound(r, n)
    BY StepOfNext
  <1>2. TypeInv
    BY DEF Core
  <1>3. /\ request' \in [Requests -> Request] /\ PlanInv' /\ AskerInv'
        /\ \A o \in Requests : GoneOf(request[o])'
    BY <1>1, RequestsKept, RequestsStand
  <1>4. GoneInv'
    BY <1>1, <1>3 DEF GoneInv
  <1>5. /\ sessions' \subseteq Sessions \cap issued'
        /\ tokens' \subseteq Tokens \cap issued'
        /\ issued' \subseteq Credentials
        /\ expired' \subseteq issued'
    <2>1. CASE Next
      BY <1>2, <2>1, RowsOfNext
    <2>2. CASE UNCHANGED vars
      BY <1>2, <2>2 DEF TypeInv, TypeOK, vars
    <2> QED BY <2>1, <2>2
  <1>6. userRow' \in BOOLEAN /\ errors' \in 0 .. MaxErrors /\ cuts' \in 0 .. MaxCuts
    <2>1. CASE \E r \in Requests : RequestStep(r)
      BY <1>2, <2>1, RestOfTypes
    <2>2. CASE (\E c \in Credentials : Expire(c)) \/ Cleanup \/ UNCHANGED vars
      <3>1. UNCHANGED <<userRow, errors, cuts>>
        BY <2>2 DEF Expire, Cleanup, vars, store
      <3> QED BY <1>2, <3>1 DEF TypeInv, TypeOK
    <2> QED BY <2>1, <2>2, NextSplit
  <1>7. TypeOK'
    BY <1>1, <1>3, <1>5, <1>6 DEF TypeOK, Made
  <1> QED BY <1>3, <1>4, <1>7 DEF Core, TypeInv

LEMMA CoreInit ==
    ASSUME Init
    PROVE  Core
  <1>1. \A r \in Requests : request[r] = NoRequest
    BY DEF Init
  <1>2. TypeOK
    <2>1. request \in [Requests -> Request]
      BY NoRequestShape DEF Init
    <2>2. errors \in 0 .. MaxErrors /\ cuts \in 0 .. MaxCuts
      BY AccessAssumption DEF Init
    <2>3. cut \in [CutKinds -> SUBSET Credentials]
      BY DEF Init
    <2>4. madeBy \in [Tokens \cup Devices -> Credentials \cup {None}]
      BY DEF Init
    <2> QED BY <2>1, <2>2, <2>3, <2>4 DEF Init, TypeOK
  <1>3. PlanInv
    BY <1>1, NoRequestShape DEF PlanInv
  <1>4. GoneInv
    BY <1>1, NoRequestShape DEF GoneInv, GoneOf, Init
  <1>5. AskerInv
    BY <1>1, NoRequestShape DEF AskerInv, AskerOf
  <1> QED BY <1>2, <1>3, <1>4, <1>5 DEF Core, TypeInv

LEMMA CoreHolds == Spec => []Core
  <1>1. Init => Core
    BY CoreInit
  <1>2. Core /\ [Next]_vars => Core'
    BY CoreKept
  <1> QED BY <1>1, <1>2, PTL DEF Spec

\* A session that was ended and a token that was revoked never come back: the
\* ids are new, and what a request writes after it read the row makes no row.
THEOREM NothingComesBack == Spec => EndedStaysEnded
  <1>1. Core /\ [Next]_vars =>
            [(issued \ (sessions \cup tokens)) \cap (sessions' \cup tokens') = {}]_vars
    <2> SUFFICES ASSUME Core, [Next]_vars
                 PROVE  (issued \ (sessions \cup tokens)) \cap (sessions' \cup tokens') = {}
      OBVIOUS
    <2>1. OnlyNew
      BY StepOfNext
    <2> QED BY <2>1 DEF OnlyNew
  <1> QED BY <1>1, CoreHolds, PTL DEF Spec, EndedStaysEnded

\* The request that ends the other sessions is the only one that moves when it
\* takes a step, and the session that asks is not among those it ends.
THEOREM AskerKept == Spec => AskerStaysSignedIn
  <1> DEFINE Stays == \A r \in Requests :
                 At(r, "end") /\ ~request[r].failed /\ request'[r] # request[r]
                 /\ request[r].cred \in sessions
                    => request[r].cred \in sessions'
  <1>1. ASSUME Core, Next
        PROVE  Stays
    <2> SUFFICES ASSUME NEW r \in Requests, At(r, "end"), ~request[r].failed,
                        request'[r] # request[r], request[r].cred \in sessions
                 PROVE  request[r].cred \in sessions'
      OBVIOUS
    <2>1. request[r].step = "end" /\ request[r].cred \notin request[r].todo /\ TypeInv
      BY <1>1, CoreOf DEF At, AskerOf, Core
    <2>2. PICK o \in Requests : RequestStep(o)
      <3>1. ASSUME (\E c \in Credentials : Expire(c)) \/ Cleanup
            PROVE  FALSE
        BY <3>1 DEF Expire, Cleanup
      <3> QED BY <1>1, <3>1, NextSplit
    <2>3. o = r
      <3>1. ASSUME o # r
            PROVE  request'[r] = request[r]
        <4>1. CASE \E n \in Request : Sound(o, n)
          <5>1. PICK n \in Request : Sound(o, n)
            BY <4>1
          <5>2. Moves(o, n)
            BY <5>1 DEF Sound
          <5> QED BY <2>1, <3>1, <5>2, MoveShape
        <4>2. CASE \E s \in Sessions : SignOut(o, s)
          BY <4>2 DEF SignOut
        <4> QED BY <1>1, <2>2, <4>1, <4>2, StepSound
      <3> QED BY <3>1
    <2>4. RequestStep(r)
      BY <2>2, <2>3
    <2>5. CASE \E s \in Sessions : EndOther(r, s)
      BY <2>1, <2>5 DEF EndOther
    <2>6. CASE StorageFails(r)
      BY <2>6 DEF StorageFails, store
    <2>7. ASSUME NEW s \in Sessions, SignOut(r, s)
          PROVE  FALSE
      BY <2>7 DEF SignOut
    <2>8. (\E s \in Sessions : EndOther(r, s)) \/ StorageFails(r)
      BY <2>1, <2>4, <2>7 DEF RequestStep, Authenticate, Touch, CreateToken, DeleteToken, AddDevice,
         DeleteSession, CreateSession, Refuse, DeleteOtherSessions, ChangePassword, StartSteps,
         FindSession, ListOthers, StartAdmin, DeleteTokensForOwner, EndAllForOwner, TakeDevices,
         ForgetUser, SignIn, EndPrevious, RecordLogin, At
    <2> QED BY <2>5, <2>6, <2>8
  <1>2. Core /\ [Next]_vars => [Stays]_vars
    BY <1>1
  <1> QED BY <1>2, CoreHolds, PTL DEF Spec, AskerStaysSignedIn

\* Once ChangePassword has ended without an error, no token is left that was
\* made through a session it ended, but for the late ones.
THEOREM PasswordSignsOut == Spec => []SignedOutElsewhere
  <1>1. Init => SignedOutElsewhere
    BY DEF Init, SignedOutElsewhere
  <1>2. ASSUME Core, SignedOutElsewhere, [Next]_vars
        PROVE  SignedOutElsewhere'
    <2>1. Made /\ Ledger /\ "password" \in CutKinds /\ cut'["password"] \subseteq Gone'
      BY <1>2, StepOfNext DEF CutKinds
    <2> SUFFICES ASSUME NEW t \in tokens', madeBy'[t] \in cut'["password"]
                 PROVE  t \in late'
      BY DEF SignedOutElsewhere
    <2>2. cut'["password"] = cut["password"]
      BY <2>1 DEF Ledger
    <2>3. \/ t \in tokens /\ madeBy'[t] = madeBy[t] /\ (t \in late => t \in late')
          \/ t \in late'
      BY <2>1 DEF Made
    <2> QED BY <1>2, <2>2, <2>3 DEF SignedOutElsewhere
  <1> QED BY <1>1, <1>2, CoreHolds, PTL DEF Spec

LEMMA ForgetKept ==
    ASSUME Core, ForgetInv, [Next]_vars
    PROVE  ForgetInv'
  <1>1. /\ OnlyNew /\ Made
        /\ sessions' \subseteq Sessions
        /\ \/ request' = request
           \/ \E r \in Requests, n \in Request : Sound(r, n)
    BY StepOfNext
  <1>2. TypeInv
    BY DEF Core
  <1> SUFFICES ASSUME NEW o \in Requests, NEW d \in Devices, request'[o].step = "forget",
                      devices'[d] = "open", madeBy'[d] \in request'[o].taken
               PROVE  d \in late'
    BY DEF ForgetInv, At
  <1>3. ASSUME request'[o] = request[o]
        PROVE  d \in late'
    <2>1. request[o].taken \subseteq Gone /\ Gone \subseteq Gone'
      BY <1>1, CoreOf, GoneGrows
    <2>2. madeBy'[d] \in Gone'
      BY <1>3, <2>1
    <2>3. \/ devices[d] = "open" /\ madeBy'[d] = madeBy[d] /\ (d \in late => d \in late')
          \/ d \in late'
      BY <1>1, <2>2 DEF Made
    <2> QED BY <1>3, <2>3 DEF ForgetInv, At
  <1>4. CASE request' = request
    BY <1>3, <1>4
  <1>5. CASE \E r \in Requests, n \in Request : Sound(r, n)
    <2>1. PICK r \in Requests, n \in Request : Sound(r, n)
      BY <1>5
    <2>2. /\ request'[r] = n
          /\ \A x \in Requests \ {r} : request'[x] = request[x]
      BY <1>2, <2>1, MoveShape DEF Sound
    <2>3. CASE o = r
      <3>1. TakeDevices(r)
        BY <2>1, <2>2, <2>3 DEF Sound
      <3>2. devices'[d] # "open"
        BY <1>2, <3>1 DEF TakeDevices, TypeInv, TypeOK
      <3> QED BY <3>2
    <2>4. CASE o # r
      BY <1>3, <2>2, <2>4
    <2> QED BY <2>3, <2>4
  <1> QED BY <1>1, <1>4, <1>5

\* Once RevokeAccess or DeleteUser has ended without an error, no device that
\* can connect was added through a way in that it took away, but for the late
\* ones.
THEOREM RevokedForGood == Spec => []WaysInFirst
  <1>1. Init => ForgetInv /\ WaysInFirst
    BY DEF Init, ForgetInv, WaysInFirst
  <1>2. ASSUME Core, ForgetInv, WaysInFirst, [Next]_vars
        PROVE  WaysInFirst'
    <2>1. /\ OnlyNew /\ Made /\ Ledger /\ "revoke" \in CutKinds /\ "deleteUser" \in CutKinds
          /\ cut'["revoke"] \subseteq Gone' /\ cut'["deleteUser"] \subseteq Gone'
      BY <1>2, StepOfNext DEF CutKinds, AdminKinds
    <2> SUFFICES ASSUME NEW d \in Devices, devices'[d] = "open",
                        madeBy'[d] \in cut'["revoke"] \cup cut'["deleteUser"]
                 PROVE  d \in late'
      BY DEF WaysInFirst
    <2>2. cut'["revoke"] = cut["revoke"]
      BY <2>1 DEF Ledger
    <2>3. \/ devices[d] = "open" /\ madeBy'[d] = madeBy[d] /\ (d \in late => d \in late')
          \/ d \in late'
      BY <2>1 DEF Made
    <2>4. CASE cut'["deleteUser"] = cut["deleteUser"]
      BY <1>2, <2>2, <2>3, <2>4 DEF WaysInFirst
    <2>5. CASE cut'["deleteUser"] # cut["deleteUser"]
      <3>1. PICK r \in Requests : /\ At(r, "forget")
                                  /\ cut'["deleteUser"] = cut["deleteUser"] \cup request[r].taken
        BY <2>1, <2>5 DEF Ledger
      <3>2. UNCHANGED <<devices, madeBy, late>>
        BY <2>1, <2>5 DEF Ledger
      <3> QED BY <1>2, <2>2, <3>1, <3>2 DEF WaysInFirst, ForgetInv
    <2> QED BY <2>4, <2>5
  <1>3. Core /\ ForgetInv /\ WaysInFirst /\ [Next]_vars => ForgetInv' /\ WaysInFirst'
    BY <1>2, ForgetKept
  <1> QED BY <1>1, <1>3, CoreHolds, PTL DEF Spec
=============================================================================
