----------------------------- MODULE WebAccess -----------------------------
(***************************************************************************)
(* The ways in of one user, and how they are taken away: the browser       *)
(* sessions (internal/websessions), the API tokens (internal/apitokens),   *)
(* the requests that authenticate with one of them, signing in and out     *)
(* (internal/authnz), and the operations of the API that end sessions and  *)
(* revoke tokens (internal/api): DeleteSession, DeleteOtherSessions,       *)
(* DeleteToken, ChangePassword, RevokeAccess and DeleteUser.               *)
(*                                                                         *)
(* A request reads the row of its session or token once, when it arrives,  *)
(* and acts afterwards.  Every call to the storage is a step of its own,   *)
(* so the row may be gone by then.  The rows of other users are never      *)
(* touched by the statements here, all of which name the owner, so one     *)
(* user is enough; the admin who revokes or deletes is somebody else.      *)
(***************************************************************************)
EXTENDS Integers, FiniteSets, Sequences

CONSTANTS
    Requests,    \* the requests that the server handles at the same time
    Sessions,    \* the ids that sessions get; random, so never one twice
    Tokens,      \* the ids that tokens get
    Devices,     \* the names of the user's devices
    Kinds,       \* the operations that the instance includes
    MaxErrors,   \* bound of the calls to the storage that fail
    MaxExpired,  \* bound of the sessions and tokens that expire
    MaxCuts,     \* bound of the operations that end all, or all other, sessions
    None

Credentials == Sessions \cup Tokens

ASSUME AccessAssumption ==
    /\ Sessions \cap Tokens = {}
    /\ None \notin Credentials
    /\ Devices \cap Tokens = {}
    /\ MaxErrors \in Nat /\ MaxExpired \in Nat /\ MaxCuts \in Nat

\* What a token may not ask for: making tokens, and managing the account.
AccountKinds == {"createToken", "deleteSession", "deleteOthers", "password"}
ApiKinds == AccountKinds \cup {"deleteToken", "addDevice"}
AdminKinds == {"revoke", "deleteUser"}
CutKinds == AdminKinds \cup {"deleteOthers", "password"}

ASSUME KindsAssumption ==
    Kinds \subseteq ApiKinds \cup AdminKinds \cup {"signIn", "signOut"}

VARIABLES
    sessions,    \* the rows of the sessions table
    issued,      \* the session and token ids handed out so far
    tokens,      \* the rows of the api_tokens table
    expired,     \* the sessions and tokens whose expiry date has passed
    devices,     \* the access of each of the user's devices
    userRow,     \* whether the users table has a row for the user
    request,     \* what each request is doing
    errors,      \* how many calls to the storage have failed
    cuts,        \* how many operations that end sessions have started
    madeBy,      \* history: the credential a token or device was made through
    late,        \* history: the tokens and devices made by a request whose
                 \* session or token was taken away after it authenticated
    cut          \* history: what each operation has taken away, once it ended
                 \* without an error

vars == <<sessions, issued, tokens, expired, devices, userRow, request, errors,
          cuts, madeBy, late, cut>>
store == <<sessions, issued, tokens, devices, userRow, madeBy, late, cut>>

Step == {"idle", "touch", "act", "find", "list", "end", "tokens", "sessions",
         "devices", "forget", "endPrevious", "create", "record"}

\* "cred" is the session or token of the request, "rest" the steps that it has
\* still to take, "keep" the session that EndOthers keeps, "todo" what that has
\* still to end, "taken" what the operation has taken away, "failed" whether a
\* step failed and was only logged.
Request == [step: Step, kind: ApiKinds \cup AdminKinds \cup {"none", "signIn"},
            cred: Credentials \cup {None}, rest: Seq(Step), keep: Sessions \cup {None},
            todo: SUBSET Sessions, taken: SUBSET Credentials, failed: BOOLEAN]

NoRequest == [step |-> "idle", kind |-> "none", cred |-> None, rest |-> <<>>,
              keep |-> None, todo |-> {}, taken |-> {}, failed |-> FALSE]

\* Every variable has its type: the ground of every other invariant.
TypeOK ==
    /\ sessions \subseteq Sessions \cap issued
    /\ tokens \subseteq Tokens \cap issued
    /\ issued \subseteq Credentials
    /\ expired \subseteq issued
    /\ devices \in [Devices -> {"none", "open", "blocked"}]
    /\ userRow \in BOOLEAN
    /\ request \in [Requests -> Request]
    /\ errors \in 0 .. MaxErrors
    /\ cuts \in 0 .. MaxCuts
    /\ madeBy \in [Tokens \cup Devices -> Credentials \cup {None}]
    /\ late \subseteq Tokens \cup Devices
    /\ cut \in [CutKinds -> SUBSET Credentials]

\* The configuration lists the user, who has not signed in yet.
Init ==
    /\ sessions = {} /\ issued = {} /\ tokens = {} /\ expired = {}
    /\ devices = [d \in Devices |-> "none"]
    /\ userRow = FALSE
    /\ request = [r \in Requests |-> NoRequest]
    /\ errors = 0 /\ cuts = 0
    /\ madeBy = [x \in Tokens \cup Devices |-> None]
    /\ late = {}
    /\ cut = [k \in CutKinds |-> {}]

At(r, step) == request[r].step = step
Done(r) == request' = [request EXCEPT ![r] = NoRequest]
Goto(r, step) == request' = [request EXCEPT ![r].step = step]
Started(kind, cred, step) ==
    [NoRequest EXCEPT !.kind = kind, !.cred = cred, !.step = step]

\* Mutant: the tokens before the sessions that could make new ones.
StepsTokensFirst(kind) ==
    CASE kind = "deleteOthers" -> <<"find">>
      [] kind = "password" -> <<"tokens", "find">>
      [] kind = "revoke" -> <<"tokens", "sessions", "devices">>
      [] kind = "deleteUser" -> <<"tokens", "sessions", "devices", "forget">>

\* Mutant: the devices before the ways in.
StepsDevicesFirst(kind) ==
    CASE kind = "deleteOthers" -> <<"find">>
      [] kind = "password" -> <<"find", "tokens">>
      [] kind = "revoke" -> <<"devices", "tokens", "sessions">>
      [] kind = "deleteUser" -> <<"devices", "tokens", "sessions", "forget">>

\* The steps of the operations that end sessions, in the order the code takes
\* them.  "find" begins the three of EndOthers.
Steps(kind) ==
    CASE kind = "deleteOthers" -> <<"find">>
      [] kind = "password" -> <<"find", "tokens">>
      [] kind = "revoke" -> <<"tokens", "sessions", "devices">>
      [] kind = "deleteUser" -> <<"tokens", "sessions", "devices", "forget">>

\* The next step of such an operation, which has taken "gone" away, or its end.
Advance(r, gone) ==
    LET q == [request[r] EXCEPT !.taken = @ \cup gone, !.todo = {}]
    IN  IF q.rest = <<>>
          THEN /\ Done(r)
               /\ cut' = IF q.failed THEN cut ELSE [cut EXCEPT ![q.kind] = @ \cup q.taken]
          ELSE /\ request' = [request EXCEPT ![r] =
                                 [q EXCEPT !.step = Head(q.rest), !.rest = Tail(q.rest)]]
               /\ UNCHANGED cut

\* The bound of the operations that end sessions.
Counted(kind) ==
    IF kind \in CutKinds
      THEN cuts < MaxCuts /\ cuts' = cuts + 1
      ELSE UNCHANGED cuts

-----------------------------------------------------------------------------
(* Authenticating a request.                                               *)

\* Identity and Authenticate: the row exists and has not expired.  Whatever is
\* wrong with it, the request ends there and changes nothing.
Valid(c) == c \in (sessions \cup tokens) \ expired

\* The middlewares: the request carries a cookie or a bearer token.
Authenticate(r, kind, c) ==
    /\ At(r, "idle")
    /\ kind \in Kinds \cap ApiKinds
    /\ Valid(c)
    /\ c \in Tokens => kind \notin AccountKinds
    /\ request' = [request EXCEPT ![r] = Started(kind, c, "touch")]
    /\ Counted(kind)
    /\ UNCHANGED <<store, expired, errors>>

\* Mutant: saving the row that was read, which would make it again.
TouchSaves(rows, c) == rows \cup {c}

\* TouchSession and TouchToken write the time of the last use to the row, if
\* it is still there: an UPDATE makes no row.
TouchRow(rows, c) == rows

Touch(r) ==
    /\ At(r, "touch")
    /\ LET c == request[r].cred
       IN  /\ sessions' = IF c \in Sessions THEN TouchRow(sessions, c) ELSE sessions
           /\ tokens' = IF c \in Tokens THEN TouchRow(tokens, c) ELSE tokens
    /\ Goto(r, "act")
    /\ UNCHANGED <<issued, expired, devices, userRow, errors, cuts, madeBy, late, cut>>

-----------------------------------------------------------------------------
(* What a request makes.                                                   *)

\* What is made through c, and whether c was taken away in the meantime.
Make(x, c) ==
    /\ madeBy' = [madeBy EXCEPT ![x] = c]
    /\ late' = IF c \in sessions \cup tokens THEN late \ {x} ELSE late \cup {x}

CreateToken(r, t) ==
    /\ At(r, "act") /\ request[r].kind = "createToken"
    /\ t \notin issued
    /\ tokens' = tokens \cup {t}
    /\ issued' = issued \cup {t}
    /\ Make(t, request[r].cred)
    /\ Done(r)
    /\ UNCHANGED <<sessions, expired, devices, userRow, errors, cuts, cut>>

AddDevice(r, d) ==
    /\ At(r, "act") /\ request[r].kind = "addDevice"
    /\ devices[d] = "none"
    /\ devices' = [devices EXCEPT ![d] = "open"]
    /\ Make(d, request[r].cred)
    /\ Done(r)
    /\ UNCHANGED <<sessions, issued, tokens, expired, userRow, errors, cuts, cut>>

-----------------------------------------------------------------------------
(* Ending one session, revoking one token.                                 *)

\* Delete of websessions lists the user's sessions before it deletes, and
\* Delete of apitokens reads the token: the owner of an id never changes, so
\* the row that is there when it is deleted is the one that was read.
DeleteSession(r, s) ==
    /\ At(r, "act") /\ request[r].kind = "deleteSession"
    /\ s \in sessions
    /\ sessions' = sessions \ {s}
    /\ Done(r)
    /\ UNCHANGED <<issued, tokens, expired, devices, userRow, errors, cuts, madeBy, late, cut>>

DeleteToken(r, t) ==
    /\ At(r, "act") /\ request[r].kind = "deleteToken"
    /\ t \in tokens
    /\ tokens' = tokens \ {t}
    /\ Done(r)
    /\ UNCHANGED <<sessions, issued, expired, devices, userRow, errors, cuts, madeBy, late, cut>>

\* What was asked for is not possible: a name or a date that is not valid, an
\* id that there is no row for, a password that is wrong.
Refuse(r) ==
    /\ At(r, "act") /\ request[r].kind # "deleteOthers"
    /\ Done(r)
    /\ UNCHANGED <<store, expired, errors, cuts>>

-----------------------------------------------------------------------------
(* Signing out elsewhere: EndOthers, and the tokens after it.              *)

\* DeleteOtherSessions, and ChangePassword once the current password was right
\* and there was a row to write the new one to.  Confirming a second factor and
\* registering the first passkey go on as ChangePassword does.
StartSteps(r, kind) ==
    /\ At(r, "act") /\ request[r].kind = kind
    /\ request' = [request EXCEPT ![r].step = Head(Steps(request[r].kind)),
                                  ![r].rest = Tail(Steps(request[r].kind))]
    /\ UNCHANGED <<store, expired, errors, cuts>>

DeleteOtherSessions(r) == StartSteps(r, "deleteOthers")
ChangePassword(r) == userRow /\ StartSteps(r, "password")

\* Mutant: the session that asks is not looked up.
FindNothing(r) ==
    /\ At(r, "find")
    /\ Goto(r, "list")
    /\ UNCHANGED <<store, expired, errors, cuts>>

\* Find: without a session to keep, DeleteOtherSessions ends none, and
\* signOutElsewhere ends them all.
FindSession(r) ==
    /\ At(r, "find")
    /\ IF request[r].cred \in sessions
         THEN request' = [request EXCEPT ![r].step = "list",
                                         ![r].keep = request[r].cred]
         ELSE IF request[r].kind = "deleteOthers" THEN Done(r) ELSE Goto(r, "list")
    /\ UNCHANGED <<store, expired, errors, cuts>>

ListOthers(r) ==
    /\ At(r, "list")
    /\ LET others == sessions \ {request[r].keep}
       IN  IF others = {} THEN Advance(r, {})
           ELSE /\ request' = [request EXCEPT ![r].step = "end", ![r].todo = others]
                /\ UNCHANGED cut
    /\ UNCHANGED <<sessions, issued, tokens, expired, devices, userRow, errors, cuts,
                   madeBy, late>>

EndOther(r, s) ==
    /\ At(r, "end")
    /\ s \in request[r].todo
    /\ sessions' = sessions \ {s}
    /\ IF request[r].todo = {s} THEN Advance(r, {s})
       ELSE /\ request' = [request EXCEPT ![r].todo = @ \ {s}, ![r].taken = @ \cup {s}]
            /\ UNCHANGED cut
    /\ UNCHANGED <<issued, tokens, expired, devices, userRow, errors, cuts, madeBy, late>>

-----------------------------------------------------------------------------
(* Taking access away, for an admin.                                       *)

StartAdmin(r, kind) ==
    /\ At(r, "idle")
    /\ kind \in Kinds \cap AdminKinds
    /\ request' = [request EXCEPT ![r] = 
           [Started(kind, None, Head(Steps(kind))) EXCEPT !.rest = Tail(Steps(kind))]]
    /\ Counted(kind)
    /\ UNCHANGED <<store, expired, errors>>

DeleteTokensForOwner(r) ==
    /\ At(r, "tokens")
    /\ tokens' = {}
    /\ Advance(r, tokens)
    /\ UNCHANGED <<sessions, issued, expired, devices, userRow, errors, cuts, madeBy, late>>

EndAllForOwner(r) ==
    /\ At(r, "sessions")
    /\ sessions' = {}
    /\ Advance(r, sessions)
    /\ UNCHANGED <<issued, tokens, expired, devices, userRow, errors, cuts, madeBy, late>>

\* BlockDevicesForUser, or DeleteDevicesForUser: one transaction each.
TakeDevices(r) ==
    /\ At(r, "devices")
    /\ devices' = [d \in Devices |->
                      IF request[r].kind = "deleteUser" THEN "none"
                      ELSE IF devices[d] = "open" THEN "blocked" ELSE devices[d]]
    /\ Advance(r, {})
    /\ UNCHANGED <<sessions, issued, tokens, expired, userRow, errors, cuts, madeBy, late>>

ForgetUser(r) ==
    /\ At(r, "forget")
    /\ userRow' = FALSE
    /\ Advance(r, {})
    /\ UNCHANGED <<sessions, issued, tokens, expired, devices, errors, cuts, madeBy, late>>

-----------------------------------------------------------------------------
(* Signing in and out.                                                     *)

\* A provider has accepted the user.  The browser may still carry the cookie
\* of an earlier session, which ends if it is valid.
\* A sign-in only starts while there are ids left, which bounds the instance.
SignIn(r, previous) ==
    /\ At(r, "idle")
    /\ "signIn" \in Kinds
    /\ Cardinality({q \in Requests : request[q].kind = "signIn" /\ ~At(q, "record")})
          < Cardinality(Sessions \ issued)
    /\ previous # None => Valid(previous)
    /\ request' = [request EXCEPT ![r] =
           Started("signIn", previous, IF previous = None THEN "create" ELSE "endPrevious")]
    /\ UNCHANGED <<store, expired, errors, cuts>>

EndPrevious(r) ==
    /\ At(r, "endPrevious")
    /\ sessions' = sessions \ {request[r].cred}
    /\ Goto(r, "create")
    /\ UNCHANGED <<issued, tokens, expired, devices, userRow, errors, cuts, madeBy, late, cut>>

CreateSession(r, s) ==
    /\ At(r, "create")
    /\ s \notin issued
    /\ sessions' = sessions \cup {s}
    /\ issued' = issued \cup {s}
    /\ Goto(r, "record")
    /\ UNCHANGED <<tokens, expired, devices, userRow, errors, cuts, madeBy, late, cut>>

RecordLogin(r) ==
    /\ At(r, "record")
    /\ userRow' = TRUE
    /\ Done(r)
    /\ UNCHANGED <<sessions, issued, tokens, expired, devices, errors, cuts, madeBy, late, cut>>

\* ClearSession: only a session that is still valid is found to be ended.
SignOut(r, s) ==
    /\ At(r, "idle")
    /\ "signOut" \in Kinds
    /\ s \in Sessions /\ Valid(s)
    /\ sessions' = sessions \ {s}
    /\ UNCHANGED <<issued, tokens, expired, devices, userRow, request, errors, cuts, madeBy, late, cut>>

-----------------------------------------------------------------------------
(* Time, and a storage that fails.                                         *)

Expire(c) ==
    /\ c \in issued \ expired
    /\ Cardinality(expired) < MaxExpired
    /\ expired' = expired \cup {c}
    /\ UNCHANGED <<store, request, errors, cuts>>

\* cleanupLoop: DeleteExpiredSessions.
Cleanup ==
    /\ sessions \cap expired # {}
    /\ sessions' = sessions \ expired
    /\ UNCHANGED <<issued, tokens, expired, devices, userRow, request, errors, cuts, madeBy, late, cut>>

\* What a request goes on with when the call it makes next fails.  Ending the
\* previous session and signing out elsewhere only log it; the lookup of the
\* session to keep is taken for there being none.
AfterError(r) ==
    LET kind == request[r].kind
    IN  CASE At(r, "touch") -> [request[r] EXCEPT !.step = "act"]
          [] At(r, "endPrevious") -> [request[r] EXCEPT !.step = "create"]
          [] kind = "password" /\ At(r, "find") ->
                [request[r] EXCEPT !.step = "list", !.failed = TRUE]
          [] kind = "password" /\ request[r].step \in {"list", "end"} ->
                [request[r] EXCEPT !.step = "tokens", !.rest = <<>>, !.todo = {},
                                   !.failed = TRUE]
          [] OTHER -> NoRequest

StorageFails(r) ==
    /\ ~At(r, "idle")
    /\ errors < MaxErrors
    /\ errors' = errors + 1
    /\ request' = [request EXCEPT ![r] = AfterError(r)]
    /\ UNCHANGED <<store, expired, cuts>>

-----------------------------------------------------------------------------
Next ==
    \/ \E r \in Requests :
          \/ \E kind \in ApiKinds, c \in Credentials : Authenticate(r, kind, c)
          \/ Touch(r)
          \/ \E t \in Tokens : CreateToken(r, t) \/ DeleteToken(r, t)
          \/ \E d \in Devices : AddDevice(r, d)
          \/ \E s \in Sessions : DeleteSession(r, s) \/ EndOther(r, s)
                                 \/ CreateSession(r, s) \/ SignOut(r, s)
          \/ Refuse(r)
          \/ DeleteOtherSessions(r) \/ ChangePassword(r) \/ FindSession(r) \/ ListOthers(r)
          \/ \E kind \in AdminKinds : StartAdmin(r, kind)
          \/ DeleteTokensForOwner(r) \/ EndAllForOwner(r)
          \/ TakeDevices(r) \/ ForgetUser(r)
          \/ \E s \in Sessions \cup {None} : SignIn(r, s)
          \/ EndPrevious(r) \/ RecordLogin(r)
          \/ StorageFails(r)
    \/ \E c \in Credentials : Expire(c)
    \/ Cleanup

Spec == Init /\ [][Next]_vars

-----------------------------------------------------------------------------
(* Properties.                                                             *)

\* A session that was ended and a token that was revoked never come back, not
\* even when a request that had read the row writes the time of its last use
\* afterwards (Identity and Authenticate, TouchSession and TouchToken).
EndedStaysEnded ==
    [][(issued \ (sessions \cup tokens)) \cap (sessions' \cup tokens') = {}]_vars

\* Once ChangePassword has ended without an error, no token is left that was
\* made through a session it ended, but for one made by a request that had
\* authenticated before that session ended: signOutElsewhere ends the sessions
\* first, "so that none of them is left to make a token after the tokens are
\* gone".
SignedOutElsewhere ==
    \A t \in tokens : madeBy[t] \in cut["password"] => t \in late

\* Once RevokeAccess or DeleteUser has ended without an error, no device that
\* can connect was added through a session or a token it took away, but for one
\* added by a request that had authenticated before: "a session or a token that
\* survives until the devices are blocked is a way back in".
WaysInFirst ==
    \A d \in Devices :
        devices[d] = "open" /\ madeBy[d] \in cut["revoke"] \cup cut["deleteUser"]
            => d \in late

\* Signing out elsewhere never ends the session that asks for it, as long as
\* the lookup of that session did not fail: "the session asking stays".
AskerStaysSignedIn ==
    [][\A r \in Requests :
          At(r, "end") /\ ~request[r].failed /\ request'[r] # request[r]
          /\ request[r].cred \in sessions
             => request[r].cred \in sessions']_vars

=============================================================================
