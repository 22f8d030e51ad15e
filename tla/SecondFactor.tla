---------------------------- MODULE SecondFactor ----------------------------
(***************************************************************************)
(* The second factor of one account of the built-in sign-in: the codes of  *)
(* an authenticator app and the recovery codes (internal/users             *)
(* twofactor.go, totp.go), the passkeys (passkeys.go), the two steps of    *)
(* the sign-in that ask for them (internal/authnz/authconfig simple.go)    *)
(* and the limits of wrong answers (throttle.go, passwords.go).            *)
(*                                                                         *)
(* A call to the storage is a step of its own.  Taking a mutex and the     *)
(* read after it are one step, and so are a write and giving the mutex     *)
(* back: what is between them touches nothing that is shared.              *)
(***************************************************************************)
EXTENDS Integers, FiniteSets

CONSTANTS
    Replicas,     \* the server processes
    Requests,     \* the requests that are handled at the same time
    Home,         \* the process that handles each request
    OpSets,       \* the sets of operations that occur together; "fail": calls
                  \* to the storage fail, too
    Storage,      \* "sql" or "memory"
    Secrets,      \* the secrets that enrolments get
    RecoveryCodes, \* the recovery codes handed out
    Passkeys,     \* the ids of the credentials that authenticators make
    Challenges,   \* the challenges of passkey exchanges
    Now, MaxTime, \* the first and the last time step of the instance
    PendingFor,   \* how long the second step may be answered, in time steps
    MaxWrong,     \* the limit of wrong answers
    MaxErrors,    \* bound of the calls to the storage that fail
    None

\* The window of CheckTOTPStep.
totpWindow == 1

ASSUME FactorAssumption ==
    /\ Home \in [Requests -> Replicas]
    /\ UNION OpSets \subseteq {"start", "confirm", "replace", "code", "password", "disable",
                               "reset", "login", "register", "deletePasskey", "deleteUser", "fail"}
    /\ Storage \in {"sql", "memory"}
    /\ Storage = "memory" => Cardinality(Replicas) = 1
    \* step 0 is when time began, so no code of it fits
    /\ Now \in Nat /\ Now > totpWindow /\ MaxTime \in Nat /\ Now <= MaxTime
    /\ PendingFor \in Nat /\ MaxWrong \in Nat /\ MaxErrors \in Nat
    /\ IsFiniteSet(Requests)

AppCodes == Secrets \X (0 .. MaxTime + 1)
Answers == Challenges \X Passkeys \X (0 .. Cardinality(Challenges))
Given == AppCodes \cup RecoveryCodes \cup Answers \cup {None}

\* What is told apart by its form or by where it is kept has different names.
ASSUME NamesAssumption ==
    /\ None \notin Requests \cup Secrets \cup Passkeys \cup Challenges \cup RecoveryCodes \cup Nat
    /\ Secrets \cap Passkeys = {}
    /\ Challenges \cap RecoveryCodes = {}
    /\ AppCodes \cap (RecoveryCodes \cup Challenges) = {}

\* TOTPState.
Totp == [secret: Secrets \cup {None}, enabled: BOOLEAN,
         recovery: SUBSET RecoveryCodes, last: 0 .. MaxTime + 1]
NoTotp == [secret |-> None, enabled |-> FALSE, recovery |-> {}, last |-> 0]

\* The row of the users table, as far as the second factor goes.
User == [row: BOOLEAN, totp: Totp, challenge: Challenges \cup {None}]
NoUser == [row |-> FALSE, totp |-> NoTotp, challenge |-> None]

EditKinds == {"start", "confirm", "replace", "code"}
Kinds == EditKinds \cup {"password", "disable", "passkey", "register"}
Limits == {"secondFactor", "password"}

VARIABLES
    ops,              \* the operations that occur in this behaviour
    user, passkeys,   \* the tables: the sign count of each stored passkey
    mu, challengeMu,  \* TwoFactor.mu and Passkeys.challengeMu of each process
    wrong,            \* the attempts each process has counted as wrong
    request,          \* what each request is doing
    pending,          \* until when the latest cookie of a password step counts
    clock,
    issued,           \* the secrets, codes, challenges and credentials made so far
    asked,            \* the challenges handed out, and for what
    answers,          \* what the authenticators have signed
    errors,           \* how many calls to the storage have failed
    guesses,          \* history: the wrong answers checked by each process since
                      \* it last began to count
    used, reused,     \* history: the codes and challenges that were accepted,
                      \* and those that were accepted again
    retired,          \* history: the secrets and passkeys that were removed
    alone             \* history: how a password alone was enough although there
                      \* was a second factor all the time

tables == <<user, passkeys>>
locks == <<mu, challengeMu>>
limits == <<wrong, guesses>>
history == <<used, reused, retired, alone>>
outside == <<pending, clock, issued, asked, answers>>
vars == <<tables, locks, limits, request, outside, errors, history, ops>>

Steps == {"idle", "has", "codes", "session", "verify", "lock", "write",
          "clear", "succeed", "take", "taken", "add", "get", "update"}

\* "factors" is what the account was protected by when the request arrived,
\* "fresh" whether its attempt still counts, "copy" what it will write,
\* "valid" whether the answer fits the challenge and the passkeys it read,
\* "failed" whether it took a failed call for an answer.
Request == [step: Steps, kind: Kinds \cup {"none"}, given: Given,
            factors: SUBSET (Secrets \cup Passkeys), fresh: BOOLEAN, copy: Totp,
            valid: BOOLEAN, failed: BOOLEAN]
NoRequest == [step |-> "idle", kind |-> "none", given |-> None, factors |-> {},
              fresh |-> FALSE, copy |-> NoTotp, valid |-> FALSE, failed |-> FALSE]

\* Every variable has its type: the ground of every other invariant.
TypeOK ==
    /\ ops \in OpSets /\ user \in User
    /\ passkeys \in [Passkeys -> (0 .. Cardinality(Challenges)) \cup {None}]
    /\ mu \in [Replicas -> Requests \cup {None}]
    /\ challengeMu \in [Replicas -> Requests \cup {None}]
    /\ wrong \in [Replicas -> [Limits -> 0 .. MaxWrong]]
    /\ request \in [Requests -> Request]
    /\ pending \in -1 .. MaxTime + PendingFor
    /\ clock \in Now .. MaxTime
    /\ issued \subseteq Secrets \cup RecoveryCodes \cup Passkeys \cup Challenges
    /\ asked \in [Challenges -> {"none", "login", "register"}]
    /\ answers \subseteq Answers
    /\ errors \in 0 .. MaxErrors
    /\ guesses \in [Replicas -> [Limits -> Nat]]
    /\ used \subseteq AppCodes \cup RecoveryCodes \cup Challenges
    /\ reused \subseteq used
    /\ retired \subseteq Secrets \cup Passkeys
    /\ alone \subseteq {"read", "failed"}

\* The user has signed in once, with the password alone.
Init ==
    /\ ops \in OpSets
    /\ user = [NoUser EXCEPT !.row = TRUE]
    /\ passkeys = [k \in Passkeys |-> None]
    /\ mu = [p \in Replicas |-> None]
    /\ challengeMu = [p \in Replicas |-> None]
    /\ wrong = [p \in Replicas |-> [l \in Limits |-> 0]]
    /\ request = [r \in Requests |-> NoRequest]
    /\ pending = -1 /\ clock = Now /\ errors = 0
    /\ issued = {} /\ answers = {}
    /\ asked = [c \in Challenges |-> "none"]
    /\ guesses = [p \in Replicas |-> [l \in Limits |-> 0]]
    /\ used = {} /\ reused = {} /\ retired = {} /\ alone = {}

At(r, step) == request[r].step = step
Goto(r, step) == request' = [request EXCEPT ![r].step = step]
Done(r) == request' = [request EXCEPT ![r] = NoRequest]
Arrive(kind, step, given) ==
    [NoRequest EXCEPT !.kind = kind, !.step = step, !.given = given]

Stored == {k \in Passkeys : passkeys[k] # None}

TwoFactorEnabled(t) == t.secret # None /\ t.enabled

\* What the account is protected by.
Factors == Stored \cup (IF TwoFactorEnabled(user.totp) THEN {user.totp.secret} ELSE {})

-----------------------------------------------------------------------------
(* The limits of wrong answers: beginSecondFactor and attempt.             *)

\* The records are kept by the step that asks: the second one of the sign-in, or
\* an operation that asks for the password again.
LimitOf(kind) == IF kind \in {"code", "passkey"} THEN "secondFactor" ELSE "password"

\* Mutant: an attempt is never counted, neither as it begins nor when its answer
\* turns out wrong.
CountedLater(n) == n

\* An attempt counts as wrong from the moment it begins.
Counted(n) == n + 1

\* The request arrives and reserves an attempt.  "forgotten" says that the last
\* attempt is longer ago than the record is kept.
Reserve(r, limit, new) ==
    LET p == Home[r]
    IN  \E forgotten \in BOOLEAN :
            LET count == IF forgotten THEN 0 ELSE wrong[p][limit]
            IN  /\ count < MaxWrong
                /\ wrong' = [wrong EXCEPT ![p][limit] = Counted(count)]
                /\ guesses' = IF forgotten THEN [guesses EXCEPT ![p][limit] = 0] ELSE guesses
                /\ request' = [q \in Requests |->
                       IF q = r THEN [new EXCEPT !.fresh = TRUE]
                       ELSE IF forgotten /\ Home[q] = p /\ LimitOf(request[q].kind) = limit
                         THEN [request[q] EXCEPT !.fresh = FALSE]
                       ELSE request[q]]

\* The answer was wrong: the request ends, and its attempt stays counted.
WrongAnswer(r) ==
    /\ Done(r)
    /\ guesses' = IF request[r].fresh
                    THEN [guesses EXCEPT ![Home[r]][LimitOf(request[r].kind)] = @ + 1]
                    ELSE guesses
    /\ UNCHANGED wrong

\* secondFactorSucceeded and right: the record is forgotten.
Forget(r, step) ==
    LET p == Home[r]  limit == LimitOf(request[r].kind)
    IN  /\ wrong' = [wrong EXCEPT ![p][limit] = 0]
        /\ guesses' = [guesses EXCEPT ![p][limit] = 0]
        /\ request' = [q \in Requests |->
               IF q = r THEN [request[q] EXCEPT !.step = step, !.fresh = FALSE]
               ELSE IF Home[q] = p /\ LimitOf(request[q].kind) = limit
                 THEN [request[q] EXCEPT !.fresh = FALSE]
               ELSE request[q]]

\* A request ends without having got anywhere: an attempt of it counts as wrong.
Refused(r) ==
    IF request[r].kind \in {"code", "passkey"}
      THEN WrongAnswer(r)
      ELSE Done(r) /\ UNCHANGED limits

-----------------------------------------------------------------------------
(* The first step of the sign-in: a password that is right.                *)

SubmitPassword(r) ==
    /\ "password" \in ops
    /\ At(r, "idle")
    /\ request' = [request EXCEPT ![r] =
           [Arrive("password", "has", None) EXCEPT !.factors = Factors]]
    /\ UNCHANGED <<tables, locks, limits, outside, errors, history>>

\* askForCode: the cookie says until when the second step may follow.
AskForCode(r) ==
    /\ pending' = clock + PendingFor
    /\ Done(r)
    /\ UNCHANGED <<clock, issued, asked, answers>>

\* Mutant: only the codes are asked about.
HasCodesOnly(r) ==
    /\ At(r, "has")
    /\ Goto(r, "codes")
    /\ UNCHANGED <<tables, locks, limits, outside, errors, history>>

\* Enabled: the passkeys first, then the codes.
HasPasskey(r) ==
    /\ At(r, "has")
    /\ IF Stored # {} THEN AskForCode(r) ELSE Goto(r, "codes") /\ UNCHANGED outside
    /\ UNCHANGED <<tables, locks, limits, errors, history>>

\* The password is enough: it is recorded if a factor that was there when the
\* request arrived still is, and whether a call had failed in between.
EnoughAlone(r, failed) ==
    /\ request' = [request EXCEPT ![r].step = "session", ![r].failed = failed]
    /\ alone' = IF request[r].factors \cap Factors = {} THEN alone
                ELSE alone \cup {IF failed THEN "failed" ELSE "read"}

CodesEnabled(r) ==
    /\ At(r, "codes")
    /\ IF TwoFactorEnabled(user.totp)
         THEN AskForCode(r) /\ UNCHANGED alone
         ELSE EnoughAlone(r, request[r].failed) /\ UNCHANGED outside
    /\ UNCHANGED <<tables, locks, limits, errors, used, reused, retired>>

\* SaveUser, over the row that may be there.  In memory the last step of a code
\* and the challenge are not carried over.
SaveUser(u) ==
    IF Storage = "sql" THEN [u EXCEPT !.row = TRUE]
    ELSE [u EXCEPT !.row = TRUE, !.totp.last = 0, !.challenge = None]

\* SetSession of the runtime: checkLogin, the new session, which is a matter of
\* WebAccess, and recordLogin.
SetSession(r) ==
    /\ At(r, "session")
    /\ user' = SaveUser(user)
    /\ Done(r)
    /\ UNCHANGED <<passkeys, locks, limits, outside, errors, history>>

-----------------------------------------------------------------------------
(* Codes: what reads the second factor and writes it under the mutex.      *)

\* CheckTOTPStep.
Fits(code, t) ==
    /\ code \in AppCodes
    /\ code[1] = t.secret
    /\ code[2] \in clock - totpWindow .. clock + totpWindow

FreshBatch == (SUBSET (RecoveryCodes \ issued)) \ {{}}

UseRecoveryCode(t, given) ==
    IF given \in t.recovery THEN {[t EXCEPT !.recovery = @ \ {given}]} ELSE {}

\* Mutant: the code of the last accepted step is accepted again.
AcceptedAgain(t, given) ==
    IF Fits(given, t)
      THEN IF given[2] < t.last THEN {} ELSE {[t EXCEPT !.last = given[2]]}
      ELSE UseRecoveryCode(t, given)

\* Check, once the second factor is enabled.  The codes up to the last accepted
\* step are refused; a recovery code is used up.
Accepted(t, given) ==
    IF Fits(given, t)
      THEN IF given[2] <= t.last THEN {} ELSE {[t EXCEPT !.last = given[2]]}
      ELSE UseRecoveryCode(t, given)

\* Start: another secret, unless one is in use.
Start(t) ==
    IF TwoFactorEnabled(t) THEN {} ELSE {[NoTotp EXCEPT !.secret = s] : s \in Secrets \ issued}

\* Confirm: the secret counts from now on.  No step is remembered as used.
Confirm(t, given) ==
    IF TwoFactorEnabled(t) \/ t.secret = None \/ ~Fits(given, t) THEN {}
    ELSE {[t EXCEPT !.enabled = TRUE, !.recovery = b, !.last = 0] : b \in FreshBatch}

ReplaceRecoveryCodes(t) ==
    IF TwoFactorEnabled(t) THEN {[t EXCEPT !.recovery = b] : b \in FreshBatch} ELSE {}

\* What may be written, from the row that was read; nothing when it is refused.
Edits(kind, given, u) ==
    IF ~u.row THEN {}
    ELSE CASE kind = "start" -> Start(u.totp)
           [] kind = "confirm" -> Confirm(u.totp, given)
           [] kind = "replace" -> ReplaceRecoveryCodes(u.totp)
           [] kind = "code" -> IF TwoFactorEnabled(u.totp) THEN Accepted(u.totp, given) ELSE {}

\* The codes that somebody may type in: those of the app around now, the
\* recovery codes, and one that fits nothing.
Typed == {c \in AppCodes : c[1] \in issued /\ c[2] \in clock - totpWindow .. clock + totpWindow}
           \cup (RecoveryCodes \cap issued) \cup {None}

\* Mutant: reading without the mutex.
ReadUnlocked(r, q) ==
    /\ UNCHANGED mu
    /\ \E t \in Edits(q.kind, q.given, user) :
          /\ request' = [request EXCEPT ![r] = [q EXCEPT !.step = "write", !.copy = t]]
          /\ issued' = issued \cup ({t.secret} \cap Secrets) \cup t.recovery

\* The request q of r takes the mutex and reads.
ReadUnderLock(r, q) ==
    /\ mu[Home[r]] = None
    /\ mu' = [mu EXCEPT ![Home[r]] = r]
    /\ \E t \in Edits(q.kind, q.given, user) :
          /\ request' = [request EXCEPT ![r] = [q EXCEPT !.step = "write", !.copy = t]]
          /\ issued' = issued \cup ({t.secret} \cap Secrets) \cup t.recovery

\* A browser that is signed in enrols.
Enrol(r, kind, given) ==
    /\ At(r, "idle")
    /\ kind \in ops
    /\ ReadUnderLock(r, Arrive(kind, "lock", given))
    /\ UNCHANGED <<tables, challengeMu, limits, pending, clock, asked, answers, errors, history>>

StartTwoFactor(r) == Enrol(r, "start", None)

ConfirmTwoFactor(r, given) == given \in Typed /\ Enrol(r, "confirm", given)

\* finishWithCode: the cookie of the password step is still good.
GiveCode(r, given) ==
    /\ "code" \in ops
    /\ At(r, "idle")
    /\ clock <= pending
    /\ given \in Typed
    /\ Reserve(r, "secondFactor", Arrive("code", "lock", given))
    /\ UNCHANGED <<tables, locks, outside, errors, history>>

LockAndRead(r) ==
    /\ At(r, "lock")
    /\ ReadUnderLock(r, request[r])
    /\ UNCHANGED <<tables, challengeMu, limits, pending, clock, asked, answers, errors, history>>

RefuseEdit(r) ==
    /\ At(r, "lock")
    /\ mu[Home[r]] = None
    /\ Edits(request[r].kind, request[r].given, user) = {}
    /\ Refused(r)
    /\ UNCHANGED <<tables, locks, outside, errors, history>>

\* A code or a challenge is accepted.
Accept(x) ==
    /\ used' = used \cup {x}
    /\ reused' = IF x \in used THEN reused \cup {x} ELSE reused

\* The secret t is not the account's any more.
Retire(t) == retired' = retired \cup ({t} \cap Secrets)

\* SetUserTOTP: all of the columns, of a row that is still there.
WriteTotp(r) ==
    /\ At(r, "write")
    /\ mu' = [mu EXCEPT ![Home[r]] = None]
    /\ IF user.row
         THEN /\ user' = [user EXCEPT !.totp = request[r].copy]
              /\ IF request[r].kind = "start" THEN Retire(user.totp.secret) ELSE UNCHANGED retired
              /\ IF request[r].kind = "code"
                   THEN Goto(r, "succeed") /\ Accept(request[r].given)
                   ELSE Done(r) /\ UNCHANGED <<used, reused>>
              /\ UNCHANGED limits
         ELSE Refused(r) /\ UNCHANGED <<user, used, reused, retired>>
    /\ UNCHANGED <<passkeys, challengeMu, outside, errors, alone>>

Succeed(r) ==
    /\ At(r, "succeed")
    /\ Forget(r, "session")
    /\ UNCHANGED <<tables, locks, outside, errors, history>>

-----------------------------------------------------------------------------
(* Turning the second factor off, and new recovery codes.                  *)

\* Both ask for the password first.
AskPassword(r, kind) ==
    /\ kind \in ops
    /\ At(r, "idle")
    /\ Reserve(r, "password", Arrive(kind, "verify", None))
    /\ UNCHANGED <<tables, locks, outside, errors, history>>

DisableTwoFactor(r) == AskPassword(r, "disable")

\* Without a second factor the password is not even looked at.
NewRecoveryCodes(r) == TwoFactorEnabled(user.totp) /\ AskPassword(r, "replace")

RightPassword(r) ==
    /\ At(r, "verify")
    /\ Forget(r, IF request[r].kind = "disable" THEN "clear" ELSE "lock")
    /\ UNCHANGED <<tables, locks, outside, errors, history>>

WrongPassword(r) ==
    /\ At(r, "verify")
    /\ WrongAnswer(r)
    /\ UNCHANGED <<tables, locks, outside, errors, history>>

\* clear: what is written does not depend on what was there.
WriteNoTotp(p) ==
    /\ mu[p] = None
    /\ user' = [user EXCEPT !.totp = NoTotp]
    /\ Retire(user.totp.secret)
    /\ UNCHANGED <<passkeys, locks, limits, outside, errors, used, reused, alone>>

ClearTotp(r) ==
    /\ At(r, "clear")
    /\ WriteNoTotp(Home[r])
    /\ Done(r)

\* Reset, of an admin: there has to be something to clear.
ResetTwoFactor(p) ==
    /\ "reset" \in ops
    /\ user.totp.secret # None
    /\ WriteNoTotp(p)
    /\ UNCHANGED request

-----------------------------------------------------------------------------
(* Passkeys.                                                               *)

\* keepChallenge.  What is read before it only decides whether to go on; the
\* second half of the exchange reads it again.
KeepChallenge(c, use) ==
    /\ use \in ops
    /\ c \notin issued
    /\ user.row
    /\ user' = [user EXCEPT !.challenge = c]
    /\ asked' = [asked EXCEPT ![c] = use]
    /\ issued' = issued \cup {c}
    /\ UNCHANGED <<passkeys, locks, limits, request, pending, clock, answers, errors, history>>

BeginRegistration(c) == KeepChallenge(c, "register")

BeginLogin(c) ==
    /\ clock <= pending
    /\ Stored # {}
    /\ KeepChallenge(c, "login")

\* The challenges that are open, the passkeys that may answer one, and how
\* often a passkey has signed.
Unanswered(use) == {c \in Challenges : asked[c] = use /\ \A a \in answers : a[1] # c}
Signers(use) == {k \in Passkeys : (k \in issued) = (use = "login")}
SignCount(k) == Cardinality({a \in answers : a[2] = k})

\* What authenticators answer: one that was sent before, or one they sign now.
\* They count what they sign, and a credential that they make starts at zero.
Signed(use) ==
    {a \in answers : asked[a[1]] = use} \cup
    {<<c, k, SignCount(k)>> : c \in Unanswered(use), k \in Signers(use)}

\* An answer comes in.
Answered(a) ==
    /\ answers' = answers \cup {a}
    /\ issued' = issued \cup {a[2]}
    /\ UNCHANGED <<tables, locks, pending, clock, asked, errors, history>>

\* finishWithPasskey: the cookie of the password step is still good.
FinishWithPasskey(r, a) ==
    /\ At(r, "idle")
    /\ clock <= pending
    /\ a \in Signed("login")
    /\ Reserve(r, "secondFactor", Arrive("passkey", "take", a))
    /\ Answered(a)

\* FinishPasskey, of a browser that is signed in.
FinishPasskey(r, a) ==
    /\ At(r, "idle")
    /\ a \in Signed("register")
    /\ request' = [request EXCEPT ![r] = Arrive("register", "take", a)]
    /\ Answered(a)
    /\ UNCHANGED limits

\* What the library checks: the challenge, and for a sign-in that the passkey is
\* one of the user's and its count went up.  An authenticator that counts nothing
\* (zero before and after) raises no warning in the library either; the ones
\* here count.
Validated(kind, a) ==
    /\ a[1] = user.challenge
    /\ kind = "passkey" => /\ a[2] \in Stored
                           /\ a[3] > passkeys[a[2]]

\* userAndChallenge reads the user, the passkeys and the challenge.
TakeChallenge(r) ==
    /\ At(r, "take")
    /\ challengeMu[Home[r]] = None
    /\ IF user.challenge # None
         THEN /\ challengeMu' = [challengeMu EXCEPT ![Home[r]] = r]
              /\ request' = [request EXCEPT ![r].step = "taken",
                     ![r].valid = Validated(request[r].kind, request[r].given)]
              /\ UNCHANGED limits
         ELSE Refused(r) /\ UNCHANGED challengeMu
    /\ UNCHANGED <<tables, mu, outside, errors, history>>

\* takeChallenge clears it before the answer is looked at.
ClearChallenge(r) ==
    /\ At(r, "taken")
    /\ challengeMu' = [challengeMu EXCEPT ![Home[r]] = None]
    /\ user' = [user EXCEPT !.challenge = None]
    /\ IF user.row /\ request[r].valid
         THEN /\ Accept(request[r].given[1])
              /\ Goto(r, IF request[r].kind = "passkey" THEN "get" ELSE "add")
              /\ UNCHANGED limits
         ELSE Refused(r) /\ UNCHANGED <<used, reused>>
    /\ UNCHANGED <<passkeys, mu, outside, errors, retired, alone>>

\* GetPasskey: one that is gone is accepted, and nothing is written back.
GetPasskey(r) ==
    /\ At(r, "get")
    /\ Goto(r, IF request[r].given[2] \in Stored THEN "update" ELSE "succeed")
    /\ UNCHANGED <<tables, locks, limits, outside, errors, history>>

\* UpdatePasskey writes the count to a row that is still there.
UpdateRow(k, count) ==
    passkeys' = IF k \in Stored THEN [passkeys EXCEPT ![k] = count] ELSE passkeys

UpdatePasskey(r) ==
    /\ At(r, "update")
    /\ UpdateRow(request[r].given[2], request[r].given[3])
    /\ Goto(r, "succeed")
    /\ UNCHANGED <<user, locks, limits, outside, errors, history>>

\* AddPasskey: an id that is taken is refused.
AddPasskey(r) ==
    /\ At(r, "add")
    /\ LET k == request[r].given[2]
       IN  passkeys' = IF k \in Stored THEN passkeys
                       ELSE [passkeys EXCEPT ![k] = request[r].given[3]]
    /\ Done(r)
    /\ UNCHANGED <<user, locks, limits, outside, errors, history>>

DeletePasskey(k) ==
    /\ "deletePasskey" \in ops
    /\ k \in Stored
    /\ passkeys' = [passkeys EXCEPT ![k] = None]
    /\ retired' = retired \cup {k}
    /\ UNCHANGED <<user, locks, limits, request, outside, errors, used, reused, alone>>

\* DeleteUser of the storage, after everything else of the user is gone.  It
\* takes no mutex: a request that is about to write the second factor puts it
\* into the row that the next sign-in makes, so the secret is not retired here.
DeleteUser ==
    /\ "deleteUser" \in ops
    /\ user.row
    /\ user' = NoUser
    /\ passkeys' = [k \in Passkeys |-> None]
    /\ retired' = retired \cup Stored
    /\ UNCHANGED <<locks, limits, request, outside, errors, used, reused, alone>>

-----------------------------------------------------------------------------
(* Time, and a storage that fails.                                         *)

Tick ==
    /\ clock < MaxTime
    /\ clock' = clock + 1
    /\ UNCHANGED <<tables, locks, limits, request, pending, issued, asked, answers,
                   errors, history>>

\* A read that fails is taken for there being no second factor; the write of
\* the use of a passkey is only bookkeeping; everything else ends the request.
StorageFails(r) ==
    /\ "fail" \in ops
    /\ errors < MaxErrors
    /\ errors' = errors + 1
    /\ \/ /\ At(r, "has")
          /\ request' = [request EXCEPT ![r].step = "codes", ![r].failed = TRUE]
          /\ UNCHANGED <<limits, alone, locks>>
       \/ /\ At(r, "codes")
          /\ EnoughAlone(r, TRUE)
          /\ UNCHANGED <<limits, locks>>
       \/ /\ request[r].step \in {"get", "update"}
          /\ Goto(r, "succeed")
          /\ UNCHANGED <<limits, alone, locks>>
       \/ /\ request[r].step \in {"session", "clear", "add"}
          /\ Done(r)
          /\ UNCHANGED <<limits, alone, locks>>
       \/ /\ request[r].step \in {"lock", "take"}
          /\ Refused(r)
          /\ UNCHANGED <<alone, locks>>
       \/ /\ At(r, "write")
          /\ Refused(r)
          /\ mu' = [mu EXCEPT ![Home[r]] = None]
          /\ UNCHANGED <<alone, challengeMu>>
       \/ /\ At(r, "taken")
          /\ Refused(r)
          /\ challengeMu' = [challengeMu EXCEPT ![Home[r]] = None]
          /\ UNCHANGED <<alone, mu>>
    /\ UNCHANGED <<tables, outside, used, reused, retired>>

-----------------------------------------------------------------------------
SignInStep(r) ==
    \/ SubmitPassword(r) \/ HasPasskey(r) \/ CodesEnabled(r)
    \/ SetSession(r)

CodeStep(r) ==
    \/ StartTwoFactor(r)
    \/ \E given \in Typed : ConfirmTwoFactor(r, given) \/ GiveCode(r, given)
    \/ LockAndRead(r) \/ RefuseEdit(r) \/ WriteTotp(r) \/ Succeed(r)
    \/ DisableTwoFactor(r) \/ NewRecoveryCodes(r)
    \/ RightPassword(r) \/ WrongPassword(r)
    \/ ClearTotp(r)

PasskeyStep(r) ==
    \/ \E a \in Answers : FinishWithPasskey(r, a) \/ FinishPasskey(r, a)
    \/ TakeChallenge(r) \/ ClearChallenge(r)
    \/ GetPasskey(r) \/ UpdatePasskey(r) \/ AddPasskey(r)

Next ==
    /\ UNCHANGED ops
    /\ \/ \E r \in Requests :
             SignInStep(r) \/ CodeStep(r) \/ PasskeyStep(r) \/ StorageFails(r)
       \/ \E c \in Challenges : BeginRegistration(c) \/ BeginLogin(c)
       \/ \E k \in Passkeys : DeletePasskey(k)
       \/ \E p \in Replicas : ResetTwoFactor(p)
       \/ DeleteUser
       \/ Tick

Spec == Init /\ [][Next]_vars

-----------------------------------------------------------------------------
(* Properties.                                                             *)

\* A code of the app signs in once, and so does a recovery code; a challenge is
\* answered once.  This holds although a code fits three time steps and may be
\* sent twice at once (Check, takeChallenge).
CodesOnce == reused = {}

\* A second factor that was turned off, an enrolment that was replaced and a
\* passkey that was deleted do not come back with the write of a request that
\* had read them before (Check, ReplaceRecoveryCodes, Confirm, UpdatePasskey).
RemovedStaysRemoved ==
    /\ user.totp.secret \notin retired
    /\ Stored \cap retired = {}

\* However many requests are under way, no process checks more wrong answers
\* than the limit before it begins to count anew (beginSecondFactor, attempt).
GuessesLimited ==
    \A p \in Replicas, l \in Limits : guesses[p][l] <= MaxWrong

\* The password alone is not enough for an account that has had the same second
\* factor all the time, as long as the storage answers (Enabled, which reads
\* the passkeys and the codes one after the other).
PasswordNotEnough == "read" \notin alone
=============================================================================
