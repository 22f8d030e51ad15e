------------------------- MODULE SecondFactorProofs -------------------------
(***************************************************************************)
(* What SecondFactor guarantees for any number of requests, secrets,       *)
(* codes, passkeys and challenges.  The limit of wrong answers holds for   *)
(* any number of processes; what rests on the mutexes, which are local to  *)
(* a process, is proved for one process.                                   *)
(***************************************************************************)
EXTENDS SecondFactor, FiniteSetTheorems, TLAPS

\* All of the requests are handled by one process.
OneProcess == \A p, q \in Replicas : p = q

Use(kind) == IF kind = "passkey" THEN "login" ELSE "register"

\* What the step of a request says of its kind.
StepKind(q) ==
    /\ q.step = "idle" => ~q.fresh
    /\ q.step \in {"has", "codes"} => q.kind = "password"
    /\ q.step = "lock" => q.kind \in {"code", "replace"}
    /\ q.step = "write" => q.kind \in EditKinds
    /\ q.step \in {"take", "taken"} => q.kind \in {"passkey", "register"}
    /\ q.step \in {"get", "update"} => q.kind = "passkey"
    /\ q.step = "add" => q.kind = "register"
    /\ q.step = "verify" => q.kind \in {"disable", "replace"}

\* What the kind of a request says of its answer, when "ans" was signed for the
\* challenges "ask".
KindGiven(q, ans, ask) ==
    /\ q.kind = "code" => q.given \in AppCodes \cup RecoveryCodes \cup {None}
    /\ q.kind \in {"passkey", "register"} =>
          q.given \in ans /\ ask[q.given[1]] = Use(q.kind)

PlaceOf(q) == StepKind(q) /\ KindGiven(q, answers, asked)

PlaceInv == \A r \in Requests : PlaceOf(request[r])

\* The challenges and what was signed for them.
AnswersInv ==
    /\ \A c \in Challenges : asked[c] # "none" => c \in issued
    /\ \A a \in answers : asked[a[1]] # "none" /\ a[2] \in issued
    /\ \A a, b \in answers : a[1] = b[1] => a = b
    /\ \A a, b \in answers :
          asked[a[1]] = "register" /\ asked[b[1]] = "register" /\ a[2] = b[2] => a = b

\* The attempts under way that still count.
Fresh(p, l) ==
    {r \in Requests : Home[r] = p /\ request[r].fresh /\ LimitOf(request[r].kind) = l}

\* Every wrong answer that was checked, and every attempt under way, has been
\* counted before.
GuessInv ==
    \A p \in Replicas, l \in Limits :
        guesses[p][l] + Cardinality(Fresh(p, l)) <= wrong[p][l]

\* Whoever is between reading and writing has the mutex.
LockInv ==
    \A r \in Requests :
        /\ At(r, "write") => mu[Home[r]] = r
        /\ At(r, "taken") => challengeMu[Home[r]] = r

\* The secrets that were removed, and what is about to be written.
SecretsInv ==
    /\ user.totp.secret \in issued \cup {None}
    /\ user.totp.recovery \subseteq issued
    /\ retired \cap Secrets \subseteq issued
    /\ user.totp.secret \notin retired
    /\ \A r \in Requests : At(r, "write") =>
          /\ request[r].copy.secret \in issued /\ request[r].copy.recovery \subseteq issued
          /\ request[r].copy.secret \notin retired
          /\ request[r].kind = "start" => request[r].copy.secret # user.totp.secret

\* The codes that were accepted are used up in t.
Spent(t) ==
    /\ \A x \in used \cap AppCodes : x[1] = t.secret => t.enabled /\ x[2] <= t.last
    /\ used \cap t.recovery = {}

\* The code that was given is not used yet, and it will be with the copy.
WillSpend(q) ==
    /\ q.given \notin used /\ q.given \notin q.copy.recovery
    /\ q.given \in AppCodes =>
          q.copy.enabled /\ q.given[1] = q.copy.secret /\ q.given[2] <= q.copy.last
    /\ q.given \in RecoveryCodes => q.given \in issued

OnceInv ==
    /\ used \cap RecoveryCodes \subseteq issued
    /\ \A x \in used \cap AppCodes : x[1] \in issued
    /\ Spent(user.totp)
    /\ \A r \in Requests : At(r, "write") =>
          Spent(request[r].copy) /\ (request[r].kind = "code" => WillSpend(request[r]))

\* A challenge is answered once.
ChallengeInv ==
    /\ used \cap Challenges \subseteq issued
    /\ user.challenge # None => user.challenge \notin used
    /\ \A r \in Requests :
          At(r, "taken") /\ request[r].valid => request[r].given[1] \notin used
    /\ \A r \in Requests : At(r, "add") => request[r].given[1] \in used
    /\ \A r, o \in Requests : r # o /\ At(r, "add") /\ At(o, "add") =>
          request[r].given # request[o].given

\* The passkey k was registered with an answer that nobody will register again.
Registered(k) ==
    \E a \in answers :
        /\ asked[a[1]] = "register" /\ a[2] = k /\ a[1] \in used
        /\ \A r \in Requests : At(r, "add") => request[r].given # a

PasskeysInv ==
    /\ Stored \cap retired = {}
    /\ \A k \in Stored \cup (retired \cap Passkeys) : Registered(k)

\* The passkeys an account had when the password came in are there, or removed;
\* and they are removed once there was none to be found.
FactorsInv ==
    \A r \in Requests :
        /\ request[r].factors \cap Passkeys \subseteq Stored \cup retired
        /\ At(r, "codes") /\ ~request[r].failed => request[r].factors \cap Passkeys \subseteq retired

-----------------------------------------------------------------------------
(* What a step does to the requests and to the limits.                     *)

Base == TypeOK /\ PlaceInv

\* The same request, but for whether its attempt still counts.
Same(q, n) ==
    /\ n.step = q.step /\ n.kind = q.kind /\ n.given = q.given /\ n.factors = q.factors
    /\ n.copy = q.copy /\ n.valid = q.valid /\ n.failed = q.failed
    /\ n.fresh => q.fresh

\* The request r becomes n, and the others stay what they are.
Turn(r, n) ==
    /\ request' \in [Requests -> Request]
    /\ request'[r] = n
    /\ \A o \in Requests \ {r} : Same(request[o], request'[o])

\* How a step may change the limits.
Quiet(r, n) ==
    /\ UNCHANGED limits
    /\ n.fresh => request[r].fresh /\ n.kind = request[r].kind

Counts(r, n) ==
    LET p == Home[r]  l == LimitOf(n.kind)
    IN  /\ ~request[r].fresh
        /\ wrong[p][l] < MaxWrong
        /\ wrong' = [wrong EXCEPT ![p][l] = @ + 1]
        /\ UNCHANGED guesses

CountsAnew(r, n) ==
    LET p == Home[r]  l == LimitOf(n.kind)
    IN  /\ ~request[r].fresh
        /\ 0 < MaxWrong
        /\ wrong' = [wrong EXCEPT ![p][l] = 1]
        /\ guesses' = [guesses EXCEPT ![p][l] = 0]
        /\ \A o \in Requests \ {r} :
              Home[o] = p /\ LimitOf(request'[o].kind) = l => ~request'[o].fresh

Guessed(r, n) ==
    LET p == Home[r]  l == LimitOf(request[r].kind)
    IN  /\ request[r].fresh /\ ~n.fresh
        /\ guesses' = [guesses EXCEPT ![p][l] = @ + 1]
        /\ UNCHANGED wrong

Forgets(r, n) ==
    LET p == Home[r]  l == LimitOf(n.kind)
    IN  /\ n.kind = request[r].kind
        /\ wrong' = [wrong EXCEPT ![p][l] = 0]
        /\ guesses' = [guesses EXCEPT ![p][l] = 0]
        /\ \A o \in Requests :
              Home[o] = p /\ LimitOf(request'[o].kind) = l => ~request'[o].fresh

Limited(r, n) ==
    Quiet(r, n) \/ Counts(r, n) \/ CountsAnew(r, n) \/ Guessed(r, n) \/ Forgets(r, n)

LEMMA RequestOf ==
    ASSUME Base, NEW r \in Requests
    PROVE  request[r] \in Request /\ PlaceOf(request[r]) /\ Home[r] \in Replicas
  BY FactorAssumption DEF Base, TypeOK, PlaceInv

LEMMA SameItself ==
    ASSUME NEW q
    PROVE  Same(q, q)
  BY DEF Same

LEMMA TotpNone == NoTotp \in Totp
  <1>1. 0 \in 0 .. MaxTime + 1
    BY FactorAssumption
  <1> QED BY <1>1 DEF NoTotp, Totp

LEMMA NoRequestShape ==
    /\ NoRequest \in Request
    /\ NoRequest.step = "idle" /\ NoRequest.kind = "none" /\ NoRequest.factors = {}
    /\ NoRequest.fresh = FALSE
  BY TotpNone DEF NoRequest, Request, Steps, Given

\* One request is replaced, and nothing else happens to the requests.
LEMMA ReplaceTurn ==
    ASSUME TypeOK, NEW r \in Requests, NEW n \in Request,
           request' = [request EXCEPT ![r] = n]
    PROVE  Turn(r, n)
  <1>1. /\ request' \in [Requests -> Request] /\ request'[r] = n
        /\ \A o \in Requests \ {r} : request'[o] = request[o]
    BY DEF TypeOK
  <1> QED BY <1>1, SameItself DEF Turn

LEMMA DoneTurn ==
    ASSUME TypeOK, NEW r \in Requests, Done(r)
    PROVE  Turn(r, NoRequest)
  BY NoRequestShape, ReplaceTurn DEF Done

LEMMA GotoTurn ==
    ASSUME Base, NEW r \in Requests, NEW s \in Steps, Goto(r, s)
    PROVE  \E n \in Request :
              /\ Turn(r, n) /\ n.step = s /\ n.kind = request[r].kind
              /\ n.given = request[r].given /\ n.factors = request[r].factors
              /\ n.fresh = request[r].fresh /\ n.failed = request[r].failed
  <1> DEFINE q == request[r]
             n == [q EXCEPT !.step = s]
  <1>1. q \in Request
    BY RequestOf
  <1>2. request' = [request EXCEPT ![r] = n]
    BY DEF Goto, Base, TypeOK
  <1>3. /\ n \in Request /\ n.step = s /\ n.kind = q.kind /\ n.given = q.given
        /\ n.factors = q.factors /\ n.fresh = q.fresh /\ n.failed = q.failed
    BY <1>1 DEF Request
  <1> HIDE DEF n
  <1>4. Turn(r, n)
    BY <1>2, <1>3, ReplaceTurn DEF Base
  <1> QED BY <1>3, <1>4

\* An attempt that does not count is the same request.
LEMMA StaleSame ==
    ASSUME NEW q \in Request
    PROVE  /\ [q EXCEPT !.fresh = FALSE] \in Request
           /\ Same(q, [q EXCEPT !.fresh = FALSE])
           /\ [q EXCEPT !.fresh = FALSE].fresh = FALSE
           /\ [q EXCEPT !.fresh = FALSE].kind = q.kind
  BY DEF Request, Same

LEMMA ReserveTurn ==
    ASSUME Base, NEW r \in Requests, NEW limit \in Limits, NEW new \in Request,
           LimitOf(new.kind) = limit, ~request[r].fresh, Reserve(r, limit, new)
    PROVE  \E n \in Request :
              /\ Turn(r, n) /\ (Counts(r, n) \/ CountsAnew(r, n))
              /\ n.step = new.step /\ n.kind = new.kind /\ n.given = new.given
              /\ n.factors = new.factors
  <1> DEFINE n == [new EXCEPT !.fresh = TRUE]
             p == Home[r]
  <1>1. /\ n \in Request /\ n.step = new.step /\ n.kind = new.kind /\ n.given = new.given
        /\ n.factors = new.factors
    BY DEF Request
  <1>2. PICK forgotten \in BOOLEAN :
            LET count == IF forgotten THEN 0 ELSE wrong[p][limit]
            IN  /\ count < MaxWrong
                /\ wrong' = [wrong EXCEPT ![p][limit] = Counted(count)]
                /\ guesses' = IF forgotten THEN [guesses EXCEPT ![p][limit] = 0] ELSE guesses
                /\ request' = [q \in Requests |->
                       IF q = r THEN [new EXCEPT !.fresh = TRUE]
                       ELSE IF forgotten /\ Home[q] = p /\ LimitOf(request[q].kind) = limit
                         THEN [request[q] EXCEPT !.fresh = FALSE]
                       ELSE request[q]]
    BY DEF Reserve
  <1> HIDE DEF n
  <1>3. /\ request'[r] = n
        /\ \A o \in Requests \ {r} :
              request'[o] = IF forgotten /\ Home[o] = p /\ LimitOf(request[o].kind) = limit
                              THEN [request[o] EXCEPT !.fresh = FALSE] ELSE request[o]
    BY <1>2 DEF n
  <1>4. ASSUME NEW o \in Requests \ {r}
        PROVE  /\ request'[o] \in Request /\ Same(request[o], request'[o])
               /\ forgotten /\ Home[o] = p /\ LimitOf(request'[o].kind) = limit => ~request'[o].fresh
    <2>1. request[o] \in Request
      BY RequestOf
    <2>2. CASE forgotten /\ Home[o] = p /\ LimitOf(request[o].kind) = limit
      <3>1. request'[o] = [request[o] EXCEPT !.fresh = FALSE]
        BY <1>3, <2>2
      <3> QED BY <2>1, <3>1, StaleSame
    <2>3. CASE ~(forgotten /\ Home[o] = p /\ LimitOf(request[o].kind) = limit)
      <3>1. request'[o] = request[o]
        BY <1>3, <2>3
      <3> QED BY <2>1, <2>3, <3>1, SameItself
    <2> QED BY <2>2, <2>3
  <1>5. request' \in [Requests -> Request]
    <2>1. \A o \in Requests : request'[o] \in Request
      BY <1>1, <1>3, <1>4
    <2>2. request' = [o \in Requests |-> request'[o]]
      BY <1>2
    <2> QED BY <2>1, <2>2
  <1>6. Turn(r, n)
    BY <1>3, <1>4, <1>5 DEF Turn
  <1>7. CASE forgotten
    <2>1. /\ 0 < MaxWrong
          /\ wrong' = [wrong EXCEPT ![p][limit] = 0 + 1]
          /\ guesses' = [guesses EXCEPT ![p][limit] = 0]
      BY <1>2, <1>7 DEF Counted
    <2>2. wrong' = [wrong EXCEPT ![p][limit] = 1]
      BY <2>1
    <2>3. \A o \in Requests \ {r} :
             Home[o] = p /\ LimitOf(request'[o].kind) = limit => ~request'[o].fresh
      BY <1>4, <1>7
    <2>4. LimitOf(n.kind) = limit
      BY <1>1
    <2>5. CountsAnew(r, n)
      BY <2>1, <2>2, <2>3, <2>4 DEF CountsAnew
    <2> QED BY <1>1, <1>6, <2>5
  <1>8. CASE ~forgotten
    <2>1. /\ wrong[p][limit] < MaxWrong
          /\ wrong' = [wrong EXCEPT ![p][limit] = wrong[p][limit] + 1]
          /\ UNCHANGED guesses
      BY <1>2, <1>8 DEF Counted
    <2>2. wrong' = [wrong EXCEPT ![p][limit] = @ + 1]
      BY <2>1
    <2>3. Counts(r, n)
      BY <1>1, <2>1, <2>2 DEF Counts
    <2> QED BY <1>1, <1>6, <2>3
  <1> QED BY <1>7, <1>8

LEMMA WrongTurn ==
    ASSUME Base, NEW r \in Requests, WrongAnswer(r)
    PROVE  Turn(r, NoRequest) /\ Limited(r, NoRequest)
  <1>1. Turn(r, NoRequest)
    BY DoneTurn DEF WrongAnswer, Base
  <1>2. CASE request[r].fresh
    BY <1>1, <1>2, NoRequestShape DEF WrongAnswer, Limited, Guessed
  <1>3. CASE ~request[r].fresh
    BY <1>1, <1>3, NoRequestShape DEF WrongAnswer, Limited, Quiet, limits
  <1> QED BY <1>1, <1>2, <1>3

LEMMA RefusedTurn ==
    ASSUME Base, NEW r \in Requests, Refused(r)
    PROVE  Turn(r, NoRequest) /\ Limited(r, NoRequest)
  <1>1. CASE WrongAnswer(r)
    BY <1>1, WrongTurn
  <1>2. CASE Done(r) /\ UNCHANGED limits
    BY <1>2, DoneTurn, NoRequestShape DEF Limited, Quiet, Base
  <1> QED BY <1>1, <1>2 DEF Refused

LEMMA QuietDone ==
    ASSUME Base, NEW r \in Requests, Done(r), UNCHANGED limits
    PROVE  Turn(r, NoRequest) /\ Limited(r, NoRequest)
  BY DoneTurn, NoRequestShape DEF Limited, Quiet, Base

LEMMA ForgetTurn ==
    ASSUME Base, NEW r \in Requests, NEW s \in Steps, Forget(r, s)
    PROVE  \E n \in Request :
              /\ Turn(r, n) /\ Limited(r, n) /\ n.step = s /\ n.kind = request[r].kind
              /\ n.given = request[r].given /\ n.factors = request[r].factors
  <1> DEFINE q == request[r]
             n == [q EXCEPT !.step = s, !.fresh = FALSE]
             p == Home[r]
             l == LimitOf(q.kind)
  <1>1. q \in Request
    BY RequestOf
  <1>2. /\ n \in Request /\ n.step = s /\ n.kind = q.kind /\ n.given = q.given
        /\ n.factors = q.factors /\ ~n.fresh
    BY <1>1 DEF Request
  <1>3. /\ wrong' = [wrong EXCEPT ![p][l] = 0]
        /\ guesses' = [guesses EXCEPT ![p][l] = 0]
        /\ request' = [o \in Requests |->
               IF o = r THEN [request[o] EXCEPT !.step = s, !.fresh = FALSE]
               ELSE IF Home[o] = p /\ LimitOf(request[o].kind) = l
                 THEN [request[o] EXCEPT !.fresh = FALSE]
               ELSE request[o]]
    BY DEF Forget
  <1> HIDE DEF l
  <1>4. /\ request'[r] = n
        /\ \A o \in Requests \ {r} :
              request'[o] = IF Home[o] = p /\ LimitOf(request[o].kind) = l
                              THEN [request[o] EXCEPT !.fresh = FALSE] ELSE request[o]
    BY <1>3
  <1> HIDE DEF n
  <1>5. ASSUME NEW o \in Requests \ {r}
        PROVE  /\ request'[o] \in Request /\ Same(request[o], request'[o])
               /\ Home[o] = p /\ LimitOf(request'[o].kind) = l => ~request'[o].fresh
    <2>1. request[o] \in Request
      BY RequestOf
    <2>2. CASE Home[o] = p /\ LimitOf(request[o].kind) = l
      <3>1. request'[o] = [request[o] EXCEPT !.fresh = FALSE]
        BY <1>4, <2>2
      <3> QED BY <2>1, <3>1, StaleSame
    <2>3. CASE ~(Home[o] = p /\ LimitOf(request[o].kind) = l)
      <3>1. request'[o] = request[o]
        BY <1>4, <2>3
      <3> QED BY <2>1, <2>3, <3>1, SameItself
    <2> QED BY <2>2, <2>3
  <1>6. request' \in [Requests -> Request]
    <2>1. \A o \in Requests : request'[o] \in Request
      BY <1>2, <1>4, <1>5
    <2>2. request' = [o \in Requests |-> request'[o]]
      BY <1>3
    <2> QED BY <2>1, <2>2
  <1>7. Turn(r, n)
    BY <1>4, <1>5, <1>6 DEF Turn
  <1>8. Forgets(r, n)
    BY <1>2, <1>3, <1>4, <1>5 DEF Forgets, l
  <1> QED BY <1>2, <1>7, <1>8 DEF Limited
-----------------------------------------------------------------------------
(* What a request is after a step of it.                                   *)

\* A request takes the mutex and reads.
Reads(r) ==
    StartTwoFactor(r) \/ LockAndRead(r) \/ \E given \in Typed : ConfirmTwoFactor(r, given)

Sound(r, n) ==
    /\ Turn(r, n) /\ Limited(r, n) /\ StepKind(n) /\ KindGiven(n, answers', asked')
    /\ n.step = "write" => Reads(r)
    /\ n.step = "taken" => TakeChallenge(r)
    /\ n.step = "add" => ClearChallenge(r)
    /\ n.step = "codes" => HasPasskey(r) \/ n.failed
    /\ n.factors \subseteq request[r].factors \cup Factors

LEMMA DoneSound ==
    ASSUME NEW r \in Requests, Turn(r, NoRequest), Limited(r, NoRequest)
    PROVE  \E n \in Request : Sound(r, n)
  BY NoRequestShape DEF Sound, StepKind, KindGiven

\* The request goes on to a place that asks for nothing else.
LEMMA OnSound ==
    ASSUME Base, NEW r \in Requests, NEW n \in Request, Turn(r, n), Limited(r, n),
           UNCHANGED <<answers, asked>>,
           n.kind = request[r].kind, n.given = request[r].given, n.factors = request[r].factors,
           StepKind(n), n.step \notin {"write", "taken", "add", "codes"}
    PROVE  \E m \in Request : Sound(r, m)
  <1>1. KindGiven(request[r], answers, asked)
    BY RequestOf DEF PlaceOf
  <1>2. KindGiven(n, answers', asked')
    BY <1>1 DEF KindGiven
  <1> QED BY <1>2 DEF Sound

\* The same for a step that leaves the limits alone.
LEMMA GotoSound ==
    ASSUME Base, NEW r \in Requests,
           NEW s \in Steps \ {"idle", "write", "taken", "add", "codes", "has", "verify"}, Goto(r, s),
           UNCHANGED limits, UNCHANGED <<answers, asked>>,
           s = "lock" => request[r].kind \in {"code", "replace"},
           s = "take" => request[r].kind \in {"passkey", "register"},
           s \in {"get", "update"} => request[r].kind = "passkey"
    PROVE  \E m \in Request : Sound(r, m)
  <1>1. s \in Steps
    OBVIOUS
  <1>2. PICK n \in Request :
              /\ Turn(r, n) /\ n.step = s /\ n.kind = request[r].kind
              /\ n.given = request[r].given /\ n.factors = request[r].factors
              /\ n.fresh = request[r].fresh /\ n.failed = request[r].failed
    BY <1>1, GotoTurn
  <1>3. Limited(r, n)
    BY <1>2 DEF Limited, Quiet
  <1>4. StepKind(n)
    BY <1>2 DEF StepKind
  <1> QED BY <1>2, <1>3, <1>4, OnSound

LEMMA SignInSound ==
    ASSUME Base, NEW r \in Requests, SignInStep(r)
    PROVE  \E n \in Request : Sound(r, n)
  <1> DEFINE q == request[r]
  <1>1. q \in Request /\ StepKind(q) /\ KindGiven(q, answers, asked) /\ TypeOK
    BY RequestOf DEF PlaceOf, Base
  <1>2. CASE SubmitPassword(r)
    <2> DEFINE m == Arrive("password", "has", None)
               n == [m EXCEPT !.factors = Factors]
    <2>1. m \in Request /\ m.kind = "password" /\ m.step = "has" /\ m.fresh = FALSE
      BY TotpNone DEF Arrive, NoRequest, Request, Kinds, Steps, Given
    <2>2. Factors \subseteq Secrets \cup Passkeys
      <3>1. user.totp \in Totp
        BY <1>1 DEF TypeOK, User
      <3>2. user.totp.secret \in Secrets \cup {None}
        BY <3>1 DEF Totp
      <3> QED BY <3>2 DEF Factors, Stored, TwoFactorEnabled
    <2> HIDE DEF m
    <2>3. /\ n \in Request /\ n.kind = "password" /\ n.step = "has" /\ n.fresh = FALSE
          /\ n.factors = Factors
      BY <2>1, <2>2 DEF Request
    <2>4. request' = [request EXCEPT ![r] = n] /\ UNCHANGED limits
      BY <1>2 DEF SubmitPassword, m
    <2> HIDE DEF n
    <2>5. Turn(r, n)
      BY <1>1, <2>3, <2>4, ReplaceTurn
    <2>6. Limited(r, n)
      BY <2>3, <2>4 DEF Limited, Quiet
    <2> QED BY <2>3, <2>5, <2>6 DEF Sound, StepKind, KindGiven
  <1>3. CASE HasPasskey(r)
    <2>1. UNCHANGED limits /\ q.kind = "password"
      BY <1>1, <1>3 DEF HasPasskey, StepKind, At
    <2>2. CASE AskForCode(r)
      <3>1. Turn(r, NoRequest) /\ Limited(r, NoRequest)
        BY <2>1, <2>2, QuietDone DEF AskForCode
      <3> QED BY <3>1, DoneSound
    <2>3. CASE Goto(r, "codes")
      <3>1. "codes" \in Steps
        BY DEF Steps
      <3>2. PICK n \in Request :
                /\ Turn(r, n) /\ n.step = "codes" /\ n.kind = request[r].kind
                /\ n.given = request[r].given /\ n.factors = request[r].factors
                /\ n.fresh = request[r].fresh /\ n.failed = request[r].failed
        BY <2>3, <3>1, GotoTurn
      <3>3. Limited(r, n)
        BY <2>1, <3>2 DEF Limited, Quiet
      <3>4. StepKind(n) /\ KindGiven(n, answers', asked')
        BY <2>1, <3>2 DEF StepKind, KindGiven
      <3> QED BY <1>3, <3>2, <3>3, <3>4 DEF Sound
    <2> QED BY <1>3, <2>2, <2>3 DEF HasPasskey
  <1>4. CASE CodesEnabled(r)
    <2>1. UNCHANGED limits
      BY <1>4 DEF CodesEnabled
    <2>2. CASE AskForCode(r)
      <3>1. Turn(r, NoRequest) /\ Limited(r, NoRequest)
        BY <2>1, <2>2, QuietDone DEF AskForCode
      <3> QED BY <3>1, DoneSound
    <2>3. CASE EnoughAlone(r, q.failed) /\ UNCHANGED outside
      <3> DEFINE n == [q EXCEPT !.step = "session", !.failed = q.failed]
      <3>1. request' = [request EXCEPT ![r] = n]
        BY <1>1, <2>3 DEF EnoughAlone, TypeOK
      <3>2. /\ n \in Request /\ n.step = "session" /\ n.kind = q.kind /\ n.given = q.given
            /\ n.factors = q.factors /\ n.fresh = q.fresh
        BY <1>1 DEF Request, Steps
      <3> HIDE DEF n
      <3>3. Turn(r, n)
        BY <1>1, <3>1, <3>2, ReplaceTurn
      <3>4. Limited(r, n) /\ StepKind(n)
        BY <2>1, <3>2 DEF Limited, Quiet, StepKind
      <3>5. UNCHANGED <<answers, asked>>
        BY <2>3 DEF outside
      <3> QED BY <3>2, <3>3, <3>4, <3>5, OnSound
    <2> QED BY <1>4, <2>2, <2>3 DEF CodesEnabled
  <1>5. CASE SetSession(r)
    <2>1. Turn(r, NoRequest) /\ Limited(r, NoRequest)
      BY <1>5, QuietDone DEF SetSession
    <2> QED BY <2>1, DoneSound
  <1> QED BY <1>2, <1>3, <1>4, <1>5 DEF SignInStep

\* What the codes may be changed to has the type of TOTPState.
LEMMA EditsTyped ==
    ASSUME TypeOK, NEW kind, NEW given, NEW t \in Edits(kind, given, user), kind \in EditKinds,
           given \in AppCodes \cup RecoveryCodes \cup {None} \/ kind \notin {"code", "confirm"}
    PROVE  /\ t \in Totp
           /\ t.secret # None
           /\ \/ kind = "start" /\ t.secret \notin issued /\ t.recovery = {}
              \/ kind \in {"confirm", "replace", "code"} /\ t.secret = user.totp.secret
           /\ t.recovery \subseteq user.totp.recovery \/ t.recovery \cap issued = {}
  <1> DEFINE u == user.totp
  <1>1. u \in Totp
    BY DEF TypeOK, User
  <1>2. CASE kind = "start"
    <2>1. PICK s \in Secrets \ issued : t = [NoTotp EXCEPT !.secret = s]
      BY <1>2 DEF Edits, Start
    <2>2. t \in Totp /\ t.secret = s /\ t.recovery = {}
      BY <2>1, TotpNone DEF Totp, NoTotp
    <2> QED BY <1>2, <2>1, <2>2, NamesAssumption
  <1>3. CASE kind = "confirm"
    <2>1. PICK b \in FreshBatch : t = [u EXCEPT !.enabled = TRUE, !.recovery = b, !.last = 0]
      BY <1>3 DEF Edits, Confirm
    <2>2. u.secret # None
      BY <1>3 DEF Edits, Confirm
    <2>3. b \in SUBSET RecoveryCodes /\ b \cap issued = {} /\ 0 \in 0 .. MaxTime + 1
      BY FactorAssumption DEF FreshBatch
    <2>4. t \in Totp /\ t.secret = u.secret /\ t.recovery = b
      BY <1>1, <2>1, <2>3 DEF Totp
    <2> QED BY <1>3, <2>2, <2>3, <2>4
  <1>4. CASE kind = "replace"
    <2>1. PICK b \in FreshBatch : t = [u EXCEPT !.recovery = b]
      BY <1>4 DEF Edits, ReplaceRecoveryCodes
    <2>2. u.secret # None
      BY <1>4 DEF Edits, ReplaceRecoveryCodes, TwoFactorEnabled
    <2>3. b \in SUBSET RecoveryCodes /\ b \cap issued = {}
      BY DEF FreshBatch
    <2>4. t \in Totp /\ t.secret = u.secret /\ t.recovery = b
      BY <1>1, <2>1, <2>3 DEF Totp
    <2> QED BY <1>4, <2>2, <2>3, <2>4
  <1>5. CASE kind = "code"
    <2>1. t \in Accepted(u, given) /\ u.secret # None
      BY <1>5 DEF Edits, TwoFactorEnabled
    <2>2. CASE given \in AppCodes /\ t = [u EXCEPT !.last = given[2]]
      <3>1. given[2] \in 0 .. MaxTime + 1
        BY <2>2 DEF AppCodes
      <3>2. t \in Totp /\ t.secret = u.secret /\ t.recovery = u.recovery
        BY <1>1, <2>2, <3>1 DEF Totp
      <3> QED BY <1>5, <2>1, <3>2
    <2>3. CASE t = [u EXCEPT !.recovery = @ \ {given}]
      <3>1. t \in Totp /\ t.secret = u.secret /\ t.recovery = u.recovery \ {given}
        BY <1>1, <2>3 DEF Totp
      <3> QED BY <1>5, <2>1, <3>1
    <2> QED BY <2>1, <2>2, <2>3 DEF Accepted, UseRecoveryCode, Fits
  <1> QED BY <1>2, <1>3, <1>4, <1>5 DEF EditKinds

\* The record that is read is copied into the request.
LEMMA ReadTurn ==
    ASSUME Base, NEW r \in Requests, NEW q \in Request, ReadUnderLock(r, q), q.kind \in EditKinds,
           q.given \in AppCodes \cup RecoveryCodes \cup {None} \/ q.kind \notin {"code", "confirm"}
    PROVE  /\ mu[Home[r]] = None /\ mu' = [mu EXCEPT ![Home[r]] = r]
           /\ \E t \in Edits(q.kind, q.given, user), n \in Request :
                 /\ Turn(r, n) /\ n.step = "write" /\ n.copy = t /\ n.kind = q.kind
                 /\ n.given = q.given /\ n.factors = q.factors /\ n.fresh = q.fresh
                 /\ issued' = issued \cup ({t.secret} \cap Secrets) \cup t.recovery
  <1>1. PICK t \in Edits(q.kind, q.given, user) :
          /\ request' = [request EXCEPT ![r] = [q EXCEPT !.step = "write", !.copy = t]]
          /\ issued' = issued \cup ({t.secret} \cap Secrets) \cup t.recovery
    BY DEF ReadUnderLock
  <1>2. t \in Totp
    BY EditsTyped DEF Base
  <1> DEFINE n == [q EXCEPT !.step = "write", !.copy = t]
  <1>3. /\ n \in Request /\ n.step = "write" /\ n.copy = t /\ n.kind = q.kind
        /\ n.given = q.given /\ n.factors = q.factors /\ n.fresh = q.fresh
    BY <1>2 DEF Request, Steps
  <1>4. request' = [request EXCEPT ![r] = n]
    BY <1>1
  <1> HIDE DEF n
  <1>5. Turn(r, n)
    BY <1>3, <1>4, ReplaceTurn DEF Base
  <1> QED BY <1>1, <1>3, <1>5 DEF ReadUnderLock
\* An enrolment begins, or is confirmed.
LEMMA EnrolSound ==
    ASSUME Base, NEW r \in Requests, NEW kind \in {"start", "confirm"}, NEW given \in Given,
           Enrol(r, kind, given), Reads(r),
           given \in AppCodes \cup RecoveryCodes \cup {None}
    PROVE  \E n \in Request : Sound(r, n)
  <1> DEFINE q == Arrive(kind, "lock", given)
  <1>1. kind \in Kinds /\ "lock" \in Steps /\ kind \in EditKinds
    BY DEF Kinds, EditKinds, Steps
  <1>2. /\ q \in Request /\ q.kind = kind /\ q.given = given /\ q.fresh = FALSE
        /\ q.factors = {}
    BY <1>1, TotpNone DEF Arrive, NoRequest, Request
  <1>3. ReadUnderLock(r, q) /\ UNCHANGED limits
    BY DEF Enrol
  <1> HIDE DEF q
  <1>4. PICK n \in Request :
            /\ Turn(r, n) /\ n.step = "write" /\ n.kind = q.kind
            /\ n.given = q.given /\ n.factors = q.factors /\ n.fresh = q.fresh
    BY <1>1, <1>2, <1>3, ReadTurn
  <1>5. Limited(r, n)
    BY <1>2, <1>3, <1>4 DEF Limited, Quiet
  <1>6. StepKind(n) /\ KindGiven(n, answers', asked')
    BY <1>1, <1>2, <1>4 DEF StepKind, KindGiven
  <1> QED BY <1>2, <1>4, <1>5, <1>6 DEF Sound

LEMMA LockSound ==
    ASSUME Base, NEW r \in Requests, LockAndRead(r)
    PROVE  \E n \in Request : Sound(r, n)
  <1> DEFINE q == request[r]
  <1>1. q \in Request /\ StepKind(q) /\ KindGiven(q, answers, asked)
    BY RequestOf DEF PlaceOf
  <1>2. /\ q.kind \in {"code", "replace"} /\ ReadUnderLock(r, q) /\ UNCHANGED limits
        /\ UNCHANGED <<answers, asked>>
    BY <1>1 DEF LockAndRead, StepKind, At
  <1>3. /\ q.kind \in EditKinds
        /\ q.given \in AppCodes \cup RecoveryCodes \cup {None} \/ q.kind \notin {"code", "confirm"}
    BY <1>1, <1>2 DEF EditKinds, KindGiven
  <1>4. PICK n \in Request :
            /\ Turn(r, n) /\ n.step = "write" /\ n.kind = q.kind
            /\ n.given = q.given /\ n.factors = q.factors /\ n.fresh = q.fresh
    BY <1>1, <1>2, <1>3, ReadTurn
  <1>5. Limited(r, n)
    BY <1>2, <1>4 DEF Limited, Quiet
  <1>6. StepKind(n) /\ KindGiven(n, answers', asked')
    BY <1>1, <1>2, <1>3, <1>4 DEF StepKind, KindGiven
  <1>7. Reads(r)
    BY DEF Reads
  <1> QED BY <1>4, <1>5, <1>6, <1>7 DEF Sound

\* A request that arrives and reserves an attempt.
LEMMA ReserveSound ==
    ASSUME Base, NEW r \in Requests, NEW limit \in Limits, NEW kind \in Kinds,
           NEW s \in {"lock", "verify", "take"}, NEW given \in Given,
           At(r, "idle"), LimitOf(kind) = limit, Reserve(r, limit, Arrive(kind, s, given)),
           s = "lock" => kind \in {"code", "replace"},
           s = "take" => kind \in {"passkey", "register"},
           s = "verify" => kind \in {"disable", "replace"},
           kind = "code" => given \in AppCodes \cup RecoveryCodes \cup {None},
           kind \in {"passkey", "register"} => given \in answers' /\ asked'[given[1]] = Use(kind)
    PROVE  \E n \in Request : Sound(r, n)
  <1> DEFINE new == Arrive(kind, s, given)
  <1>1. s \in Steps
    BY DEF Steps
  <1>2. /\ new \in Request /\ new.kind = kind /\ new.given = given /\ new.step = s
        /\ new.factors = {}
    BY <1>1, TotpNone DEF Arrive, NoRequest, Request
  <1>3. ~request[r].fresh
    BY RequestOf DEF PlaceOf, StepKind, At
  <1> HIDE DEF new
  <1>4. PICK n \in Request :
            /\ Turn(r, n) /\ (Counts(r, n) \/ CountsAnew(r, n))
            /\ n.step = new.step /\ n.kind = new.kind /\ n.given = new.given
            /\ n.factors = new.factors
    <2>1. Reserve(r, limit, new)
      BY DEF new
    <2> QED BY <1>2, <1>3, <2>1, ReserveTurn
  <1>5. Limited(r, n)
    BY <1>4 DEF Limited
  <1>6. StepKind(n) /\ KindGiven(n, answers', asked')
    BY <1>2, <1>4 DEF StepKind, KindGiven
  <1> QED BY <1>2, <1>4, <1>5, <1>6 DEF Sound

LEMMA TypedGiven ==
    ASSUME NEW given \in Typed
    PROVE  given \in Given /\ given \in AppCodes \cup RecoveryCodes \cup {None}
  BY DEF Typed, Given

LEMMA CodeSound ==
    ASSUME Base, NEW r \in Requests, CodeStep(r)
    PROVE  \E n \in Request : Sound(r, n)
  <1> DEFINE q == request[r]
  <1>1. q \in Request /\ StepKind(q) /\ KindGiven(q, answers, asked) /\ TypeOK
    BY RequestOf DEF PlaceOf, Base
  <1>2. CASE StartTwoFactor(r)
    <2>1. Enrol(r, "start", None) /\ Reads(r)
      BY <1>2 DEF StartTwoFactor, Reads
    <2>2. None \in Given
      BY DEF Given
    <2> QED BY <2>1, <2>2, EnrolSound
  <1>3. ASSUME NEW given \in Typed, ConfirmTwoFactor(r, given)
        PROVE  \E n \in Request : Sound(r, n)
    <2>1. Enrol(r, "confirm", given) /\ Reads(r)
      BY <1>3 DEF ConfirmTwoFactor, Reads
    <2> QED BY <2>1, TypedGiven, EnrolSound
  <1>4. ASSUME NEW given \in Typed, GiveCode(r, given)
        PROVE  \E n \in Request : Sound(r, n)
    <2>1. At(r, "idle") /\ Reserve(r, "secondFactor", Arrive("code", "lock", given))
      BY <1>4 DEF GiveCode
    <2>2. "secondFactor" \in Limits /\ "code" \in Kinds /\ LimitOf("code") = "secondFactor"
      BY DEF Limits, Kinds, EditKinds, LimitOf
    <2> QED BY <2>1, <2>2, TypedGiven, ReserveSound
  <1>5. CASE LockAndRead(r)
    BY <1>5, LockSound
  <1>6. CASE RefuseEdit(r)
    <2>1. Turn(r, NoRequest) /\ Limited(r, NoRequest)
      BY <1>6, RefusedTurn DEF RefuseEdit
    <2> QED BY <2>1, DoneSound
  <1>7. CASE WriteTotp(r)
    <2>1. CASE Goto(r, "succeed") /\ UNCHANGED limits
      <3>1. UNCHANGED <<answers, asked>>
        BY <1>7 DEF WriteTotp, outside
      <3>2. "succeed" \in Steps \ {"idle", "write", "taken", "add", "codes", "has", "verify"}
        BY DEF Steps
      <3> QED BY <2>1, <3>1, <3>2, GotoSound
    <2>2. CASE Done(r) /\ UNCHANGED limits
      <3>1. Turn(r, NoRequest) /\ Limited(r, NoRequest)
        BY <2>2, QuietDone
      <3> QED BY <3>1, DoneSound
    <2>3. CASE Refused(r)
      <3>1. Turn(r, NoRequest) /\ Limited(r, NoRequest)
        BY <2>3, RefusedTurn
      <3> QED BY <3>1, DoneSound
    <2> QED BY <1>7, <2>1, <2>2, <2>3 DEF WriteTotp
  <1>8. CASE Succeed(r)
    <2>1. Forget(r, "session") /\ "session" \in Steps /\ UNCHANGED <<answers, asked>>
      BY <1>8 DEF Succeed, Steps, outside
    <2>2. PICK n \in Request :
              /\ Turn(r, n) /\ Limited(r, n) /\ n.step = "session" /\ n.kind = request[r].kind
              /\ n.given = request[r].given /\ n.factors = request[r].factors
      BY <2>1, ForgetTurn
    <2>3. StepKind(n)
      BY <2>2 DEF StepKind
    <2> QED BY <2>1, <2>2, <2>3, OnSound
  <1>9. ASSUME NEW kind \in {"disable", "replace"}, AskPassword(r, kind)
        PROVE  \E n \in Request : Sound(r, n)
    <2>1. At(r, "idle") /\ Reserve(r, "password", Arrive(kind, "verify", None))
      BY <1>9 DEF AskPassword
    <2>2. /\ "password" \in Limits /\ kind \in Kinds /\ LimitOf(kind) = "password"
          /\ None \in Given
      BY DEF Limits, Kinds, EditKinds, LimitOf, Given
    <2> QED BY <2>1, <2>2, ReserveSound
  <1>10. CASE DisableTwoFactor(r) \/ NewRecoveryCodes(r)
    BY <1>9, <1>10 DEF DisableTwoFactor, NewRecoveryCodes
  <1>11. CASE RightPassword(r)
    <2> DEFINE s == IF q.kind = "disable" THEN "clear" ELSE "lock"
    <2>1. /\ Forget(r, s) /\ s \in Steps /\ s \in {"clear", "lock"}
          /\ UNCHANGED <<answers, asked>>
      BY <1>11 DEF RightPassword, Steps, outside
    <2>2. s = "lock" => q.kind # "disable"
      OBVIOUS
    <2> HIDE DEF s
    <2>3. PICK n \in Request :
              /\ Turn(r, n) /\ Limited(r, n) /\ n.step = s /\ n.kind = request[r].kind
              /\ n.given = request[r].given /\ n.factors = request[r].factors
      BY <2>1, ForgetTurn
    <2>4. q.step = "verify"
      BY <1>11 DEF RightPassword, At
    <2>5. StepKind(n)
      BY <1>1, <2>1, <2>2, <2>3, <2>4 DEF StepKind
    <2> QED BY <2>1, <2>3, <2>5, OnSound
  <1>12. CASE WrongPassword(r)
    <2>1. Turn(r, NoRequest) /\ Limited(r, NoRequest)
      BY <1>12, WrongTurn DEF WrongPassword
    <2> QED BY <2>1, DoneSound
  <1>13. CASE ClearTotp(r)
    <2>1. Turn(r, NoRequest) /\ Limited(r, NoRequest)
      BY <1>13, QuietDone DEF ClearTotp, WriteNoTotp
    <2> QED BY <2>1, DoneSound
  <1> QED BY <1>2, <1>3, <1>4, <1>5, <1>6, <1>7, <1>8, <1>10, <1>11, <1>12, <1>13 DEF CodeStep
\* An answer that comes in is one that was sent before, or the first for its
\* challenge, by a passkey that is known when it signs in and new otherwise.
LEMMA SignedShape ==
    ASSUME NEW use, NEW a \in Signed(use)
    PROVE  /\ asked[a[1]] = use
           /\ \/ a \in answers
              \/ /\ \A b \in answers : b[1] # a[1]
                 /\ (a[2] \in issued) = (use = "login")
  <1>1. CASE a \in {b \in answers : asked[b[1]] = use}
    BY <1>1
  <1>2. CASE a \notin {b \in answers : asked[b[1]] = use}
    <2>1. PICK c \in Unanswered(use), k \in Signers(use) : a = <<c, k, SignCount(k)>>
      BY <1>2 DEF Signed
    <2>2. a[1] = c /\ a[2] = k
      BY <2>1
    <2> QED BY <2>2 DEF Unanswered, Signers
  <1> QED BY <1>1, <1>2

LEMMA PasskeySound ==
    ASSUME Base, NEW r \in Requests, PasskeyStep(r)
    PROVE  \E n \in Request : Sound(r, n)
  <1> DEFINE q == request[r]
  <1>1. q \in Request /\ StepKind(q) /\ KindGiven(q, answers, asked) /\ TypeOK
    BY RequestOf DEF PlaceOf, Base
  <1>2. ASSUME NEW a \in Answers, FinishWithPasskey(r, a)
        PROVE  \E n \in Request : Sound(r, n)
    <2>1. /\ At(r, "idle") /\ Reserve(r, "secondFactor", Arrive("passkey", "take", a))
          /\ a \in Signed("login") /\ answers' = answers \cup {a} /\ asked' = asked
      BY <1>2 DEF FinishWithPasskey, Answered
    <2>2. /\ "secondFactor" \in Limits /\ "passkey" \in Kinds /\ LimitOf("passkey") = "secondFactor"
          /\ a \in Given /\ Use("passkey") = "login"
      BY DEF Limits, Kinds, LimitOf, Given, Use
    <2>3. a \in answers' /\ asked'[a[1]] = Use("passkey")
      BY <2>1, <2>2, SignedShape
    <2> QED BY <2>1, <2>2, <2>3, ReserveSound
  <1>3. ASSUME NEW a \in Answers, FinishPasskey(r, a)
        PROVE  \E n \in Request : Sound(r, n)
    <2> DEFINE n == Arrive("register", "take", a)
    <2>1. /\ request' = [request EXCEPT ![r] = n] /\ UNCHANGED limits
          /\ a \in Signed("register") /\ answers' = answers \cup {a} /\ asked' = asked
      BY <1>3 DEF FinishPasskey, Answered
    <2>2. /\ n \in Request /\ n.kind = "register" /\ n.step = "take" /\ n.given = a
          /\ n.fresh = FALSE /\ n.factors = {}
      BY TotpNone DEF Arrive, NoRequest, Request, Kinds, Steps, Given
    <2> HIDE DEF n
    <2>3. Turn(r, n)
      BY <1>1, <2>1, <2>2, ReplaceTurn
    <2>4. Limited(r, n) /\ StepKind(n)
      BY <2>1, <2>2 DEF Limited, Quiet, StepKind
    <2>5. KindGiven(n, answers', asked')
      BY <2>1, <2>2, SignedShape DEF KindGiven, Use
    <2> QED BY <2>2, <2>3, <2>4, <2>5 DEF Sound
  <1>4. CASE TakeChallenge(r)
    <2>1. CASE Refused(r)
      <3>1. Turn(r, NoRequest) /\ Limited(r, NoRequest)
        BY <2>1, RefusedTurn
      <3> QED BY <3>1, DoneSound
    <2>2. CASE user.challenge # None
      <3> DEFINE v == Validated(q.kind, q.given)
                 n == [q EXCEPT !.step = "taken", !.valid = v]
      <3>1. request' = [request EXCEPT ![r].step = "taken", ![r].valid = v] /\ UNCHANGED limits
            /\ q.step = "take" /\ UNCHANGED <<answers, asked>>
        BY <1>4, <2>2 DEF TakeChallenge, At, outside
      <3>2. v \in BOOLEAN
        BY DEF Validated
      <3> HIDE DEF v
      <3>3. request' = [request EXCEPT ![r] = n]
        BY <1>1, <3>1 DEF TypeOK
      <3>4. /\ n \in Request /\ n.step = "taken" /\ n.kind = q.kind /\ n.given = q.given
            /\ n.fresh = q.fresh /\ n.factors = q.factors
        BY <1>1, <3>2 DEF Request, Steps
      <3> HIDE DEF n
      <3>5. Turn(r, n)
        BY <1>1, <3>3, <3>4, ReplaceTurn
      <3>6. Limited(r, n) /\ StepKind(n) /\ KindGiven(n, answers', asked')
        BY <1>1, <3>1, <3>4 DEF Limited, Quiet, StepKind, KindGiven
      <3> QED BY <1>4, <3>4, <3>5, <3>6 DEF Sound
    <2> QED BY <1>4, <2>1, <2>2 DEF TakeChallenge
  <1>5. CASE ClearChallenge(r)
    <2>1. q.step = "taken" /\ UNCHANGED <<answers, asked>> /\ q.kind \in {"passkey", "register"}
      BY <1>1, <1>5 DEF ClearChallenge, At, outside, StepKind
    <2>2. CASE Refused(r)
      <3>1. Turn(r, NoRequest) /\ Limited(r, NoRequest)
        BY <2>2, RefusedTurn
      <3> QED BY <3>1, DoneSound
    <2>3. CASE Goto(r, IF q.kind = "passkey" THEN "get" ELSE "add") /\ UNCHANGED limits
      <3> DEFINE s == IF q.kind = "passkey" THEN "get" ELSE "add"
      <3>1. s \in Steps /\ ((s = "get" /\ q.kind = "passkey") \/ (s = "add" /\ q.kind = "register"))
        BY <2>1 DEF Steps
      <3>2. Goto(r, s)
        BY <2>3
      <3> HIDE DEF s
      <3>3. PICK n \in Request :
                /\ Turn(r, n) /\ n.step = s /\ n.kind = request[r].kind
                /\ n.given = request[r].given /\ n.factors = request[r].factors
                /\ n.fresh = request[r].fresh /\ n.failed = request[r].failed
        BY <3>1, <3>2, GotoTurn
      <3>4. Limited(r, n) /\ StepKind(n) /\ KindGiven(n, answers', asked')
        BY <1>1, <2>1, <2>3, <3>1, <3>3 DEF Limited, Quiet, StepKind, KindGiven
      <3> QED BY <1>5, <3>1, <3>3, <3>4 DEF Sound
    <2> QED BY <1>5, <2>2, <2>3 DEF ClearChallenge
  <1>6. CASE GetPasskey(r)
    <2> DEFINE s == IF q.given[2] \in Stored THEN "update" ELSE "succeed"
    <2>1. /\ Goto(r, s) /\ UNCHANGED limits /\ UNCHANGED <<answers, asked>> /\ q.step = "get"
          /\ s \in {"update", "succeed"}
      BY <1>6 DEF GetPasskey, At, outside
    <2>2. q.kind = "passkey"
      BY <1>1, <2>1 DEF StepKind
    <2> HIDE DEF s
    <2>3. s \in Steps \ {"idle", "write", "taken", "add", "codes", "has", "verify"}
      BY <2>1 DEF Steps
    <2> QED BY <2>1, <2>2, <2>3, GotoSound
  <1>7. CASE UpdatePasskey(r)
    <2>1. Goto(r, "succeed") /\ UNCHANGED limits /\ UNCHANGED <<answers, asked>>
      BY <1>7 DEF UpdatePasskey, outside
    <2>2. "succeed" \in Steps \ {"idle", "write", "taken", "add", "codes", "has", "verify"}
      BY DEF Steps
    <2> QED BY <2>1, <2>2, GotoSound
  <1>8. CASE AddPasskey(r)
    <2>1. Turn(r, NoRequest) /\ Limited(r, NoRequest)
      BY <1>8, QuietDone DEF AddPasskey
    <2> QED BY <2>1, DoneSound
  <1> QED BY <1>2, <1>3, <1>4, <1>5, <1>6, <1>7, <1>8 DEF PasskeyStep

LEMMA FailsSound ==
    ASSUME Base, NEW r \in Requests, StorageFails(r)
    PROVE  \E n \in Request : Sound(r, n)
  <1> DEFINE q == request[r]
  <1>1. q \in Request /\ StepKind(q) /\ KindGiven(q, answers, asked) /\ TypeOK
    BY RequestOf DEF PlaceOf, Base
  <1>2. UNCHANGED <<answers, asked>>
    BY DEF StorageFails, outside
  <1>3. CASE Refused(r)
    <2>1. Turn(r, NoRequest) /\ Limited(r, NoRequest)
      BY <1>3, RefusedTurn
    <2> QED BY <2>1, DoneSound
  <1>4. CASE Done(r) /\ UNCHANGED limits
    <2>1. Turn(r, NoRequest) /\ Limited(r, NoRequest)
      BY <1>4, QuietDone
    <2> QED BY <2>1, DoneSound
  <1>5. CASE Goto(r, "succeed") /\ UNCHANGED limits
    <2>1. "succeed" \in Steps \ {"idle", "write", "taken", "add", "codes", "has", "verify"}
      BY DEF Steps
    <2> QED BY <1>2, <1>5, <2>1, GotoSound
  <1>6. CASE /\ At(r, "has") /\ UNCHANGED limits
             /\ request' = [request EXCEPT ![r].step = "codes", ![r].failed = TRUE]
    <2> DEFINE n == [q EXCEPT !.step = "codes", !.failed = TRUE]
    <2>1. request' = [request EXCEPT ![r] = n]
      BY <1>1, <1>6 DEF TypeOK
    <2>2. /\ n \in Request /\ n.step = "codes" /\ n.kind = q.kind /\ n.given = q.given
          /\ n.fresh = q.fresh /\ n.factors = q.factors /\ n.failed
      BY <1>1 DEF Request, Steps
    <2> HIDE DEF n
    <2>3. Turn(r, n)
      BY <1>1, <2>1, <2>2, ReplaceTurn
    <2>4. Limited(r, n) /\ StepKind(n) /\ KindGiven(n, answers', asked')
      BY <1>1, <1>2, <1>6, <2>2 DEF Limited, Quiet, StepKind, KindGiven, At
    <2> QED BY <2>2, <2>3, <2>4 DEF Sound
  <1>7. CASE At(r, "codes") /\ EnoughAlone(r, TRUE) /\ UNCHANGED limits
    <2> DEFINE n == [q EXCEPT !.step = "session", !.failed = TRUE]
    <2>1. request' = [request EXCEPT ![r] = n]
      BY <1>1, <1>7 DEF TypeOK, EnoughAlone
    <2>2. /\ n \in Request /\ n.step = "session" /\ n.kind = q.kind /\ n.given = q.given
          /\ n.fresh = q.fresh /\ n.factors = q.factors
      BY <1>1 DEF Request, Steps
    <2> HIDE DEF n
    <2>3. Turn(r, n)
      BY <1>1, <2>1, <2>2, ReplaceTurn
    <2>4. Limited(r, n) /\ StepKind(n)
      BY <1>7, <2>2 DEF Limited, Quiet, StepKind
    <2> QED BY <1>2, <2>2, <2>3, <2>4, OnSound
  <1> QED BY <1>3, <1>4, <1>5, <1>6, <1>7 DEF StorageFails

RequestStep(r) == SignInStep(r) \/ CodeStep(r) \/ PasskeyStep(r) \/ StorageFails(r)

LEMMA StepSound ==
    ASSUME Base, NEW r \in Requests, RequestStep(r)
    PROVE  \E n \in Request : Sound(r, n)
  BY SignInSound, CodeSound, PasskeySound, FailsSound DEF RequestStep

\* What is done without a request: an exchange begins, an admin acts, time passes.
OtherStep ==
    \/ \E c \in Challenges : BeginRegistration(c) \/ BeginLogin(c)
    \/ \E k \in Passkeys : DeletePasskey(k)
    \/ \E p \in Replicas : ResetTwoFactor(p)
    \/ DeleteUser
    \/ Tick

LEMMA NextSplit ==
    ASSUME Next
    PROVE  ops' = ops /\ (OtherStep \/ \E r \in Requests : RequestStep(r))
  BY DEF Next, OtherStep, RequestStep

LEMMA OtherRequests ==
    ASSUME OtherStep
    PROVE  UNCHANGED <<request, limits, locks, used, reused, alone, answers, errors>>
  BY DEF OtherStep, BeginRegistration, BeginLogin, KeepChallenge, DeletePasskey, ResetTwoFactor,
         WriteNoTotp, DeleteUser, Tick, history, outside
-----------------------------------------------------------------------------
(* Types.                                                                  *)

\* The types of what is not the business of Turn and Limited.
RestOK ==
    /\ user \in User
    /\ passkeys \in [Passkeys -> (0 .. Cardinality(Challenges)) \cup {None}]
    /\ mu \in [Replicas -> Requests \cup {None}]
    /\ challengeMu \in [Replicas -> Requests \cup {None}]
    /\ pending \in -1 .. MaxTime + PendingFor
    /\ clock \in Now .. MaxTime
    /\ issued \subseteq Secrets \cup RecoveryCodes \cup Passkeys \cup Challenges
    /\ asked \in [Challenges -> {"none", "login", "register"}]
    /\ answers \subseteq Answers
    /\ errors \in 0 .. MaxErrors
    /\ used \subseteq AppCodes \cup RecoveryCodes \cup Challenges
    /\ reused \subseteq used
    /\ retired \subseteq Secrets \cup Passkeys
    /\ alone \subseteq {"read", "failed"}

LEMMA TypeParts ==
    TypeOK <=> /\ ops \in OpSets /\ RestOK
               /\ wrong \in [Replicas -> [Limits -> 0 .. MaxWrong]]
               /\ guesses \in [Replicas -> [Limits -> Nat]]
               /\ request \in [Requests -> Request]
  BY DEF TypeOK, RestOK

LEMMA LimitTypes ==
    ASSUME Base, NEW r \in Requests, NEW n \in Request, Limited(r, n)
    PROVE  /\ wrong' \in [Replicas -> [Limits -> 0 .. MaxWrong]]
           /\ guesses' \in [Replicas -> [Limits -> Nat]]
  <1>1. /\ wrong \in [Replicas -> [Limits -> 0 .. MaxWrong]]
        /\ guesses \in [Replicas -> [Limits -> Nat]]
        /\ Home[r] \in Replicas /\ MaxWrong \in Nat
    BY RequestOf, FactorAssumption DEF Base, TypeOK
  <1>2. ASSUME NEW kind
        PROVE  LimitOf(kind) \in Limits
    BY DEF LimitOf, Limits
  <1>3. ASSUME NEW l \in Limits, NEW v \in 0 .. MaxWrong
        PROVE  [wrong EXCEPT ![Home[r]][l] = v] \in [Replicas -> [Limits -> 0 .. MaxWrong]]
    BY <1>1
  <1>4. ASSUME NEW l \in Limits, NEW v \in Nat
        PROVE  [guesses EXCEPT ![Home[r]][l] = v] \in [Replicas -> [Limits -> Nat]]
    BY <1>1
  <1>5. ASSUME NEW l \in Limits
        PROVE  wrong[Home[r]][l] \in 0 .. MaxWrong /\ guesses[Home[r]][l] \in Nat
    BY <1>1
  <1>6. CASE Quiet(r, n)
    BY <1>1, <1>6 DEF Quiet, limits
  <1>7. CASE Counts(r, n)
    <2> DEFINE l == LimitOf(n.kind)
    <2>1. l \in Limits
      BY <1>2
    <2>2. wrong[Home[r]][l] + 1 \in 0 .. MaxWrong
      BY <1>1, <1>5, <1>7, <2>1 DEF Counts
    <2> QED BY <1>1, <1>3, <1>7, <2>1, <2>2 DEF Counts
  <1>8. CASE CountsAnew(r, n)
    <2>1. 1 \in 0 .. MaxWrong /\ 0 \in Nat
      BY <1>1, <1>8 DEF CountsAnew
    <2> QED BY <1>2, <1>3, <1>4, <1>8, <2>1 DEF CountsAnew
  <1>9. CASE Guessed(r, n)
    <2> DEFINE l == LimitOf(request[r].kind)
    <2>1. l \in Limits
      BY <1>2
    <2>2. guesses[Home[r]][l] + 1 \in Nat
      BY <1>5, <2>1
    <2> QED BY <1>1, <1>4, <1>9, <2>1, <2>2 DEF Guessed
  <1>10. CASE Forgets(r, n)
    <2>1. 0 \in 0 .. MaxWrong /\ 0 \in Nat
      BY <1>1
    <2> QED BY <1>2, <1>3, <1>4, <1>10, <2>1 DEF Forgets
  <1> QED BY <1>6, <1>7, <1>8, <1>9, <1>10 DEF Limited

LEMMA UserShape ==
    ASSUME NEW u \in User
    PROVE  /\ u.row \in BOOLEAN /\ u.totp \in Totp /\ u.challenge \in Challenges \cup {None}
           /\ \A t \in Totp : [u EXCEPT !.totp = t] \in User
           /\ \A t \in Totp : /\ [u EXCEPT !.totp = t].totp = t
                              /\ [u EXCEPT !.totp = t].row = u.row
                              /\ [u EXCEPT !.totp = t].challenge = u.challenge
           /\ \A c \in Challenges \cup {None} : [u EXCEPT !.challenge = c] \in User
           /\ \A c \in Challenges \cup {None} : /\ [u EXCEPT !.challenge = c].challenge = c
                                                /\ [u EXCEPT !.challenge = c].totp = u.totp
  BY DEF User

\* SaveUser keeps the codes; in memory it forgets the last step of one.
LEMMA SaveShape ==
    ASSUME NEW u \in User
    PROVE  /\ SaveUser(u) \in User
           /\ SaveUser(u).challenge \in {u.challenge, None}
           /\ SaveUser(u).totp.secret = u.totp.secret
           /\ SaveUser(u).totp.recovery = u.totp.recovery
           /\ Storage = "sql" => SaveUser(u).totp = u.totp
  <1>1. u.totp \in Totp /\ 0 \in 0 .. MaxTime + 1
    BY FactorAssumption DEF User
  <1>2. CASE Storage = "sql"
    BY <1>2 DEF SaveUser, User
  <1>3. CASE Storage # "sql"
    <2> DEFINE t == [u.totp EXCEPT !.last = 0]
               v == [u EXCEPT !.row = TRUE, !.totp = t, !.challenge = None]
    <2>1. t \in Totp /\ t.secret = u.totp.secret /\ t.recovery = u.totp.recovery
      BY <1>1 DEF Totp
    <2>2. SaveUser(u) = v
      BY <1>3 DEF SaveUser, User
    <2> HIDE DEF t
    <2>3. v \in User /\ v.totp = t /\ v.challenge = None
      BY <2>1 DEF User
    <2> QED BY <1>3, <2>1, <2>2, <2>3
  <1> QED BY <1>2, <1>3

LEMMA SignInTypes ==
    ASSUME Base, NEW r \in Requests, SignInStep(r)
    PROVE  RestOK'
  <1>1. RestOK /\ user \in User
    BY TypeParts DEF Base, RestOK
  <1>2. ASSUME AskForCode(r)
        PROVE  /\ pending' \in -1 .. MaxTime + PendingFor
               /\ UNCHANGED <<clock, issued, asked, answers>>
    BY <1>1, <1>2, FactorAssumption DEF AskForCode, RestOK
  <1>3. CASE SubmitPassword(r)
    BY <1>1, <1>3 DEF SubmitPassword, RestOK, tables, locks, outside, history
  <1>4. CASE HasPasskey(r)
    BY <1>1, <1>2, <1>4 DEF HasPasskey, RestOK, tables, locks, outside, history
  <1>5. CASE CodesEnabled(r)
    <2>1. alone' \subseteq {"read", "failed"}
      BY <1>1, <1>5 DEF CodesEnabled, EnoughAlone, RestOK
    <2> QED BY <1>1, <1>2, <1>5, <2>1 DEF CodesEnabled, RestOK, tables, locks, outside
  <1>6. CASE SetSession(r)
    <2>1. user' \in User
      BY <1>1, <1>6, SaveShape DEF SetSession
    <2> QED BY <1>1, <1>6, <2>1 DEF SetSession, RestOK, locks, outside, history
  <1> QED BY <1>3, <1>4, <1>5, <1>6 DEF SignInStep

\* What every reading request does.
LEMMA ReadsShape ==
    ASSUME Base, NEW r \in Requests, Reads(r)
    PROVE  /\ UNCHANGED <<tables, challengeMu, limits, pending, clock, asked, answers, errors, history>>
           /\ mu[Home[r]] = None /\ mu' = [mu EXCEPT ![Home[r]] = r]
           /\ \E kind \in EditKinds, given \in AppCodes \cup RecoveryCodes \cup {None} :
              \E t \in Edits(kind, given, user), n \in Request :
                 /\ Turn(r, n) /\ n.step = "write" /\ n.copy = t /\ n.kind = kind
                 /\ kind \in {"code", "confirm"} => n.given = given
                 /\ n.factors \subseteq request[r].factors
                 /\ issued' = issued \cup ({t.secret} \cap Secrets) \cup t.recovery
  <1>1. ASSUME NEW kind \in {"start", "confirm"},
               NEW given \in AppCodes \cup RecoveryCodes \cup {None}, Enrol(r, kind, given)
        PROVE  /\ UNCHANGED <<tables, challengeMu, limits, pending, clock, asked, answers, errors, history>>
               /\ mu[Home[r]] = None /\ mu' = [mu EXCEPT ![Home[r]] = r]
               /\ \E t \in Edits(kind, given, user), n \in Request :
                     /\ Turn(r, n) /\ n.step = "write" /\ n.copy = t /\ n.kind = kind
                     /\ n.given = given /\ n.factors = {}
                     /\ issued' = issued \cup ({t.secret} \cap Secrets) \cup t.recovery
    <2> DEFINE q == Arrive(kind, "lock", given)
    <2>1. kind \in Kinds /\ "lock" \in Steps /\ kind \in EditKinds /\ given \in Given
      BY DEF Kinds, EditKinds, Steps, Given
    <2>2. q \in Request /\ q.kind = kind /\ q.given = given /\ q.factors = {}
      BY <2>1, TotpNone DEF Arrive, NoRequest, Request
    <2>3. /\ ReadUnderLock(r, q)
          /\ UNCHANGED <<tables, challengeMu, limits, pending, clock, asked, answers, errors, history>>
      BY <1>1 DEF Enrol
    <2> HIDE DEF q
    <2>4. /\ mu[Home[r]] = None /\ mu' = [mu EXCEPT ![Home[r]] = r]
          /\ \E t \in Edits(q.kind, q.given, user), n \in Request :
                /\ Turn(r, n) /\ n.step = "write" /\ n.copy = t /\ n.kind = q.kind
                /\ n.given = q.given /\ n.factors = q.factors
                /\ issued' = issued \cup ({t.secret} \cap Secrets) \cup t.recovery
      BY <2>1, <2>2, <2>3, ReadTurn
    <2> QED BY <2>2, <2>3, <2>4
  <1>2. CASE StartTwoFactor(r)
    <2>1. Enrol(r, "start", None)
      BY <1>2 DEF StartTwoFactor
    <2>2. "start" \in EditKinds
      BY DEF EditKinds
    <2>3. /\ UNCHANGED <<tables, challengeMu, limits, pending, clock, asked, answers, errors, history>>
          /\ mu[Home[r]] = None /\ mu' = [mu EXCEPT ![Home[r]] = r]
          /\ \E t \in Edits("start", None, user), n \in Request :
                /\ Turn(r, n) /\ n.step = "write" /\ n.copy = t /\ n.kind = "start"
                /\ n.given = None /\ n.factors = {}
                /\ issued' = issued \cup ({t.secret} \cap Secrets) \cup t.recovery
      BY <1>1, <2>1
    <2> QED BY <2>2, <2>3
  <1>3. ASSUME NEW given \in Typed, ConfirmTwoFactor(r, given)
        PROVE  /\ UNCHANGED <<tables, challengeMu, limits, pending, clock, asked, answers, errors, history>>
               /\ mu[Home[r]] = None /\ mu' = [mu EXCEPT ![Home[r]] = r]
               /\ \E t \in Edits("confirm", given, user), n \in Request :
                     /\ Turn(r, n) /\ n.step = "write" /\ n.copy = t /\ n.kind = "confirm"
                     /\ n.given = given /\ n.factors = {}
                     /\ issued' = issued \cup ({t.secret} \cap Secrets) \cup t.recovery
    <2>1. Enrol(r, "confirm", given) /\ given \in AppCodes \cup RecoveryCodes \cup {None}
      BY <1>3, TypedGiven DEF ConfirmTwoFactor
    <2> QED BY <1>1, <2>1
  <1>4. CASE \E given \in Typed : ConfirmTwoFactor(r, given)
    <2>1. PICK given \in Typed : ConfirmTwoFactor(r, given)
      BY <1>4
    <2>2. given \in AppCodes \cup RecoveryCodes \cup {None} /\ "confirm" \in EditKinds
      BY TypedGiven DEF EditKinds
    <2>3. /\ UNCHANGED <<tables, challengeMu, limits, pending, clock, asked, answers, errors, history>>
          /\ mu[Home[r]] = None /\ mu' = [mu EXCEPT ![Home[r]] = r]
          /\ \E t \in Edits("confirm", given, user), n \in Request :
                /\ Turn(r, n) /\ n.step = "write" /\ n.copy = t /\ n.kind = "confirm"
                /\ n.given = given /\ n.factors = {}
                /\ issued' = issued \cup ({t.secret} \cap Secrets) \cup t.recovery
      BY <1>3, <2>1
    <2> QED BY <2>2, <2>3
  <1>5. CASE LockAndRead(r)
    <2> DEFINE q == request[r]
    <2>1. q \in Request /\ StepKind(q) /\ KindGiven(q, answers, asked)
      BY RequestOf DEF PlaceOf
    <2>2. /\ q.kind \in {"code", "replace"} /\ ReadUnderLock(r, q)
          /\ UNCHANGED <<tables, challengeMu, limits, pending, clock, asked, answers, errors, history>>
      BY <1>5, <2>1 DEF LockAndRead, StepKind, At
    <2>3. /\ q.kind \in EditKinds
          /\ q.given \in AppCodes \cup RecoveryCodes \cup {None} \/ q.kind \notin {"code", "confirm"}
      BY <2>1, <2>2 DEF EditKinds, KindGiven
    <2>4. /\ mu[Home[r]] = None /\ mu' = [mu EXCEPT ![Home[r]] = r]
          /\ \E t \in Edits(q.kind, q.given, user), n \in Request :
                /\ Turn(r, n) /\ n.step = "write" /\ n.copy = t /\ n.kind = q.kind
                /\ n.given = q.given /\ n.factors = q.factors
                /\ issued' = issued \cup ({t.secret} \cap Secrets) \cup t.recovery
      BY <2>1, <2>2, <2>3, ReadTurn
    <2>5. CASE q.kind = "code"
      BY <2>2, <2>3, <2>4, <2>5
    <2>6. CASE q.kind = "replace"
      <3>1. Edits(q.kind, q.given, user) = Edits("replace", None, user)
        BY <2>6 DEF Edits
      <3> QED BY <2>2, <2>3, <2>4, <2>6, <3>1
    <2> QED BY <2>2, <2>5, <2>6
  <1> QED BY <1>2, <1>4, <1>5 DEF Reads
LEMMA RetireTyped ==
    ASSUME RestOK, NEW t, Retire(t)
    PROVE  retired' \subseteq Secrets \cup Passkeys
  BY DEF RestOK, Retire

LEMMA AcceptTyped ==
    ASSUME RestOK, NEW x \in AppCodes \cup RecoveryCodes \cup Challenges, Accept(x)
    PROVE  used' \subseteq AppCodes \cup RecoveryCodes \cup Challenges /\ reused' \subseteq used'
  BY DEF RestOK, Accept

\* A code that is about to be accepted is one: without one there is no copy.
GivenInv ==
    \A r \in Requests : At(r, "write") /\ request[r].kind = "code" =>
        request[r].given \in AppCodes \cup RecoveryCodes

LEMMA CodeTypes ==
    ASSUME Base, GivenInv, NEW r \in Requests, CodeStep(r)
    PROVE  RestOK'
  <1>1. RestOK /\ user \in User /\ Home[r] \in Replicas /\ request[r] \in Request
    BY TypeParts, RequestOf DEF Base, RestOK
  <1>2. CASE Reads(r)
    <2>1. /\ UNCHANGED <<tables, challengeMu, limits, pending, clock, asked, answers, errors, history>>
          /\ mu' = [mu EXCEPT ![Home[r]] = r]
      BY <1>2, ReadsShape
    <2>2. PICK kind \in EditKinds, given \in AppCodes \cup RecoveryCodes \cup {None} :
              \E t \in Edits(kind, given, user) :
                 issued' = issued \cup ({t.secret} \cap Secrets) \cup t.recovery
      BY <1>2, ReadsShape
    <2>3. PICK t \in Edits(kind, given, user) :
              issued' = issued \cup ({t.secret} \cap Secrets) \cup t.recovery
      BY <2>2
    <2>4. t.recovery \subseteq RecoveryCodes
      <3>1. t \in Totp
        BY <2>3, EditsTyped DEF Base
      <3> QED BY <3>1 DEF Totp
    <2>5. issued' \subseteq Secrets \cup RecoveryCodes \cup Passkeys \cup Challenges
      BY <1>1, <2>3, <2>4 DEF RestOK
    <2>6. mu' \in [Replicas -> Requests \cup {None}]
      BY <1>1, <2>1 DEF RestOK
    <2> QED BY <1>1, <2>1, <2>5, <2>6 DEF RestOK, tables, history
  <1>3. ASSUME NEW given \in Typed, GiveCode(r, given)
        PROVE  RestOK'
    BY <1>1, <1>3 DEF GiveCode, RestOK, tables, locks, outside, history
  <1>4. CASE RefuseEdit(r) \/ Succeed(r) \/ RightPassword(r) \/ WrongPassword(r)
    BY <1>1, <1>4 DEF RefuseEdit, Succeed, RightPassword, WrongPassword, RestOK, tables, locks,
                      outside, history
  <1>5. CASE DisableTwoFactor(r) \/ NewRecoveryCodes(r)
    BY <1>1, <1>5 DEF DisableTwoFactor, NewRecoveryCodes, AskPassword, RestOK, tables, locks,
                      outside, history
  <1>6. CASE WriteTotp(r)
    <2>1. /\ mu' = [mu EXCEPT ![Home[r]] = None]
          /\ UNCHANGED <<passkeys, challengeMu, outside, errors, alone>>
      BY <1>6 DEF WriteTotp
    <2>2. user' \in User
      <3>1. request[r].copy \in Totp
        BY <1>1 DEF Request
      <3> QED BY <1>1, <1>6, <3>1, UserShape DEF WriteTotp
    <2>3. retired' \subseteq Secrets \cup Passkeys
      <3>1. Retire(user.totp.secret) \/ UNCHANGED retired
        BY <1>6 DEF WriteTotp
      <3> QED BY <1>1, <3>1, RetireTyped DEF RestOK
    <2>4. used' \subseteq AppCodes \cup RecoveryCodes \cup Challenges /\ reused' \subseteq used'
      <3>1. (Accept(request[r].given) /\ request[r].kind = "code") \/ UNCHANGED <<used, reused>>
        BY <1>6 DEF WriteTotp
      <3>2. CASE Accept(request[r].given) /\ request[r].kind = "code"
        <4>1. request[r].given \in AppCodes \cup RecoveryCodes
          BY <1>6, <3>2 DEF GivenInv, WriteTotp
        <4> QED BY <1>1, <3>2, <4>1, AcceptTyped
      <3>3. CASE UNCHANGED <<used, reused>>
        BY <1>1, <3>3 DEF RestOK
      <3> QED BY <3>1, <3>2, <3>3
    <2>5. mu' \in [Replicas -> Requests \cup {None}]
      BY <1>1, <2>1 DEF RestOK
    <2> QED BY <1>1, <2>1, <2>2, <2>3, <2>4, <2>5 DEF RestOK, outside
  <1>7. CASE ClearTotp(r)
    <2>1. /\ user' = [user EXCEPT !.totp = NoTotp] /\ Retire(user.totp.secret)
          /\ UNCHANGED <<passkeys, locks, outside, errors, used, reused, alone>>
      BY <1>7 DEF ClearTotp, WriteNoTotp
    <2>2. user' \in User
      BY <1>1, <2>1, UserShape, TotpNone
    <2>3. retired' \subseteq Secrets \cup Passkeys
      BY <1>1, <2>1, RetireTyped
    <2> QED BY <1>1, <2>1, <2>2, <2>3 DEF RestOK, locks, outside
  <1> QED BY <1>2, <1>3, <1>4, <1>5, <1>6, <1>7 DEF CodeStep, Reads

LEMMA AnswerShape ==
    ASSUME NEW a \in Answers
    PROVE  a[1] \in Challenges /\ a[2] \in Passkeys /\ a[3] \in 0 .. Cardinality(Challenges)
  BY DEF Answers

LEMMA GivenAnswer ==
    ASSUME Base, NEW r \in Requests, request[r].kind \in {"passkey", "register"}
    PROVE  request[r].given \in answers /\ request[r].given \in Answers
  BY RequestOf DEF PlaceOf, KindGiven, Base, TypeOK

LEMMA PasskeyTypes ==
    ASSUME Base, NEW r \in Requests, PasskeyStep(r)
    PROVE  RestOK'
  <1>1. RestOK /\ user \in User /\ Home[r] \in Replicas /\ StepKind(request[r])
    BY TypeParts, RequestOf DEF Base, RestOK, PlaceOf
  <1>2. ASSUME NEW a \in Answers, FinishWithPasskey(r, a) \/ FinishPasskey(r, a)
        PROVE  RestOK'
    <2>1. /\ answers' = answers \cup {a} /\ issued' = issued \cup {a[2]}
          /\ UNCHANGED <<tables, locks, pending, clock, asked, errors, history>>
      BY <1>2 DEF FinishWithPasskey, FinishPasskey, Answered
    <2>2. a[2] \in Passkeys
      BY AnswerShape
    <2> QED BY <1>1, <2>1, <2>2 DEF RestOK, tables, locks, history
  <1>3. CASE TakeChallenge(r)
    <2>1. challengeMu' \in [Replicas -> Requests \cup {None}]
      BY <1>1, <1>3 DEF TakeChallenge, RestOK
    <2> QED BY <1>1, <1>3, <2>1 DEF TakeChallenge, RestOK, tables, outside, history
  <1>4. CASE ClearChallenge(r)
    <2>1. /\ challengeMu' = [challengeMu EXCEPT ![Home[r]] = None]
          /\ user' = [user EXCEPT !.challenge = None]
          /\ UNCHANGED <<passkeys, mu, outside, errors, retired, alone>>
          /\ request[r].step = "taken"
      BY <1>4 DEF ClearChallenge, At
    <2>2. challengeMu' \in [Replicas -> Requests \cup {None}]
      BY <1>1, <2>1 DEF RestOK
    <2>3. user' \in User
      BY <1>1, <2>1, UserShape
    <2>4. used' \subseteq AppCodes \cup RecoveryCodes \cup Challenges /\ reused' \subseteq used'
      <3>1. Accept(request[r].given[1]) \/ UNCHANGED <<used, reused>>
        BY <1>4 DEF ClearChallenge
      <3>2. request[r].kind \in {"passkey", "register"}
        BY <1>1, <2>1 DEF StepKind
      <3>3. request[r].given[1] \in AppCodes \cup RecoveryCodes \cup Challenges
        BY <3>2, GivenAnswer, AnswerShape
      <3> QED BY <1>1, <3>1, <3>3, AcceptTyped DEF RestOK
    <2> QED BY <1>1, <2>1, <2>2, <2>3, <2>4 DEF RestOK, outside
  <1>5. CASE GetPasskey(r)
    BY <1>1, <1>5 DEF GetPasskey, RestOK, tables, locks, outside, history
  <1>6. CASE UpdatePasskey(r) \/ AddPasskey(r)
    <2>1. request[r].kind \in {"passkey", "register"}
      BY <1>1, <1>6 DEF UpdatePasskey, AddPasskey, StepKind, At
    <2>2. request[r].given[2] \in Passkeys /\ request[r].given[3] \in 0 .. Cardinality(Challenges)
      BY <2>1, GivenAnswer, AnswerShape
    <2>3. passkeys' \in [Passkeys -> (0 .. Cardinality(Challenges)) \cup {None}]
      BY <1>1, <1>6, <2>2 DEF UpdatePasskey, UpdateRow, AddPasskey, RestOK
    <2> QED BY <1>1, <1>6, <2>3 DEF UpdatePasskey, AddPasskey, RestOK, locks, outside, history
  <1> QED BY <1>2, <1>3, <1>4, <1>5, <1>6 DEF PasskeyStep

LEMMA FailTypes ==
    ASSUME Base, NEW r \in Requests, StorageFails(r)
    PROVE  RestOK'
  <1>1. RestOK /\ Home[r] \in Replicas
    BY TypeParts, RequestOf DEF Base
  <1>2. /\ UNCHANGED <<tables, outside, used, reused, retired>>
        /\ errors < MaxErrors /\ errors' = errors + 1
    BY DEF StorageFails
  <1>3. errors' \in 0 .. MaxErrors
    BY <1>1, <1>2, FactorAssumption DEF RestOK
  <1>4. mu' = mu \/ mu' = [mu EXCEPT ![Home[r]] = None]
    BY DEF StorageFails, locks
  <1>5. challengeMu' = challengeMu \/ challengeMu' = [challengeMu EXCEPT ![Home[r]] = None]
    BY DEF StorageFails, locks
  <1>6. /\ mu' \in [Replicas -> Requests \cup {None}]
        /\ challengeMu' \in [Replicas -> Requests \cup {None}]
    BY <1>1, <1>4, <1>5 DEF RestOK
  <1>7. alone' \subseteq alone \cup {"failed"}
    BY DEF StorageFails, EnoughAlone
  <1> QED BY <1>1, <1>2, <1>3, <1>6, <1>7 DEF RestOK, tables, outside

LEMMA OtherTypes ==
    ASSUME TypeOK, OtherStep
    PROVE  RestOK'
  <1>1. RestOK /\ user \in User
    BY TypeParts DEF RestOK
  <1>2. UNCHANGED <<request, limits, locks, used, reused, alone, answers, errors>>
    BY OtherRequests
  <1>3. ASSUME NEW c \in Challenges, BeginRegistration(c) \/ BeginLogin(c)
        PROVE  RestOK'
    <2>1. PICK use \in {"login", "register"} : KeepChallenge(c, use)
      BY <1>3 DEF BeginRegistration, BeginLogin
    <2>2. user' \in User
      BY <1>1, <2>1, UserShape DEF KeepChallenge
    <2>3. asked' \in [Challenges -> {"none", "login", "register"}]
      BY <1>1, <2>1 DEF KeepChallenge, RestOK
    <2> QED BY <1>1, <1>2, <2>1, <2>2, <2>3 DEF KeepChallenge, RestOK, locks, history
  <1>4. ASSUME NEW k \in Passkeys, DeletePasskey(k)
        PROVE  RestOK'
    <2>1. passkeys' \in [Passkeys -> (0 .. Cardinality(Challenges)) \cup {None}]
      BY <1>1, <1>4 DEF DeletePasskey, RestOK
    <2> QED BY <1>1, <1>2, <1>4, <2>1 DEF DeletePasskey, RestOK, locks, outside
  <1>5. ASSUME NEW p \in Replicas, ResetTwoFactor(p)
        PROVE  RestOK'
    <2>1. user' \in User
      BY <1>1, <1>5, UserShape, TotpNone DEF ResetTwoFactor, WriteNoTotp
    <2>2. retired' \subseteq Secrets \cup Passkeys
      BY <1>1, <1>5, RetireTyped DEF ResetTwoFactor, WriteNoTotp
    <2> QED BY <1>1, <1>2, <1>5, <2>1, <2>2 DEF ResetTwoFactor, WriteNoTotp, RestOK, locks, outside
  <1>6. ASSUME DeleteUser
        PROVE  RestOK'
    <2>1. NoUser \in User
      BY TotpNone DEF NoUser, User
    <2>2. Stored \subseteq Passkeys
      BY DEF Stored
    <2> QED BY <1>1, <1>2, <1>6, <2>1, <2>2 DEF DeleteUser, RestOK, locks, outside
  <1>7. ASSUME Tick
        PROVE  RestOK'
    <2>1. clock' \in Now .. MaxTime
      BY <1>1, <1>7, FactorAssumption DEF Tick, RestOK
    <2> QED BY <1>1, <1>2, <1>7, <2>1 DEF Tick, RestOK, tables, locks, history
  <1> QED BY <1>3, <1>4, <1>5, <1>6, <1>7 DEF OtherStep
-----------------------------------------------------------------------------
(* Types and the places of the requests, together.                         *)

Core == Base /\ GivenInv /\ AnswersInv

\* What has been made is never made again, and what a challenge was for stays.
LEMMA RequestOutside ==
    ASSUME Base, NEW r \in Requests, RequestStep(r)
    PROVE  /\ asked' = asked /\ issued \subseteq issued'
           /\ \/ answers' = answers
              \/ \E use \in {"login", "register"} : \E a \in Signed(use) \cap Answers :
                    answers' = answers \cup {a} /\ issued' = issued \cup {a[2]}
  <1>1. CASE SignInStep(r)
    BY <1>1 DEF SignInStep, SubmitPassword, HasPasskey, CodesEnabled, SetSession, AskForCode,
                outside
  <1>2. CASE Reads(r)
    <2>1. /\ UNCHANGED <<asked, answers>>
          /\ \E kind \in EditKinds, given \in AppCodes \cup RecoveryCodes \cup {None} :
             \E t \in Edits(kind, given, user) :
                issued' = issued \cup ({t.secret} \cap Secrets) \cup t.recovery
      BY <1>2, ReadsShape
    <2> QED BY <2>1
  <1>3. CASE CodeStep(r) /\ ~Reads(r)
    BY <1>3 DEF CodeStep, Reads, GiveCode, RefuseEdit, WriteTotp, Succeed, DisableTwoFactor,
                NewRecoveryCodes, AskPassword, RightPassword, WrongPassword, ClearTotp,
                WriteNoTotp, outside
  <1>4. CASE PasskeyStep(r)
    <2>1. ASSUME NEW a \in Answers, FinishWithPasskey(r, a)
          PROVE  /\ a \in Signed("login") /\ answers' = answers \cup {a}
                 /\ issued' = issued \cup {a[2]} /\ asked' = asked
      BY <2>1 DEF FinishWithPasskey, Answered
    <2>2. ASSUME NEW a \in Answers, FinishPasskey(r, a)
          PROVE  /\ a \in Signed("register") /\ answers' = answers \cup {a}
                 /\ issued' = issued \cup {a[2]} /\ asked' = asked
      BY <2>2 DEF FinishPasskey, Answered
    <2>3. CASE \E a \in Answers : FinishWithPasskey(r, a) \/ FinishPasskey(r, a)
      BY <2>1, <2>2, <2>3
    <2>4. CASE TakeChallenge(r) \/ ClearChallenge(r) \/ GetPasskey(r) \/ UpdatePasskey(r)
                 \/ AddPasskey(r)
      BY <2>4 DEF TakeChallenge, ClearChallenge, GetPasskey, UpdatePasskey, AddPasskey, outside
    <2> QED BY <1>4, <2>3, <2>4 DEF PasskeyStep
  <1>5. CASE StorageFails(r)
    BY <1>5 DEF StorageFails, outside
  <1> QED BY <1>1, <1>2, <1>3, <1>4, <1>5 DEF RequestStep

LEMMA AnswersKept ==
    ASSUME TypeOK, AnswersInv, NEW r \in Requests, Base, RequestStep(r)
    PROVE  AnswersInv' /\ answers \subseteq answers' /\ asked' = asked
  <1>1. /\ asked' = asked /\ issued \subseteq issued'
        /\ \/ answers' = answers
           \/ \E use \in {"login", "register"} : \E a \in Signed(use) \cap Answers :
                 answers' = answers \cup {a} /\ issued' = issued \cup {a[2]}
    BY RequestOutside
  <1>2. CASE answers' = answers
    BY <1>1, <1>2 DEF AnswersInv
  <1>3. ASSUME NEW use \in {"login", "register"}, NEW a \in Signed(use) \cap Answers,
               answers' = answers \cup {a}, issued' = issued \cup {a[2]}
        PROVE  AnswersInv'
    <2>1. /\ asked[a[1]] = use
          /\ \/ a \in answers
             \/ (\A b \in answers : b[1] # a[1]) /\ (a[2] \in issued) = (use = "login")
      BY SignedShape
    <2>2. CASE a \in answers
      BY <1>1, <1>3, <2>2 DEF AnswersInv
    <2>3. CASE (\A b \in answers : b[1] # a[1]) /\ (a[2] \in issued) = (use = "login")
      <3>1. \A c \in Challenges : asked'[c] # "none" => c \in issued'
        BY <1>1 DEF AnswersInv
      <3>2. \A b \in answers' : asked'[b[1]] # "none" /\ b[2] \in issued'
        BY <1>1, <1>3, <2>1 DEF AnswersInv
      <3>3. \A b, d \in answers' : b[1] = d[1] => b = d
        BY <1>3, <2>3 DEF AnswersInv
      <3>4. \A b, d \in answers' :
               asked'[b[1]] = "register" /\ asked'[d[1]] = "register" /\ b[2] = d[2] => b = d
        <4>1. ASSUME NEW b \in answers, asked[a[1]] = "register"
              PROVE  b[2] # a[2]
          BY <2>1, <2>3, <4>1 DEF AnswersInv
        <4> QED BY <1>1, <1>3, <4>1 DEF AnswersInv
      <3> QED BY <3>1, <3>2, <3>3, <3>4 DEF AnswersInv
    <2> QED BY <2>1, <2>2, <2>3
  <1> QED BY <1>1, <1>2, <1>3

LEMMA OtherAnswersKept ==
    ASSUME TypeOK, AnswersInv, OtherStep
    PROVE  /\ AnswersInv' /\ answers' = answers /\ issued \subseteq issued'
           /\ \A c \in Challenges : asked[c] # "none" => asked'[c] = asked[c]
  <1>1. answers' = answers
    BY OtherRequests
  <1>2. CASE UNCHANGED <<issued, asked>>
    BY <1>1, <1>2 DEF AnswersInv
  <1>3. ASSUME NEW c \in Challenges, NEW use \in {"login", "register"}, KeepChallenge(c, use)
        PROVE  /\ AnswersInv' /\ issued \subseteq issued'
               /\ \A d \in Challenges : asked[d] # "none" => asked'[d] = asked[d]
    <2>1. /\ asked' = [asked EXCEPT ![c] = use] /\ issued' = issued \cup {c} /\ c \notin issued
      BY <1>3 DEF KeepChallenge
    <2>2. asked'[c] = use /\ \A d \in Challenges \ {c} : asked'[d] = asked[d]
      BY <2>1 DEF TypeOK
    <2>3. \A d \in Challenges : asked[d] # "none" => d # c
      BY <2>1 DEF AnswersInv
    <2>4. ASSUME NEW a \in answers
          PROVE  /\ a[1] \in Challenges /\ asked[a[1]] # "none" /\ asked'[a[1]] = asked[a[1]]
                 /\ a[2] \in issued
      <3>1. a[1] \in Challenges
        BY AnswerShape DEF TypeOK
      <3> QED BY <2>2, <2>3, <3>1 DEF AnswersInv
    <2>5. \A d \in Challenges : asked'[d] # "none" => d \in issued'
      BY <2>1, <2>2 DEF AnswersInv
    <2>6. AnswersInv'
      BY <1>1, <2>1, <2>4, <2>5 DEF AnswersInv
    <2> QED BY <2>1, <2>2, <2>3, <2>6
  <1>4. \/ UNCHANGED <<issued, asked>>
        \/ \E c \in Challenges, use \in {"login", "register"} : KeepChallenge(c, use)
    BY DEF OtherStep, BeginRegistration, BeginLogin, DeletePasskey, ResetTwoFactor, WriteNoTotp,
           DeleteUser, Tick, outside
  <1> QED BY <1>1, <1>2, <1>3, <1>4

\* A request that stays the same keeps its place.
LEMMA SamePlace ==
    ASSUME TypeOK, AnswersInv, NEW q \in Request, NEW n \in Request, PlaceOf(q), Same(q, n),
           answers \subseteq answers',
           \A c \in Challenges : asked[c] # "none" => asked'[c] = asked[c]
    PROVE  PlaceOf(n)'
  <1>1. StepKind(n)
    BY DEF PlaceOf, Same, StepKind
  <1>2. ASSUME n.kind \in {"passkey", "register"}
        PROVE  n.given \in answers' /\ asked'[n.given[1]] = Use(n.kind)
    <2>1. n.given \in answers /\ asked[n.given[1]] = Use(n.kind)
      BY <1>2 DEF PlaceOf, KindGiven, Same
    <2>2. n.given[1] \in Challenges
      BY <2>1, AnswerShape DEF TypeOK
    <2> QED BY <2>1, <2>2 DEF Use
  <1>3. KindGiven(n, answers', asked')
    BY <1>2 DEF PlaceOf, KindGiven, Same
  <1> QED BY <1>1, <1>3 DEF PlaceOf

\* An accepted code is one of the app or a recovery code.
LEMMA CodeGiven ==
    ASSUME NEW given, user \in User, Edits("code", given, user) # {}
    PROVE  given \in AppCodes \cup RecoveryCodes
  <1>1. user.totp.recovery \subseteq RecoveryCodes
    BY DEF User, Totp
  <1>2. Accepted(user.totp, given) # {}
    BY DEF Edits
  <1> QED BY <1>1, <1>2 DEF Accepted, Fits, UseRecoveryCode

LEMMA RestTypes ==
    ASSUME Base, GivenInv, NEW r \in Requests, RequestStep(r)
    PROVE  RestOK'
  BY SignInTypes, CodeTypes, PasskeyTypes, FailTypes DEF RequestStep

LEMMA RequestCore ==
    ASSUME Core, NEW r \in Requests, RequestStep(r), ops' = ops
    PROVE  Core'
  <1>1. Base /\ TypeOK /\ GivenInv /\ AnswersInv /\ user \in User
    BY DEF Core, Base, TypeOK
  <1>2. PICK n \in Request : Sound(r, n)
    BY <1>1, StepSound
  <1>3. AnswersInv' /\ answers \subseteq answers' /\ asked' = asked
    BY <1>1, AnswersKept
  <1>4. /\ request' \in [Requests -> Request] /\ request'[r] = n
        /\ \A o \in Requests \ {r} : Same(request[o], request'[o])
        /\ Limited(r, n) /\ StepKind(n) /\ KindGiven(n, answers', asked')
        /\ n.step = "write" => Reads(r)
    BY <1>2 DEF Sound, Turn
  <1>5. TypeOK'
    <2>1. RestOK'
      BY <1>1, RestTypes
    <2>2. /\ wrong' \in [Replicas -> [Limits -> 0 .. MaxWrong]]
          /\ guesses' \in [Replicas -> [Limits -> Nat]]
      BY <1>1, <1>4, LimitTypes
    <2> QED BY <1>1, <1>4, <2>1, <2>2 DEF TypeOK, RestOK
  <1>6. PlaceInv'
    <2>1. ASSUME NEW o \in Requests \ {r}
          PROVE  PlaceOf(request[o])'
      <3>1. /\ request[o] \in Request /\ request'[o] \in Request /\ PlaceOf(request[o])
            /\ Same(request[o], request'[o])
        BY <1>1, <1>4, RequestOf
      <3>2. PICK m \in Request : m = request'[o]
        BY <3>1
      <3>3. PlaceOf(m)'
        BY <1>1, <1>3, <3>1, <3>2, SamePlace
      <3> QED BY <3>2, <3>3 DEF PlaceOf
    <2>2. PlaceOf(request[r])'
      BY <1>4 DEF PlaceOf
    <2> QED BY <2>1, <2>2 DEF PlaceInv
  <1>7. GivenInv'
    <2>1. ASSUME n.step = "write", n.kind = "code"
          PROVE  n.given \in AppCodes \cup RecoveryCodes
      <3>1. PICK kind \in EditKinds, given \in AppCodes \cup RecoveryCodes \cup {None} :
                \E t \in Edits(kind, given, user), m \in Request :
                   /\ Turn(r, m) /\ m.kind = kind
                   /\ kind \in {"code", "confirm"} => m.given = given
        BY <1>1, <1>4, <2>1, ReadsShape
      <3>2. kind = "code" /\ n.given = given /\ Edits(kind, given, user) # {}
        BY <1>4, <2>1, <3>1 DEF Turn
      <3> QED BY <1>1, <3>2, CodeGiven
    <2>2. ASSUME NEW o \in Requests \ {r}, request'[o].step = "write", request'[o].kind = "code"
          PROVE  request'[o].given \in AppCodes \cup RecoveryCodes
      BY <1>1, <1>4, <2>2 DEF Same, GivenInv, At
    <2> QED BY <1>4, <2>1, <2>2 DEF GivenInv, At
  <1> QED BY <1>3, <1>5, <1>6, <1>7 DEF Core, Base

LEMMA OtherCore ==
    ASSUME Core, OtherStep, ops' = ops
    PROVE  Core'
  <1>1. Base /\ TypeOK /\ GivenInv /\ AnswersInv
    BY DEF Core, Base
  <1>2. UNCHANGED <<request, limits, locks, used, reused, alone, answers, errors>>
    BY OtherRequests
  <1>3. /\ AnswersInv' /\ answers' = answers
        /\ \A c \in Challenges : asked[c] # "none" => asked'[c] = asked[c]
    BY <1>1, OtherAnswersKept
  <1>4. RestOK'
    BY <1>1, OtherTypes
  <1>5. TypeOK'
    BY <1>1, <1>2, <1>4 DEF TypeOK, RestOK, limits
  <1>6. PlaceInv'
    <2>1. ASSUME NEW o \in Requests
          PROVE  PlaceOf(request[o])'
      <3>1. PICK m \in Request : m = request[o]
        BY <1>1, RequestOf
      <3>2. PlaceOf(m) /\ Same(m, m)
        BY <1>1, <3>1, RequestOf, SameItself
      <3>3. PlaceOf(m)'
        BY <1>1, <1>3, <3>2, SamePlace
      <3> QED BY <1>2, <3>1, <3>3 DEF PlaceOf
    <2> QED BY <2>1 DEF PlaceInv
  <1>7. GivenInv'
    BY <1>1, <1>2 DEF GivenInv, At
  <1> QED BY <1>3, <1>5, <1>6, <1>7 DEF Core, Base

LEMMA CoreInit ==
    ASSUME Init
    PROVE  Core
  <1>1. \A r \in Requests : request[r] = NoRequest
    BY DEF Init
  <1>2. TypeOK
    <2>1. user \in User
      BY TotpNone DEF Init, NoUser, User
    <2>2. /\ 0 \in 0 .. MaxWrong /\ 0 \in 0 .. MaxErrors /\ Now \in Now .. MaxTime
          /\ -1 \in -1 .. MaxTime + PendingFor
      BY FactorAssumption
    <2> QED BY <2>1, <2>2, NoRequestShape DEF Init, TypeOK
  <1>3. PlaceInv
    BY <1>1, NoRequestShape DEF PlaceInv, PlaceOf, StepKind, KindGiven
  <1>4. GivenInv /\ AnswersInv
    BY <1>1, NoRequestShape DEF Init, GivenInv, AnswersInv, At
  <1> QED BY <1>2, <1>3, <1>4 DEF Core, Base

LEMMA CoreHolds == Spec => []Core
  <1>1. Core /\ [Next]_vars => Core'
    <2>1. ASSUME Core, Next
          PROVE  Core'
      BY <2>1, NextSplit, RequestCore, OtherCore
    <2>2. ASSUME Core, UNCHANGED vars
          PROVE  Core'
      BY <2>2 DEF vars, tables, locks, limits, outside, history, Core, Base, TypeOK, PlaceInv,
                  PlaceOf, GivenInv, AnswersInv, At
    <2> QED BY <2>1, <2>2
  <1> QED BY <1>1, CoreInit, PTL DEF Spec

\* Every variable has its type, whatever the requests do and whichever calls to
\* the storage fail.
THEOREM FactorTypes == Spec => []TypeOK
  <1>1. Core => TypeOK
    BY DEF Core, Base
  <1> QED BY <1>1, CoreHolds, PTL
-----------------------------------------------------------------------------
(* The limits of wrong answers, for any number of processes.               *)

\* The attempts that count after a step, but for those of the request itself.
LEMMA FreshShrinks ==
    ASSUME Base, NEW r \in Requests, NEW n \in Request, Turn(r, n), NEW p \in Replicas,
           NEW l \in Limits
    PROVE  /\ Fresh(p, l)' \subseteq Fresh(p, l) \cup {r}
           /\ r \in Fresh(p, l)' => Home[r] = p /\ n.fresh /\ LimitOf(n.kind) = l
           /\ IsFiniteSet(Fresh(p, l)) /\ IsFiniteSet(Fresh(p, l)')
           /\ Cardinality(Fresh(p, l)) \in Nat /\ Cardinality(Fresh(p, l)') \in Nat
  <1>1. ASSUME NEW o \in Requests \ {r}, o \in Fresh(p, l)'
        PROVE  o \in Fresh(p, l)
    BY <1>1 DEF Fresh, Turn, Same
  <1>2. r \in Fresh(p, l)' => Home[r] = p /\ n.fresh /\ LimitOf(n.kind) = l
    BY DEF Fresh, Turn
  <1>3. Fresh(p, l) \subseteq Requests /\ Fresh(p, l)' \subseteq Requests
    BY DEF Fresh
  <1>4. IsFiniteSet(Fresh(p, l)) /\ IsFiniteSet(Fresh(p, l)')
    BY <1>3, FactorAssumption, FS_Subset
  <1>5. Cardinality(Fresh(p, l)) \in Nat /\ Cardinality(Fresh(p, l)') \in Nat
    BY <1>4, FS_CardinalityType
  <1> QED BY <1>1, <1>2, <1>3, <1>4, <1>5

\* Cardinalities, the way the next lemma needs them.
LEMMA Smaller ==
    ASSUME NEW S, NEW T, IsFiniteSet(S), NEW x
    PROVE  /\ T \subseteq S => Cardinality(T) <= Cardinality(S)
           /\ T \subseteq S \cup {x} => Cardinality(T) <= Cardinality(S) + 1
           /\ T \subseteq S \ {x} /\ x \in S => Cardinality(T) <= Cardinality(S) - 1
           /\ T \subseteq {x} => Cardinality(T) <= 1
           /\ T = {} => Cardinality(T) = 0
  <1>1. T \subseteq S => Cardinality(T) <= Cardinality(S)
    BY FS_Subset
  <1>2. T \subseteq S \cup {x} => Cardinality(T) <= Cardinality(S) + 1
    <2>1. /\ IsFiniteSet(S \cup {x}) /\ Cardinality(S) \in Nat
          /\ Cardinality(S \cup {x}) <= Cardinality(S) + 1
      BY FS_AddElement, FS_CardinalityType
    <2>2. T \subseteq S \cup {x} => Cardinality(T) <= Cardinality(S \cup {x}) /\ IsFiniteSet(T)
      BY <2>1, FS_Subset
    <2>3. Cardinality(S \cup {x}) \in Nat /\ (IsFiniteSet(T) => Cardinality(T) \in Nat)
      BY <2>1, FS_CardinalityType
    <2> QED BY <2>1, <2>2, <2>3
  <1>3. T \subseteq S \ {x} /\ x \in S => Cardinality(T) <= Cardinality(S) - 1
    <2>1. IsFiniteSet(S \ {x}) /\ (x \in S => Cardinality(S \ {x}) = Cardinality(S) - 1)
      BY FS_RemoveElement
    <2>2. T \subseteq S \ {x} => Cardinality(T) <= Cardinality(S \ {x})
      BY <2>1, FS_Subset
    <2> QED BY <2>1, <2>2
  <1>4. T \subseteq {x} => Cardinality(T) <= 1
    <2>1. IsFiniteSet({x}) /\ Cardinality({x}) = 1
      BY FS_Singleton
    <2>2. T \subseteq {x} => Cardinality(T) <= Cardinality({x})
      BY <2>1, FS_Subset
    <2> QED BY <2>1, <2>2
  <1>5. T = {} => Cardinality(T) = 0
    BY FS_EmptySet
  <1> QED BY <1>1, <1>2, <1>3, <1>4, <1>5

LEMMA GuessKept ==
    ASSUME Base, GuessInv, NEW r \in Requests, NEW n \in Request, Turn(r, n), Limited(r, n)
    PROVE  GuessInv'
  <1> SUFFICES ASSUME NEW p \in Replicas, NEW l \in Limits
               PROVE  (guesses[p][l] + Cardinality(Fresh(p, l)) <= wrong[p][l])'
    BY DEF GuessInv
  <1> DEFINE F == Fresh(p, l)
             G == Fresh(p, l)'
             mine(k) == Home[r] = p /\ LimitOf(k) = l
  <1>1. /\ G \subseteq F \cup {r} /\ (r \in G => mine(n.kind) /\ n.fresh)
        /\ IsFiniteSet(F) /\ Cardinality(F) \in Nat /\ Cardinality(G) \in Nat
    BY FreshShrinks
  <1>2. /\ guesses[p][l] + Cardinality(F) <= wrong[p][l]
        /\ guesses[p][l] \in Nat /\ wrong[p][l] \in Nat /\ Home[r] \in Replicas
    <2>1. wrong[p][l] \in 0 .. MaxWrong /\ guesses[p][l] \in Nat
      BY DEF Base, TypeOK
    <2> QED BY <2>1, RequestOf DEF GuessInv
  <1>3. /\ r \in F <=> request[r].fresh /\ mine(request[r].kind)
        /\ r \in G <=> n.fresh /\ mine(n.kind)
    BY DEF Fresh, Turn
  <1>4. /\ wrong \in [Replicas -> [Limits -> 0 .. MaxWrong]]
        /\ guesses \in [Replicas -> [Limits -> Nat]]
    BY DEF Base, TypeOK
  <1>5. ASSUME guesses'[p][l] = guesses[p][l], wrong'[p][l] = wrong[p][l], r \in G => r \in F
        PROVE  guesses'[p][l] + Cardinality(G) <= wrong'[p][l]
    <2>1. Cardinality(G) <= Cardinality(F)
      BY <1>1, <1>5, Smaller
    <2> QED BY <1>1, <1>2, <1>5, <2>1
  <1>6. CASE Quiet(r, n)
    BY <1>3, <1>5, <1>6 DEF Quiet, limits
  <1>7. CASE Counts(r, n)
    <2>1. CASE mine(n.kind)
      <3>1. guesses'[p][l] = guesses[p][l] /\ wrong'[p][l] = wrong[p][l] + 1
        BY <1>4, <1>7, <2>1 DEF Counts
      <3>2. Cardinality(G) <= Cardinality(F) + 1
        BY <1>1, Smaller
      <3> QED BY <1>1, <1>2, <3>1, <3>2
    <2>2. CASE ~mine(n.kind)
      <3>1. guesses'[p][l] = guesses[p][l] /\ wrong'[p][l] = wrong[p][l]
        BY <1>4, <1>7, <2>2 DEF Counts
      <3> QED BY <1>1, <1>5, <2>2, <3>1
    <2> QED BY <2>1, <2>2
  <1>8. CASE CountsAnew(r, n)
    <2>1. CASE mine(n.kind)
      <3>1. guesses'[p][l] = 0 /\ wrong'[p][l] = 1
        BY <1>4, <1>8, <2>1 DEF CountsAnew
      <3>2. G \subseteq {r}
        BY <1>8, <2>1 DEF CountsAnew, Fresh
      <3>3. Cardinality(G) <= 1
        BY <1>1, <3>2, Smaller
      <3> QED BY <1>1, <3>1, <3>3
    <2>2. CASE ~mine(n.kind)
      <3>1. guesses'[p][l] = guesses[p][l] /\ wrong'[p][l] = wrong[p][l]
        BY <1>4, <1>8, <2>2 DEF CountsAnew
      <3> QED BY <1>1, <1>5, <2>2, <3>1
    <2> QED BY <2>1, <2>2
  <1>9. CASE Guessed(r, n)
    <2>1. CASE mine(request[r].kind)
      <3>1. guesses'[p][l] = guesses[p][l] + 1 /\ wrong'[p][l] = wrong[p][l]
        BY <1>4, <1>9, <2>1 DEF Guessed
      <3>2. r \in F /\ G \subseteq F \ {r}
        BY <1>1, <1>3, <1>9, <2>1 DEF Guessed
      <3>3. Cardinality(G) <= Cardinality(F) - 1
        BY <1>1, <3>2, Smaller
      <3> QED BY <1>1, <1>2, <3>1, <3>3
    <2>2. CASE ~mine(request[r].kind)
      <3>1. guesses'[p][l] = guesses[p][l] /\ wrong'[p][l] = wrong[p][l]
        BY <1>4, <1>9, <2>2 DEF Guessed
      <3> QED BY <1>1, <1>5, <1>9, <3>1 DEF Guessed
    <2> QED BY <2>1, <2>2
  <1>10. CASE Forgets(r, n)
    <2>1. CASE mine(n.kind)
      <3>1. guesses'[p][l] = 0 /\ wrong'[p][l] = 0
        BY <1>4, <1>10, <2>1 DEF Forgets
      <3>2. G = {}
        BY <1>10, <2>1 DEF Forgets, Fresh
      <3>3. Cardinality(G) = 0
        BY <3>2, FS_EmptySet
      <3> QED BY <3>1, <3>3
    <2>2. CASE ~mine(n.kind)
      <3>1. guesses'[p][l] = guesses[p][l] /\ wrong'[p][l] = wrong[p][l]
        BY <1>4, <1>10, <2>2 DEF Forgets
      <3> QED BY <1>1, <1>5, <2>2, <3>1
    <2> QED BY <2>1, <2>2
  <1> QED BY <1>6, <1>7, <1>8, <1>9, <1>10 DEF Limited

\* However many requests and processes there are, and however their steps
\* interleave, no process checks more wrong answers than the limit before it
\* begins to count anew (beginSecondFactor, attempt).
THEOREM GuessesBounded == Spec => []GuessesLimited
  <1>1. Init => GuessInv
    <2> SUFFICES ASSUME Init
                 PROVE  GuessInv
      OBVIOUS
    <2>1. ASSUME NEW p \in Replicas, NEW l \in Limits
          PROVE  guesses[p][l] + Cardinality(Fresh(p, l)) <= wrong[p][l]
      <3>1. Fresh(p, l) = {}
        BY NoRequestShape DEF Init, Fresh
      <3>2. Cardinality(Fresh(p, l)) = 0
        BY <3>1, FS_EmptySet
      <3> QED BY <3>2 DEF Init
    <2> QED BY <2>1 DEF GuessInv
  <1>2. Core /\ GuessInv /\ [Next]_vars => GuessInv'
    <2>1. ASSUME Core, GuessInv, NEW r \in Requests, RequestStep(r)
          PROVE  GuessInv'
      <3>1. Base
        BY <2>1 DEF Core
      <3>2. PICK n \in Request : Sound(r, n)
        BY <2>1, <3>1, StepSound
      <3> QED BY <2>1, <3>1, <3>2, GuessKept DEF Sound
    <2>2. ASSUME GuessInv, UNCHANGED <<request, limits>>
          PROVE  GuessInv'
      BY <2>2 DEF GuessInv, Fresh, limits
    <2> QED BY <2>1, <2>2, NextSplit, OtherRequests DEF vars
  <1>3. Core /\ GuessInv => GuessesLimited
    <2> SUFFICES ASSUME Core, GuessInv, NEW p \in Replicas, NEW l \in Limits
                 PROVE  guesses[p][l] <= MaxWrong
      BY DEF GuessesLimited
    <2>1. /\ wrong[p][l] \in 0 .. MaxWrong /\ guesses[p][l] \in Nat /\ MaxWrong \in Nat
          /\ guesses[p][l] + Cardinality(Fresh(p, l)) <= wrong[p][l]
      BY FactorAssumption DEF Core, Base, TypeOK, GuessInv
    <2>2. Fresh(p, l) \subseteq Requests
      BY DEF Fresh
    <2>3. Cardinality(Fresh(p, l)) \in Nat
      BY <2>2, FactorAssumption, FS_Subset, FS_CardinalityType
    <2> QED BY <2>1, <2>3
  <1> QED BY <1>1, <1>2, <1>3, CoreHolds, PTL DEF Spec
-----------------------------------------------------------------------------
(* The mutexes.                                                            *)

LEMMA ReadsFrom ==
    ASSUME NEW r \in Requests, Reads(r)
    PROVE  request[r].step \in {"idle", "lock"}
  BY DEF Reads, StartTwoFactor, ConfirmTwoFactor, Enrol, LockAndRead, At

LEMMA MutexMoves ==
    ASSUME Base, NEW r \in Requests, RequestStep(r)
    PROVE  /\ \/ Reads(r) /\ mu[Home[r]] = None /\ mu' = [mu EXCEPT ![Home[r]] = r]
              \/ At(r, "write") /\ mu' = [mu EXCEPT ![Home[r]] = None]
              \/ ~Reads(r) /\ mu' = mu
           /\ \/ /\ TakeChallenge(r) /\ challengeMu[Home[r]] = None
                 /\ challengeMu' = [challengeMu EXCEPT ![Home[r]] = r]
              \/ At(r, "taken") /\ challengeMu' = [challengeMu EXCEPT ![Home[r]] = None]
              \/ request'[r].step # "taken" /\ challengeMu' = challengeMu
  <1>1. PICK n \in Request : Sound(r, n)
    BY StepSound
  <1>2. request'[r] = n /\ (n.step = "taken" => TakeChallenge(r))
    BY <1>1 DEF Sound, Turn
  <1>3. CASE Reads(r)
    <2>1. mu[Home[r]] = None /\ mu' = [mu EXCEPT ![Home[r]] = r] /\ challengeMu' = challengeMu
      BY <1>3, ReadsShape
    <2>2. ~TakeChallenge(r)
      BY <1>3, ReadsFrom DEF TakeChallenge, At
    <2> QED BY <1>2, <1>3, <2>1, <2>2
  <1>4. CASE TakeChallenge(r)
    <2>1. ~Reads(r) /\ mu' = mu
      BY <1>4, ReadsFrom DEF TakeChallenge, At
    <2>2. CASE user.challenge # None
      BY <1>4, <2>1, <2>2 DEF TakeChallenge
    <2>3. CASE user.challenge = None
      <3>1. Refused(r) /\ challengeMu' = challengeMu
        BY <1>4, <2>3 DEF TakeChallenge
      <3>2. request'[r] = NoRequest
        BY <3>1, RefusedTurn DEF Turn
      <3> QED BY <2>1, <3>1, <3>2, NoRequestShape
    <2> QED BY <2>2, <2>3
  <1>5. CASE SignInStep(r) /\ ~Reads(r) /\ ~TakeChallenge(r)
    <2>1. UNCHANGED locks
      BY <1>5 DEF SignInStep, SubmitPassword, HasPasskey, CodesEnabled, SetSession
    <2> QED BY <1>2, <1>5, <2>1 DEF locks
  <1>6. CASE WriteTotp(r) /\ ~Reads(r) /\ ~TakeChallenge(r)
    BY <1>2, <1>6 DEF WriteTotp
  <1>7. CASE CodeStep(r) /\ ~WriteTotp(r) /\ ~Reads(r) /\ ~TakeChallenge(r)
    <2>1. UNCHANGED locks
      BY <1>7 DEF CodeStep, Reads, GiveCode, RefuseEdit, Succeed, DisableTwoFactor,
                  NewRecoveryCodes, AskPassword, RightPassword, WrongPassword, ClearTotp,
                  WriteNoTotp
    <2> QED BY <1>2, <1>7, <2>1 DEF locks
  <1>8. CASE PasskeyStep(r) /\ ~Reads(r) /\ ~TakeChallenge(r)
    <2>1. CASE ClearChallenge(r)
      BY <1>2, <1>8, <2>1 DEF ClearChallenge
    <2>2. CASE ~ClearChallenge(r)
      <3>1. UNCHANGED locks
        BY <1>8, <2>2 DEF PasskeyStep, FinishWithPasskey, FinishPasskey, Answered, GetPasskey,
                          UpdatePasskey, AddPasskey
      <3> QED BY <1>2, <1>8, <3>1 DEF locks
    <2> QED BY <2>1, <2>2
  <1>9. CASE StorageFails(r) /\ ~Reads(r) /\ ~TakeChallenge(r)
    <2>1. \/ mu' = mu
          \/ (At(r, "write") /\ mu' = [mu EXCEPT ![Home[r]] = None])
      BY <1>9 DEF StorageFails, locks
    <2>2. \/ challengeMu' = challengeMu
          \/ (At(r, "taken") /\ challengeMu' = [challengeMu EXCEPT ![Home[r]] = None])
      BY <1>9 DEF StorageFails, locks
    <2> QED BY <1>2, <1>9, <2>1, <2>2
  <1> QED BY <1>3, <1>4, <1>5, <1>6, <1>7, <1>8, <1>9 DEF RequestStep

LEMMA LockKept ==
    ASSUME Base, LockInv, NEW r \in Requests, RequestStep(r)
    PROVE  LockInv'
  <1>1. PICK n \in Request : Sound(r, n)
    BY StepSound
  <1>2. /\ request'[r] = n
        /\ n.step = "write" => Reads(r)
        /\ n.step = "taken" => TakeChallenge(r)
        /\ \A o \in Requests \ {r} : request'[o].step = request[o].step
    BY <1>1 DEF Sound, Turn, Same
  <1>3. /\ mu \in [Replicas -> Requests \cup {None}]
        /\ challengeMu \in [Replicas -> Requests \cup {None}]
        /\ None \notin Requests /\ Home \in [Requests -> Replicas]
    BY NamesAssumption, FactorAssumption DEF Base, TypeOK
  <1>4. ASSUME NEW o \in Requests, request'[o].step = "write"
        PROVE  mu'[Home[o]] = o
    <2>1. CASE Reads(r)
      <3>1. mu[Home[r]] = None /\ mu' = [mu EXCEPT ![Home[r]] = r]
        BY <2>1, ReadsShape
      <3>2. CASE o = r
        BY <1>3, <3>1, <3>2
      <3>3. CASE o # r
        <4>1. mu[Home[o]] = o
          BY <1>2, <1>4, <3>3 DEF LockInv, At
        <4> QED BY <1>3, <3>1, <4>1
      <3> QED BY <3>2, <3>3
    <2>2. CASE ~Reads(r)
      <3>1. o # r /\ mu[Home[o]] = o
        BY <1>2, <1>4, <2>2 DEF LockInv, At
      <3>2. CASE At(r, "write") /\ mu' = [mu EXCEPT ![Home[r]] = None]
        <4>1. mu[Home[r]] = r
          BY <3>2 DEF LockInv
        <4> QED BY <1>3, <3>1, <3>2, <4>1
      <3> QED BY <2>2, <3>1, <3>2, MutexMoves
    <2> QED BY <2>1, <2>2
  <1>5. ASSUME NEW o \in Requests, request'[o].step = "taken"
        PROVE  challengeMu'[Home[o]] = o
    <2>1. CASE challengeMu[Home[r]] = None /\ challengeMu' = [challengeMu EXCEPT ![Home[r]] = r]
      <3>1. CASE o = r
        BY <1>3, <2>1, <3>1
      <3>2. CASE o # r
        <4>1. challengeMu[Home[o]] = o
          BY <1>2, <1>5, <3>2 DEF LockInv, At
        <4> QED BY <1>3, <2>1, <4>1
      <3> QED BY <3>1, <3>2
    <2>2. CASE At(r, "taken") /\ challengeMu' = [challengeMu EXCEPT ![Home[r]] = None]
      <3>1. challengeMu[Home[r]] = r
        BY <2>2 DEF LockInv
      <3>2. o # r
        BY <1>2, <1>5, <2>2 DEF TakeChallenge, At
      <3>3. challengeMu[Home[o]] = o
        BY <1>2, <1>5, <3>2 DEF LockInv, At
      <3> QED BY <1>3, <2>2, <3>1, <3>2, <3>3
    <2>3. CASE request'[r].step # "taken" /\ challengeMu' = challengeMu
      BY <1>2, <1>5, <2>3 DEF LockInv, At
    <2> QED BY <2>1, <2>2, <2>3, MutexMoves
  <1> QED BY <1>4, <1>5 DEF LockInv, At

LEMMA LockHolds == Spec => []LockInv
  <1>1. Init => LockInv
    BY NoRequestShape DEF Init, LockInv, At
  <1>2. Core /\ LockInv /\ [Next]_vars => LockInv'
    <2>1. ASSUME Core, LockInv, NEW r \in Requests, RequestStep(r)
          PROVE  LockInv'
      BY <2>1, LockKept DEF Core
    <2>2. ASSUME LockInv, UNCHANGED <<request, locks>>
          PROVE  LockInv'
      BY <2>2 DEF LockInv, locks, At
    <2> QED BY <2>1, <2>2, NextSplit, OtherRequests DEF vars
  <1> QED BY <1>1, <1>2, CoreHolds, PTL DEF Spec

\* In one process one request at a time is between reading and writing.
LEMMA OneWriter ==
    ASSUME OneProcess, Base, LockInv, NEW r \in Requests, NEW o \in Requests, r # o
    PROVE  /\ ~(At(r, "write") /\ At(o, "write"))
           /\ ~(At(r, "taken") /\ At(o, "taken"))
  <1>1. Home[r] = Home[o]
    BY RequestOf DEF OneProcess
  <1> QED BY <1>1 DEF LockInv

LEMMA NoWriter ==
    ASSUME OneProcess, Base, LockInv, NEW p \in Replicas, mu[p] = None, NEW o \in Requests
    PROVE  ~At(o, "write")
  <1>1. Home[o] = p
    BY RequestOf DEF OneProcess
  <1> QED BY <1>1, NamesAssumption DEF LockInv
-----------------------------------------------------------------------------
(* Secrets that were removed stay removed.                                 *)

\* The steps of a request that write the tables or accept an answer.
Writes(r) ==
    \/ WriteTotp(r) \/ ClearTotp(r) \/ SetSession(r)
    \/ ClearChallenge(r) \/ AddPasskey(r) \/ UpdatePasskey(r)

LEMMA TablesStay ==
    ASSUME Base, NEW r \in Requests, RequestStep(r), ~Writes(r)
    PROVE  UNCHANGED <<user, passkeys, used, reused, retired>>
  <1>1. CASE SignInStep(r)
    BY <1>1 DEF Writes, SignInStep, SubmitPassword, HasPasskey, CodesEnabled, tables, history
  <1>2. CASE Reads(r)
    BY <1>2, ReadsShape DEF tables, history
  <1>3. CASE CodeStep(r) /\ ~Reads(r)
    BY <1>3 DEF Writes, CodeStep, Reads, GiveCode, RefuseEdit, Succeed, DisableTwoFactor,
                NewRecoveryCodes, AskPassword, RightPassword, WrongPassword, tables, history
  <1>4. CASE PasskeyStep(r)
    BY <1>4 DEF Writes, PasskeyStep, FinishWithPasskey, FinishPasskey, Answered, TakeChallenge,
                GetPasskey, tables, history
  <1>5. CASE StorageFails(r)
    BY <1>5 DEF StorageFails, tables
  <1> QED BY <1>1, <1>2, <1>3, <1>4, <1>5 DEF RequestStep

LEMMA IssuedNames ==
    ASSUME TypeOK
    PROVE  /\ None \notin issued /\ None \notin Secrets /\ None \notin Passkeys /\ None \notin retired
           /\ Secrets \cap Passkeys = {}
           /\ user \in User /\ user.totp \in Totp /\ user.totp.secret \in Secrets \cup {None}
           /\ user.totp.recovery \subseteq RecoveryCodes
           /\ Stored \subseteq Passkeys
  <1>1. None \notin issued /\ None \notin retired
    BY NamesAssumption DEF TypeOK
  <1>2. user \in User /\ user.totp \in Totp
    BY UserShape DEF TypeOK
  <1> QED BY <1>1, <1>2, NamesAssumption DEF Totp, Stored

LEMMA NoTotpShape ==
    NoTotp.secret = None /\ NoTotp.recovery = {} /\ NoTotp.enabled = FALSE /\ NoTotp.last = 0
  BY DEF NoTotp

LEMMA SecretsKept ==
    ASSUME OneProcess, Core, LockInv, SecretsInv, NEW r \in Requests, RequestStep(r)
    PROVE  SecretsInv'
  <1>1. Base /\ TypeOK /\ user \in User
    BY DEF Core, Base, TypeOK
  <1>2. PICK n \in Request : Sound(r, n)
    BY <1>1, StepSound
  <1>3. /\ request'[r] = n
        /\ n.step = "write" => Reads(r)
        /\ \A o \in Requests \ {r} :
              /\ request'[o].step = request[o].step /\ request'[o].copy = request[o].copy
              /\ request'[o].kind = request[o].kind
    BY <1>2 DEF Sound, Turn, Same
  <1>4. issued \subseteq issued'
    BY <1>1, RequestOutside
  <1>5. /\ None \notin issued /\ None \notin Secrets /\ None \notin retired
        /\ user.totp \in Totp /\ user.totp.secret \in Secrets \cup {None}
    BY <1>1, IssuedNames
  <1>6. ASSUME UNCHANGED retired, user'.totp.secret = user.totp.secret,
               user'.totp.recovery = user.totp.recovery, ~Reads(r)
        PROVE  SecretsInv'
    BY <1>3, <1>4, <1>6 DEF SecretsInv, At
  <1>7. ASSUME user'.totp.secret \in issued \cup {None}, user'.totp.recovery \subseteq issued,
               retired' \cap Secrets \subseteq issued, user'.totp.secret \notin retired',
               \A o \in Requests : request'[o].step # "write"
        PROVE  SecretsInv'
    BY <1>4, <1>7 DEF SecretsInv, At
  <1>8. CASE Reads(r)
    <2>1. UNCHANGED <<tables, history>>
      BY <1>1, <1>8, ReadsShape
    <2>2. PICK kind \in EditKinds, given \in AppCodes \cup RecoveryCodes \cup {None} :
             \E t \in Edits(kind, given, user), m \in Request :
                 /\ Turn(r, m) /\ m.copy = t /\ m.kind = kind
                 /\ issued' = issued \cup ({t.secret} \cap Secrets) \cup t.recovery
      BY <1>1, <1>8, ReadsShape
    <2>3. PICK t \in Edits(kind, given, user) :
                 /\ n.copy = t /\ n.kind = kind
                 /\ issued' = issued \cup ({t.secret} \cap Secrets) \cup t.recovery
      BY <1>3, <2>2 DEF Turn
    <2>4. /\ t \in Totp /\ t.secret # None
          /\ \/ (kind = "start" /\ t.secret \notin issued)
             \/ (kind # "start" /\ t.secret = user.totp.secret)
      BY <1>1, EditsTyped
    <2>5. t.secret \in Secrets
      BY <2>4 DEF Totp
    <2>6. n.copy.secret \in issued' /\ n.copy.recovery \subseteq issued'
      BY <2>3, <2>5
    <2>7. /\ n.copy.secret \notin retired
          /\ n.kind = "start" => n.copy.secret # user.totp.secret
      BY <1>5, <2>3, <2>4, <2>5 DEF SecretsInv
    <2> QED BY <1>3, <1>4, <2>1, <2>6, <2>7 DEF SecretsInv, At, tables, history
  <1>9. CASE WriteTotp(r)
    <2>1. ~Reads(r) /\ At(r, "write")
      BY <1>9, ReadsFrom DEF WriteTotp, At
    <2>2. ASSUME NEW o \in Requests
          PROVE  request'[o].step # "write"
      BY <1>1, <1>3, <2>1, OneWriter DEF At
    <2>3. CASE ~user.row
      BY <1>6, <1>9, <2>1, <2>3 DEF WriteTotp
    <2>4. CASE user.row
      <3> DEFINE t == request[r].copy
      <3>1. t \in Totp
        BY <1>1, RequestOf DEF Request
      <3>2. user' = [user EXCEPT !.totp = t]
        BY <1>9, <2>4 DEF WriteTotp
      <3>3. user'.totp = t
        BY <1>1, <3>1, <3>2, UserShape
      <3>4. /\ t.secret \in issued /\ t.recovery \subseteq issued /\ t.secret \notin retired
            /\ request[r].kind = "start" => t.secret # user.totp.secret
        BY <2>1 DEF SecretsInv
      <3>5. /\ retired' \subseteq retired \cup {user.totp.secret}
            /\ request[r].kind # "start" => retired' = retired
        BY <1>9, <2>4 DEF WriteTotp, Retire
      <3>6. retired' \cap Secrets \subseteq issued
        BY <1>5, <3>5 DEF SecretsInv
      <3> QED BY <1>7, <2>2, <3>3, <3>4, <3>5, <3>6
    <2> QED BY <2>3, <2>4
  <1>10. CASE ClearTotp(r)
    <2>1. /\ mu[Home[r]] = None /\ user' = [user EXCEPT !.totp = NoTotp]
          /\ retired' = retired \cup ({user.totp.secret} \cap Secrets) /\ ~Reads(r)
      BY <1>10, ReadsFrom DEF ClearTotp, WriteNoTotp, Retire, At
    <2>2. ASSUME NEW o \in Requests
          PROVE  request'[o].step # "write"
      BY <1>1, <1>3, <2>1, NoWriter, RequestOf DEF At
    <2>3. user'.totp = NoTotp
      BY <1>1, <2>1, UserShape, TotpNone
    <2>4. retired' \cap Secrets \subseteq issued /\ None \notin retired'
      BY <1>5, <2>1 DEF SecretsInv
    <2> QED BY <1>7, <2>2, <2>3, <2>4, NoTotpShape
  <1>11. CASE SetSession(r)
    <2>1. user' = SaveUser(user) /\ UNCHANGED retired /\ ~Reads(r)
      BY <1>11, ReadsFrom DEF SetSession, history, At
    <2> QED BY <1>1, <1>6, <2>1, SaveShape
  <1>12. CASE ClearChallenge(r) \/ AddPasskey(r) \/ UpdatePasskey(r)
    <2>1. /\ UNCHANGED retired /\ ~Reads(r)
          /\ user' = user \/ user' = [user EXCEPT !.challenge = None]
      BY <1>12, ReadsFrom DEF ClearChallenge, AddPasskey, UpdatePasskey, history, At
    <2>2. [user EXCEPT !.challenge = None].totp = user.totp
      BY <1>1, UserShape
    <2> QED BY <1>6, <2>1, <2>2
  <1>13. CASE ~Writes(r) /\ ~Reads(r)
    BY <1>1, <1>6, <1>13, TablesStay
  <1> QED BY <1>8, <1>9, <1>10, <1>11, <1>12, <1>13 DEF Writes

LEMMA OtherSecretsKept ==
    ASSUME OneProcess, Core, LockInv, SecretsInv, OtherStep
    PROVE  SecretsInv'
  <1>1. Base /\ TypeOK /\ AnswersInv /\ user \in User
    BY DEF Core, Base, TypeOK
  <1>2. request' = request
    BY OtherRequests
  <1>3. issued \subseteq issued'
    BY <1>1, OtherAnswersKept
  <1>4. /\ None \notin issued /\ None \notin Secrets /\ None \notin retired
        /\ user.totp \in Totp /\ user.totp.secret \in Secrets \cup {None}
        /\ Stored \subseteq Passkeys /\ Secrets \cap Passkeys = {}
        /\ None \notin Passkeys
    BY <1>1, IssuedNames
  <1>5. ASSUME NEW r \in Requests, At(r, "write")
        PROVE  request[r].copy.secret \in Secrets
    <2>1. request[r].copy \in Totp
      BY <1>1, RequestOf DEF Request
    <2>2. request[r].copy.secret \in Secrets \cup {None}
      BY <2>1 DEF Totp
    <2> QED BY <1>4, <1>5, <2>2 DEF SecretsInv
  <1>6. ASSUME NEW p \in Replicas, ResetTwoFactor(p)
        PROVE  SecretsInv'
    <2>1. /\ mu[p] = None /\ user' = [user EXCEPT !.totp = NoTotp]
          /\ retired' = retired \cup ({user.totp.secret} \cap Secrets)
      BY <1>6 DEF ResetTwoFactor, WriteNoTotp, Retire
    <2>2. ASSUME NEW o \in Requests
          PROVE  request'[o].step # "write"
      BY <1>1, <1>2, <2>1, NoWriter DEF At
    <2>3. user'.totp = NoTotp
      BY <1>1, <2>1, UserShape, TotpNone
    <2>4. retired' \cap Secrets \subseteq issued' /\ None \notin retired'
      BY <1>3, <1>4, <2>1 DEF SecretsInv
    <2> QED BY <2>2, <2>3, <2>4, NoTotpShape DEF SecretsInv, At
  <1>7. ASSUME NEW k \in Passkeys, DeletePasskey(k)
        PROVE  SecretsInv'
    <2>1. user' = user /\ retired' = retired \cup {k}
      BY <1>7 DEF DeletePasskey
    <2> QED BY <1>2, <1>3, <1>4, <1>5, <2>1 DEF SecretsInv, At
  <1>8. ASSUME DeleteUser
        PROVE  SecretsInv'
    <2>1. user'.totp = NoTotp /\ retired' = retired \cup Stored
      BY <1>8 DEF DeleteUser, NoUser
    <2> QED BY <1>2, <1>3, <1>4, <1>5, <2>1, NoTotpShape DEF SecretsInv, At
  <1>9. ASSUME NEW c \in Challenges, BeginRegistration(c) \/ BeginLogin(c)
        PROVE  SecretsInv'
    <2>1. user' = [user EXCEPT !.challenge = c] /\ retired' = retired
      BY <1>9 DEF BeginRegistration, BeginLogin, KeepChallenge, history
    <2>2. user'.totp = user.totp
      BY <1>1, <2>1, UserShape
    <2> QED BY <1>2, <1>3, <2>1, <2>2 DEF SecretsInv, At
  <1>10. ASSUME Tick
         PROVE  SecretsInv'
    BY <1>2, <1>3, <1>10 DEF Tick, tables, history, SecretsInv, At
  <1> QED BY <1>6, <1>7, <1>8, <1>9, <1>10 DEF OtherStep

LEMMA SecretsHold == OneProcess => (Spec => []SecretsInv)
  <1> SUFFICES ASSUME OneProcess
               PROVE  Spec => []SecretsInv
    OBVIOUS
  <1>1. Init => SecretsInv
    BY NoRequestShape, NoTotpShape DEF Init, SecretsInv, At, NoUser
  <1>2. Core /\ LockInv /\ SecretsInv /\ [Next]_vars => SecretsInv'
    <2>1. ASSUME SecretsInv, UNCHANGED vars
          PROVE  SecretsInv'
      BY <2>1 DEF vars, tables, history, outside, SecretsInv, At
    <2> QED BY <2>1, SecretsKept, OtherSecretsKept, NextSplit
  <1> QED BY <1>1, <1>2, CoreHolds, LockHolds, PTL DEF Spec
-----------------------------------------------------------------------------
(* A challenge is answered once, and passkeys that were removed stay       *)
(* removed.                                                                *)

\* The answer of a request that is at one of these steps.
LEMMA AnswerAt ==
    ASSUME Base, NEW r \in Requests, request[r].step \in {"take", "taken", "add", "get", "update"}
    PROVE  /\ request[r].given \in answers /\ request[r].given \in Answers
           /\ request[r].given[1] \in Challenges /\ request[r].given[2] \in Passkeys
           /\ asked[request[r].given[1]] = Use(request[r].kind)
           /\ request[r].step = "add" => request[r].kind = "register"
  <1>1. StepKind(request[r]) /\ KindGiven(request[r], answers, asked)
    BY RequestOf DEF PlaceOf
  <1>2. request[r].kind \in {"passkey", "register"}
    BY <1>1 DEF StepKind
  <1> QED BY <1>1, <1>2, GivenAnswer, AnswerShape DEF StepKind, KindGiven

LEMMA TakeShape ==
    ASSUME Base, NEW r \in Requests, TakeChallenge(r), request'[r].step = "taken"
    PROVE  /\ request'[r].given = request[r].given /\ user.challenge # None
           /\ request'[r].valid => request[r].given[1] = user.challenge
  <1> DEFINE q == request[r]
             v == Validated(q.kind, q.given)
  <1>1. q \in Request /\ TypeOK
    BY RequestOf DEF Base
  <1>2. ~Refused(r)
    BY RefusedTurn, NoRequestShape DEF Turn
  <1>3. /\ user.challenge # None
        /\ request' = [request EXCEPT ![r].step = "taken", ![r].valid = v]
    BY <1>2 DEF TakeChallenge
  <1>4. v => q.given[1] = user.challenge
    BY DEF Validated
  <1> HIDE DEF v
  <1>5. request'[r] = [q EXCEPT !.step = "taken", !.valid = v]
    BY <1>1, <1>3 DEF TypeOK
  <1>6. request'[r].given = q.given /\ request'[r].valid = v
    BY <1>1, <1>5 DEF Request
  <1> QED BY <1>3, <1>4, <1>6

LEMMA ClearShape ==
    ASSUME Base, NEW r \in Requests, ClearChallenge(r)
    PROVE  /\ At(r, "taken") /\ user' = [user EXCEPT !.challenge = None]
           /\ UNCHANGED <<passkeys, retired>>
           /\ \/ request'[r] = NoRequest /\ UNCHANGED <<used, reused>>
              \/ /\ request[r].valid /\ Accept(request[r].given[1])
                 /\ request'[r].given = request[r].given
  <1>1. CASE Refused(r) /\ UNCHANGED <<used, reused>>
    BY <1>1, RefusedTurn DEF ClearChallenge, Turn
  <1>2. CASE /\ request[r].valid /\ Accept(request[r].given[1])
             /\ Goto(r, IF request[r].kind = "passkey" THEN "get" ELSE "add")
    <2> DEFINE s == IF request[r].kind = "passkey" THEN "get" ELSE "add"
    <2>1. s \in Steps /\ Goto(r, s)
      BY <1>2 DEF Steps
    <2> HIDE DEF s
    <2>2. request'[r].given = request[r].given
      BY <2>1, GotoTurn DEF Turn
    <2> QED BY <1>2, <2>2 DEF ClearChallenge
  <1> QED BY <1>1, <1>2 DEF ClearChallenge

\* What a step of a request does to the answers that were accepted.
LEMMA UsedMoves ==
    ASSUME Core, NEW r \in Requests, RequestStep(r)
    PROVE  /\ used \subseteq used'
           /\ \/ used' \cap Challenges = used \cap Challenges /\ request'[r].step # "add"
              \/ /\ ClearChallenge(r) /\ request[r].valid /\ Accept(request[r].given[1])
                 /\ request'[r].given = request[r].given
  <1>1. Base /\ TypeOK /\ GivenInv
    BY DEF Core, Base
  <1>2. PICK n \in Request : Sound(r, n)
    BY <1>1, StepSound
  <1>3. request'[r] = n /\ (n.step = "add" => ClearChallenge(r))
    BY <1>2 DEF Sound, Turn
  <1>4. CASE ClearChallenge(r)
    BY <1>1, <1>4, ClearShape, NoRequestShape DEF Accept
  <1>5. CASE WriteTotp(r) /\ ~ClearChallenge(r)
    <2>1. UNCHANGED used \/ (request[r].kind = "code" /\ Accept(request[r].given))
      BY <1>5 DEF WriteTotp
    <2>2. ASSUME request[r].kind = "code"
          PROVE  request[r].given \notin Challenges
      <3>1. request[r].given \in AppCodes \cup RecoveryCodes
        BY <1>1, <1>5, <2>2 DEF WriteTotp, GivenInv
      <3> QED BY <3>1, NamesAssumption
    <2> QED BY <1>3, <1>5, <2>1, <2>2 DEF Accept
  <1>6. CASE ~WriteTotp(r) /\ ~ClearChallenge(r)
    <2>1. used' = used
      BY <1>1, <1>6, TablesStay
         DEF Writes, ClearTotp, WriteNoTotp, SetSession, AddPasskey, UpdatePasskey, history
    <2> QED BY <1>3, <1>6, <2>1
  <1> QED BY <1>4, <1>5, <1>6

LEMMA ChallengeMoves ==
    ASSUME Base, NEW r \in Requests, RequestStep(r)
    PROVE  user'.challenge \in {user.challenge, None}
  <1>1. user \in User
    BY DEF Base, TypeOK
  <1>2. CASE WriteTotp(r) \/ ClearTotp(r)
    <2>1. request[r].copy \in Totp
      BY RequestOf DEF Request
    <2>2. \/ user' = user
          \/ user' = [user EXCEPT !.totp = NoTotp]
          \/ user' = [user EXCEPT !.totp = request[r].copy]
      BY <1>2 DEF WriteTotp, ClearTotp, WriteNoTotp
    <2>3. /\ [user EXCEPT !.totp = NoTotp].challenge = user.challenge
          /\ [user EXCEPT !.totp = request[r].copy].challenge = user.challenge
      BY <1>1, <2>1, TotpNone, UserShape
    <2> QED BY <2>2, <2>3
  <1>3. CASE SetSession(r)
    BY <1>1, <1>3, SaveShape DEF SetSession
  <1>4. CASE ClearChallenge(r)
    <2>1. [user EXCEPT !.challenge = None].challenge = None
      BY <1>1, UserShape
    <2> QED BY <1>4, <2>1 DEF ClearChallenge
  <1>5. CASE AddPasskey(r) \/ UpdatePasskey(r)
    BY <1>5 DEF AddPasskey, UpdatePasskey
  <1>6. CASE ~Writes(r)
    BY <1>6, TablesStay
  <1> QED BY <1>2, <1>3, <1>4, <1>5, <1>6 DEF Writes

LEMMA ChallengeKept ==
    ASSUME OneProcess, Core, LockInv, ChallengeInv, NEW r \in Requests, RequestStep(r)
    PROVE  ChallengeInv'
  <1>1. Base /\ TypeOK /\ AnswersInv
    BY DEF Core, Base
  <1>2. PICK n \in Request : Sound(r, n)
    BY <1>1, StepSound
  <1>3. /\ request'[r] = n
        /\ n.step = "taken" => TakeChallenge(r)
        /\ \A o \in Requests \ {r} :
              /\ request'[o].step = request[o].step /\ request'[o].given = request[o].given
              /\ request'[o].valid = request[o].valid
    BY <1>2 DEF Sound, Turn, Same
  <1>4. issued \subseteq issued' /\ user'.challenge \in {user.challenge, None}
        /\ user.challenge \in Challenges \cup {None} /\ used \subseteq used'
    BY <1>1, RequestOutside, ChallengeMoves, UsedMoves, UserShape DEF TypeOK
  <1>5. CASE used' \cap Challenges = used \cap Challenges /\ request'[r].step # "add"
    <2>1. ASSUME NEW o \in Requests, request'[o].step = "taken", request'[o].valid
          PROVE  request'[o].given[1] \notin used'
      <3>1. CASE o = r
        <4>1. request'[r].given = request[r].given /\ request[r].given[1] = user.challenge
              /\ user.challenge # None
          BY <1>1, <1>3, <2>1, <3>1, TakeShape
        <4> QED BY <1>4, <1>5, <3>1, <4>1 DEF ChallengeInv
      <3>2. CASE o # r
        <4>1. request[o].given[1] \in Challenges /\ request[o].given[1] \notin used
          BY <1>1, <1>3, <2>1, <3>2, AnswerAt DEF ChallengeInv, At
        <4> QED BY <1>3, <1>5, <3>2, <4>1
      <3> QED BY <3>1, <3>2
    <2>2. ASSUME NEW o \in Requests, request'[o].step = "add"
          PROVE  o # r /\ request[o].step = "add" /\ request'[o].given = request[o].given
      BY <1>3, <1>5, <2>2
    <2>3. used' \cap Challenges \subseteq issued'
      BY <1>4, <1>5 DEF ChallengeInv
    <2>4. user'.challenge # None => user'.challenge \notin used'
      BY <1>4, <1>5 DEF ChallengeInv
    <2>5. \A o \in Requests : request'[o].step = "add" => request'[o].given[1] \in used'
      BY <1>4, <2>2 DEF ChallengeInv, At
    <2>6. \A o, m \in Requests :
             o # m /\ request'[o].step = "add" /\ request'[m].step = "add" =>
                request'[o].given # request'[m].given
      BY <2>2 DEF ChallengeInv, At
    <2> QED BY <2>1, <2>3, <2>4, <2>5, <2>6 DEF ChallengeInv, At
  <1>6. CASE /\ ClearChallenge(r) /\ request[r].valid /\ Accept(request[r].given[1])
             /\ request'[r].given = request[r].given
    <2> DEFINE c == request[r].given[1]
    <2>1. At(r, "taken") /\ request[r].step = "taken"
      BY <1>6 DEF ClearChallenge, At
    <2>2. c \in Challenges /\ asked[c] # "none" /\ c \notin used
      BY <1>1, <1>6, <2>1, AnswerAt DEF ChallengeInv, Use
    <2>3. c \in issued /\ used' = used \cup {c}
      BY <1>1, <1>6, <2>2 DEF AnswersInv, Accept
    <2>4. user'.challenge = None
      <3>1. user \in User /\ user' = [user EXCEPT !.challenge = None]
        BY <1>1, <1>6 DEF ClearChallenge, TypeOK
      <3>2. [user EXCEPT !.challenge = None].challenge = None
        BY <3>1, UserShape
      <3> QED BY <3>1, <3>2
    <2>5. ASSUME NEW o \in Requests
          PROVE  request'[o].step # "taken"
      <3>1. CASE o = r
        BY <1>3, <2>1, <3>1 DEF TakeChallenge, At
      <3>2. CASE o # r
        BY <1>1, <1>3, <2>1, <3>2, OneWriter DEF At
      <3> QED BY <3>1, <3>2
    <2>6. ASSUME NEW o \in Requests, request'[o].step = "add"
          PROVE  request'[o].given[1] \in used'
      BY <1>3, <1>6, <2>3, <2>6 DEF ChallengeInv, At
    <2>7. ASSUME NEW o \in Requests \ {r}, request'[o].step = "add"
          PROVE  request'[o].given # request'[r].given
      BY <1>3, <1>6, <2>2, <2>7 DEF ChallengeInv, At
    <2>8. \A o, m \in Requests :
             o # m /\ request'[o].step = "add" /\ request'[m].step = "add" =>
                request'[o].given # request'[m].given
      BY <1>3, <2>7 DEF ChallengeInv, At
    <2>9. used' \cap Challenges \subseteq issued'
      BY <1>4, <2>3 DEF ChallengeInv
    <2> QED BY <2>4, <2>5, <2>6, <2>8, <2>9 DEF ChallengeInv, At
  <1> QED BY <1>5, <1>6, UsedMoves

LEMMA OtherChallengeKept ==
    ASSUME Core, ChallengeInv, OtherStep
    PROVE  ChallengeInv'
  <1>1. Base /\ TypeOK /\ AnswersInv /\ user \in User
    BY DEF Core, Base, TypeOK
  <1>2. request' = request /\ used' = used
    BY OtherRequests
  <1>3. issued \subseteq issued'
    BY <1>1, OtherAnswersKept
  <1>4. ASSUME user'.challenge # None => user'.challenge \notin used
        PROVE  ChallengeInv'
    BY <1>2, <1>3, <1>4 DEF ChallengeInv, At
  <1>5. ASSUME NEW c \in Challenges, BeginRegistration(c) \/ BeginLogin(c)
        PROVE  ChallengeInv'
    <2>1. user' = [user EXCEPT !.challenge = c] /\ c \notin issued
      BY <1>5 DEF BeginRegistration, BeginLogin, KeepChallenge
    <2>2. user'.challenge = c
      BY <1>1, <2>1, UserShape
    <2> QED BY <1>4, <2>1, <2>2 DEF ChallengeInv
  <1>6. ASSUME NEW p \in Replicas, ResetTwoFactor(p)
        PROVE  ChallengeInv'
    <2>1. user' = [user EXCEPT !.totp = NoTotp]
      BY <1>6 DEF ResetTwoFactor, WriteNoTotp
    <2>2. user'.challenge = user.challenge
      BY <1>1, <2>1, UserShape, TotpNone
    <2> QED BY <1>4, <2>2 DEF ChallengeInv
  <1>7. ASSUME DeleteUser
        PROVE  ChallengeInv'
    BY <1>4, <1>7 DEF DeleteUser, NoUser
  <1>8. ASSUME UNCHANGED user
        PROVE  ChallengeInv'
    BY <1>4, <1>8 DEF ChallengeInv
  <1> QED BY <1>5, <1>6, <1>7, <1>8 DEF OtherStep, DeletePasskey, Tick, tables

\* What a step of a request does to the passkeys.
LEMMA PasskeysMove ==
    ASSUME Base, NEW r \in Requests, RequestStep(r)
    PROVE  /\ retired \subseteq retired' /\ retired' \cap Passkeys = retired \cap Passkeys
           /\ \/ Stored' = Stored
              \/ /\ AddPasskey(r) /\ Stored' = Stored \cup {request[r].given[2]}
                 /\ request[r].given[2] \notin Stored /\ request[r].step = "add"
  <1>1. TypeOK /\ passkeys \in [Passkeys -> (0 .. Cardinality(Challenges)) \cup {None}]
    BY DEF Base, TypeOK
  <1>2. /\ retired \subseteq retired' /\ retired' \cap Passkeys = retired \cap Passkeys
    <2>1. CASE WriteTotp(r) \/ ClearTotp(r)
      <3>1. retired' = retired \/ retired' = retired \cup ({user.totp.secret} \cap Secrets)
        BY <2>1 DEF WriteTotp, ClearTotp, WriteNoTotp, Retire
      <3> QED BY <3>1, NamesAssumption
    <2>2. CASE ~(WriteTotp(r) \/ ClearTotp(r))
      <3>1. retired' = retired
        BY <2>2, TablesStay DEF Writes, SetSession, ClearChallenge, AddPasskey, UpdatePasskey, history
      <3> QED BY <3>1
    <2> QED BY <2>1, <2>2
  <1>3. CASE AddPasskey(r) \/ UpdatePasskey(r)
    <2> DEFINE k == request[r].given[2]
               v == request[r].given[3]
    <2>1. k \in Passkeys /\ v # None
      <3>1. request[r].given \in Answers
        BY <1>3, AnswerAt DEF AddPasskey, UpdatePasskey, At
      <3>2. k \in Passkeys /\ v \in 0 .. Cardinality(Challenges)
        BY <3>1, AnswerShape
      <3>3. v \in Nat
        BY <3>2
      <3> QED BY <3>2, <3>3, NamesAssumption
    <2>2. ASSUME passkeys' = [passkeys EXCEPT ![k] = v]
          PROVE  Stored' = Stored \cup {k}
      BY <1>1, <2>1, <2>2 DEF Stored
    <2>3. ASSUME passkeys' = passkeys
          PROVE  Stored' = Stored
      BY <2>3 DEF Stored
    <2>4. CASE AddPasskey(r)
      <3>1. CASE k \in Stored
        BY <1>2, <2>3, <2>4, <3>1 DEF AddPasskey
      <3>2. CASE k \notin Stored
        <4>1. passkeys' = [passkeys EXCEPT ![k] = v] /\ request[r].step = "add"
          BY <2>4, <3>2 DEF AddPasskey, At
        <4> QED BY <1>2, <2>2, <2>4, <3>2, <4>1
      <3> QED BY <3>1, <3>2
    <2>5. CASE UpdatePasskey(r)
      <3>1. passkeys' = IF k \in Stored THEN [passkeys EXCEPT ![k] = v] ELSE passkeys
        BY <2>5 DEF UpdatePasskey, UpdateRow
      <3>2. Stored' = Stored
        BY <2>2, <2>3, <3>1
      <3> QED BY <1>2, <3>2
    <2> QED BY <1>3, <2>4, <2>5
  <1>4. CASE ~(AddPasskey(r) \/ UpdatePasskey(r))
    <2>1. passkeys' = passkeys
      BY <1>4, TablesStay DEF Writes, WriteTotp, ClearTotp, WriteNoTotp, SetSession, ClearChallenge
    <2>2. Stored' = Stored
      BY <2>1 DEF Stored
    <2> QED BY <1>2, <2>2
  <1> QED BY <1>3, <1>4

LEMMA PasskeysKept ==
    ASSUME Core, ChallengeInv, PasskeysInv, NEW r \in Requests, RequestStep(r)
    PROVE  PasskeysInv'
  <1>1. Base /\ TypeOK /\ AnswersInv
    BY DEF Core, Base
  <1>2. PICK n \in Request : Sound(r, n)
    BY <1>1, StepSound
  <1>3. /\ request'[r] = n
        /\ \A o \in Requests \ {r} :
              request'[o].step = request[o].step /\ request'[o].given = request[o].given
    BY <1>2 DEF Sound, Turn, Same
  <1>4. asked' = asked /\ answers \subseteq answers' /\ used \subseteq used'
    BY <1>1, AnswersKept, UsedMoves
  <1>5. ASSUME request'[r].step = "add"
        PROVE  /\ request'[r].given = request[r].given /\ request[r].given[1] \notin used
    <2>1. /\ ClearChallenge(r) /\ request[r].valid /\ request'[r].given = request[r].given
      BY <1>5, UsedMoves
    <2> QED BY <2>1 DEF ClearChallenge, ChallengeInv
  <1>6. ASSUME NEW k, Registered(k)
        PROVE  Registered(k)'
    <2>1. PICK a \in answers :
              /\ asked[a[1]] = "register" /\ a[2] = k /\ a[1] \in used
              /\ \A o \in Requests : At(o, "add") => request[o].given # a
      BY <1>6 DEF Registered
    <2>2. ASSUME NEW o \in Requests, request'[o].step = "add"
          PROVE  request'[o].given # a
      <3>1. CASE o = r
        BY <1>5, <2>1, <2>2, <3>1
      <3>2. CASE o # r
        BY <1>3, <2>1, <2>2, <3>2 DEF At
      <3> QED BY <3>1, <3>2
    <2>3. a \in answers' /\ asked'[a[1]] = "register" /\ a[1] \in used'
      BY <1>4, <2>1
    <2> QED BY <2>1, <2>2, <2>3 DEF Registered, At
  <1>7. /\ retired' \cap Passkeys = retired \cap Passkeys /\ Stored \subseteq Passkeys
        /\ \A k \in Stored \cup (retired \cap Passkeys) : Registered(k)
        /\ Stored \cap retired = {}
    BY <1>1, PasskeysMove, IssuedNames DEF PasskeysInv
  <1>8. CASE Stored' = Stored
    <2>1. Stored' \cap retired' = {}
      BY <1>7, <1>8
    <2>2. ASSUME NEW k \in Stored' \cup (retired' \cap Passkeys)
          PROVE  Registered(k)'
      <3>1. Registered(k)
        BY <1>7, <1>8
      <3> QED BY <1>6, <3>1
    <2> QED BY <2>1, <2>2 DEF PasskeysInv
  <1>9. CASE /\ AddPasskey(r) /\ Stored' = Stored \cup {request[r].given[2]}
             /\ request[r].given[2] \notin Stored /\ request[r].step = "add"
    <2>0. PICK g : g = request[r].given
      OBVIOUS
    <2>1. /\ g \in answers /\ g[2] \in Passkeys /\ asked[g[1]] = "register"
          /\ g[1] \in used
      BY <1>1, <1>9, <2>0, AnswerAt DEF ChallengeInv, At, Use
    <2>2. g[2] \notin retired
      <3>1. SUFFICES ASSUME g[2] \in retired
                     PROVE  FALSE
        OBVIOUS
      <3>2. PICK a \in answers :
                /\ asked[a[1]] = "register" /\ a[2] = g[2]
                /\ \A o \in Requests : At(o, "add") => request[o].given # a
        BY <1>7, <2>1, <3>1 DEF Registered
      <3>3. a = g
        BY <1>1, <2>1, <3>2 DEF AnswersInv
      <3> QED BY <1>9, <2>0, <3>2, <3>3 DEF At
    <2>3. Stored' \cap retired' = {}
      BY <1>7, <1>9, <2>0, <2>1, <2>2
    <2>4. Registered(g[2])'
      <3>1. ASSUME NEW o \in Requests, request'[o].step = "add"
            PROVE  request'[o].given # g
        <4>1. o # r
          BY <1>5, <1>9, <2>0, <2>1, <3>1
        <4> QED BY <1>3, <1>9, <2>0, <3>1, <4>1 DEF ChallengeInv, At
      <3>2. g \in answers' /\ asked'[g[1]] = "register" /\ g[1] \in used'
        BY <1>4, <2>1
      <3> QED BY <3>1, <3>2 DEF Registered, At
    <2>5. ASSUME NEW k \in Stored' \cup (retired' \cap Passkeys)
          PROVE  Registered(k)'
      <3>1. CASE k = g[2]
        BY <2>4, <3>1
      <3>2. CASE k # g[2]
        <4>1. Registered(k)
          BY <1>7, <1>9, <2>0, <3>2
        <4> QED BY <1>6, <4>1
      <3> QED BY <3>1, <3>2
    <2> QED BY <2>3, <2>5 DEF PasskeysInv
  <1> QED BY <1>1, <1>8, <1>9, PasskeysMove

\* What is done without a request takes passkeys away, and remembers them.
LEMMA OtherPasskeysMove ==
    ASSUME TypeOK, OtherStep
    PROVE  /\ Stored' \subseteq Stored /\ Stored \subseteq Stored' \cup retired'
           /\ retired \subseteq retired' /\ retired' \cap Passkeys \subseteq retired \cup Stored
           /\ Stored' \cap retired' \subseteq Stored \cap retired
  <1>1. passkeys \in [Passkeys -> (0 .. Cardinality(Challenges)) \cup {None}] /\ Stored \subseteq Passkeys
    BY IssuedNames DEF TypeOK
  <1>2. CASE UNCHANGED <<passkeys, retired>>
    BY <1>2 DEF Stored
  <1>3. ASSUME NEW k \in Passkeys, DeletePasskey(k)
        PROVE  /\ Stored' = Stored \ {k} /\ retired' = retired \cup {k} /\ k \in Stored
    BY <1>1, <1>3 DEF DeletePasskey, Stored
  <1>4. ASSUME NEW p \in Replicas, ResetTwoFactor(p)
        PROVE  /\ Stored' = Stored /\ retired \subseteq retired'
               /\ retired' \cap Passkeys = retired \cap Passkeys
    <2>1. passkeys' = passkeys /\ retired' = retired \cup ({user.totp.secret} \cap Secrets)
      BY <1>4 DEF ResetTwoFactor, WriteNoTotp, Retire
    <2>2. Stored' = Stored
      BY <2>1 DEF Stored
    <2> QED BY <2>1, <2>2, NamesAssumption
  <1>5. ASSUME DeleteUser
        PROVE  Stored' = {} /\ retired' = retired \cup Stored
    BY <1>5 DEF DeleteUser, Stored
  <1>6. \/ UNCHANGED <<passkeys, retired>> \/ DeleteUser
        \/ \E k \in Passkeys : DeletePasskey(k)
        \/ \E p \in Replicas : ResetTwoFactor(p)
    BY DEF OtherStep, BeginRegistration, BeginLogin, KeepChallenge, Tick, tables, history
  <1>7. CASE \E k \in Passkeys : DeletePasskey(k)
    BY <1>1, <1>3, <1>7
  <1>8. CASE \E p \in Replicas : ResetTwoFactor(p)
    BY <1>1, <1>4, <1>8
  <1>9. CASE DeleteUser
    BY <1>5, <1>9
  <1> QED BY <1>2, <1>6, <1>7, <1>8, <1>9

LEMMA OtherPasskeysKept ==
    ASSUME Core, PasskeysInv, OtherStep
    PROVE  PasskeysInv'
  <1>1. TypeOK /\ AnswersInv
    BY DEF Core, Base
  <1>2. request' = request /\ used' = used /\ answers' = answers
    BY OtherRequests
  <1>3. \A c \in Challenges : asked[c] # "none" => asked'[c] = asked[c]
    BY <1>1, OtherAnswersKept
  <1>4. ASSUME NEW k, Registered(k)
        PROVE  Registered(k)'
    <2>1. PICK a \in answers :
              /\ asked[a[1]] = "register" /\ a[2] = k /\ a[1] \in used
              /\ \A o \in Requests : At(o, "add") => request[o].given # a
      BY <1>4 DEF Registered
    <2>2. a[1] \in Challenges
      BY <1>1, AnswerShape DEF TypeOK
    <2>3. asked'[a[1]] = "register"
      BY <1>3, <2>1, <2>2
    <2> QED BY <1>2, <2>1, <2>3 DEF Registered, At
  <1>5. ASSUME NEW k \in Stored' \cup (retired' \cap Passkeys)
        PROVE  Registered(k)'
    <2>1. Registered(k)
      BY <1>1, OtherPasskeysMove DEF PasskeysInv
    <2> QED BY <1>4, <2>1
  <1>6. Stored' \cap retired' = {}
    BY <1>1, OtherPasskeysMove DEF PasskeysInv
  <1> QED BY <1>5, <1>6 DEF PasskeysInv

-----------------------------------------------------------------------------
(* The password alone.                                                     *)

LEMMA FactorsStored ==
    ASSUME TypeOK
    PROVE  /\ Factors \cap Passkeys = Stored
           /\ ~TwoFactorEnabled(user.totp) => Factors = Stored
  <1>1. /\ user.totp.secret \in Secrets \cup {None} /\ Stored \subseteq Passkeys
        /\ Secrets \cap Passkeys = {} /\ None \notin Passkeys
    BY IssuedNames
  <1> QED BY <1>1 DEF Factors

LEMMA FactorsKept ==
    ASSUME Core, FactorsInv, NEW r \in Requests, RequestStep(r)
    PROVE  FactorsInv'
  <1>1. Base /\ TypeOK
    BY DEF Core, Base
  <1>2. PICK n \in Request : Sound(r, n)
    BY <1>1, StepSound
  <1>3. /\ request'[r] = n
        /\ n.step = "codes" => HasPasskey(r) \/ n.failed
        /\ n.factors \subseteq request[r].factors \cup Factors
        /\ \A o \in Requests \ {r} :
              /\ request'[o].step = request[o].step /\ request'[o].factors = request[o].factors
              /\ request'[o].failed = request[o].failed
    BY <1>2 DEF Sound, Turn, Same
  <1>4. retired \subseteq retired' /\ Stored \subseteq Stored'
    BY <1>1, PasskeysMove
  <1>5. n.factors \cap Passkeys \subseteq Stored \cup retired
    BY <1>1, <1>3, FactorsStored DEF FactorsInv
  <1>6. ASSUME n.step = "codes", ~n.failed
        PROVE  n.factors \cap Passkeys \subseteq retired
    <2>1. HasPasskey(r)
      BY <1>3, <1>6
    <2>2. CASE Stored # {}
      <3>1. Done(r)
        BY <2>1, <2>2 DEF HasPasskey, AskForCode
      <3>2. request'[r] = NoRequest
        BY <1>1, <3>1, DoneTurn DEF Turn
      <3> QED BY <1>3, <1>6, <3>2, NoRequestShape
    <2>3. CASE Stored = {}
      BY <1>5, <2>3
    <2> QED BY <2>2, <2>3
  <1>7. ASSUME NEW o \in Requests
        PROVE  /\ request'[o].factors \cap Passkeys \subseteq Stored' \cup retired'
               /\ request'[o].step = "codes" /\ ~request'[o].failed =>
                     request'[o].factors \cap Passkeys \subseteq retired'
    <2>1. CASE o = r
      BY <1>3, <1>4, <1>5, <1>6, <2>1
    <2>2. CASE o # r
      BY <1>3, <1>4, <2>2 DEF FactorsInv, At
    <2> QED BY <2>1, <2>2
  <1> QED BY <1>7 DEF FactorsInv, At

LEMMA OtherFactorsKept ==
    ASSUME TypeOK, FactorsInv, OtherStep
    PROVE  FactorsInv'
  <1>1. request' = request
    BY OtherRequests
  <1>2. retired \subseteq retired' /\ Stored \subseteq Stored' \cup retired'
    BY OtherPasskeysMove
  <1>3. ASSUME NEW o \in Requests
        PROVE  /\ request'[o].factors \cap Passkeys \subseteq Stored' \cup retired'
               /\ request'[o].step = "codes" /\ ~request'[o].failed =>
                     request'[o].factors \cap Passkeys \subseteq retired'
    BY <1>1, <1>2 DEF FactorsInv, At
  <1> QED BY <1>3 DEF FactorsInv, At

LEMMA AloneKept ==
    ASSUME Core, PasskeysInv, FactorsInv, PasswordNotEnough, NEW r \in Requests, RequestStep(r)
    PROVE  PasswordNotEnough'
  <1>1. Base /\ TypeOK
    BY DEF Core, Base
  <1>2. CASE CodesEnabled(r)
    <2>1. CASE TwoFactorEnabled(user.totp)
      BY <1>2, <2>1 DEF CodesEnabled, PasswordNotEnough
    <2>2. CASE ~TwoFactorEnabled(user.totp) /\ request[r].failed
      BY <1>2, <2>2 DEF CodesEnabled, EnoughAlone, PasswordNotEnough
    <2>3. CASE ~TwoFactorEnabled(user.totp) /\ ~request[r].failed
      <3>1. Factors = Stored /\ Stored \subseteq Passkeys
        BY <1>1, <2>3, FactorsStored, IssuedNames
      <3>2. request[r].factors \cap Passkeys \subseteq retired
        BY <1>2, <2>3 DEF CodesEnabled, FactorsInv
      <3>3. request[r].factors \cap Factors = {}
        BY <3>1, <3>2 DEF PasskeysInv
      <3>4. alone' = alone
        BY <1>2, <2>3, <3>3 DEF CodesEnabled, EnoughAlone
      <3> QED BY <3>4 DEF PasswordNotEnough
    <2> QED BY <2>1, <2>2, <2>3
  <1>3. CASE StorageFails(r)
    <2>1. alone' \subseteq alone \cup {"failed"}
      BY <1>3 DEF StorageFails, EnoughAlone
    <2> QED BY <2>1 DEF PasswordNotEnough
  <1>4. CASE ~CodesEnabled(r) /\ ~StorageFails(r)
    <2>1. CASE Reads(r)
      BY <1>1, <2>1, ReadsShape DEF history, PasswordNotEnough
    <2>2. CASE SignInStep(r)
      BY <1>4, <2>2 DEF SignInStep, SubmitPassword, HasPasskey, SetSession, history, PasswordNotEnough
    <2>3. CASE CodeStep(r) /\ ~Reads(r)
      <3>1. alone' = alone
        BY <2>3 DEF CodeStep, Reads, GiveCode, RefuseEdit, WriteTotp, Succeed, DisableTwoFactor,
                NewRecoveryCodes, AskPassword, RightPassword, WrongPassword, ClearTotp,
                WriteNoTotp, history
      <3> QED BY <3>1 DEF PasswordNotEnough
    <2>4. CASE PasskeyStep(r)
      <3>1. alone' = alone
        BY <2>4 DEF PasskeyStep, FinishWithPasskey, FinishPasskey, Answered, TakeChallenge,
                ClearChallenge, GetPasskey, UpdatePasskey, AddPasskey, history
      <3> QED BY <3>1 DEF PasswordNotEnough
    <2> QED BY <1>4, <2>1, <2>2, <2>3, <2>4 DEF RequestStep
  <1> QED BY <1>2, <1>3, <1>4

\* What is proved of the passkeys and of the password alone, together.
KeysInv == ChallengeInv /\ PasskeysInv /\ FactorsInv /\ PasswordNotEnough

LEMMA KeysHold == OneProcess => (Spec => []KeysInv)
  <1> SUFFICES ASSUME OneProcess
               PROVE  Spec => []KeysInv
    OBVIOUS
  <1>1. Init => KeysInv
    <2> SUFFICES ASSUME Init
                 PROVE  KeysInv
      OBVIOUS
    <2>1. Stored = {} /\ \A r \in Requests : request[r] = NoRequest
      BY DEF Init, Stored
    <2> QED BY <2>1, NoRequestShape DEF Init, KeysInv, ChallengeInv, PasskeysInv, FactorsInv,
                                        PasswordNotEnough, At, NoUser
  <1>2. Core /\ LockInv /\ KeysInv /\ [Next]_vars => KeysInv'
    <2>1. ASSUME KeysInv, UNCHANGED vars
          PROVE  KeysInv'
      BY <2>1 DEF vars, tables, history, outside, KeysInv, ChallengeInv, PasskeysInv, FactorsInv,
                  PasswordNotEnough, At, Stored, Registered
    <2>2. ASSUME Core, LockInv, KeysInv, NEW r \in Requests, RequestStep(r)
          PROVE  KeysInv'
      BY <2>2, ChallengeKept, PasskeysKept, FactorsKept, AloneKept DEF KeysInv
    <2>3. ASSUME Core, KeysInv, OtherStep
          PROVE  KeysInv'
      <3>1. TypeOK /\ alone' = alone
        BY <2>3, OtherRequests DEF Core, Base
      <3> QED BY <2>3, <3>1, OtherChallengeKept, OtherPasskeysKept, OtherFactorsKept
                 DEF KeysInv, PasswordNotEnough
    <2> QED BY <2>1, <2>2, <2>3, NextSplit
  <1> QED BY <1>1, <1>2, CoreHolds, LockHolds, PTL DEF Spec

\* In one process, a second factor that was turned off, an enrolment that was
\* replaced and a passkey that was deleted never come back with the write of a
\* request that had read them before, whatever the storage (Check,
\* ReplaceRecoveryCodes, Confirm, UpdatePasskey).
THEOREM RemovedForGood == OneProcess => (Spec => []RemovedStaysRemoved)
  <1>1. SecretsInv /\ KeysInv => RemovedStaysRemoved
    BY DEF SecretsInv, KeysInv, PasskeysInv, RemovedStaysRemoved
  <1> QED BY <1>1, SecretsHold, KeysHold, PTL

\* In one process, the password alone is never enough for an account that had
\* the same second factor all the time, as long as the storage answers
\* (Enabled, which reads the passkeys and the codes one after the other).
THEOREM FactorAskedFor == OneProcess => (Spec => []PasswordNotEnough)
  <1>1. KeysInv => PasswordNotEnough
    BY DEF KeysInv
  <1> QED BY <1>1, KeysHold, PTL
-----------------------------------------------------------------------------
(* Codes are accepted once.                                                *)

LEMMA AppCodeShape ==
    ASSUME NEW x \in AppCodes
    PROVE  x[1] \in Secrets /\ x[2] \in Nat /\ x \notin RecoveryCodes /\ x \notin Challenges
  <1>1. x[1] \in Secrets /\ x[2] \in 0 .. MaxTime + 1
    BY DEF AppCodes
  <1>2. x[2] \in Nat
    BY <1>1, FactorAssumption
  <1> QED BY <1>1, <1>2, NamesAssumption

\* What is about to be written has the codes used up that were accepted.
LEMMA EditSpends ==
    ASSUME TypeOK, SecretsInv, OnceInv, NEW kind \in EditKinds,
           NEW given \in AppCodes \cup RecoveryCodes \cup {None}, NEW t \in Edits(kind, given, user)
    PROVE  /\ Spent(t)
           /\ kind = "code" =>
                 /\ given \notin used /\ given \notin t.recovery
                 /\ given \in AppCodes => t.enabled /\ given[1] = t.secret /\ given[2] <= t.last
                 /\ given \in RecoveryCodes => given \in issued
  <1> DEFINE u == user.totp
  <1>1. /\ u \in Totp /\ u.recovery \subseteq RecoveryCodes /\ u.recovery \subseteq issued
        /\ u.last \in Nat
    <2>1. u \in Totp /\ u.recovery \subseteq RecoveryCodes
      BY IssuedNames
    <2>2. u.last \in 0 .. MaxTime + 1
      BY <2>1 DEF Totp
    <2>3. u.last \in Nat
      BY <2>2, FactorAssumption
    <2> QED BY <2>1, <2>3 DEF SecretsInv
  <1>2. /\ \A x \in used \cap AppCodes : x[1] = u.secret => u.enabled /\ x[2] <= u.last
        /\ used \cap u.recovery = {} /\ used \cap RecoveryCodes \subseteq issued
        /\ \A x \in used \cap AppCodes : x[1] \in issued
    BY DEF OnceInv, Spent
  <1>3. ASSUME NEW b \in FreshBatch
        PROVE  b \subseteq RecoveryCodes /\ used \cap b = {}
    BY <1>2 DEF FreshBatch
  <1>4. CASE kind = "start"
    <2>1. PICK s \in Secrets \ issued : t = [NoTotp EXCEPT !.secret = s]
      BY <1>4 DEF Edits, Start
    <2>2. t.secret = s /\ t.recovery = {}
      BY <2>1 DEF NoTotp
    <2> QED BY <1>2, <1>4, <2>2 DEF Spent
  <1>5. CASE kind = "confirm"
    <2>1. PICK b \in FreshBatch : t = [u EXCEPT !.enabled = TRUE, !.recovery = b, !.last = 0]
      BY <1>5 DEF Edits, Confirm
    <2>2. ~u.enabled
      BY <1>5 DEF Edits, Confirm, TwoFactorEnabled
    <2>3. t.secret = u.secret /\ t.recovery = b
      BY <1>1, <2>1 DEF Totp
    <2> QED BY <1>2, <1>3, <1>5, <2>2, <2>3 DEF Spent
  <1>6. CASE kind = "replace"
    <2>1. PICK b \in FreshBatch : t = [u EXCEPT !.recovery = b]
      BY <1>6 DEF Edits, ReplaceRecoveryCodes
    <2>2. t.secret = u.secret /\ t.recovery = b /\ t.enabled = u.enabled /\ t.last = u.last
      BY <1>1, <2>1 DEF Totp
    <2> QED BY <1>2, <1>3, <1>6, <2>2 DEF Spent
  <1>7. CASE kind = "code"
    <2>1. t \in Accepted(u, given) /\ u.enabled
      BY <1>7 DEF Edits, TwoFactorEnabled
    <2>2. CASE Fits(given, u)
      <3>1. /\ given \in AppCodes /\ given[1] = u.secret /\ ~(given[2] <= u.last)
            /\ t = [u EXCEPT !.last = given[2]]
        BY <2>1, <2>2 DEF Accepted, Fits
      <3>2. /\ t.secret = u.secret /\ t.recovery = u.recovery /\ t.enabled = u.enabled
            /\ t.last = given[2]
        BY <1>1, <3>1 DEF Totp
      <3>3. given[2] \in Nat /\ given \notin RecoveryCodes
        BY <3>1, AppCodeShape
      <3>4. given \notin used
        BY <1>2, <3>1
      <3>5. ASSUME NEW x \in used \cap AppCodes, x[1] = t.secret
            PROVE  t.enabled /\ x[2] <= t.last
        <4>1. x[2] \in Nat /\ x[2] <= u.last
          BY <1>2, <3>2, <3>5, AppCodeShape
        <4> QED BY <1>1, <2>1, <3>1, <3>2, <3>3, <4>1
      <3>6. Spent(t)
        BY <1>2, <3>2, <3>5 DEF Spent
      <3> QED BY <1>1, <2>1, <3>1, <3>2, <3>3, <3>4, <3>6
    <2>3. CASE ~Fits(given, u)
      <3>1. given \in u.recovery /\ t = [u EXCEPT !.recovery = @ \ {given}]
        BY <2>1, <2>3 DEF Accepted, UseRecoveryCode
      <3>2. /\ t.secret = u.secret /\ t.recovery = u.recovery \ {given} /\ t.enabled = u.enabled
            /\ t.last = u.last
        BY <1>1, <3>1 DEF Totp
      <3>3. given \notin AppCodes /\ given \in issued /\ given \notin used
        BY <1>1, <1>2, <3>1, AppCodeShape
      <3>4. Spent(t)
        BY <1>2, <3>2 DEF Spent
      <3> QED BY <3>2, <3>3, <3>4
    <2> QED BY <2>2, <2>3
  <1> QED BY <1>4, <1>5, <1>6, <1>7 DEF EditKinds

\* Codes matter to what is used up, challenges do not.
SameCodes == used' \cap (AppCodes \cup RecoveryCodes) = used \cap (AppCodes \cup RecoveryCodes)

LEMMA SpentKept ==
    ASSUME NEW t \in Totp, Spent(t), SameCodes
    PROVE  Spent(t)'
  <1>1. t.recovery \subseteq RecoveryCodes
    BY DEF Totp
  <1> QED BY <1>1 DEF Spent, SameCodes

LEMMA WillSpendKept ==
    ASSUME NEW q \in Request, WillSpend(q), q.given \in AppCodes \cup RecoveryCodes, SameCodes,
           issued \subseteq issued'
    PROVE  WillSpend(q)'
  BY DEF WillSpend, SameCodes

\* A request that stays between reading and writing.
LEMMA WriterKept ==
    ASSUME Core, OnceInv, NEW o \in Requests, Same(request[o], request'[o]), At(o, "write"),
           request'[o] \in Request, SameCodes, issued \subseteq issued'
    PROVE  /\ Spent(request[o].copy)'
           /\ request'[o].kind = "code" => WillSpend(request[o])'
  <1>1. PICK t : t = request[o].copy
    OBVIOUS
  <1>2. request[o] \in Request /\ t \in Totp /\ request'[o].copy = t /\ Spent(t)
    BY <1>1, RequestOf DEF Core, Same, Request, OnceInv
  <1>3. Spent(t)'
    BY <1>2, SpentKept
  <1>4. Spent(request[o].copy)'
    BY <1>2, <1>3 DEF Spent
  <1>5. ASSUME request'[o].kind = "code"
        PROVE  WillSpend(request[o])'
    <2>1. PICK m \in Request : m = request'[o]
      OBVIOUS
    <2>2. /\ m.given = request[o].given /\ m.copy = request[o].copy /\ m.kind = "code"
          /\ m.given \in AppCodes \cup RecoveryCodes /\ WillSpend(request[o])
      BY <1>5, <2>1 DEF Same, Core, GivenInv, OnceInv
    <2>3. WillSpend(m)
      BY <2>2 DEF WillSpend
    <2>4. WillSpend(m)'
      BY <2>2, <2>3, WillSpendKept
    <2> QED BY <2>1, <2>4 DEF WillSpend
  <1> QED BY <1>4, <1>5

LEMMA UsedNames ==
    ASSUME OnceInv, SameCodes, issued \subseteq issued'
    PROVE  /\ used' \cap RecoveryCodes \subseteq issued'
           /\ \A x \in used' \cap AppCodes : x[1] \in issued'
  BY DEF OnceInv, SameCodes

LEMMA OnceKept ==
    ASSUME OneProcess, Storage = "sql", Core, LockInv, SecretsInv, OnceInv,
           NEW r \in Requests, RequestStep(r)
    PROVE  OnceInv'
  <1>1. Base /\ TypeOK /\ GivenInv /\ user \in User
    BY DEF Core, Base, TypeOK
  <1>2. PICK n \in Request : Sound(r, n)
    BY <1>1, StepSound
  <1>3. /\ request'[r] = n /\ request' \in [Requests -> Request]
        /\ n.step = "write" => Reads(r)
        /\ \A o \in Requests \ {r} : Same(request[o], request'[o])
    BY <1>2 DEF Sound, Turn
  <1>4. issued \subseteq issued'
    BY <1>1, RequestOutside
  <1>5. user.totp \in Totp /\ Spent(user.totp)
    BY <1>1, IssuedNames DEF OnceInv
  <1>6. ASSUME NEW t \in Totp, user'.totp = t, Spent(t), SameCodes,
               n.step = "write" => /\ Spent(n.copy)'
                                   /\ n.kind = "code" => WillSpend(n)'
        PROVE  OnceInv'
    <2>1. Spent(user.totp)'
      <3>1. Spent(t)'
        BY <1>6, SpentKept
      <3> QED BY <1>6, <3>1 DEF Spent
    <2>2. ASSUME NEW o \in Requests, request'[o].step = "write"
          PROVE  /\ Spent(request[o].copy)'
                 /\ request'[o].kind = "code" => WillSpend(request[o])'
      <3>1. CASE o = r
        BY <1>3, <1>6, <2>2, <3>1 DEF Spent, WillSpend
      <3>2. CASE o # r
        <4>1. Same(request[o], request'[o]) /\ At(o, "write") /\ request'[o] \in Request
          BY <1>3, <2>2, <3>2 DEF Same, At
        <4> QED BY <1>4, <1>6, <4>1, WriterKept
      <3> QED BY <3>1, <3>2
    <2> QED BY <1>4, <1>6, <2>1, <2>2, UsedNames DEF OnceInv, At
  <1>7. ASSUME user'.totp = user.totp, SameCodes, ~Reads(r)
        PROVE  OnceInv'
    <2>1. PICK t \in Totp : t = user.totp
      BY <1>5
    <2>2. Spent(t) /\ user'.totp = t
      BY <1>5, <1>7, <2>1
    <2> QED BY <1>3, <1>6, <1>7, <2>2
  <1>8. CASE Reads(r)
    <2>1. UNCHANGED <<tables, history>>
      BY <1>1, <1>8, ReadsShape
    <2>2. PICK kind \in EditKinds, given \in AppCodes \cup RecoveryCodes \cup {None} :
             \E t \in Edits(kind, given, user), m \in Request :
                 /\ Turn(r, m) /\ m.copy = t /\ m.kind = kind
                 /\ kind \in {"code", "confirm"} => m.given = given
      BY <1>1, <1>8, ReadsShape
    <2>3. PICK t \in Edits(kind, given, user) :
                 /\ n.copy = t /\ n.kind = kind
                 /\ kind \in {"code", "confirm"} => n.given = given
      BY <1>3, <2>2 DEF Turn
    <2>4. /\ Spent(t)
          /\ kind = "code" =>
                 /\ given \notin used /\ given \notin t.recovery
                 /\ given \in AppCodes => t.enabled /\ given[1] = t.secret /\ given[2] <= t.last
                 /\ given \in RecoveryCodes => given \in issued
      BY <1>1, EditSpends
    <2>5. SameCodes /\ user' = user /\ used' = used
      BY <2>1 DEF SameCodes, tables, history
    <2>6. Spent(n.copy)'
      BY <2>3, <2>4, <2>5 DEF Spent
    <2>7. n.kind = "code" => WillSpend(n)'
      BY <1>4, <2>3, <2>4, <2>5 DEF WillSpend
    <2>8. PICK v \in Totp : v = user.totp
      BY <1>5
    <2>9. Spent(v) /\ user'.totp = v
      BY <1>5, <2>5, <2>8
    <2> QED BY <1>6, <2>5, <2>6, <2>7, <2>9
  <1>9. CASE WriteTotp(r)
    <2>1. ~Reads(r) /\ At(r, "write")
      BY <1>9, ReadsFrom DEF WriteTotp, At
    <2>2. ASSUME NEW o \in Requests
          PROVE  request'[o].step # "write"
      BY <1>1, <1>3, <2>1, OneWriter DEF At, Same
    <2>3. CASE ~user.row
      <3>1. user'.totp = user.totp /\ used' = used
        BY <1>9, <2>3 DEF WriteTotp
      <3> QED BY <1>7, <2>1, <3>1 DEF SameCodes
    <2>4. CASE user.row
      <3>1. PICK t \in Totp : t = request[r].copy
        BY <1>1, RequestOf DEF Request
      <3>2. user' = [user EXCEPT !.totp = t] /\ UNCHANGED issued
        BY <1>9, <2>4, <3>1 DEF WriteTotp, outside
      <3>3. user'.totp = t
        BY <1>1, <3>2, UserShape
      <3>4. Spent(t) /\ t.secret \in issued
        BY <2>1, <3>1 DEF OnceInv, SecretsInv
      <3>5. CASE request[r].kind # "code"
        <4>1. used' = used
          BY <1>9, <2>4, <3>5 DEF WriteTotp
        <4> QED BY <1>3, <1>6, <2>2, <3>3, <3>4, <4>1 DEF SameCodes
      <3>6. CASE request[r].kind = "code"
        <4> DEFINE g == request[r].given
        <4>1. used' = used \cup {g}
          BY <1>9, <2>4, <3>6 DEF WriteTotp, Accept
        <4>2. /\ g \in AppCodes \cup RecoveryCodes /\ g \notin t.recovery
              /\ g \in AppCodes => t.enabled /\ g[1] = t.secret /\ g[2] <= t.last
              /\ g \in RecoveryCodes => g \in issued
          BY <1>1, <2>1, <3>1, <3>6 DEF OnceInv, WillSpend, GivenInv
        <4> HIDE DEF g
        <4>3. \A x \in used' \cap AppCodes : x[1] = t.secret => t.enabled /\ x[2] <= t.last
          BY <3>4, <4>1, <4>2 DEF Spent
        <4>4. used' \cap t.recovery = {}
          BY <3>4, <4>1, <4>2 DEF Spent
        <4>5. Spent(user.totp)'
          BY <3>3, <4>3, <4>4 DEF Spent
        <4>6. used' \cap RecoveryCodes \subseteq issued'
          BY <1>4, <4>1, <4>2 DEF OnceInv
        <4>7. \A x \in used' \cap AppCodes : x[1] \in issued'
          BY <1>4, <3>4, <4>1, <4>2 DEF OnceInv
        <4> QED BY <2>2, <4>5, <4>6, <4>7 DEF OnceInv, At
      <3> QED BY <3>5, <3>6
    <2> QED BY <2>3, <2>4
  <1>10. CASE ClearTotp(r)
    <2>1. user' = [user EXCEPT !.totp = NoTotp] /\ used' = used /\ ~Reads(r)
      BY <1>10, ReadsFrom DEF ClearTotp, WriteNoTotp, At
    <2>2. user'.totp = NoTotp
      BY <1>1, <2>1, UserShape, TotpNone
    <2>3. Spent(NoTotp)
      BY NoTotpShape, AppCodeShape, NamesAssumption DEF Spent
    <2> QED BY <1>3, <1>6, <2>1, <2>2, <2>3, TotpNone DEF SameCodes
  <1>11. CASE SetSession(r)
    <2>1. user' = SaveUser(user) /\ used' = used /\ ~Reads(r)
      BY <1>11, ReadsFrom DEF SetSession, history, At
    <2> QED BY <1>1, <1>7, <2>1, SaveShape DEF SameCodes
  <1>12. CASE ClearChallenge(r)
    <2>1. At(r, "taken") /\ user' = [user EXCEPT !.challenge = None] /\ ~Reads(r)
      BY <1>12, ReadsFrom DEF ClearChallenge, At
    <2>2. [user EXCEPT !.challenge = None].totp = user.totp
      BY <1>1, UserShape
    <2>3. SameCodes
      <3>1. request[r].given[1] \in Challenges
        BY <1>1, <2>1, AnswerAt DEF At
      <3>2. used' \subseteq used \cup {request[r].given[1]} /\ used \subseteq used'
        BY <1>12 DEF ClearChallenge, Accept
      <3> QED BY <3>1, <3>2, NamesAssumption DEF SameCodes
    <2> QED BY <1>7, <2>1, <2>2, <2>3
  <1>13. CASE AddPasskey(r) \/ UpdatePasskey(r)
    <2>1. user' = user /\ used' = used /\ ~Reads(r)
      BY <1>13, ReadsFrom DEF AddPasskey, UpdatePasskey, history, At
    <2> QED BY <1>7, <2>1 DEF SameCodes
  <1>14. CASE ~Writes(r) /\ ~Reads(r)
    BY <1>1, <1>7, <1>14, TablesStay DEF SameCodes
  <1> QED BY <1>8, <1>9, <1>10, <1>11, <1>12, <1>13, <1>14 DEF Writes

LEMMA OtherOnceKept ==
    ASSUME Core, OnceInv, OtherStep
    PROVE  OnceInv'
  <1>1. TypeOK /\ AnswersInv /\ user \in User
    BY DEF Core, Base, TypeOK
  <1>2. request' = request /\ used' = used /\ SameCodes
    BY OtherRequests DEF SameCodes
  <1>3. issued \subseteq issued'
    BY <1>1, OtherAnswersKept
  <1>4. user'.totp \in {user.totp, NoTotp}
    <2>1. \/ user' = user \/ user' = NoUser \/ user' = [user EXCEPT !.totp = NoTotp]
          \/ \E c \in Challenges : user' = [user EXCEPT !.challenge = c]
      BY DEF OtherStep, BeginRegistration, BeginLogin, KeepChallenge, DeletePasskey,
             ResetTwoFactor, WriteNoTotp, DeleteUser, Tick, tables
    <2>2. [user EXCEPT !.totp = NoTotp].totp = NoTotp
      BY <1>1, UserShape, TotpNone
    <2>3. \A c \in Challenges : [user EXCEPT !.challenge = c].totp = user.totp
      BY <1>1, UserShape
    <2>4. NoUser.totp = NoTotp
      BY DEF NoUser
    <2>5. CASE \E c \in Challenges : user' = [user EXCEPT !.challenge = c]
      BY <2>3, <2>5
    <2> QED BY <2>1, <2>2, <2>4, <2>5
  <1>5. Spent(user.totp) /\ Spent(NoTotp)
    BY NoTotpShape, AppCodeShape, NamesAssumption DEF Spent, OnceInv
  <1>6. Spent(user.totp)'
    BY <1>2, <1>4, <1>5 DEF Spent
  <1>7. ASSUME NEW o \in Requests, At(o, "write")
        PROVE  /\ Spent(request[o].copy)'
               /\ request'[o].kind = "code" => WillSpend(request[o])'
    <2>1. Same(request[o], request'[o]) /\ request'[o] \in Request
      BY <1>1, <1>2, SameItself DEF TypeOK
    <2> QED BY <1>2, <1>3, <1>7, <2>1, WriterKept
  <1> QED BY <1>2, <1>3, <1>6, <1>7, UsedNames DEF OnceInv, At

LEMMA CodesKept ==
    ASSUME Core, ChallengeInv, OnceInv, CodesOnce, NEW r \in Requests, RequestStep(r)
    PROVE  CodesOnce'
  <1>1. Base
    BY DEF Core
  <1>2. CASE WriteTotp(r)
    <2>1. UNCHANGED reused \/ (request[r].kind = "code" /\ Accept(request[r].given))
      BY <1>2 DEF WriteTotp
    <2>2. request[r].kind = "code" => request[r].given \notin used
      BY <1>2 DEF WriteTotp, OnceInv, WillSpend
    <2> QED BY <2>1, <2>2 DEF Accept, CodesOnce
  <1>3. CASE ClearChallenge(r)
    BY <1>1, <1>3, ClearShape DEF Accept, CodesOnce, ChallengeInv
  <1>4. CASE ~WriteTotp(r) /\ ~ClearChallenge(r)
    <2>1. reused' = reused
      BY <1>1, <1>4, TablesStay
         DEF Writes, ClearTotp, WriteNoTotp, SetSession, AddPasskey, UpdatePasskey, history
    <2> QED BY <2>1 DEF CodesOnce
  <1> QED BY <1>2, <1>3, <1>4

\* In one process with a SQL storage, a code of the app signs in once, and so
\* does a recovery code; a challenge is answered once.  A code may fit three time
\* steps, and any number of requests may give it at the same time (Check,
\* takeChallenge).
THEOREM AcceptedOnce == OneProcess /\ Storage = "sql" => (Spec => []CodesOnce)
  <1> SUFFICES ASSUME OneProcess, Storage = "sql"
               PROVE  Spec => []CodesOnce
    OBVIOUS
  <1>1. Init => OnceInv /\ CodesOnce
    <2> SUFFICES ASSUME Init
                 PROVE  OnceInv /\ CodesOnce
      OBVIOUS
    <2>1. used = {} /\ reused = {} /\ \A r \in Requests : request[r] = NoRequest
      BY DEF Init
    <2> QED BY <2>1, NoRequestShape DEF OnceInv, Spent, CodesOnce, At
  <1>2. Core /\ LockInv /\ SecretsInv /\ KeysInv /\ OnceInv /\ CodesOnce /\ [Next]_vars =>
           OnceInv' /\ CodesOnce'
    <2>1. ASSUME OnceInv, CodesOnce, UNCHANGED vars
          PROVE  OnceInv' /\ CodesOnce'
      BY <2>1 DEF vars, tables, history, outside, OnceInv, Spent, WillSpend, CodesOnce, At
    <2>2. ASSUME Core, LockInv, SecretsInv, KeysInv, OnceInv, CodesOnce, NEW r \in Requests,
                 RequestStep(r)
          PROVE  OnceInv' /\ CodesOnce'
      BY <2>2, OnceKept, CodesKept DEF KeysInv
    <2>3. ASSUME Core, OnceInv, CodesOnce, OtherStep
          PROVE  OnceInv' /\ CodesOnce'
      BY <2>3, OtherOnceKept, OtherRequests DEF CodesOnce
    <2> QED BY <2>1, <2>2, <2>3, NextSplit
  <1>3. Spec => []SecretsInv
    BY SecretsHold
  <1>4. Spec => []KeysInv
    BY KeysHold
  <1> QED BY <1>1, <1>2, <1>3, <1>4, CoreHolds, LockHolds, PTL DEF Spec
=============================================================================
