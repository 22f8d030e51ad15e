------------------------- MODULE RemoteSignInProofs -------------------------
(***************************************************************************)
(* What RemoteSignIn guarantees for any number of browsers, requests,      *)
(* sign-ins, providers and accounts.                                       *)
(***************************************************************************)
EXTENDS RemoteSignIn, TLAPS

Request == {Idle} \cup Exchanging \cup Knowing \cup Answering \cup Adding \cup Removing
Past == {"check", "list", "create", "record"}

\* A cookie of a sign-in in progress is of one that its browser began.
Own(c, b) ==
    c.kind = "login" =>
        /\ logins[c.state] # None /\ logins[c.state].b = b
        /\ c.nonce \in {c.state, None} /\ c.verifier \in {c.state, None}

\* A code was issued for this account and this provider, and to this browser
\* when the provider ties it to its sign-in or it came with its own state.
Tied(x) ==
    x.code # None =>
        /\ logins[x.code] # None
        /\ logins[x.code].p = x.p /\ logins[x.code].account = x.account
        /\ BindsCodes(x.p) \/ x.state = x.code => logins[x.code].b = x.b

OwnRequest(r) ==
    /\ r.pc = "answer" => Own(r.set, r.b)
    /\ r.pc \in {"exchange", "claims"} => Own(r.cookie, r.b) /\ r.cookie.state = r.state
    /\ r.pc = "claims" =>
          /\ r.code # None /\ logins[r.code] # None
          /\ logins[r.code].p = r.p /\ logins[r.code].account = r.account
          /\ r.p \in PKCE => r.cookie.verifier = r.code
    /\ r.pc \in Past => Tied(r)

OwnInv ==
    /\ \A b \in Browsers : Own(cookie[b], b)
    /\ \A q \in Requests : OwnRequest(req[q])
    /\ \A i \in Sids : sessions[i] # None => Tied(sessions[i])

Admitted == {"list", "create", "record", "add"}

\* A browser has the id of this session, or is about to get it.
InHand(i) ==
    \/ \E b \in Browsers : Names(cookie[b], i)
    \/ \E q \in Requests : req[q].pc = "answer" /\ Names(req[q].set, i)

\* A request that has a cookie, and that names this session with it.
HasCookie(r) == r.pc \in {"exchange", "claims"} \cup Past
Holds(r, i) == HasCookie(r) /\ Names(r.cookie, i)

\* The id of a session that was just started is known to its request only.
NewId(q) ==
    req[q].pc = "record" =>
        /\ ~InHand(req[q].cookie.id)
        /\ \A o \in Requests \ {q} : ~Holds(req[o], req[q].cookie.id)
        /\ LET x == sessions[req[q].cookie.id]
           IN  x # None => x.p = req[q].p /\ x.account = req[q].account

NewIdInv == \A q \in Requests : NewId(q)

\* Nobody is signed in under a subject whose deletion has ended the sessions.
Emptied(s) ==
    BeingDeleted(s) => \A i \in Sids : sessions[i] # None => SubjectIn(sessions[i]) # s

\* What was known of the subject when a request was admitted still fits its
\* provider; one that has yet to list the devices has found no row.
KnownTo(s, r) ==
    IF users[s] # None THEN {users[s]} ELSE IF r.pc = "list" THEN {} ELSE owners[s]
Fits(s, r) == Admits(KnownTo(s, r), r.p)

\* Whoever acts under a subject, or is about to, has the same provider, the one
\* that is remembered once there is one.
OwnerOf(s) ==
    /\ \A q \in Requests :
          req[q].pc \in Admitted /\ SubjectIn(req[q]) = s => Fits(s, req[q])
    /\ \A q, o \in Requests :
          /\ req[q].pc \in Admitted /\ SubjectIn(req[q]) = s
          /\ req[o].pc \in Admitted /\ SubjectIn(req[o]) = s
          => SameProvider(req[q].p, req[o].p)
    /\ users[s] # None => \A k \in owners[s] \ {None} : SameProvider(k, users[s])
    /\ \A i \in Sids : sessions[i] # None /\ InHand(i) /\ SubjectIn(sessions[i]) = s =>
          users[s] # None /\ SameProvider(sessions[i].p, users[s])
    /\ Emptied(s)

OwnerInv == \A s \in Subjects \ overlap : OwnerOf(s)

\* A right that a request or a session carries was held when it was read.
HeldRequest(r) ==
    r.pc \in {"claims"} \cup Past =>
        /\ \A x \in r.standing.rights : held[r.p][r.account][x] = now
        /\ r.p \in BuiltIn => r.standing.rights = {}
        /\ r.pc \in Past /\ r.p \in Github => "access" \in r.standing.rights

Carried(x) == x.rights \cup (IF x.p \in Github THEN {"access"} ELSE {})

HeldSession(x) ==
    /\ x.created <= now
    /\ x.p \in BuiltIn => x.rights = {}
    /\ \A r \in Carried(x) : held[x.p][x.account][r] # None /\ held[x.p][x.account][r] >= x.created

HeldInv ==
    /\ \A p \in conf, a \in Accounts : \A r \in standing[p][a].rights : held[p][a][r] = now
    /\ \A q \in Requests : HeldRequest(req[q])
    /\ \A i \in Sids : sessions[i] # None => HeldSession(sessions[i])

-----------------------------------------------------------------------------
(* Types, and what a step does to the request that takes it.               *)

\* What the place of a request says of its record.
LEMMA RequestShapes ==
    ASSUME NEW r \in Request
    PROVE  /\ r.pc = "idle" => r = Idle
           /\ r.pc = "exchange" => r \in Exchanging
           /\ r.pc \in {"claims"} \cup Past => r \in Knowing
           /\ r.pc = "answer" => r \in Answering
           /\ r.pc = "add" => r \in Adding
           /\ r.pc \in {"devices", "forget"} => r \in Removing
           /\ r.pc \in {"idle", "exchange", "claims", "answer", "add", "devices", "forget"} \cup Past
  BY DEF Request, Idle, Exchanging, Knowing, Answering, Adding, Removing, Past

\* What the kind of a cookie says of it.
LEMMA CookieShapes ==
    ASSUME NEW c \in Cookie
    PROVE  /\ c.kind = "login" => c \in LoginCookie
           /\ c.kind = "session" => c \in SessionCookie
           /\ c \in LoginCookie => c.kind = "login"
  BY DEF Cookie, NoCookie, LoginCookie, SessionCookie

\* One request is replaced.
LEMMA SetShape ==
    ASSUME SignInTypeOK, NEW q \in Requests, NEW r \in Request, Set(q, r)
    PROVE  /\ req' \in [Requests -> Request]
           /\ req'[q] = r
           /\ \A o \in Requests \ {q} : req'[o] = req[o]
  BY DEF SignInTypeOK, Request, Set

\* A session may end, and nothing else happens to the sessions.
LEMMA EndsShape ==
    ASSUME SignInTypeOK, NEW c, NEW t \in Ends(c)
    PROVE  /\ t \in [Sids -> Session \cup {None}]
           /\ \A i \in Sids : t[i] = sessions[i] \/ t[i] = None
  BY DEF SignInTypeOK, Ends

RequestOk(r) ==
    r.pc \in {"exchange", "claims", "check", "list", "create", "record"} =>
        /\ r.p \in conf
        /\ r.pc # "record" /\ r.p \notin BuiltIn => r.cookie \in LoginCookie
        /\ r.pc \in {"exchange", "claims"} => r.p \notin BuiltIn
        /\ r.pc = "exchange" => Issued(r.code)
        /\ r.pc = "record" => r.cookie \in SessionCookie

\* A step that replaces a request, counts it, and may end a session, keeps the
\* types.
LEMMA SetTypes ==
    ASSUME SignInTypeOK, NEW q \in Requests, NEW r \in Request, Set(q, r), RequestOk(r),
           UNCHANGED <<conf, now, standing, changes, held>>,
           asked' \in 0 .. MaxRequests,
           logins' \in [Logins -> Started \cup {None}],
           \A n \in Logins : Issued(n) => Issued(n)',
           cookie' \in [Browsers -> Cookie],
           sessions' \in [Sids -> Session \cup {None}],
           \A i \in Sids : sessions'[i] # None => sessions'[i].p \in conf,
           users' \in [Subjects -> Providers \cup {None}],
           owners' \in [Subjects -> SUBSET (Providers \cup {None})],
           overlap' \subseteq Subjects
    PROVE  SignInTypeOK'
  <1>1. /\ req' \in [Requests -> Request]
        /\ req'[q] = r
        /\ \A o \in Requests \ {q} : req'[o] = req[o]
    BY SetShape
  <1>2. \A o \in Requests : RequestOk(req[o])
    BY DEF SignInTypeOK, RequestOk
  <1>3. \A o \in Requests : RequestOk(req'[o])
    BY <1>1, <1>2
  <1>4. \A o \in Requests : RequestOk(req[o])'
    <2> SUFFICES ASSUME NEW o \in Requests PROVE RequestOk(req[o])'
      OBVIOUS
    <2>1. req'[o].pc = "exchange" => req'[o].code \in Logins
      <3>1. req'[o] \in Request
        BY <1>1
      <3> QED BY <3>1, RequestShapes DEF Exchanging
    <2> QED BY <1>3, <2>1 DEF RequestOk
  <1> QED BY <1>1, <1>4 DEF SignInTypeOK, RequestOk, Request

\* The cookie that the answer to Login sets.
LEMMA LoginCookieType ==
    ASSUME NEW p, NEW n \in Logins
    PROVE  OidcCookie(p, n) \in LoginCookie /\ GithubCookie(n) \in LoginCookie
  BY DEF OidcCookie, GithubCookie, LoginCookie

\* The account and the provider of a request are those of a subject.
LEMMA SubjectType ==
    ASSUME NEW p \in Providers, NEW a \in Accounts
    PROVE  SubjectOf[p][a] \in Subjects
  BY ProviderNames

LEMMA SignOutTypes ==
    ASSUME SignInTypeOK, NEW q \in Requests, NEW b \in Browsers, SignOut(q, b)
    PROVE  SignInTypeOK'
  <1> DEFINE r == [pc |-> "answer", b |-> b, set |-> NoCookie]
  <1>1. r \in Answering
    BY DEF Answering, Cookie
  <1>2. r \in Request /\ RequestOk(r)
    BY <1>1 DEF Request, RequestOk
  <1>3. /\ Set(q, r) /\ sessions' \in Ends(cookie[b]) /\ asked' \in 0 .. MaxRequests
        /\ UNCHANGED <<conf, now, standing, changes, held, logins, cookie, users, owners,
                       overlap>>
    BY SignInBounds DEF SignOut, Answer, Begin, SignInTypeOK
  <1>4. /\ sessions' \in [Sids -> Session \cup {None}]
        /\ \A i \in Sids : sessions'[i] # None => sessions'[i].p \in conf
    BY <1>3, EndsShape DEF SignInTypeOK
  <1> HIDE DEF r
  <1> QED BY <1>2, <1>3, <1>4, SetTypes DEF SignInTypeOK, Issued

LEMMA BeginTypes ==
    ASSUME SignInTypeOK, NEW q \in Requests, NEW b \in Browsers, NEW p \in Providers
    PROVE  /\ Begin(q) => asked' \in 0 .. MaxRequests
           /\ Login(q, b, p) => SignInTypeOK'
           /\ \A a \in Accounts : BuiltInSignIn(q, b, p, a) => SignInTypeOK'
           /\ \A state, code \in Logins : Callback(q, b, p, state, code) => SignInTypeOK'
  <1>1. Begin(q) => asked' \in 0 .. MaxRequests
    BY SignInBounds DEF SignInTypeOK, Begin
  <1>2. cookie[b] \in Cookie
    BY DEF SignInTypeOK
  <1>3. /\ sessions \in [Sids -> Session \cup {None}]
        /\ \A i \in Sids : sessions[i] # None => sessions[i].p \in conf
    BY DEF SignInTypeOK
  <1>4. \A t \in Ends(cookie[b]) : /\ t \in [Sids -> Session \cup {None}]
                                   /\ \A i \in Sids : t[i] # None => t[i].p \in conf
    BY <1>3, EndsShape
  <1>5. ASSUME Login(q, b, p) PROVE SignInTypeOK'
    <2>1. PICK n \in Logins :
             /\ logins[n] = None
             /\ logins' = [logins EXCEPT ![n] =
                            [b |-> b, p |-> p, account |-> None, redeemed |-> FALSE]]
             /\ Answer(q, b, IF p \in Oidc THEN OidcCookie(p, n) ELSE GithubCookie(n))
      BY <1>5 DEF Login
    <2> DEFINE c == IF p \in Oidc THEN OidcCookie(p, n) ELSE GithubCookie(n)
               r == [pc |-> "answer", b |-> b, set |-> c]
    <2>2. r \in Answering
      BY LoginCookieType DEF Answering, Cookie
    <2>3. r \in Request /\ RequestOk(r)
      BY <2>2 DEF Request, RequestOk
    <2>4. logins' \in [Logins -> Started \cup {None}]
      <3>1. [b |-> b, p |-> p, account |-> None, redeemed |-> FALSE] \in Started
        BY DEF Started
      <3> QED BY <2>1, <3>1 DEF SignInTypeOK
    <2>7. \A m \in Logins : Issued(m) => Issued(m)'
      BY <2>1 DEF SignInTypeOK, Issued
    <2>5. Set(q, r)
      BY <2>1 DEF Answer
    <2>6. /\ sessions' \in Ends(cookie[b]) /\ asked' \in 0 .. MaxRequests
          /\ UNCHANGED <<conf, now, standing, changes, held, cookie, users, owners, overlap>>
      BY <1>1, <1>5 DEF Login
    <2> HIDE DEF r
    <2> QED BY <1>4, <2>3, <2>4, <2>5, <2>6, <2>7, SetTypes DEF SignInTypeOK
  <1>7. ASSUME NEW a \in Accounts, BuiltInSignIn(q, b, p, a) PROVE SignInTypeOK'
    <2> DEFINE r == [pc |-> "check", b |-> b, p |-> p, cookie |-> cookie[b], state |-> None,
                     code |-> None, account |-> a,
                     standing |-> [rights |-> {}, email |-> "outside"]]
    <2>1. [rights |-> {}, email |-> "outside"] \in Standing
      BY DEF Standing, Emails
    <2>2. r \in Knowing
      BY <1>2, <2>1 DEF Knowing
    <2>3. r \in Request /\ RequestOk(r)
      BY <1>7, <2>2 DEF Request, RequestOk, BuiltInSignIn
    <2>4. /\ Set(q, r) /\ asked' \in 0 .. MaxRequests
          /\ UNCHANGED <<conf, now, standing, changes, held, logins, cookie, sessions, users,
                         owners, overlap>>
      BY <1>1, <1>7 DEF BuiltInSignIn
    <2> HIDE DEF r
    <2> QED BY <1>3, <2>3, <2>4, SetTypes DEF SignInTypeOK, Issued
  <1>8. ASSUME NEW state \in Logins, NEW code \in Logins, Callback(q, b, p, state, code)
        PROVE  SignInTypeOK'
    <2> DEFINE r == [pc |-> "exchange", b |-> b, p |-> p, cookie |-> cookie[b],
                     state |-> state, code |-> code]
    <2>1. cookie[b] \in LoginCookie
      BY <1>2, <1>8, CookieShapes DEF Callback, StateOk
    <2>2. r \in Exchanging
      BY <2>1 DEF Exchanging
    <2>3. r \in Request /\ RequestOk(r)
      BY <1>8, <2>1, <2>2 DEF Request, RequestOk, Callback
    <2>4. /\ Set(q, r) /\ asked' \in 0 .. MaxRequests
          /\ UNCHANGED <<conf, now, standing, changes, held, logins, cookie, sessions, users,
                         owners, overlap>>
      BY <1>1, <1>8 DEF Callback
    <2> HIDE DEF r
    <2> QED BY <1>3, <2>3, <2>4, SetTypes DEF SignInTypeOK, Issued
  <1> QED BY <1>1, <1>5, <1>7, <1>8
\* The callback's steps, and the record each one leaves.
LEMMA CallbackShapes ==
    ASSUME SignInTypeOK, NEW q \in Requests
    PROVE  /\ Exchange(q) =>
                /\ req[q] \in Exchanging
                /\ req[q].p \notin BuiltIn
                /\ logins[req[q].code] \in Started
                /\ logins[req[q].code].account \in Accounts
                /\   [pc |-> "claims", b |-> req[q].b, p |-> req[q].p, cookie |-> req[q].cookie,
                      state |-> req[q].state, code |-> req[q].code,
                      account |-> logins[req[q].code].account,
                      standing |-> standing[req[q].p][logins[req[q].code].account]] \in Knowing
           /\ ReadClaims(q) \/ Check(q) \/ CheckDevices(q) \/ Create(q) \/ Record(q) =>
                req[q] \in Knowing /\ req[q].p \in conf
           /\ Delivered(q) => req[q] \in Answering
  <1>1. req[q] \in Request
    BY DEF SignInTypeOK, Request
  <1>2. ASSUME Exchange(q)
        PROVE  /\ req[q] \in Exchanging /\ req[q].p \notin BuiltIn /\ req[q].p \in conf
    BY <1>1, <1>2, RequestShapes DEF Exchange, SignInTypeOK
  <1>6. ASSUME Exchange(q)
        PROVE  logins[req[q].code] \in Started /\ logins[req[q].code].account \in Accounts
    <2>1. Issued(req[q].code) /\ req[q].code \in Logins
      BY <1>2, <1>6 DEF SignInTypeOK, Exchange, Exchanging
    <2> QED BY <2>1 DEF SignInTypeOK, Issued, Started
  <1>3. ASSUME Exchange(q)
        PROVE  [pc |-> "claims", b |-> req[q].b, p |-> req[q].p, cookie |-> req[q].cookie,
                state |-> req[q].state, code |-> req[q].code,
                account |-> logins[req[q].code].account,
                standing |-> standing[req[q].p][logins[req[q].code].account]] \in Knowing
    <2> DEFINE a == logins[req[q].code].account
    <2>1. standing[req[q].p][a] \in Standings
      BY <1>2, <1>3, <1>6 DEF SignInTypeOK
    <2>2. standing[req[q].p][a] \in Standing
      BY <2>1, StandingsAssumption DEF Standing
    <2>3. req[q].cookie \in Cookie
      BY <1>2, <1>3 DEF Exchanging, Cookie
    <2>4. req[q] \in Exchanging
      BY <1>2, <1>3, ZenonT(30)
    <2> QED BY <1>3, <1>6, <2>2, <2>3, <2>4 DEF Exchanging, Knowing
  <1>4. ASSUME ReadClaims(q) \/ Check(q) \/ CheckDevices(q) \/ Create(q) \/ Record(q)
        PROVE  req[q] \in Knowing /\ req[q].p \in conf
    BY <1>1, <1>4, RequestShapes DEF ReadClaims, Check, CheckDevices, Create, Record, SignInTypeOK, Past
  <1>5. Delivered(q) => req[q] \in Answering
    BY <1>1, RequestShapes DEF Delivered
  <1> QED BY <1>2, <1>3, <1>4, <1>5, <1>6

\* checkLogin: the sign-in goes on, or it is refused.
LEMMA CheckShape ==
    ASSUME NEW q \in Requests, Check(q) \/ CheckDevices(q)
    PROVE  /\ req[q].pc \in {"check", "list"}
           /\ \E x \in {"list", "create"} : Set(q, [req[q] EXCEPT !.pc = x]) \/ Finish(q)
           /\ UNCHANGED <<conf, now, standing, changes, asked, held, logins, cookie, sessions,
                          users, owners>>
  BY DEF Check, CheckDevices

\* The claims that a session is made of.
LEMMA SessionType ==
    ASSUME SignInTypeOK, NEW r \in Knowing
    PROVE  [p |-> r.p, account |-> r.account, rights |-> Claims(r.p, r.standing.rights),
            created |-> now, b |-> r.b, state |-> r.state, code |-> r.code] \in Session
  <1>1. r.standing.rights \in SUBSET Rights
    BY DEF Knowing, Standing
  <1>2. Claims(r.p, r.standing.rights) \in SUBSET Rights
    BY <1>1 DEF Claims, ClaimMapping, GithubClaims
  <1>3. now \in 0 .. MaxTime
    BY DEF SignInTypeOK
  <1> QED BY <1>2, <1>3 DEF Knowing, Session

LEMMA CallbackTypes ==
    ASSUME SignInTypeOK, NEW q \in Requests
    PROVE  Exchange(q) \/ ReadClaims(q) \/ Check(q) \/ CheckDevices(q) \/ Create(q) \/ Record(q)
                \/ Delivered(q) \/ Abandoned(q) => SignInTypeOK'
  <1>1. Idle \in Request /\ RequestOk(Idle)
    BY DEF Request, RequestOk, Idle
  <1>2. RequestOk(req[q]) /\ req[q] \in Request
    BY DEF SignInTypeOK, RequestOk, Request
  <1>3. /\ sessions \in [Sids -> Session \cup {None}]
        /\ \A i \in Sids : sessions[i] # None => sessions[i].p \in conf
    BY DEF SignInTypeOK
  <1>4. \A t \in Ends(req[q].cookie) : /\ t \in [Sids -> Session \cup {None}]
                                       /\ \A i \in Sids : t[i] # None => t[i].p \in conf
    BY <1>3, EndsShape
  <1>5. ASSUME Exchange(q) PROVE SignInTypeOK'
    <2> DEFINE a == logins[req[q].code].account
               r == [pc |-> "claims", b |-> req[q].b, p |-> req[q].p, cookie |-> req[q].cookie,
                     state |-> req[q].state, code |-> req[q].code, account |-> a,
                     standing |-> standing[req[q].p][a]]
    <2>1. /\ r \in Knowing /\ req[q] \in Exchanging /\ req[q].p \notin BuiltIn
          /\ logins[req[q].code] \in Started
      BY <1>5, CallbackShapes
    <2>2. r \in Request
      BY <2>1 DEF Request
    <2>3. RequestOk(r)
      BY <1>2, <1>5, <2>1 DEF Exchange, RequestOk, Exchanging
    <2>4. Set(q, r)
      BY <1>5 DEF Exchange
    <2>5. /\ logins' \in [Logins -> Started \cup {None}]
          /\ \A n \in Logins : Issued(n) => Issued(n)'
      <3>1. /\ logins' = [logins EXCEPT ![req[q].code].redeemed = TRUE]
            /\ req[q].code \in Logins
        BY <1>5, <2>1 DEF Exchange, Exchanging
      <3> DEFINE l == [logins[req[q].code] EXCEPT !.redeemed = TRUE]
      <3>2. l \in Started /\ l.account = logins[req[q].code].account
        BY <2>1 DEF Started
      <3>3. logins' = [logins EXCEPT ![req[q].code] = l]
        BY <3>1 DEF SignInTypeOK
      <3> HIDE DEF l
      <3>4. l # None /\ logins \in [Logins -> Started \cup {None}]
        BY <3>2, NoneAssumption DEF SignInTypeOK
      <3>5. logins' \in [Logins -> Started \cup {None}]
        BY <3>1, <3>2, <3>3, <3>4
      <3>6. ASSUME NEW n \in Logins, Issued(n) PROVE Issued(n)'
        BY <3>1, <3>2, <3>3, <3>4, <3>6 DEF Issued
      <3> QED BY <3>5, <3>6
    <2>6. UNCHANGED <<conf, now, standing, changes, asked, held, cookie, sessions, users,
                      owners, overlap>>
      BY <1>5 DEF Exchange
    <2> HIDE DEF r
    <2> QED BY <1>3, <2>2, <2>3, <2>4, <2>5, <2>6, SetTypes DEF SignInTypeOK
  <1>6. ASSUME ReadClaims(q) PROVE SignInTypeOK'
    <2> DEFINE s == IF req[q].p \in IDToken THEN req[q].standing
                    ELSE standing[req[q].p][req[q].account]
               r == [req[q] EXCEPT !.pc = "check", !.standing = s]
    <2>1. req[q] \in Knowing /\ req[q].p \in conf
      BY <1>6, CallbackShapes
    <2>2. s \in Standing
      BY <2>1, StandingsAssumption DEF Knowing, SignInTypeOK, Standing
    <2>3. r \in Knowing /\ r.pc = "check" /\ r.p = req[q].p /\ r.cookie = req[q].cookie
      <3> HIDE DEF s
      <3> QED BY <2>1, <2>2 DEF Knowing
    <2>4. r \in Request /\ RequestOk(r)
      <3> HIDE DEF r
      <3> QED BY <1>2, <1>6, <2>3 DEF Request, RequestOk, ReadClaims
    <2>5. Set(q, r) \/ Set(q, Idle)
      BY <1>6 DEF ReadClaims, Finish
    <2>6. UNCHANGED <<conf, now, standing, changes, asked, held, logins, cookie, sessions, users,
                      owners, overlap>>
      BY <1>6 DEF ReadClaims
    <2> HIDE DEF r
    <2> QED BY <1>1, <1>3, <2>4, <2>5, <2>6, SetTypes DEF SignInTypeOK, Issued
  <1>7. ASSUME Check(q) \/ CheckDevices(q) PROVE SignInTypeOK'
    <2>1. req[q] \in Knowing /\ req[q].p \in conf
      BY <1>7, CallbackShapes
    <2>0. PICK x \in {"list", "create"} : Set(q, [req[q] EXCEPT !.pc = x]) \/ Set(q, Idle)
      BY <1>7, CheckShape DEF Finish
    <2> DEFINE r == [req[q] EXCEPT !.pc = x]
    <2>2. r \in Knowing /\ r.pc = x /\ r.p = req[q].p /\ r.cookie = req[q].cookie
      BY <2>1 DEF Knowing
    <2>3. r \in Request /\ RequestOk(r)
      <3>1. req[q].pc \in {"check", "list"}
        BY <1>7, CheckShape
      <3> HIDE DEF r
      <3> QED BY <1>2, <2>2, <3>1 DEF Request, RequestOk
    <2>4. Set(q, r) \/ Set(q, Idle)
      BY <2>0
    <2>5. SubjectOf[req[q].p][req[q].account] \in Subjects
      BY <2>1, SubjectType DEF Knowing
    <2>6. overlap' \subseteq Subjects
      BY <1>7, <2>5 DEF Check, CheckDevices, SignInTypeOK
    <2>7. UNCHANGED <<conf, now, standing, changes, asked, held, logins, cookie, sessions, users,
                      owners>>
      BY <1>7, CheckShape
    <2> HIDE DEF r
    <2> QED BY <1>1, <1>3, <2>3, <2>4, <2>6, <2>7, SetTypes DEF SignInTypeOK, Issued
  <1>8. ASSUME Create(q) PROVE SignInTypeOK'
    <2>1. req[q] \in Knowing /\ req[q].p \in conf
      BY <1>8, CallbackShapes
    <2>2. PICK ended \in Ends(req[q].cookie) :
             \/ \E i \in Sids :
                   /\ sessions' = [ended EXCEPT ![i] =
                        [p |-> req[q].p, account |-> req[q].account,
                         rights |-> Claims(req[q].p, req[q].standing.rights), created |-> now,
                         b |-> req[q].b, state |-> req[q].state, code |-> req[q].code]]
                   /\ Set(q, [req[q] EXCEPT !.pc = "record",
                                            !.cookie = [kind |-> "session", id |-> i]])
             \/ sessions' = ended /\ Finish(q)
      BY <1>8 DEF Create
    <2>3. /\ UNCHANGED <<conf, now, standing, changes, asked, held, logins, cookie, users, owners>>
          /\ overlap' \subseteq Subjects
      <3>1. SubjectIn(req[q]) \in Subjects
        BY <2>1, SubjectType DEF SubjectIn, Knowing
      <3> QED BY <1>8, <3>1 DEF Create, SignInTypeOK
    <2>4. /\ ended \in [Sids -> Session \cup {None}]
          /\ \A i \in Sids : ended[i] # None => ended[i].p \in conf
      BY <1>4, <2>2
    <2>5. ASSUME NEW i \in Sids,
                 sessions' = [ended EXCEPT ![i] =
                    [p |-> req[q].p, account |-> req[q].account,
                     rights |-> Claims(req[q].p, req[q].standing.rights), created |-> now,
                     b |-> req[q].b, state |-> req[q].state, code |-> req[q].code]],
                 Set(q, [req[q] EXCEPT !.pc = "record",
                                       !.cookie = [kind |-> "session", id |-> i]])
          PROVE  SignInTypeOK'
      <3> DEFINE c == [kind |-> "session", id |-> i]
                 r == [req[q] EXCEPT !.pc = "record", !.cookie = c]
                 x == [p |-> req[q].p, account |-> req[q].account,
                       rights |-> Claims(req[q].p, req[q].standing.rights), created |-> now,
                       b |-> req[q].b, state |-> req[q].state, code |-> req[q].code]
      <3>1. c \in Cookie /\ c \in SessionCookie
        BY DEF Cookie, SessionCookie
      <3>2. x \in Session /\ x.p = req[q].p
        BY <2>1, SessionType
      <3>3. r \in Knowing /\ r.pc = "record" /\ r.p = req[q].p /\ r.cookie = c
        <4> HIDE DEF c
        <4> QED BY <2>1, <3>1 DEF Knowing
      <3>4. r \in Request /\ RequestOk(r)
        <4> HIDE DEF r, c
        <4> QED BY <2>1, <3>1, <3>3 DEF Request, RequestOk
      <3>5. /\ sessions' \in [Sids -> Session \cup {None}]
            /\ \A j \in Sids : sessions'[j] # None => sessions'[j].p \in conf
        <4>1. sessions' = [ended EXCEPT ![i] = x]
          BY <2>5
        <4> HIDE DEF x
        <4> QED BY <2>1, <2>4, <3>2, <4>1
      <3>6. Set(q, r)
        BY <2>5
      <3> HIDE DEF r
      <3> QED BY <2>3, <3>4, <3>5, <3>6, SetTypes DEF SignInTypeOK, Issued
    <2>6. ASSUME sessions' = ended, Finish(q) PROVE SignInTypeOK'
      BY <1>1, <2>3, <2>4, <2>6, SetTypes DEF SignInTypeOK, Issued, Finish
    <2> QED BY <2>2, <2>5, <2>6
  <1>9. ASSUME Record(q) PROVE SignInTypeOK'
    <2> DEFINE r == [pc |-> "answer", b |-> req[q].b, set |-> req[q].cookie]
    <2>1. req[q] \in Knowing
      BY <1>9, CallbackShapes
    <2>2. r \in Answering
      BY <2>1 DEF Knowing, Answering
    <2>3. r \in Request /\ RequestOk(r)
      BY <2>2 DEF Request, RequestOk
    <2>4. Set(q, r)
      BY <1>9 DEF Record, Answer
    <2>5. SubjectOf[req[q].p][req[q].account] \in Subjects
      BY <2>1, SubjectType DEF Knowing
    <2>6. overlap' \subseteq Subjects /\ users' \in [Subjects -> Providers \cup {None}]
      BY <1>9, <2>1, <2>5 DEF Record, SignInTypeOK, Knowing
    <2>7. UNCHANGED <<conf, now, standing, changes, asked, held, logins, cookie, sessions, owners>>
      BY <1>9 DEF Record
    <2> HIDE DEF r
    <2> QED BY <1>3, <2>3, <2>4, <2>6, <2>7, SetTypes DEF SignInTypeOK, Issued
  <1>10. ASSUME Delivered(q) PROVE SignInTypeOK'
    <2>1. req[q] \in Answering
      BY <1>10, CallbackShapes
    <2>2. cookie' \in [Browsers -> Cookie]
      BY <1>10, <2>1 DEF Delivered, SignInTypeOK, Answering
    <2>3. Set(q, Idle)
      BY <1>10 DEF Delivered, Finish
    <2>4. UNCHANGED <<conf, now, standing, changes, asked, held, logins, sessions, users, owners,
                      overlap>>
      BY <1>10 DEF Delivered
    <2> QED BY <1>1, <1>3, <2>2, <2>3, <2>4, SetTypes DEF SignInTypeOK, Issued
  <1>11. ASSUME Abandoned(q) PROVE SignInTypeOK'
    <2>1. overlap' \subseteq Subjects
      <3>1. CASE req[q].pc = "record"
        <4>1. req[q] \in Knowing
          BY <1>2, <3>1, RequestShapes DEF Past
        <4>2. SubjectOf[req[q].p][req[q].account] \in Subjects
          BY <4>1, SubjectType DEF Knowing
        <4> QED BY <1>11, <4>2 DEF Abandoned, SignInTypeOK
      <3>2. CASE req[q].pc # "record"
        BY <1>11, <3>2 DEF Abandoned, SignInTypeOK
      <3> QED BY <3>1, <3>2
    <2>2. Set(q, Idle)
      BY <1>11 DEF Abandoned, Finish
    <2>3. UNCHANGED <<conf, now, standing, changes, asked, held, logins, cookie, sessions, users,
                      owners>>
      BY <1>11 DEF Abandoned
    <2> QED BY <1>1, <1>3, <2>1, <2>2, <2>3, SetTypes DEF SignInTypeOK, Issued
  <1> QED BY <1>5, <1>6, <1>7, <1>8, <1>9, <1>10, <1>11

\* A session that a browser is let through with.
LEMMA ServedShape ==
    ASSUME SignInTypeOK, NEW b \in Browsers, Served(b)
    PROVE  /\ cookie[b].id \in Sids
           /\ sessions[cookie[b].id] # None /\ sessions[cookie[b].id] \in Session
           /\ SubjectOf[sessions[cookie[b].id].p][sessions[cookie[b].id].account] \in Subjects
  <1>1. cookie[b] \in SessionCookie
    BY CookieShapes DEF SignInTypeOK, Served
  <1>2. cookie[b].id \in Sids
    BY <1>1 DEF SessionCookie
  <1>3. sessions[cookie[b].id] # None /\ sessions[cookie[b].id] \in Session
    BY <1>2 DEF SignInTypeOK, Served, Live
  <1> QED BY <1>2, <1>3, SubjectType DEF Session

-----------------------------------------------------------------------------
(* Devices that are added and users who are deleted.                       *)

\* A step of a request that adds a device, or that deletes a user.
UserStep(q) ==
    \/ \E b \in Browsers : Serve(q, b)
    \/ \E s \in Subjects : DeleteUser(q, s)
    \/ AddDevice(q) \/ DeleteDevicesForUser(q) \/ ForgetUser(q)

\* What such a request is, and what it will be.
LEMMA UserRequests ==
    ASSUME SignInTypeOK, NEW q \in Requests
    PROVE  /\ AddDevice(q) => req[q] \in Adding /\ SubjectIn(req[q]) \in Subjects
           /\ DeleteDevicesForUser(q) =>
                 /\ req[q] \in Removing
                 /\ [req[q] EXCEPT !.pc = "forget"] \in Removing
                 /\ [req[q] EXCEPT !.pc = "forget"].subject = req[q].subject
           /\ ForgetUser(q) => req[q] \in Removing
  <1>1. req[q] \in Request
    BY DEF SignInTypeOK, Request
  <1>2. AddDevice(q) => req[q] \in Adding
    BY <1>1, RequestShapes DEF AddDevice
  <1>3. req[q] \in Adding => SubjectIn(req[q]) \in Subjects
    BY SubjectType DEF Adding, SubjectIn
  <1>4. DeleteDevicesForUser(q) \/ ForgetUser(q) => req[q] \in Removing
    BY <1>1, RequestShapes DEF DeleteDevicesForUser, ForgetUser
  <1>5. req[q] \in Removing => /\ [req[q] EXCEPT !.pc = "forget"] \in Removing
                               /\ [req[q] EXCEPT !.pc = "forget"].subject = req[q].subject
    BY DEF Removing
  <1> QED BY <1>2, <1>3, <1>4, <1>5

\* It starts no session and touches no cookie.
LEMMA UserStepShape ==
    ASSUME SignInTypeOK, NEW q \in Requests, UserStep(q)
    PROVE  /\ \E r \in {Idle} \cup Adding \cup Removing : Set(q, r)
           /\ sessions' \in [Sids -> Session \cup {None}]
           /\ \A i \in Sids : sessions'[i] \in {sessions[i], None}
           /\ UNCHANGED <<conf, now, standing, changes, held, logins, cookie>>
           /\ asked' \in 0 .. MaxRequests
  <1>0. sessions \in [Sids -> Session \cup {None}] /\ asked \in 0 .. MaxRequests
    BY DEF SignInTypeOK
  <1>1. ASSUME NEW b \in Browsers, Serve(q, b)
        PROVE  \E r \in Adding : Set(q, r)
    <2> DEFINE x == sessions[cookie[b].id]
    <2>1. x \in Session
      BY <1>1, ServedShape DEF Serve
    <2>2. [pc |-> "add", p |-> x.p, account |-> x.account] \in Adding
      BY <2>1 DEF Session, Adding
    <2> QED BY <1>1, <2>2 DEF Serve
  <1>2. ASSUME NEW s \in Subjects, DeleteUser(q, s)
        PROVE  /\ \E r \in Removing : Set(q, r)
               /\ sessions' \in [Sids -> Session \cup {None}]
               /\ \A i \in Sids : sessions'[i] \in {sessions[i], None}
               /\ asked' \in 0 .. MaxRequests
    <2>1. [pc |-> "devices", subject |-> s] \in Removing
      BY DEF Removing
    <2>2. asked' \in 0 .. MaxRequests
      BY <1>0, <1>2, SignInBounds DEF DeleteUser, Begin
    <2>3. sessions' = EndAllForOwner(s)
      BY <1>2 DEF DeleteUser
    <2> QED BY <1>0, <1>2, <2>1, <2>2, <2>3 DEF DeleteUser, EndAllForOwner
  <1>3. AddDevice(q) \/ ForgetUser(q) => Set(q, Idle)
    BY DEF AddDevice, ForgetUser, Finish
  <1>4. DeleteDevicesForUser(q) => \E r \in Removing : Set(q, r)
    BY UserRequests DEF DeleteDevicesForUser
  <1>5. UNCHANGED <<conf, now, standing, changes, held, logins, cookie>>
    BY DEF UserStep, Serve, DeleteUser, AddDevice, DeleteDevicesForUser, ForgetUser
  <1>6. \/ \E s \in Subjects : DeleteUser(q, s)
        \/ UNCHANGED <<sessions, asked>>
    BY DEF UserStep, Serve, AddDevice, DeleteDevicesForUser, ForgetUser
  <1>7. \E r \in {Idle} \cup Adding \cup Removing : Set(q, r)
    BY <1>1, <1>2, <1>3, <1>4 DEF UserStep
  <1> QED BY <1>0, <1>2, <1>5, <1>6, <1>7

LEMMA UserTypes ==
    ASSUME SignInTypeOK, NEW q \in Requests, UserStep(q)
    PROVE  SignInTypeOK'
  <1>1. PICK r \in {Idle} \cup Adding \cup Removing : Set(q, r)
    BY UserStepShape
  <1>2. r \in Request /\ r.pc \in {"idle", "add", "devices", "forget"}
    BY <1>1 DEF Request, Idle, Adding, Removing
  <1>3. RequestOk(r)
    BY <1>2 DEF RequestOk
  <1>4. /\ sessions' \in [Sids -> Session \cup {None}]
        /\ \A i \in Sids : sessions'[i] # None => sessions'[i].p \in conf
        /\ UNCHANGED <<conf, now, standing, changes, held, logins, cookie>>
        /\ asked' \in 0 .. MaxRequests
    BY UserStepShape DEF SignInTypeOK
  <1>5. users' \in [Subjects -> Providers \cup {None}]
    <2>1. ForgetUser(q) => users' = [users EXCEPT ![req[q].subject] = None]
      BY DEF ForgetUser
    <2>2. ForgetUser(q) \/ users' = users
      BY DEF UserStep, Serve, DeleteUser, AddDevice, DeleteDevicesForUser
    <2> QED BY <2>1, <2>2 DEF SignInTypeOK
  <1>6. owners' \in [Subjects -> SUBSET (Providers \cup {None})]
    <2>1. AddDevice(q) => /\ owners' = [owners EXCEPT ![SubjectIn(req[q])] = @ \cup {req[q].p}]
                          /\ req[q].p \in Providers
      BY UserRequests DEF AddDevice, Adding
    <2>2. DeleteDevicesForUser(q) =>
              \E kept \in SUBSET owners[req[q].subject] :
                  owners' = [owners EXCEPT ![req[q].subject] = kept]
      BY DEF DeleteDevicesForUser
    <2>3. AddDevice(q) \/ DeleteDevicesForUser(q) \/ owners' = owners
      BY DEF UserStep, Serve, DeleteUser, ForgetUser
    <2>4. ASSUME NEW s, NEW p \in Providers, owners' = [owners EXCEPT ![s] = @ \cup {p}]
          PROVE  owners' \in [Subjects -> SUBSET (Providers \cup {None})]
      BY <2>4 DEF SignInTypeOK
    <2>5. ASSUME NEW s \in Subjects, NEW kept \in SUBSET owners[s],
                 owners' = [owners EXCEPT ![s] = kept]
          PROVE  owners' \in [Subjects -> SUBSET (Providers \cup {None})]
      BY <2>5 DEF SignInTypeOK
    <2>6. owners' = owners => owners' \in [Subjects -> SUBSET (Providers \cup {None})]
      BY DEF SignInTypeOK
    <2>7. AddDevice(q) => owners' \in [Subjects -> SUBSET (Providers \cup {None})]
      BY <2>1, <2>4
    <2>8. DeleteDevicesForUser(q) => owners' \in [Subjects -> SUBSET (Providers \cup {None})]
      <3>1. DeleteDevicesForUser(q) => req[q].subject \in Subjects
        BY UserRequests DEF Removing
      <3> QED BY <2>2, <2>5, <3>1
    <2> QED BY <2>3, <2>6, <2>7, <2>8
  <1>7. overlap' \subseteq Subjects
    BY DEF UserStep, Serve, DeleteUser, AddDevice, DeleteDevicesForUser, ForgetUser, SignInTypeOK
  <1>8. cookie' \in [Browsers -> Cookie] /\ logins' \in [Logins -> Started \cup {None}]
    BY <1>4 DEF SignInTypeOK
  <1>9. \A n \in Logins : Issued(n) => Issued(n)'
    BY <1>4 DEF Issued
  <1> QED BY <1>1, <1>2, <1>3, <1>4, <1>5, <1>6, <1>7, <1>8, <1>9, SetTypes

LEMMA OtherTypes ==
    ASSUME SignInTypeOK
    PROVE  /\ \A s \in Subjects : \A k : DeleteDevice(s, k) => SignInTypeOK'
           /\ \A n \in Logins, a \in Accounts : Authenticate(n, a) => SignInTypeOK'
           /\ \A p \in Providers, a \in Accounts : Regrant(p, a) => SignInTypeOK'
           /\ Tick => SignInTypeOK'
  <1>1. ASSUME NEW s \in Subjects, NEW k, DeleteDevice(s, k) PROVE SignInTypeOK'
    <2>1. owners' \in [Subjects -> SUBSET (Providers \cup {None})]
      BY <1>1 DEF DeleteDevice, SignInTypeOK
    <2> QED BY <1>1, <2>1 DEF DeleteDevice, SignInTypeOK, Issued
  <1>2. ASSUME NEW n \in Logins, NEW a \in Accounts, Authenticate(n, a) PROVE SignInTypeOK'
    <2> DEFINE l == [logins[n] EXCEPT !.account = a]
    <2>1. logins[n] \in Started
      BY <1>2 DEF Authenticate, SignInTypeOK
    <2>2. l \in Started /\ l.account = a /\ l # None /\ a # None
      BY <2>1, NoneAssumption DEF Started
    <2>3. logins' = [logins EXCEPT ![n] = l]
      BY <1>2 DEF Authenticate, SignInTypeOK
    <2> HIDE DEF l
    <2>4. logins' \in [Logins -> Started \cup {None}]
      BY <2>2, <2>3 DEF SignInTypeOK
    <2>5. \A m \in Logins : Issued(m) => Issued(m)'
      BY <2>2, <2>3 DEF SignInTypeOK, Issued
    <2>6. \A q \in Requests : req[q].pc = "exchange" => req[q].code \in Logins
      BY RequestShapes DEF SignInTypeOK, Exchanging, Request
    <2> QED BY <1>2, <2>4, <2>5, <2>6 DEF Authenticate, SignInTypeOK
  <1>3. ASSUME NEW p \in Providers, NEW a \in Accounts, Regrant(p, a) PROVE SignInTypeOK'
    <2>1. p \in conf /\ changes' \in 0 .. MaxChanges /\ now \in Nat
      BY <1>3, SignInBounds DEF Regrant, SignInTypeOK
    <2>2. PICK s \in Standings \ {standing[p][a]} :
             /\ standing' = [standing EXCEPT ![p][a] = s]
             /\ held' = [held EXCEPT ![p][a] =
                          [r \in Rights |-> IF r \in s.rights \cup standing[p][a].rights
                                                THEN now ELSE @[r]]]
      BY <1>3 DEF Regrant
    <2>3. standing' \in [conf -> [Accounts -> Standings]]
      BY <2>1, <2>2 DEF SignInTypeOK
    <2>4. held' \in [conf -> [Accounts -> [Rights -> Nat \cup {None}]]]
      <3> DEFINE h == [r \in Rights |-> IF r \in s.rights \cup standing[p][a].rights
                                            THEN now ELSE held[p][a][r]]
      <3>1. h \in [Rights -> Nat \cup {None}]
        BY <2>1 DEF SignInTypeOK
      <3>2. held' = [held EXCEPT ![p][a] = h]
        BY <2>2
      <3> HIDE DEF h
      <3> QED BY <2>1, <3>1, <3>2 DEF SignInTypeOK
    <2>5. UNCHANGED <<conf, now, asked, logins, cookie, sessions, users, owners, req, overlap>>
      BY <1>3 DEF Regrant
    <2> QED BY <2>1, <2>3, <2>4, <2>5 DEF SignInTypeOK, Issued
  <1>4. ASSUME Tick PROVE SignInTypeOK'
    <2>1. now' \in 0 .. MaxTime /\ now + 1 \in Nat
      BY <1>4, SignInBounds DEF Tick, SignInTypeOK
    <2>2. held' \in [conf -> [Accounts -> [Rights -> Nat \cup {None}]]]
      BY <1>4, <2>1 DEF Tick, SignInTypeOK
    <2>3. UNCHANGED <<conf, standing, changes, asked, logins, cookie, sessions, users, owners,
                      req, overlap>>
      BY <1>4 DEF Tick
    <2> QED BY <2>1, <2>2, <2>3 DEF SignInTypeOK, Issued
  <1> QED BY <1>1, <1>2, <1>3, <1>4

\* Every step keeps the types.
LEMMA TypesKept == SignInTypeOK /\ [Next]_vars => SignInTypeOK'
  <1> SUFFICES ASSUME SignInTypeOK, [Next]_vars PROVE SignInTypeOK'
    OBVIOUS
  <1>1. CASE UNCHANGED vars
    BY <1>1 DEF vars, SignInTypeOK, Issued
  <1>2. CASE Next
    <2>1. CASE \E q \in Requests, b \in Browsers :
                  \/ SignOut(q, b)
                  \/ \E p \in Providers : Login(q, b, p)
                  \/ \E p \in Providers, a \in Accounts : BuiltInSignIn(q, b, p, a)
                  \/ \E p \in Providers, state, code \in Logins : Callback(q, b, p, state, code)
      BY <2>1, BeginTypes, SignOutTypes
    <2>2. CASE \E q \in Requests :
                  \/ Exchange(q) \/ ReadClaims(q) \/ Check(q) \/ CheckDevices(q) \/ Create(q) \/ Record(q)
                  \/ Delivered(q) \/ Abandoned(q)
      BY <2>2, CallbackTypes
    <2>3. CASE \E q \in Requests : UserStep(q)
      BY <2>3, UserTypes
    <2> QED BY <1>2, <2>1, <2>2, <2>3, OtherTypes DEF Next, UserStep
  <1> QED BY <1>1, <1>2

LEMMA TypesFirst == Init => SignInTypeOK
  <1> SUFFICES ASSUME Init PROVE SignInTypeOK
    OBVIOUS
  <1>1. PICK u \in Setups :
           /\ conf = u.providers
           /\ standing = [p \in conf |-> [a \in Accounts |-> u.standing]]
           /\ owners = [s \in Subjects |-> u.owners]
    BY DEF Init
  <1>2. /\ u.providers \subseteq Providers /\ u.standing \in Standings
        /\ u.owners \subseteq Providers \cup {None}
    BY <1>1, ProviderNames
  <1>3. /\ conf \subseteq Providers
        /\ standing \in [conf -> [Accounts -> Standings]]
        /\ owners \in [Subjects -> SUBSET (Providers \cup {None})]
    BY <1>1, <1>2
  <1>4. held \in [conf -> [Accounts -> [Rights -> Nat \cup {None}]]]
    BY DEF Init
  <1>5. /\ now \in 0 .. MaxTime /\ changes \in 0 .. MaxChanges /\ asked \in 0 .. MaxRequests
    BY SignInBounds DEF Init
  <1>6. /\ logins \in [Logins -> Started \cup {None}]
        /\ sessions \in [Sids -> Session \cup {None}]
        /\ \A i \in Sids : sessions[i] # None => sessions[i].p \in conf
        /\ users \in [Subjects -> Providers \cup {None}]
        /\ overlap \subseteq Subjects
    BY DEF Init
  <1>7. cookie \in [Browsers -> Cookie]
    BY DEF Init, Cookie
  <1>8. /\ req \in [Requests -> Request]
        /\ \A q \in Requests : req[q].pc = "idle"
    BY DEF Init, Idle, Request
  <1> QED BY <1>3, <1>4, <1>5, <1>6, <1>7, <1>8 DEF SignInTypeOK, Request

\* Every variable keeps its type; above all a callback past its checks came with
\* a sign-in in progress, and a session is started for a configured provider only.
THEOREM SignInTypes == Spec => []SignInTypeOK
  BY TypesFirst, TypesKept, PTL DEF Spec
-----------------------------------------------------------------------------
(* The sign-in that a session belongs to.                                  *)

\* What is known of a sign-in stays so.
LoginsGrow ==
    \A n \in Logins : logins[n] # None =>
        /\ logins'[n] # None /\ logins'[n].b = logins[n].b /\ logins'[n].p = logins[n].p
        /\ logins[n].account # None => logins'[n].account = logins[n].account

LEMMA OwnGrows ==
    ASSUME LoginsGrow
    PROVE  /\ \A c \in Cookie : \A b : Own(c, b) => Own(c, b)'
           /\ \A r \in Request : OwnRequest(r) => OwnRequest(r)'
           /\ \A x \in Session : Tied(x) => Tied(x)'
  <1>1. ASSUME NEW c \in Cookie, NEW b, Own(c, b) PROVE Own(c, b)'
    <2>1. c.kind = "login" => c.state \in Logins
      BY CookieShapes DEF LoginCookie
    <2> QED BY <1>1, <2>1 DEF Own, LoginsGrow
  <1>2. ASSUME NEW r, r.code \in Logins \cup {None}, r.account \in Accounts, Tied(r) PROVE Tied(r)'
    BY <1>2, NoneAssumption DEF Tied, LoginsGrow, BindsCodes
  <1>3. ASSUME NEW r \in Request, OwnRequest(r) PROVE OwnRequest(r)'
    <2>1. CASE r.pc = "answer"
      <3>1. r.set \in Cookie
        BY <2>1, RequestShapes DEF Answering
      <3> QED BY <1>1, <1>3, <2>1, <3>1 DEF OwnRequest, Past
    <2>2. CASE r.pc = "exchange"
      <3>1. r.cookie \in Cookie
        BY <2>2, RequestShapes DEF Exchanging, Cookie
      <3> QED BY <1>1, <1>3, <2>2, <3>1 DEF OwnRequest, Past
    <2>3. CASE r.pc = "claims"
      <3>1. r.cookie \in Cookie /\ r.code \in Logins \cup {None} /\ r.account \in Accounts
        BY <2>3, RequestShapes DEF Knowing
      <3>2. Own(r.cookie, r.b)'
        BY <1>1, <1>3, <2>3, <3>1 DEF OwnRequest
      <3> QED BY <1>3, <2>3, <3>1, <3>2, NoneAssumption DEF OwnRequest, LoginsGrow, Past
    <2>4. CASE r.pc \in Past
      <3>1. r.code \in Logins \cup {None} /\ r.account \in Accounts
        BY <2>4, RequestShapes DEF Knowing
      <3> QED BY <1>2, <1>3, <2>4, <3>1 DEF OwnRequest, Past
    <2> QED BY <2>1, <2>2, <2>3, <2>4 DEF OwnRequest
  <1> QED BY <1>1, <1>2, <1>3 DEF Session

LEMMA OwnKept ==
    ASSUME SignInTypeOK, OwnInv, LoginsGrow,
           \A q \in Requests : req'[q] = req[q] \/ OwnRequest(req[q])',
           \A b \in Browsers : cookie'[b] = cookie[b] \/ Own(cookie[b], b)',
           \A i \in Sids : sessions'[i] \in {sessions[i], None} \/ Tied(sessions[i])'
    PROVE  OwnInv'
  <1>1. ASSUME NEW q \in Requests PROVE OwnRequest(req[q])'
    <2>1. req[q] \in Request /\ OwnRequest(req[q])
      BY DEF SignInTypeOK, Request, OwnInv
    <2> DEFINE r == req[q]
    <2>2. \A x \in Request : OwnRequest(x) => OwnRequest(x)'
      BY OwnGrows
    <2>3. CASE req'[q] = req[q]
      <3>1. PICK x \in Request : x = req[q]
        BY <2>1
      <3>2. OwnRequest(x)'
        BY <2>1, <2>2, <3>1
      <3>3. req'[q] = x
        BY <2>3, <3>1
      <3> QED BY <3>2, <3>3 DEF OwnRequest, Own, Tied
    <2> QED BY <2>3
  <1>2. ASSUME NEW b \in Browsers PROVE Own(cookie[b], b)'
    <2>1. cookie[b] \in Cookie /\ Own(cookie[b], b)
      BY DEF SignInTypeOK, OwnInv
    <2>2. CASE cookie'[b] = cookie[b]
      <3>1. PICK x \in Cookie : x = cookie[b]
        BY <2>1
      <3>2. Own(x, b)'
        BY <2>1, <3>1, OwnGrows
      <3> QED BY <2>2, <3>1, <3>2 DEF Own
    <2> QED BY <2>2
  <1>3. ASSUME NEW i \in Sids, sessions'[i] # None PROVE Tied(sessions[i])'
    <2>1. CASE sessions'[i] = sessions[i]
      <3>1. sessions[i] \in Session /\ Tied(sessions[i])
        BY <1>3, <2>1 DEF SignInTypeOK, OwnInv
      <3>2. PICK x \in Session : x = sessions[i]
        BY <3>1
      <3>3. Tied(x)'
        BY <3>1, <3>2, OwnGrows
      <3> QED BY <2>1, <3>2, <3>3 DEF Tied
    <2> QED BY <1>3, <2>1
  <1> QED BY <1>1, <1>2, <1>3 DEF OwnInv
LEMMA OwnBegun ==
    ASSUME SignInTypeOK, OwnInv, NEW q \in Requests, NEW b \in Browsers
    PROVE  /\ SignOut(q, b) => OwnInv'
           /\ \A p \in Providers : Login(q, b, p) => OwnInv'
           /\ \A p \in Providers, a \in Accounts : BuiltInSignIn(q, b, p, a) => OwnInv'
           /\ \A p \in Providers, state, code \in Logins : Callback(q, b, p, state, code) => OwnInv'
  <1>1. \A t \in Ends(cookie[b]) : \A i \in Sids : t[i] = sessions[i] \/ t[i] = None
    BY EndsShape
  <1>2. Own(cookie[b], b) /\ cookie[b] \in Cookie
    BY DEF OwnInv, SignInTypeOK
  <1>3. ASSUME logins' = logins PROVE LoginsGrow
    BY <1>3 DEF LoginsGrow
  <1>4. ASSUME SignOut(q, b) PROVE OwnInv'
    <2> DEFINE r == [pc |-> "answer", b |-> b, set |-> NoCookie]
    <2>1. Set(q, r) /\ sessions' \in Ends(cookie[b]) /\ UNCHANGED <<logins, cookie>>
      BY <1>4 DEF SignOut, Answer
    <2>2. /\ \A o \in Requests \ {q} : req'[o] = req[o]
          /\ req'[q] = r
      BY <2>1 DEF Set, SignInTypeOK
    <2>3. OwnRequest(req[q])'
      BY <2>2 DEF OwnRequest, Own, NoCookie, Past
    <2> HIDE DEF r
    <2> QED BY <1>1, <1>3, <2>1, <2>2, <2>3, OwnKept
  <1>5. ASSUME NEW p \in Providers, Login(q, b, p) PROVE OwnInv'
    <2>1. PICK n \in Logins :
             /\ logins[n] = None
             /\ logins' = [logins EXCEPT ![n] =
                            [b |-> b, p |-> p, account |-> None, redeemed |-> FALSE]]
             /\ Answer(q, b, IF p \in Oidc THEN OidcCookie(p, n) ELSE GithubCookie(n))
      BY <1>5 DEF Login
    <2> DEFINE c == IF p \in Oidc THEN OidcCookie(p, n) ELSE GithubCookie(n)
               r == [pc |-> "answer", b |-> b, set |-> c]
               l == [b |-> b, p |-> p, account |-> None, redeemed |-> FALSE]
    <2>2. Set(q, r) /\ sessions' \in Ends(cookie[b]) /\ UNCHANGED cookie
      BY <1>5, <2>1 DEF Login, Answer
    <2>3. /\ \A o \in Requests \ {q} : req'[o] = req[o]
          /\ req'[q] = r
      BY <2>2 DEF Set, SignInTypeOK
    <2>4. l \in Started /\ l # None /\ l.b = b
      <3>1. l \in Started /\ l.b = b
        BY DEF Started
      <3> HIDE DEF l
      <3> QED BY <3>1, NoneAssumption
    <2>5. LoginsGrow
      <3>1. \A m \in Logins \ {n} : logins'[m] = logins[m]
        BY <2>1 DEF SignInTypeOK
      <3> QED BY <2>1, <3>1 DEF LoginsGrow
    <2>6. /\ c.kind = "login" /\ c.state = n
          /\ c.nonce \in {n, None} /\ c.verifier \in {n, None}
      BY DEF OidcCookie, GithubCookie
    <2>7. logins'[n] = l
      BY <2>1 DEF SignInTypeOK
    <2>8. /\ req'[q].pc = "answer" /\ req'[q].b = b /\ req'[q].set = c
      BY <2>3
    <2> HIDE DEF r, c, l
    <2>9. OwnRequest(req[q])'
      BY <2>4, <2>6, <2>7, <2>8 DEF OwnRequest, Own, Past
    <2> QED BY <1>1, <2>2, <2>3, <2>5, <2>9, OwnKept
  <1>6. ASSUME NEW p \in Providers, NEW a \in Accounts, BuiltInSignIn(q, b, p, a) PROVE OwnInv'
    <2> DEFINE r == [pc |-> "check", b |-> b, p |-> p, cookie |-> cookie[b], state |-> None,
                     code |-> None, account |-> a,
                     standing |-> [rights |-> {}, email |-> "outside"]]
    <2>1. Set(q, r) /\ UNCHANGED <<logins, cookie, sessions>>
      BY <1>6 DEF BuiltInSignIn
    <2>2. /\ \A o \in Requests \ {q} : req'[o] = req[o]
          /\ req'[q] = r
      BY <2>1 DEF Set, SignInTypeOK
    <2>3. OwnRequest(req[q])'
      BY <2>2 DEF OwnRequest, Tied, Past
    <2> HIDE DEF r
    <2> QED BY <1>3, <2>1, <2>2, <2>3, OwnKept
  <1>7. ASSUME NEW p \in Providers, NEW state \in Logins, NEW code \in Logins,
               Callback(q, b, p, state, code)
        PROVE  OwnInv'
    <2> DEFINE r == [pc |-> "exchange", b |-> b, p |-> p, cookie |-> cookie[b],
                     state |-> state, code |-> code]
    <2>1. /\ Set(q, r) /\ UNCHANGED <<logins, cookie, sessions>>
          /\ cookie[b].state = state
      BY <1>7 DEF Callback, StateOk
    <2>2. /\ \A o \in Requests \ {q} : req'[o] = req[o]
          /\ req'[q] = r
      BY <2>1 DEF Set, SignInTypeOK
    <2>3. OwnRequest(req[q])'
      BY <1>2, <2>1, <2>2 DEF OwnRequest, Own, Past
    <2> HIDE DEF r
    <2> QED BY <1>3, <2>1, <2>2, <2>3, OwnKept
  <1> QED BY <1>4, <1>5, <1>6, <1>7

LEMMA OwnContinued ==
    ASSUME SignInTypeOK, OwnInv, NEW q \in Requests
    PROVE  Exchange(q) \/ ReadClaims(q) \/ Check(q) \/ CheckDevices(q) \/ Create(q) \/ Record(q)
                \/ Delivered(q) \/ Abandoned(q) => OwnInv'
  <1>1. ASSUME logins' = logins PROVE LoginsGrow
    BY <1>1 DEF LoginsGrow
  <1>2. OwnRequest(req[q]) /\ req[q] \in Request
    BY DEF OwnInv, SignInTypeOK, Request
  <1>3. ASSUME NEW r, Set(q, r)
        PROVE  /\ \A o \in Requests \ {q} : req'[o] = req[o]
               /\ req'[q] = r
    BY <1>3 DEF Set, SignInTypeOK
  <1>4. ASSUME Finish(q), UNCHANGED logins PROVE OwnRequest(req[q])'
    BY <1>3, <1>4 DEF Finish, Idle, OwnRequest, Past
  <1>5. ASSUME Exchange(q) PROVE OwnInv'
    <2> DEFINE a == logins[req[q].code].account
               r == [pc |-> "claims", b |-> req[q].b, p |-> req[q].p, cookie |-> req[q].cookie,
                     state |-> req[q].state, code |-> req[q].code, account |-> a,
                     standing |-> standing[req[q].p][a]]
               l == [logins[req[q].code] EXCEPT !.redeemed = TRUE]
    <2>1. /\ req[q] \in Exchanging /\ logins[req[q].code] \in Started /\ a \in Accounts
      BY <1>5, CallbackShapes
    <2>2. Set(q, r) /\ UNCHANGED <<cookie, sessions>> /\ req[q].pc = "exchange"
      BY <1>5 DEF Exchange
    <2>3. req[q].code \in Logins
      BY <2>1 DEF Exchanging
    <2>4. logins' = [logins EXCEPT ![req[q].code] = l]
      BY <1>5, <2>3 DEF Exchange, SignInTypeOK
    <2>5. /\ l \in Started /\ l.account = a /\ l.p = logins[req[q].code].p
          /\ l.b = logins[req[q].code].b /\ l # None
      BY <2>1, NoneAssumption DEF Started
    <2>6. logins'[req[q].code] = l /\ \A n \in Logins \ {req[q].code} : logins'[n] = logins[n]
      BY <2>3, <2>4 DEF SignInTypeOK
    <2> HIDE DEF l
    <2>7. LoginsGrow
      BY <2>3, <2>5, <2>6 DEF LoginsGrow
    <2>8. /\ req'[q].pc = "claims" /\ req'[q].b = req[q].b /\ req'[q].p = req[q].p
          /\ req'[q].cookie = req[q].cookie /\ req'[q].state = req[q].state
          /\ req'[q].code = req[q].code /\ req'[q].account = a
      BY <1>3, <2>2
    <2>9. /\ logins[req[q].code].p = req[q].p
          /\ req[q].p \in PKCE => req[q].cookie.verifier = req[q].code
      BY <1>5 DEF Exchange, Redeemable
    <2>10. Own(req[q].cookie, req[q].b) /\ req[q].cookie.state = req[q].state
      BY <1>2, <2>2 DEF OwnRequest
    <2>11. req[q].cookie \in Cookie
      BY <2>1 DEF Exchanging, Cookie
    <2>12. Own(req[q].cookie, req[q].b)'
      <3>1. PICK c \in Cookie : c = req[q].cookie
        BY <2>11
      <3>2. Own(c, req[q].b) => \A b : b = req[q].b => Own(c, b)'
        BY <2>7, OwnGrows
      <3>3. PICK b : b = req[q].b
        OBVIOUS
      <3>4. Own(c, b)'
        BY <2>10, <3>1, <3>2, <3>3
      <3> QED BY <2>8, <3>1, <3>3, <3>4 DEF Own
    <2>13. OwnRequest(req[q])'
      BY <2>3, <2>5, <2>6, <2>8, <2>9, <2>10, <2>12, NoneAssumption DEF OwnRequest, Past
    <2>14. \A o \in Requests \ {q} : req'[o] = req[o]
      BY <1>3, <2>2
    <2> HIDE DEF r
    <2> QED BY <2>2, <2>7, <2>13, <2>14, OwnKept
  <1>6. ASSUME ReadClaims(q) PROVE OwnInv'
    <2> DEFINE s == IF req[q].p \in IDToken THEN req[q].standing
                    ELSE standing[req[q].p][req[q].account]
               r == [req[q] EXCEPT !.pc = "check", !.standing = s]
    <2>1. /\ req[q].pc = "claims" /\ UNCHANGED <<logins, cookie, sessions>>
          /\ (Set(q, r) /\ NonceOk(req[q])) \/ Finish(q)
      BY <1>6 DEF ReadClaims
    <2>2. req[q] \in Knowing
      BY <1>6, CallbackShapes
    <2>3. \A o \in Requests \ {q} : req'[o] = req[o]
      BY <1>3, <2>1 DEF Finish
    <2>4. ASSUME Set(q, r), NonceOk(req[q]) PROVE OwnRequest(req[q])'
      <3>1. /\ req'[q].pc = "check" /\ req'[q].b = req[q].b /\ req'[q].p = req[q].p
            /\ req'[q].state = req[q].state /\ req'[q].code = req[q].code
            /\ req'[q].account = req[q].account
        <4> HIDE DEF s
        <4>1. req'[q] = r
          BY <1>3, <2>4
        <4> QED BY <2>2, <4>1 DEF Knowing
      <3>2. /\ Own(req[q].cookie, req[q].b) /\ req[q].cookie.state = req[q].state
            /\ req[q].code # None /\ logins[req[q].code] # None
            /\ logins[req[q].code].p = req[q].p /\ logins[req[q].code].account = req[q].account
            /\ req[q].p \in PKCE => req[q].cookie.verifier = req[q].code
        BY <1>2, <2>1 DEF OwnRequest
      <3>3. req[q].p \in IDToken => req[q].cookie.nonce = req[q].code
        BY <2>4 DEF NonceOk
      <3>4. req[q].cookie.kind = "login"
        BY <2>1, CookieShapes DEF SignInTypeOK, LoginCookie
      <3>5. BindsCodes(req[q].p) \/ req[q].state = req[q].code => logins[req[q].code].b = req[q].b
        BY <3>2, <3>3, <3>4 DEF Own, BindsCodes
      <3> QED BY <2>1, <3>1, <3>2, <3>5 DEF OwnRequest, Tied, Past
    <2> QED BY <1>1, <1>4, <2>1, <2>3, <2>4, OwnKept
  <1>7. ASSUME Check(q) \/ CheckDevices(q) PROVE OwnInv'
    <2>0. PICK x \in {"list", "create"} : Set(q, [req[q] EXCEPT !.pc = x]) \/ Finish(q)
      BY <1>7, CheckShape
    <2> DEFINE r == [req[q] EXCEPT !.pc = x]
    <2>1. /\ req[q].pc \in {"check", "list"} /\ UNCHANGED <<logins, cookie, sessions>>
          /\ Set(q, r) \/ Finish(q)
      BY <1>7, <2>0, CheckShape
    <2>2. req[q] \in Knowing
      BY <1>7, CallbackShapes
    <2>3. \A o \in Requests \ {q} : req'[o] = req[o]
      BY <1>3, <2>1 DEF Finish
    <2>4. ASSUME Set(q, r) PROVE OwnRequest(req[q])'
      <3>1. /\ req'[q].pc = x /\ req'[q].b = req[q].b /\ req'[q].p = req[q].p
            /\ req'[q].state = req[q].state /\ req'[q].code = req[q].code
            /\ req'[q].account = req[q].account
        BY <1>3, <2>2, <2>4 DEF Knowing
      <3>2. Tied(req[q])
        BY <1>2, <2>1 DEF OwnRequest, Past
      <3> QED BY <2>1, <3>1, <3>2 DEF OwnRequest, Tied, Past
    <2> QED BY <1>1, <1>4, <2>1, <2>3, <2>4, OwnKept
  <1>8. ASSUME Create(q) PROVE OwnInv'
    <2>1. req[q] \in Knowing /\ Tied(req[q])
      BY <1>2, <1>8, CallbackShapes DEF Create, OwnRequest, Past
    <2>2. PICK ended \in Ends(req[q].cookie) :
             \/ \E i \in Sids :
                   /\ sessions' = [ended EXCEPT ![i] =
                        [p |-> req[q].p, account |-> req[q].account,
                         rights |-> Claims(req[q].p, req[q].standing.rights), created |-> now,
                         b |-> req[q].b, state |-> req[q].state, code |-> req[q].code]]
                   /\ Set(q, [req[q] EXCEPT !.pc = "record",
                                            !.cookie = [kind |-> "session", id |-> i]])
             \/ sessions' = ended /\ Finish(q)
      BY <1>8 DEF Create
    <2>3. UNCHANGED <<logins, cookie>>
      BY <1>8 DEF Create
    <2>4. /\ ended \in [Sids -> Session \cup {None}]
          /\ \A i \in Sids : ended[i] \in {sessions[i], None}
      BY <2>2, EndsShape
    <2>5. ASSUME NEW i \in Sids,
                 sessions' = [ended EXCEPT ![i] =
                    [p |-> req[q].p, account |-> req[q].account,
                     rights |-> Claims(req[q].p, req[q].standing.rights), created |-> now,
                     b |-> req[q].b, state |-> req[q].state, code |-> req[q].code]],
                 Set(q, [req[q] EXCEPT !.pc = "record",
                                       !.cookie = [kind |-> "session", id |-> i]])
          PROVE  OwnInv'
      <3>1. /\ \A o \in Requests \ {q} : req'[o] = req[o]
            /\ req'[q] = [req[q] EXCEPT !.pc = "record",
                                        !.cookie = [kind |-> "session", id |-> i]]
        BY <1>3, <2>5
      <3>2. /\ req'[q].pc = "record" /\ req'[q].b = req[q].b /\ req'[q].p = req[q].p
            /\ req'[q].state = req[q].state /\ req'[q].code = req[q].code
            /\ req'[q].account = req[q].account
        BY <2>1, <3>1 DEF Knowing
      <3>3. OwnRequest(req[q])'
        BY <2>1, <2>3, <3>2 DEF OwnRequest, Tied, Past
      <3>4. \A j \in Sids \ {i} : sessions'[j] = ended[j]
        BY <2>4, <2>5
      <3>5. /\ sessions'[i].p = req[q].p /\ sessions'[i].account = req[q].account
            /\ sessions'[i].b = req[q].b /\ sessions'[i].state = req[q].state
            /\ sessions'[i].code = req[q].code
        BY <2>4, <2>5
      <3>6. Tied(sessions[i])'
        BY <2>1, <2>3, <3>5 DEF Tied
      <3> QED BY <1>1, <2>3, <2>4, <3>1, <3>3, <3>4, <3>6, OwnKept
    <2>6. ASSUME sessions' = ended, Finish(q) PROVE OwnInv'
      BY <1>1, <1>3, <1>4, <2>3, <2>4, <2>6, OwnKept DEF Finish
    <2> QED BY <2>2, <2>5, <2>6
  <1>9. ASSUME Record(q) PROVE OwnInv'
    <2> DEFINE r == [pc |-> "answer", b |-> req[q].b, set |-> req[q].cookie]
    <2>1. Set(q, r) /\ UNCHANGED <<logins, cookie, sessions>> /\ req[q].pc = "record"
      BY <1>9 DEF Record, Answer
    <2>2. req'[q] = r /\ \A o \in Requests \ {q} : req'[o] = req[o]
      BY <1>3, <2>1
    <2>4. req[q].cookie.kind = "session"
      BY <2>1 DEF SignInTypeOK, SessionCookie
    <2>3. OwnRequest(req[q])'
      BY <2>2, <2>4 DEF OwnRequest, Own, Past
    <2> HIDE DEF r
    <2> QED BY <1>1, <2>1, <2>2, <2>3, OwnKept
  <1>10. ASSUME Delivered(q) PROVE OwnInv'
    <2>1. /\ Finish(q) /\ UNCHANGED <<logins, sessions>> /\ req[q].pc = "answer"
          /\ cookie' = [cookie EXCEPT ![req[q].b] = req[q].set]
      BY <1>10 DEF Delivered
    <2>2. \A o \in Requests \ {q} : req'[o] = req[o]
      BY <1>3, <2>1 DEF Finish
    <2>3. Own(req[q].set, req[q].b)
      BY <1>2, <2>1 DEF OwnRequest
    <2>4. ASSUME NEW b \in Browsers PROVE cookie'[b] = cookie[b] \/ Own(cookie[b], b)'
      BY <2>1, <2>3 DEF SignInTypeOK, Own
    <2> QED BY <1>1, <1>4, <2>1, <2>2, <2>4, OwnKept
  <1>11. ASSUME Abandoned(q) PROVE OwnInv'
    <2>1. Finish(q) /\ UNCHANGED <<logins, sessions, cookie>>
      BY <1>11 DEF Abandoned
    <2>2. \A o \in Requests \ {q} : req'[o] = req[o]
      BY <1>3, <2>1 DEF Finish
    <2> QED BY <1>1, <1>4, <2>1, <2>2, OwnKept
  <1> QED BY <1>5, <1>6, <1>7, <1>8, <1>9, <1>10, <1>11

LEMMA OwnByUsers ==
    ASSUME SignInTypeOK, OwnInv, NEW q \in Requests, UserStep(q)
    PROVE  OwnInv'
  <1>1. PICK r \in {Idle} \cup Adding \cup Removing : Set(q, r)
    BY UserStepShape
  <1>2. r \in Request /\ r.pc \in {"idle", "add", "devices", "forget"}
    BY <1>1 DEF Request, Idle, Adding, Removing
  <1>3. req'[q] = r /\ \A o \in Requests \ {q} : req'[o] = req[o]
    BY <1>1, <1>2, SetShape
  <1>4. OwnRequest(req[q])'
    BY <1>2, <1>3 DEF OwnRequest, Past
  <1>5. /\ \A i \in Sids : sessions'[i] \in {sessions[i], None}
        /\ UNCHANGED <<logins, cookie>>
    BY UserStepShape
  <1>6. LoginsGrow
    BY <1>5 DEF LoginsGrow
  <1> QED BY <1>3, <1>4, <1>5, <1>6, OwnKept

LEMMA OwnElsewhere ==
    ASSUME SignInTypeOK, OwnInv
    PROVE  /\ \A s \in Subjects : \A k : DeleteDevice(s, k) => OwnInv'
           /\ \A n \in Logins, a \in Accounts : Authenticate(n, a) => OwnInv'
           /\ \A p \in Providers, a \in Accounts : Regrant(p, a) => OwnInv'
           /\ Tick => OwnInv'
  <1>1. ASSUME UNCHANGED <<logins, req, cookie, sessions>> PROVE OwnInv'
    BY <1>1 DEF OwnInv, OwnRequest, Own, Tied
  <1>2. ASSUME NEW n \in Logins, NEW a \in Accounts, Authenticate(n, a) PROVE OwnInv'
    <2> DEFINE l == [logins[n] EXCEPT !.account = a]
    <2>1. logins[n] \in Started /\ logins[n].account = None
      BY <1>2 DEF Authenticate, SignInTypeOK
    <2>2. l \in Started /\ l.b = logins[n].b /\ l.p = logins[n].p
      BY <2>1 DEF Started
    <2>3. logins' = [logins EXCEPT ![n] = l]
      BY <1>2 DEF Authenticate, SignInTypeOK
    <2> HIDE DEF l
    <2>4. l # None
      BY <2>2, NoneAssumption
    <2>5. LoginsGrow
      BY <2>1, <2>2, <2>3, <2>4 DEF LoginsGrow, SignInTypeOK
    <2>6. UNCHANGED <<req, cookie, sessions>>
      BY <1>2 DEF Authenticate
    <2> QED BY <2>5, <2>6, OwnKept
  <1>3. ASSUME NEW s \in Subjects, NEW k, DeleteDevice(s, k) PROVE OwnInv'
    BY <1>1, <1>3 DEF DeleteDevice
  <1>4. ASSUME NEW p \in Providers, NEW a \in Accounts, Regrant(p, a) PROVE OwnInv'
    BY <1>1, <1>4 DEF Regrant
  <1>5. Tick => OwnInv'
    BY <1>1 DEF Tick
  <1> QED BY <1>2, <1>3, <1>4, <1>5

\* Every session is of the sign-in its own browser began, through every step.
LEMMA OwnHolds == Spec => []OwnInv
  <1>1. Init => OwnInv
    <2> SUFFICES ASSUME Init PROVE OwnInv
      OBVIOUS
    <2>1. \A q \in Requests : req[q].pc = "idle"
      BY DEF Init, Idle
    <2>2. \A b \in Browsers : cookie[b].kind = "none"
      BY DEF Init, NoCookie
    <2>3. \A i \in Sids : sessions[i] = None
      BY DEF Init
    <2> QED BY <2>1, <2>2, <2>3 DEF OwnInv, OwnRequest, Own, Past
  <1>2. SignInTypeOK /\ OwnInv /\ [Next]_vars => OwnInv'
    <2> SUFFICES ASSUME SignInTypeOK, OwnInv, [Next]_vars PROVE OwnInv'
      OBVIOUS
    <2>1. CASE UNCHANGED vars
      BY <2>1 DEF vars, OwnInv, OwnRequest, Own, Tied
    <2>2. CASE Next
      <3>1. CASE \E q \in Requests, b \in Browsers :
                    \/ SignOut(q, b)
                    \/ \E p \in Providers : Login(q, b, p)
                    \/ \E p \in Providers, a \in Accounts : BuiltInSignIn(q, b, p, a)
                    \/ \E p \in Providers, state, code \in Logins :
                          Callback(q, b, p, state, code)
        BY <3>1, OwnBegun
      <3>2. CASE \E q \in Requests :
                    \/ Exchange(q) \/ ReadClaims(q) \/ Check(q) \/ CheckDevices(q) \/ Create(q) \/ Record(q)
                    \/ Delivered(q) \/ Abandoned(q)
        BY <3>2, OwnContinued
      <3>3. CASE \E q \in Requests : UserStep(q)
        BY <3>3, OwnByUsers
      <3> QED BY <2>2, <3>1, <3>2, <3>3, OwnElsewhere DEF Next, UserStep
    <2> QED BY <2>1, <2>2
  <1> QED BY <1>1, <1>2, SignInTypes, PTL DEF Spec

\* OwnSignIn for any number of browsers, tabs and providers: a session belongs to
\* the sign-in that its own browser began, with the code that was issued for it
\* (the state, the nonce and PKCE in oidc.go and github.go).
THEOREM SessionsOfOwnSignIn == Spec => []OwnSignIn
  <1>1. OwnInv => OwnSignIn
    BY DEF OwnInv, OwnSignIn, Tied
  <1> QED BY <1>1, OwnHolds, PTL
-----------------------------------------------------------------------------
(* What a provider takes away.                                             *)

LEMMA HeldKept ==
    ASSUME SignInTypeOK, HeldInv, UNCHANGED <<conf, now, standing, held>>,
           \A q \in Requests : req'[q] = req[q] \/ HeldRequest(req[q])',
           \A i \in Sids : sessions'[i] \in {sessions[i], None} \/ HeldSession(sessions[i])'
    PROVE  HeldInv'
  <1>1. \A p \in conf', a \in Accounts : \A r \in standing'[p][a].rights : held'[p][a][r] = now'
    BY DEF HeldInv
  <1>2. ASSUME NEW q \in Requests PROVE HeldRequest(req[q])'
    BY DEF HeldInv, HeldRequest
  <1>3. ASSUME NEW i \in Sids, sessions'[i] # None PROVE HeldSession(sessions[i])'
    BY <1>3 DEF HeldInv, HeldSession, Carried
  <1> QED BY <1>1, <1>2, <1>3 DEF HeldInv

LEMMA HeldBegun ==
    ASSUME SignInTypeOK, HeldInv, NEW q \in Requests, NEW b \in Browsers
    PROVE  /\ SignOut(q, b) => HeldInv'
           /\ \A p \in Providers : Login(q, b, p) => HeldInv'
           /\ \A p \in Providers, a \in Accounts : BuiltInSignIn(q, b, p, a) => HeldInv'
           /\ \A p \in Providers, state, code \in Logins : Callback(q, b, p, state, code) => HeldInv'
  <1>1. \A t \in Ends(cookie[b]) : \A i \in Sids : t[i] = sessions[i] \/ t[i] = None
    BY EndsShape
  <1>2. ASSUME NEW r, Set(q, r)
        PROVE  req'[q] = r /\ \A o \in Requests \ {q} : req'[o] = req[o]
    BY <1>2 DEF Set, SignInTypeOK
  <1>3. ASSUME NEW c, Answer(q, b, c) PROVE HeldRequest(req[q])'
    BY <1>2, <1>3 DEF Answer, HeldRequest, Past
  <1>4. ASSUME SignOut(q, b) PROVE HeldInv'
    BY <1>1, <1>2, <1>3, <1>4, HeldKept DEF SignOut, Answer
  <1>5. ASSUME NEW p \in Providers, Login(q, b, p) PROVE HeldInv'
    <2>1. \E c : Answer(q, b, c)
      BY <1>5 DEF Login
    <2>2. HeldRequest(req[q])'
      BY <1>3, <2>1
    <2>3. \A o \in Requests \ {q} : req'[o] = req[o]
      BY <1>2, <2>1 DEF Answer
    <2>4. sessions' \in Ends(cookie[b]) /\ UNCHANGED <<conf, now, standing, held>>
      BY <1>5 DEF Login
    <2> QED BY <1>1, <2>2, <2>3, <2>4, HeldKept
  <1>6. ASSUME NEW p \in Providers, NEW a \in Accounts, BuiltInSignIn(q, b, p, a) PROVE HeldInv'
    <2> DEFINE r == [pc |-> "check", b |-> b, p |-> p, cookie |-> cookie[b], state |-> None,
                     code |-> None, account |-> a,
                     standing |-> [rights |-> {}, email |-> "outside"]]
    <2>1. /\ Set(q, r) /\ UNCHANGED <<conf, now, standing, held, sessions>>
          /\ p \in BuiltIn
      BY <1>6 DEF BuiltInSignIn
    <2>2. req'[q] = r /\ \A o \in Requests \ {q} : req'[o] = req[o]
      BY <1>2, <2>1
    <2>3. p \notin Github
      BY <2>1, ProviderNames
    <2>4. HeldRequest(req[q])'
      BY <2>2, <2>3 DEF HeldRequest
    <2> HIDE DEF r
    <2> QED BY <2>1, <2>2, <2>4, HeldKept
  <1>7. ASSUME NEW p \in Providers, NEW state \in Logins, NEW code \in Logins,
               Callback(q, b, p, state, code)
        PROVE  HeldInv'
    <2> DEFINE r == [pc |-> "exchange", b |-> b, p |-> p, cookie |-> cookie[b],
                     state |-> state, code |-> code]
    <2>1. Set(q, r) /\ UNCHANGED <<conf, now, standing, held, sessions>>
      BY <1>7 DEF Callback
    <2>2. req'[q] = r /\ \A o \in Requests \ {q} : req'[o] = req[o]
      BY <1>2, <2>1
    <2>3. HeldRequest(req[q])'
      BY <2>2 DEF HeldRequest, Past
    <2> HIDE DEF r
    <2> QED BY <2>1, <2>2, <2>3, HeldKept
  <1> QED BY <1>4, <1>5, <1>6, <1>7

LEMMA HeldContinued ==
    ASSUME SignInTypeOK, HeldInv, NEW q \in Requests
    PROVE  Exchange(q) \/ ReadClaims(q) \/ Check(q) \/ CheckDevices(q) \/ Create(q) \/ Record(q)
                \/ Delivered(q) \/ Abandoned(q) => HeldInv'
  <1>1. HeldRequest(req[q]) /\ req[q] \in Request
    BY DEF HeldInv, SignInTypeOK, Request
  <1>2. ASSUME NEW r, Set(q, r)
        PROVE  req'[q] = r /\ \A o \in Requests \ {q} : req'[o] = req[o]
    BY <1>2 DEF Set, SignInTypeOK
  <1>3. ASSUME Finish(q) PROVE HeldRequest(req[q])'
    BY <1>2, <1>3 DEF Finish, Idle, HeldRequest, Past
  <1>4. ASSUME Exchange(q) PROVE HeldInv'
    <2> DEFINE a == logins[req[q].code].account
               r == [pc |-> "claims", b |-> req[q].b, p |-> req[q].p, cookie |-> req[q].cookie,
                     state |-> req[q].state, code |-> req[q].code, account |-> a,
                     standing |-> standing[req[q].p][a]]
    <2>1. /\ req[q].p \notin BuiltIn /\ a \in Accounts
      BY <1>4, CallbackShapes
    <2>2. Set(q, r) /\ UNCHANGED <<conf, now, standing, held, sessions>> /\ req[q].pc = "exchange"
      BY <1>4 DEF Exchange
    <2>3. req[q].p \in conf
      BY <2>2 DEF SignInTypeOK
    <2>4. \A x \in standing[req[q].p][a].rights : held[req[q].p][a][x] = now
      BY <2>1, <2>3 DEF HeldInv
    <2>5. /\ req'[q].pc = "claims" /\ req'[q].p = req[q].p /\ req'[q].account = a
          /\ req'[q].standing = standing[req[q].p][a]
          /\ \A o \in Requests \ {q} : req'[o] = req[o]
      BY <1>2, <2>2
    <2> HIDE DEF a, r
    <2>6. HeldRequest(req[q])'
      BY <2>1, <2>2, <2>4, <2>5 DEF HeldRequest, Past
    <2> QED BY <2>2, <2>5, <2>6, HeldKept
  <1>5. ASSUME ReadClaims(q) PROVE HeldInv'
    <2> DEFINE s == IF req[q].p \in IDToken THEN req[q].standing
                    ELSE standing[req[q].p][req[q].account]
               r == [req[q] EXCEPT !.pc = "check", !.standing = s]
    <2>1. /\ req[q].pc = "claims" /\ UNCHANGED <<conf, now, standing, held, sessions>>
          /\ (Set(q, r) /\ Allowed(req[q].p, s.rights)) \/ Finish(q)
      BY <1>5, SMTT(30) DEF ReadClaims
    <2>2. req[q] \in Knowing /\ req[q].p \in conf /\ req[q].p \notin BuiltIn
      BY <1>5, <2>1, CallbackShapes DEF SignInTypeOK
    <2>3. \A o \in Requests \ {q} : req'[o] = req[o]
      BY <1>2, <2>1 DEF Finish
    <2>4. \A x \in s.rights : held[req[q].p][req[q].account][x] = now
      <3>1. \A x \in req[q].standing.rights : held[req[q].p][req[q].account][x] = now
        BY <1>1, <2>1 DEF HeldRequest
      <3>2. \A x \in standing[req[q].p][req[q].account].rights :
                held[req[q].p][req[q].account][x] = now
        BY <2>2 DEF HeldInv, Knowing
      <3> QED BY <3>1, <3>2
    <2>5. ASSUME Set(q, r), Allowed(req[q].p, s.rights) PROVE HeldRequest(req[q])'
      <3> HIDE DEF s
      <3>0. req'[q] = r
        BY <1>2, <2>5
      <3>1. /\ req'[q].pc = "check" /\ req'[q].p = req[q].p
            /\ req'[q].account = req[q].account /\ req'[q].standing = s
        BY <2>2, <3>0 DEF Knowing
      <3> QED BY <2>1, <2>2, <2>4, <2>5, <3>1 DEF HeldRequest, Allowed
    <2> QED BY <1>3, <2>1, <2>3, <2>5, HeldKept
  <1>6. ASSUME Check(q) \/ CheckDevices(q) PROVE HeldInv'
    <2>0. PICK x \in {"list", "create"} : Set(q, [req[q] EXCEPT !.pc = x]) \/ Finish(q)
      BY <1>6, CheckShape
    <2> DEFINE r == [req[q] EXCEPT !.pc = x]
    <2>1. /\ req[q].pc \in {"check", "list"} /\ UNCHANGED <<conf, now, standing, held, sessions>>
          /\ Set(q, r) \/ Finish(q)
      BY <1>6, <2>0, CheckShape
    <2>2. req[q] \in Knowing
      BY <1>6, CallbackShapes
    <2>3. \A o \in Requests \ {q} : req'[o] = req[o]
      BY <1>2, <2>1 DEF Finish
    <2>4. ASSUME Set(q, r) PROVE HeldRequest(req[q])'
      <3>1. /\ req'[q].pc = x /\ req'[q].p = req[q].p
            /\ req'[q].account = req[q].account /\ req'[q].standing = req[q].standing
        BY <1>2, <2>2, <2>4 DEF Knowing
      <3> QED BY <1>1, <2>1, <3>1 DEF HeldRequest, Past
    <2> QED BY <1>3, <2>1, <2>3, <2>4, HeldKept
  <1>7. ASSUME Create(q) PROVE HeldInv'
    <2>1. req[q] \in Knowing /\ req[q].pc = "create"
      BY <1>7, CallbackShapes DEF Create
    <2>2. PICK ended \in Ends(req[q].cookie) :
             \/ \E i \in Sids :
                   /\ sessions' = [ended EXCEPT ![i] =
                        [p |-> req[q].p, account |-> req[q].account,
                         rights |-> Claims(req[q].p, req[q].standing.rights), created |-> now,
                         b |-> req[q].b, state |-> req[q].state, code |-> req[q].code]]
                   /\ Set(q, [req[q] EXCEPT !.pc = "record",
                                            !.cookie = [kind |-> "session", id |-> i]])
             \/ sessions' = ended /\ Finish(q)
      BY <1>7 DEF Create
    <2>3. UNCHANGED <<conf, now, standing, held>>
      BY <1>7 DEF Create
    <2>4. /\ ended \in [Sids -> Session \cup {None}]
          /\ \A i \in Sids : ended[i] \in {sessions[i], None}
      BY <2>2, EndsShape
    <2>5. ASSUME NEW i \in Sids,
                 sessions' = [ended EXCEPT ![i] =
                    [p |-> req[q].p, account |-> req[q].account,
                     rights |-> Claims(req[q].p, req[q].standing.rights), created |-> now,
                     b |-> req[q].b, state |-> req[q].state, code |-> req[q].code]],
                 Set(q, [req[q] EXCEPT !.pc = "record",
                                       !.cookie = [kind |-> "session", id |-> i]])
          PROVE  HeldInv'
      <3>1. /\ \A o \in Requests \ {q} : req'[o] = req[o]
            /\ req'[q] = [req[q] EXCEPT !.pc = "record",
                                        !.cookie = [kind |-> "session", id |-> i]]
        BY <1>2, <2>5
      <3>2. /\ req'[q].pc = "record" /\ req'[q].p = req[q].p
            /\ req'[q].account = req[q].account /\ req'[q].standing = req[q].standing
        BY <2>1, <3>1 DEF Knowing
      <3>3. HeldRequest(req[q])'
        BY <1>1, <2>1, <2>3, <3>2 DEF HeldRequest, Past
      <3>4. \A j \in Sids \ {i} : sessions'[j] = ended[j]
        BY <2>4, <2>5
      <3>5. /\ sessions'[i].p = req[q].p /\ sessions'[i].account = req[q].account
            /\ sessions'[i].rights = Claims(req[q].p, req[q].standing.rights)
            /\ sessions'[i].created = now
        BY <2>4, <2>5
      <3>6. Claims(req[q].p, req[q].standing.rights) \subseteq req[q].standing.rights
        BY DEF Claims, ClaimMapping, GithubClaims
      <3>7. now \in Nat
        BY DEF SignInTypeOK
      <3>8. HeldSession(sessions[i])'
        <4>1. /\ \A x \in req[q].standing.rights : held[req[q].p][req[q].account][x] = now
              /\ req[q].p \in BuiltIn => req[q].standing.rights = {}
              /\ req[q].p \in Github => "access" \in req[q].standing.rights
          BY <1>1, <2>1 DEF HeldRequest, Past
        <4>2. Carried(sessions[i])' \subseteq req[q].standing.rights
          BY <3>5, <3>6, <4>1 DEF Carried
        <4>3. now # None
          BY <3>7, NoneAssumption
        <4> QED BY <2>3, <3>5, <3>6, <3>7, <4>1, <4>2, <4>3 DEF HeldSession
      <3> QED BY <2>3, <2>4, <3>1, <3>3, <3>4, <3>8, HeldKept
    <2>6. ASSUME sessions' = ended, Finish(q) PROVE HeldInv'
      BY <1>2, <1>3, <2>3, <2>4, <2>6, HeldKept DEF Finish
    <2> QED BY <2>2, <2>5, <2>6
  <1>8. ASSUME Record(q) PROVE HeldInv'
    <2> DEFINE r == [pc |-> "answer", b |-> req[q].b, set |-> req[q].cookie]
    <2>1. Set(q, r) /\ UNCHANGED <<conf, now, standing, held, sessions>>
      BY <1>8 DEF Record, Answer
    <2>2. req'[q] = r /\ \A o \in Requests \ {q} : req'[o] = req[o]
      BY <1>2, <2>1
    <2>3. HeldRequest(req[q])'
      BY <2>2 DEF HeldRequest, Past
    <2> HIDE DEF r
    <2> QED BY <2>1, <2>2, <2>3, HeldKept
  <1>9. ASSUME Delivered(q) \/ Abandoned(q) PROVE HeldInv'
    <2>1. Finish(q) /\ UNCHANGED <<conf, now, standing, held, sessions>>
      BY <1>9 DEF Delivered, Abandoned
    <2>2. \A o \in Requests \ {q} : req'[o] = req[o]
      BY <1>2, <2>1 DEF Finish
    <2> QED BY <1>3, <2>1, <2>2, HeldKept
  <1> QED BY <1>4, <1>5, <1>6, <1>7, <1>8, <1>9

LEMMA HeldByUsers ==
    ASSUME SignInTypeOK, HeldInv, NEW q \in Requests, UserStep(q)
    PROVE  HeldInv'
  <1>1. PICK r \in {Idle} \cup Adding \cup Removing : Set(q, r)
    BY UserStepShape
  <1>2. r \in Request /\ r.pc \in {"idle", "add", "devices", "forget"}
    BY <1>1 DEF Request, Idle, Adding, Removing
  <1>3. req'[q] = r /\ \A o \in Requests \ {q} : req'[o] = req[o]
    BY <1>1, <1>2, SetShape
  <1>4. HeldRequest(req[q])'
    BY <1>2, <1>3 DEF HeldRequest, Past
  <1>5. /\ \A i \in Sids : sessions'[i] \in {sessions[i], None}
        /\ UNCHANGED <<conf, now, standing, held>>
    BY UserStepShape
  <1> QED BY <1>3, <1>4, <1>5, HeldKept

LEMMA HeldElsewhere ==
    ASSUME SignInTypeOK, HeldInv
    PROVE  /\ \A s \in Subjects : \A k : DeleteDevice(s, k) => HeldInv'
           /\ \A n \in Logins, a \in Accounts : Authenticate(n, a) => HeldInv'
           /\ \A p \in Providers, a \in Accounts : Regrant(p, a) => HeldInv'
           /\ Tick => HeldInv'
  <1>1. ASSUME UNCHANGED <<conf, now, standing, held, req, sessions>> PROVE HeldInv'
    BY <1>1, HeldKept
  <1>2. ASSUME NEW n \in Logins, NEW a \in Accounts, Authenticate(n, a) PROVE HeldInv'
    BY <1>1, <1>2 DEF Authenticate
  <1>3. ASSUME NEW s \in Subjects, NEW k, DeleteDevice(s, k) PROVE HeldInv'
    BY <1>1, <1>3 DEF DeleteDevice
  <1>4. now \in Nat /\ now # None /\ \A i \in Sids : sessions[i] # None =>
            /\ sessions[i].p \in conf /\ sessions[i].account \in Accounts
            /\ sessions[i].created \in Nat /\ sessions[i].rights \subseteq Rights
    BY SignInBounds, NoneAssumption DEF SignInTypeOK, Session
  <1>5. ASSUME NEW p \in Providers, NEW a \in Accounts, Regrant(p, a) PROVE HeldInv'
    <2>1. p \in conf /\ UNCHANGED <<conf, now, req, sessions>>
      BY <1>5 DEF Regrant
    <2>2. PICK s \in Standings \ {standing[p][a]} :
             /\ standing' = [standing EXCEPT ![p][a] = s]
             /\ held' = [held EXCEPT ![p][a] =
                          [r \in Rights |-> IF r \in s.rights \cup standing[p][a].rights
                                                THEN now ELSE @[r]]]
      BY <1>5 DEF Regrant
    <2>3. s.rights \subseteq Rights
      BY StandingsAssumption
    <2>4. \A x \in conf, c \in Accounts :
             standing'[x][c] = IF x = p /\ c = a THEN s ELSE standing[x][c]
      BY <2>1, <2>2 DEF SignInTypeOK
    <2>5. \A x \in conf, c \in Accounts : \A r \in Rights :
             held'[x][c][r] = IF x = p /\ c = a /\ r \in s.rights \cup standing[p][a].rights
                              THEN now ELSE held[x][c][r]
      BY <2>1, <2>2 DEF SignInTypeOK
    <2>6. \A x \in conf, c \in Accounts : standing[x][c].rights \subseteq Rights
      BY StandingsAssumption DEF SignInTypeOK
    <2>7. \A x \in conf', c \in Accounts : \A r \in standing'[x][c].rights :
             held'[x][c][r] = now'
      BY <2>1, <2>3, <2>4, <2>5, <2>6 DEF HeldInv
    <2>8. ASSUME NEW q \in Requests PROVE HeldRequest(req[q])'
      <3>1. CASE req[q].pc \in {"claims"} \cup Past
        <4>1. req[q] \in Knowing /\ req[q].p \in conf
          BY <3>1, RequestShapes DEF SignInTypeOK, Request, Past
        <4>2. req[q].standing.rights \subseteq Rights /\ req[q].account \in Accounts
          BY <4>1 DEF Knowing, Standing
        <4> QED BY <2>1, <2>5, <3>1, <4>1, <4>2 DEF HeldInv, HeldRequest
      <3>2. CASE req[q].pc \notin {"claims"} \cup Past
        BY <2>1, <3>2 DEF HeldRequest
      <3> QED BY <3>1, <3>2
    <2>9. ASSUME NEW i \in Sids, sessions'[i] # None PROVE HeldSession(sessions[i])'
      <3>1. HeldSession(sessions[i])
        BY <2>1, <2>9 DEF HeldInv
      <3>2. Carried(sessions[i]) \subseteq Rights
        BY <1>4, <2>1, <2>9 DEF Carried, Rights
      <3>3. \A r \in Carried(sessions[i]) :
               /\ held'[sessions[i].p][sessions[i].account][r] # None
               /\ held'[sessions[i].p][sessions[i].account][r] >= sessions[i].created
        BY <1>4, <2>1, <2>5, <2>9, <3>1, <3>2, SMTT(30) DEF HeldSession
      <3> QED BY <2>1, <3>1, <3>3 DEF HeldSession, Carried
    <2> QED BY <2>7, <2>8, <2>9 DEF HeldInv
  <1>6. ASSUME Tick PROVE HeldInv'
    <2>1. /\ UNCHANGED <<conf, standing, req, sessions>> /\ now' = now + 1
          /\ \A q \in Requests : req[q].pc = "idle"
      BY <1>6 DEF Tick
    <2>2. \A x \in conf, c \in Accounts : \A r \in Rights :
             held'[x][c][r] = IF r \in standing[x][c].rights THEN now + 1 ELSE held[x][c][r]
      BY <1>6 DEF Tick
    <2>3. \A x \in conf, c \in Accounts : standing[x][c].rights \subseteq Rights
      BY StandingsAssumption DEF SignInTypeOK
    <2>4. \A x \in conf', c \in Accounts : \A r \in standing'[x][c].rights :
             held'[x][c][r] = now'
      BY <2>1, <2>2, <2>3
    <2>5. \A q \in Requests : HeldRequest(req[q])'
      BY <2>1 DEF HeldRequest, Past
    <2>6. ASSUME NEW i \in Sids, sessions'[i] # None PROVE HeldSession(sessions[i])'
      <3>1. HeldSession(sessions[i]) /\ sessions[i] # None
        BY <2>1, <2>6 DEF HeldInv
      <3>2. Carried(sessions[i]) \subseteq Rights
        BY <1>4, <3>1 DEF Carried, Rights
      <3>3. now + 1 # None /\ now + 1 \in Nat
        BY <1>4, NoneAssumption
      <3>4. \A r \in Carried(sessions[i]) :
               /\ held'[sessions[i].p][sessions[i].account][r] # None
               /\ held'[sessions[i].p][sessions[i].account][r] >= sessions[i].created
        BY <1>4, <2>2, <3>1, <3>2, <3>3 DEF HeldSession
      <3> QED BY <1>4, <2>1, <3>1, <3>4 DEF HeldSession, Carried
    <2> QED BY <2>4, <2>5, <2>6 DEF HeldInv
  <1> QED BY <1>2, <1>3, <1>5, <1>6

\* What a session carries was held when it was started, through every step.
LEMMA HeldHolds == Spec => []HeldInv
  <1>1. Init => HeldInv
    <2> SUFFICES ASSUME Init PROVE HeldInv
      OBVIOUS
    <2>1. \A q \in Requests : HeldRequest(req[q])
      BY DEF Init, Idle, HeldRequest, Past
    <2>2. \A i \in Sids : sessions[i] = None
      BY DEF Init
    <2>3. \A p \in conf, a \in Accounts : standing[p][a].rights \subseteq Rights
      BY TypesFirst, StandingsAssumption DEF SignInTypeOK
    <2>4. \A p \in conf, a \in Accounts : \A r \in standing[p][a].rights : held[p][a][r] = now
      BY <2>3 DEF Init
    <2> QED BY <2>1, <2>2, <2>4 DEF HeldInv
  <1>2. SignInTypeOK /\ HeldInv /\ [Next]_vars => HeldInv'
    <2> SUFFICES ASSUME SignInTypeOK, HeldInv, [Next]_vars PROVE HeldInv'
      OBVIOUS
    <2>1. CASE UNCHANGED vars
      BY <2>1, HeldKept DEF vars
    <2>2. CASE Next
      <3>1. CASE \E q \in Requests, b \in Browsers :
                    \/ SignOut(q, b)
                    \/ \E p \in Providers : Login(q, b, p)
                    \/ \E p \in Providers, a \in Accounts : BuiltInSignIn(q, b, p, a)
                    \/ \E p \in Providers, state, code \in Logins :
                          Callback(q, b, p, state, code)
        BY <3>1, HeldBegun
      <3>2. CASE \E q \in Requests :
                    \/ Exchange(q) \/ ReadClaims(q) \/ Check(q) \/ CheckDevices(q) \/ Create(q) \/ Record(q)
                    \/ Delivered(q) \/ Abandoned(q)
        BY <3>2, HeldContinued
      <3>3. CASE \E q \in Requests : UserStep(q)
        BY <3>3, HeldByUsers
      <3> QED BY <2>2, <3>1, <3>2, <3>3, HeldElsewhere DEF Next, UserStep
    <2> QED BY <2>1, <2>2
  <1> QED BY <1>1, <1>2, SignInTypes, PTL DEF Spec

\* RevokedInTime for any life of a session and any changes at the providers: a
\* request is let through only with rights and access that the account had at its
\* provider less than the life of a session before (ClaimsMiddleware of router.go).
THEOREM RightsRunOut == Spec => []RevokedInTime
  <1>1. SignInTypeOK /\ HeldInv => RevokedInTime
    <2> SUFFICES ASSUME SignInTypeOK, HeldInv, NEW b \in Browsers, Served(b)
                 PROVE  LET x == sessions[cookie[b].id]
                            needed == RightsOf(x) \cup
                                (IF x.p \in AccessClaim \cup Github THEN {"access"} ELSE {}) IN
                        \A r \in needed :
                            \/ r = "admin" /\ x.p \in BuiltIn
                                           /\ SubjectOf[x.p][x.account] = AdminUsername
                            \/ RecentlyHeld(x.p, x.account, r)
      BY DEF RevokedInTime
    <2> DEFINE x == sessions[cookie[b].id]
    <2>1. cookie[b].id \in Sids /\ x # None /\ x \in Session
      BY ServedShape
    <2>2. HeldSession(x)
      BY <2>1 DEF HeldInv
    <2>3. x.p \in AccessClaim => "access" \in x.rights
      BY DEF Served, HasAccess
    <2>4. ~(now - x.created >= MaxAge)
      BY DEF Served, Live, Expired
    <2>5. /\ x.created \in Nat /\ now \in Nat /\ MaxAge \in Nat
          /\ x.p \in conf /\ x.account \in Accounts /\ x.rights \subseteq Rights
      BY <2>1, SignInBounds DEF SignInTypeOK, Session
    <2> HIDE DEF x
    <2>6. \A r \in Rights : held[x.p][x.account][r] \in Nat \cup {None}
      BY <2>5 DEF SignInTypeOK
    <2>7. Carried(x) \subseteq Rights
      BY <2>5 DEF Carried, Rights
    <2>8. ASSUME NEW r \in Carried(x) PROVE RecentlyHeld(x.p, x.account, r)
      <3>1. /\ held[x.p][x.account][r] \in Nat /\ held[x.p][x.account][r] >= x.created
            /\ held[x.p][x.account][r] # None
        BY <2>2, <2>6, <2>7 DEF HeldSession
      <3> QED BY <2>4, <2>5, <3>1 DEF RecentlyHeld
    <2>9. ASSUME NEW r \in RightsOf(x) \cup
                            (IF x.p \in AccessClaim \cup Github THEN {"access"} ELSE {})
          PROVE  r \in Carried(x) \/ (r = "admin" /\ x.p \in BuiltIn
                                        /\ SubjectOf[x.p][x.account] = AdminUsername)
      BY <2>3 DEF RightsOf, Elevated, Carried
    <2> QED BY <2>8, <2>9 DEF x
  <1> QED BY <1>1, HeldHolds, SignInTypes, PTL
-----------------------------------------------------------------------------
(* Two providers with one subject.                                         *)

LEMMA SameProviders ==
    /\ \A p : SameProvider(p, p)
    /\ \A p, q : SameProvider(p, q) => SameProvider(q, p)
    /\ \A p, q, r : SameProvider(p, q) /\ SameProvider(q, r) => SameProvider(p, r)
  BY DEF SameProvider

\* An id that is unused is in nobody's hands.
LEMMA UnusedShape ==
    ASSUME SignInTypeOK, NEW i \in Sids, Unused(i)
    PROVE  ~InHand(i) /\ \A o \in Requests : ~Holds(req[o], i)
  <1>1. ASSUME NEW o \in Requests, HasCookie(req[o]) PROVE "cookie" \in DOMAIN req[o]
    <2>1. req[o] \in Exchanging \cup Knowing
      BY <1>1, RequestShapes DEF SignInTypeOK, Request, HasCookie, Past
    <2> QED BY <2>1 DEF Exchanging, Knowing
  <1>2. ASSUME NEW o \in Requests, req[o].pc = "answer" PROVE "set" \in DOMAIN req[o]
    <2>1. req[o] \in Answering
      BY <1>2, RequestShapes DEF SignInTypeOK, Request
    <2> QED BY <2>1 DEF Answering
  <1> QED BY <1>1, <1>2 DEF Unused, InHand, Holds

\* A step that hands no id to anybody, and starts no session.
LEMMA IdsKept ==
    ASSUME SignInTypeOK, NewIdInv, NEW q \in Requests,
           \A o \in Requests \ {q} : req'[o] = req[o],
           req'[q].pc # "record",
           \A i \in Sids : InHand(i)' => InHand(i) \/ Holds(req[q], i),
           \A i \in Sids : Holds(req[q], i)' => InHand(i) \/ Holds(req[q], i),
           \A i \in Sids : sessions'[i] \in {sessions[i], None}
    PROVE  NewIdInv'
  <1>1. ASSUME NEW o \in Requests, req'[o].pc = "record" PROVE NewId(o)'
    <2>1. o # q /\ req'[o] = req[o] /\ NewId(o)
      BY <1>1 DEF NewIdInv
    <2>2. req[o].cookie.id \in Sids
      BY <1>1, <2>1 DEF SignInTypeOK, SessionCookie
    <2>3. ~InHand(req[o].cookie.id)'
      <3>1. ~Holds(req[q], req[o].cookie.id) /\ ~InHand(req[o].cookie.id)
        BY <1>1, <2>1 DEF NewId
      <3>2. PICK i \in Sids : i = req[o].cookie.id
        BY <2>2
      <3>3. ~InHand(i)'
        BY <3>1, <3>2
      <3> QED BY <2>1, <3>2, <3>3 DEF InHand, Names
    <2>4. ASSUME NEW x \in Requests \ {o} PROVE ~Holds(req[x], req[o].cookie.id)'
      <3>1. ~Holds(req[x], req[o].cookie.id) /\ ~InHand(req[o].cookie.id)
        BY <1>1, <2>1 DEF NewId
      <3>2. CASE x = q
        <4>1. PICK i \in Sids : i = req[o].cookie.id
          BY <2>2
        <4>2. ~Holds(req[x], i)'
          BY <3>1, <3>2, <4>1
        <4> QED BY <2>1, <4>1, <4>2 DEF Holds, Names
      <3>3. CASE x # q
        <4>1. req'[x] = req[x]
          BY <3>3
        <4> QED BY <2>1, <3>1, <4>1 DEF Holds, HasCookie, Names
      <3> QED BY <3>2, <3>3
    <2>5. sessions'[req[o].cookie.id] # None =>
              /\ sessions'[req[o].cookie.id].p = req[o].p
              /\ sessions'[req[o].cookie.id].account = req[o].account
      BY <1>1, <2>1, <2>2 DEF NewId
    <2> QED BY <2>1, <2>3, <2>4, <2>5 DEF NewId, InHand, Names
  <1> QED BY <1>1 DEF NewIdInv, NewId

\* No deletion begins, and no session.
LEMMA EmptiedKept ==
    ASSUME NEW q \in Requests, \A o \in Requests \ {q} : req'[o] = req[o],
           req'[q].pc \notin {"devices", "forget"},
           \A i \in Sids : sessions'[i] \in {sessions[i], None},
           NEW s, Emptied(s)
    PROVE  Emptied(s)'
  <1>1. ASSUME NEW o \in Requests, Deleting(o, s)' PROVE Deleting(o, s)
    BY <1>1 DEF Deleting
  <1>2. BeingDeleted(s)' => BeingDeleted(s)
    BY <1>1 DEF BeingDeleted
  <1> QED BY <1>2 DEF Emptied, SubjectIn

\* Nobody is admitted under this subject, and nothing but devices goes.
LEMMA OwnerKept ==
    ASSUME NEW q \in Requests, \A o \in Requests \ {q} : req'[o] = req[o],
           req'[q].pc \notin Admitted,
           \A i \in Sids : InHand(i)' => InHand(i),
           \A i \in Sids : sessions'[i] \in {sessions[i], None},
           NEW s, OwnerOf(s), Emptied(s)', users'[s] = users[s], owners'[s] \subseteq owners[s]
    PROVE  OwnerOf(s)'
  <1>2. \A o \in Requests : req'[o].pc \in Admitted => req'[o] = req[o]
    OBVIOUS
  <1>3. \A o \in Requests :
            req'[o].pc \in Admitted /\ SubjectIn(req[o])' = s => Fits(s, req[o])'
    BY <1>2 DEF OwnerOf, SubjectIn, Fits, KnownTo, Admits
  <1>4. \A x, o \in Requests :
            /\ req'[x].pc \in Admitted /\ SubjectIn(req[x])' = s
            /\ req'[o].pc \in Admitted /\ SubjectIn(req[o])' = s
            => SameProvider(req'[x].p, req'[o].p)
    BY <1>2 DEF OwnerOf, SubjectIn
  <1>5. users'[s] # None => \A k \in owners'[s] \ {None} : SameProvider(k, users'[s])
    BY DEF OwnerOf
  <1>6. \A i \in Sids : sessions'[i] # None /\ InHand(i)' /\ SubjectIn(sessions[i])' = s =>
            users'[s] # None /\ SameProvider(sessions'[i].p, users'[s])
    BY DEF OwnerOf, SubjectIn
  <1> QED BY <1>3, <1>4, <1>5, <1>6 DEF OwnerOf, SameProvider

\* The places of a request that acts for nobody and deletes nobody.
Quiet == {"idle", "exchange", "claims", "check", "answer"}

\* A step that hands out no id, admits nobody and remembers nothing.
LEMMA OwnersKept ==
    ASSUME SignInTypeOK, NewIdInv, OwnerInv, NEW q \in Requests,
           \A o \in Requests \ {q} : req'[o] = req[o],
           req'[q].pc \in Quiet,
           \A i \in Sids : InHand(i)' => InHand(i),
           \A i \in Sids : Holds(req[q], i)' => InHand(i) \/ Holds(req[q], i),
           \A i \in Sids : sessions'[i] \in {sessions[i], None},
           UNCHANGED <<users, owners>>, overlap \subseteq overlap'
    PROVE  NewIdInv' /\ OwnerInv'
  <1>1. /\ req'[q].pc \notin {"devices", "forget"} /\ req'[q].pc \notin Admitted
        /\ req'[q].pc # "record"
    BY DEF Quiet, Admitted
  <1>2. NewIdInv'
    BY <1>1, IdsKept
  <1>3. ASSUME NEW s \in Subjects \ overlap' PROVE OwnerOf(s)'
    <2>1. OwnerOf(s)
      BY <1>3 DEF OwnerInv
    <2>2. Emptied(s)
      BY <2>1 DEF OwnerOf
    <2>3. Emptied(s)'
      BY <1>1, <2>2, EmptiedKept
    <2> QED BY <1>1, <2>1, <2>3, OwnerKept
  <1> QED BY <1>2, <1>3 DEF OwnerInv

LEMMA OwnersBegun ==
    ASSUME SignInTypeOK, NewIdInv, OwnerInv, NEW q \in Requests, NEW b \in Browsers
    PROVE  /\ SignOut(q, b) => NewIdInv' /\ OwnerInv'
           /\ \A p \in Providers : Login(q, b, p) => NewIdInv' /\ OwnerInv'
           /\ \A p \in Providers, a \in Accounts :
                BuiltInSignIn(q, b, p, a) => NewIdInv' /\ OwnerInv'
           /\ \A p \in Providers, state, code \in Logins :
                Callback(q, b, p, state, code) => NewIdInv' /\ OwnerInv'
  <1>1. \A t \in Ends(cookie[b]) : \A i \in Sids : t[i] \in {sessions[i], None}
    BY EndsShape
  <1>2. ASSUME NEW r, Set(q, r)
        PROVE  req'[q] = r /\ \A o \in Requests \ {q} : req'[o] = req[o]
    BY <1>2 DEF Set, SignInTypeOK
  <1>3. ASSUME NEW c, c.kind # "session", Answer(q, b, c), sessions' \in Ends(cookie[b]),
               UNCHANGED <<cookie, users, owners, overlap>>
        PROVE  NewIdInv' /\ OwnerInv'
    <2>1. /\ req'[q] = [pc |-> "answer", b |-> b, set |-> c]
          /\ \A o \in Requests \ {q} : req'[o] = req[o]
      BY <1>2, <1>3 DEF Answer
    <2>2. req'[q].pc = "answer" /\ req'[q].set = c
      BY <2>1
    <2>3. ASSUME NEW i \in Sids PROVE InHand(i)' => InHand(i)
      BY <1>3, <2>1, <2>2 DEF InHand, Names
    <2>4. ASSUME NEW i \in Sids PROVE ~Holds(req[q], i)'
      BY <2>2 DEF Holds, HasCookie, Past
    <2>5. req'[q].pc \in Quiet
      BY <2>2 DEF Quiet
    <2> QED BY <1>1, <1>3, <2>1, <2>3, <2>4, <2>5, OwnersKept
  <1>4. ASSUME NEW r, r.pc \in {"exchange", "check"}, r.cookie = cookie[b], Set(q, r),
               UNCHANGED <<cookie, sessions, users, owners, overlap>>
        PROVE  NewIdInv' /\ OwnerInv'
    <2>1. req'[q] = r /\ \A o \in Requests \ {q} : req'[o] = req[o]
      BY <1>2, <1>4
    <2>2. ASSUME NEW i \in Sids PROVE InHand(i)' => InHand(i)
      BY <1>4, <2>1 DEF InHand
    <2>3. ASSUME NEW i \in Sids PROVE Holds(req[q], i)' => InHand(i)
      BY <1>4, <2>1 DEF Holds, Names, InHand
    <2>4. req'[q].pc \in Quiet
      BY <1>4, <2>1 DEF Quiet
    <2> QED BY <1>4, <2>1, <2>2, <2>3, <2>4, OwnersKept
  <1>5. ASSUME SignOut(q, b) PROVE NewIdInv' /\ OwnerInv'
    <2>1. NoCookie.kind # "session"
      BY DEF NoCookie
    <2> QED BY <1>3, <1>5, <2>1 DEF SignOut
  <1>6. ASSUME NEW p \in Providers, Login(q, b, p) PROVE NewIdInv' /\ OwnerInv'
    <2>1. PICK n \in Logins : Answer(q, b, IF p \in Oidc THEN OidcCookie(p, n) ELSE GithubCookie(n))
      BY <1>6 DEF Login
    <2> DEFINE c == IF p \in Oidc THEN OidcCookie(p, n) ELSE GithubCookie(n)
    <2>2. c.kind # "session"
      BY DEF OidcCookie, GithubCookie
    <2>3. Answer(q, b, c)
      BY <2>1
    <2> HIDE DEF c
    <2>4. sessions' \in Ends(cookie[b]) /\ UNCHANGED <<cookie, users, owners, overlap>>
      BY <1>6 DEF Login
    <2> QED BY <1>3, <2>2, <2>3, <2>4
  <1>7. ASSUME NEW p \in Providers, NEW a \in Accounts, BuiltInSignIn(q, b, p, a)
        PROVE  NewIdInv' /\ OwnerInv'
    <2> DEFINE r == [pc |-> "check", b |-> b, p |-> p, cookie |-> cookie[b], state |-> None,
                     code |-> None, account |-> a,
                     standing |-> [rights |-> {}, email |-> "outside"]]
    <2>1. Set(q, r) /\ UNCHANGED <<cookie, sessions, users, owners, overlap>>
      BY <1>7 DEF BuiltInSignIn
    <2>2. r.pc = "check" /\ r.cookie = cookie[b]
      OBVIOUS
    <2> HIDE DEF r
    <2> QED BY <1>4, <2>1, <2>2
  <1>8. ASSUME NEW p \in Providers, NEW state \in Logins, NEW code \in Logins,
               Callback(q, b, p, state, code)
        PROVE  NewIdInv' /\ OwnerInv'
    <2> DEFINE r == [pc |-> "exchange", b |-> b, p |-> p, cookie |-> cookie[b],
                     state |-> state, code |-> code]
    <2>1. Set(q, r) /\ UNCHANGED <<cookie, sessions, users, owners, overlap>>
      BY <1>8 DEF Callback
    <2>2. r.pc = "exchange" /\ r.cookie = cookie[b]
      OBVIOUS
    <2> HIDE DEF r
    <2> QED BY <1>4, <2>1, <2>2
  <1> QED BY <1>5, <1>6, <1>7, <1>8

\* The steps of a callback before its check, and the ones that end a request.
LEMMA OwnersQuiet ==
    ASSUME SignInTypeOK, NewIdInv, OwnerInv, NEW q \in Requests
    PROVE  /\ Finish(q) /\ UNCHANGED <<cookie, users, owners>> /\ overlap \subseteq overlap'
                /\ (\A i \in Sids : sessions'[i] \in {sessions[i], None})
                => NewIdInv' /\ OwnerInv'
           /\ Exchange(q) \/ ReadClaims(q) \/ Delivered(q) \/ Abandoned(q)
                => NewIdInv' /\ OwnerInv'
  <1>1. req[q] \in Request
    BY DEF SignInTypeOK, Request
  <1>2. ASSUME NEW r, Set(q, r)
        PROVE  req'[q] = r /\ \A o \in Requests \ {q} : req'[o] = req[o]
    BY <1>2 DEF Set, SignInTypeOK
  <1>3. ASSUME Finish(q) PROVE req'[q].pc = "idle" /\ \A o \in Requests \ {q} : req'[o] = req[o]
    BY <1>2, <1>3 DEF Finish, Idle
  <1>4. ASSUME Finish(q), UNCHANGED <<cookie, users, owners>>, overlap \subseteq overlap',
               \A i \in Sids : sessions'[i] \in {sessions[i], None}
        PROVE  NewIdInv' /\ OwnerInv'
    <2>1. ASSUME NEW i \in Sids PROVE InHand(i)' => InHand(i)
      BY <1>3, <1>4 DEF InHand
    <2>2. ASSUME NEW i \in Sids PROVE ~Holds(req[q], i)'
      BY <1>3, <1>4 DEF Holds, HasCookie, Past
    <2>3. req'[q].pc \in Quiet
      BY <1>3, <1>4 DEF Quiet
    <2> QED BY <1>3, <1>4, <2>1, <2>2, <2>3, OwnersKept
  <1>5. ASSUME NEW r, r.pc \in {"claims", "check"}, r.cookie = req[q].cookie, HasCookie(req[q]),
               Set(q, r), UNCHANGED <<cookie, sessions, users, owners, overlap>>
        PROVE  NewIdInv' /\ OwnerInv'
    <2>1. req'[q] = r /\ \A o \in Requests \ {q} : req'[o] = req[o]
      BY <1>2, <1>5
    <2>2. ASSUME NEW i \in Sids PROVE InHand(i)' => InHand(i)
      BY <1>5, <2>1 DEF InHand
    <2>3. ASSUME NEW i \in Sids PROVE Holds(req[q], i)' => Holds(req[q], i)
      BY <1>5, <2>1 DEF Holds, Names
    <2>4. req'[q].pc \in Quiet
      BY <1>5, <2>1 DEF Quiet
    <2> QED BY <1>5, <2>1, <2>2, <2>3, <2>4, OwnersKept
  <1>6. ASSUME Exchange(q) PROVE NewIdInv' /\ OwnerInv'
    <2> DEFINE a == logins[req[q].code].account
               r == [pc |-> "claims", b |-> req[q].b, p |-> req[q].p, cookie |-> req[q].cookie,
                     state |-> req[q].state, code |-> req[q].code, account |-> a,
                     standing |-> standing[req[q].p][a]]
    <2>1. /\ Set(q, r) /\ UNCHANGED <<cookie, sessions, users, owners, overlap>>
          /\ req[q].pc = "exchange"
      BY <1>6 DEF Exchange
    <2>2. r.pc = "claims" /\ r.cookie = req[q].cookie
      OBVIOUS
    <2> HIDE DEF r
    <2> QED BY <1>5, <2>1, <2>2 DEF HasCookie
  <1>7. ASSUME ReadClaims(q) PROVE NewIdInv' /\ OwnerInv'
    <2> DEFINE s == IF req[q].p \in IDToken THEN req[q].standing
                    ELSE standing[req[q].p][req[q].account]
               r == [req[q] EXCEPT !.pc = "check", !.standing = s]
    <2>1. /\ Set(q, r) \/ Finish(q)
          /\ UNCHANGED <<cookie, sessions, users, owners, overlap>>
          /\ req[q].pc = "claims"
      BY <1>7 DEF ReadClaims
    <2>2. r.pc = "check" /\ r.cookie = req[q].cookie
      <3>1. req[q] \in Knowing
        BY <1>7, CallbackShapes
      <3> HIDE DEF s
      <3> QED BY <3>1 DEF Knowing
    <2> HIDE DEF r
    <2> QED BY <1>4, <1>5, <2>1, <2>2 DEF HasCookie
  <1>8. ASSUME Delivered(q) PROVE NewIdInv' /\ OwnerInv'
    <2>1. /\ cookie' = [cookie EXCEPT ![req[q].b] = req[q].set] /\ req[q].pc = "answer"
          /\ Finish(q) /\ UNCHANGED <<sessions, users, owners, overlap>>
      BY <1>8 DEF Delivered
    <2>2. ASSUME NEW i \in Sids PROVE InHand(i)' => InHand(i)
      <3>1. \A b \in Browsers : cookie'[b] = cookie[b] \/ cookie'[b] = req[q].set
        BY <2>1 DEF SignInTypeOK
      <3>2. ASSUME NEW b \in Browsers, Names(cookie[b], i)' PROVE InHand(i)
        <4>1. cookie'[b].kind = "session" /\ cookie'[b].id = i
          BY <3>2 DEF Names
        <4> QED BY <2>1, <3>1, <4>1 DEF InHand, Names
      <3>3. ASSUME NEW o \in Requests, req'[o].pc = "answer", Names(req[o].set, i)'
            PROVE  InHand(i)
        <4>1. req'[o] = req[o]
          BY <1>3, <2>1, <3>3
        <4> QED BY <3>3, <4>1 DEF InHand, Names
      <3> QED BY <3>2, <3>3 DEF InHand
    <2>3. ASSUME NEW i \in Sids PROVE ~Holds(req[q], i)'
      BY <1>3, <2>1 DEF Holds, HasCookie, Past
    <2>4. req'[q].pc \in Quiet
      BY <1>3, <2>1 DEF Quiet
    <2> QED BY <1>3, <2>1, <2>2, <2>3, <2>4, OwnersKept
  <1>9. ASSUME Abandoned(q) PROVE NewIdInv' /\ OwnerInv'
    BY <1>4, <1>9 DEF Abandoned
  <1> QED BY <1>4, <1>6, <1>7, <1>8, <1>9
\* checkLogin: who goes on has the provider of everyone there is, or the overlap
\* is on record.
LEMMA OwnersChecked ==
    ASSUME SignInTypeOK, NewIdInv, OwnerInv, NEW q \in Requests, Check(q) \/ CheckDevices(q)
    PROVE  NewIdInv' /\ OwnerInv'
  <1> DEFINE s0 == SubjectOf[req[q].p][req[q].account]
  <1>1. /\ req[q].pc \in {"check", "list"} /\ UNCHANGED <<cookie, sessions, users, owners>>
        /\ overlap \subseteq overlap'
    BY CheckShape DEF Check, CheckDevices
  <1>2. req[q] \in Knowing
    BY CallbackShapes
  <1>3. CASE Finish(q)
    BY <1>1, <1>3, OwnersQuiet
  <1>4. ASSUME NEW x \in {"list", "create"}, Set(q, [req[q] EXCEPT !.pc = x]), ~Finish(q)
        PROVE  NewIdInv' /\ OwnerInv'
    <2> DEFINE r == [req[q] EXCEPT !.pc = x]
    <2>1. /\ req'[q] = r /\ \A o \in Requests \ {q} : req'[o] = req[o]
      BY <1>4 DEF Set, SignInTypeOK
    <2>2. /\ req'[q].pc = x /\ req'[q].p = req[q].p /\ req'[q].account = req[q].account
          /\ req'[q].cookie = req[q].cookie
      BY <1>2, <2>1 DEF Knowing
    <2> HIDE DEF r
    <2>3. ASSUME NEW i \in Sids PROVE InHand(i)' => InHand(i)
      BY <1>1, <2>1, <2>2 DEF InHand
    <2>4. ASSUME NEW i \in Sids PROVE Holds(req[q], i)' => Holds(req[q], i)
      BY <1>1, <2>2 DEF Holds, HasCookie, Past, Names
    <2>5. NewIdInv'
      BY <1>1, <2>1, <2>2, <2>3, <2>4, IdsKept
    <2>7. \/ /\ Check(q)
             /\ users[s0] = None \/ Admits({users[s0]}, req[q].p)
             /\ x = IF users[s0] = None THEN "list" ELSE "create"
             /\ Unseen(q, s0, req[q].p) => s0 \in overlap'
          \/ /\ CheckDevices(q) /\ req[q].pc = "list" /\ x = "create"
             /\ Admits(owners[s0], req[q].p)
      <3>1. ASSUME NEW y, Set(q, [req[q] EXCEPT !.pc = y]) PROVE x = y
        <4>1. req'[q] = [req[q] EXCEPT !.pc = y]
          BY <3>1 DEF Set, SignInTypeOK
        <4>2. req'[q].pc = y
          BY <1>2, <4>1, SMTT(30) DEF Knowing
        <4> QED BY <2>2, <4>2
      <3>2. CASE Check(q)
        <4> DEFINE y == IF users[s0] = None THEN "list" ELSE "create"
        <4>1. /\ users[s0] = None \/ Admits({users[s0]}, req[q].p)
              /\ Set(q, [req[q] EXCEPT !.pc = y])
              /\ Unseen(q, s0, req[q].p) => s0 \in overlap'
          BY <1>4, <3>2 DEF Check
        <4> HIDE DEF y
        <4>2. x = y
          BY <3>1, <4>1, SMTT(30)
        <4> QED BY <3>2, <4>1, <4>2 DEF y
      <3>3. CASE CheckDevices(q)
        <4>1. /\ Set(q, [req[q] EXCEPT !.pc = "create"]) /\ req[q].pc = "list"
              /\ Admits(owners[s0], req[q].p)
          BY <1>4, <3>3 DEF CheckDevices, DeviceProviders
        <4>2. x = "create"
          BY <3>1, <4>1
        <4> QED BY <3>3, <4>1, <4>2
      <3> QED BY <3>2, <3>3
    <2>6. ASSUME NEW s \in Subjects \ overlap' PROVE OwnerOf(s)'
      <3>1. OwnerOf(s)
        BY <1>1, <2>6 DEF OwnerInv
      <3>2. SubjectIn(req[q])' = s0 /\ SubjectIn(req[q]) = s0
        BY <2>2 DEF SubjectIn
      <3> HIDE DEF s0
      <3>3. ASSUME NEW o \in Requests \ {q}, req'[o].pc \in Admitted, SubjectIn(req[o])' = s
            PROVE  /\ req'[o] = req[o] /\ Fits(s, req[o])
                   /\ req[o].pc \in Admitted /\ SubjectIn(req[o]) = s
        BY <2>1, <3>1, <3>3 DEF OwnerOf, SubjectIn
      <3>4. ASSUME NEW o \in Requests \ {q}, req'[o].pc \in Admitted, SubjectIn(req[o])' = s, s = s0
            PROVE  SameProvider(req'[o].p, req'[q].p)
        <4>1. req'[o] = req[o] /\ req[o].pc \in Admitted /\ SubjectIn(req[o]) = s
          BY <3>3, <3>4
        <4>2. CASE req[q].pc = "list"
          BY <2>2, <3>1, <3>2, <3>4, <4>1, <4>2 DEF OwnerOf, Admitted
        <4>3. CASE Unseen(q, s0, req[q].p) => s0 \in overlap'
          <5>1. Acting(o, s0)
            BY <3>4, <4>1 DEF Acting, Admitted
          <5> QED BY <2>2, <2>6, <3>4, <4>1, <4>3, <5>1 DEF Unseen
        <4> QED BY <2>7, <4>2, <4>3
      <3>10. s = s0 => Fits(s, req[q])'
        <4> SUFFICES ASSUME s = s0 PROVE Fits(s, req[q])'
          OBVIOUS
        <4>1. CASE /\ users[s0] = None \/ Admits({users[s0]}, req[q].p)
                   /\ x = IF users[s0] = None THEN "list" ELSE "create"
          BY <1>1, <2>2, <4>1 DEF Fits, KnownTo, Admits, SameProvider
        <4>2. CASE req[q].pc = "list" /\ Admits(owners[s0], req[q].p)
          <5>1. Fits(s, req[q])
            BY <3>1, <3>2, <4>2 DEF OwnerOf, Admitted
          <5> QED BY <1>1, <2>2, <4>2, <5>1 DEF Fits, KnownTo, Admits, SameProvider
        <4> QED BY <2>7, <4>1, <4>2
      <3>5. \A o \in Requests :
                req'[o].pc \in Admitted /\ SubjectIn(req[o])' = s => Fits(s, req[o])'
        <4>1. ASSUME NEW o \in Requests \ {q}, req'[o].pc \in Admitted, SubjectIn(req[o])' = s
              PROVE  Fits(s, req[o])'
          BY <1>1, <3>3, <4>1 DEF Fits, KnownTo, Admits, SameProvider
        <4> QED BY <3>2, <3>10, <4>1
      <3>6. \A y, o \in Requests :
                /\ req'[y].pc \in Admitted /\ SubjectIn(req[y])' = s
                /\ req'[o].pc \in Admitted /\ SubjectIn(req[o])' = s
                => SameProvider(req'[y].p, req'[o].p)
        BY <3>1, <3>2, <3>3, <3>4, SameProviders DEF OwnerOf
      <3>7. users'[s] # None => \A k \in owners'[s] \ {None} : SameProvider(k, users'[s])
        BY <1>1, <3>1 DEF OwnerOf
      <3>8. \A i \in Sids : sessions'[i] # None /\ InHand(i)' /\ SubjectIn(sessions[i])' = s =>
                users'[s] # None /\ SameProvider(sessions'[i].p, users'[s])
        BY <1>1, <2>3, <3>1 DEF OwnerOf, SubjectIn
      <3>9. Emptied(s)'
        <4>1. Emptied(s) /\ req'[q].pc \notin {"devices", "forget"}
          BY <2>2, <3>1 DEF OwnerOf
        <4> QED BY <1>1, <2>1, <4>1, EmptiedKept
      <3> QED BY <3>5, <3>6, <3>7, <3>8, <3>9, SMTT(60) DEF OwnerOf, SameProvider
    <2> QED BY <2>5, <2>6 DEF OwnerInv
  <1> QED BY <1>3, <1>4, CheckShape

\* SetSession: the new id is nobody's.
LEMMA OwnersCreated ==
    ASSUME SignInTypeOK, NewIdInv, OwnerInv, NEW q \in Requests, Create(q)
    PROVE  NewIdInv' /\ OwnerInv'
  <1>1. req[q] \in Knowing /\ req[q].pc = "create"
    BY CallbackShapes DEF Create
  <1>2. PICK ended \in Ends(req[q].cookie) :
           \/ \E i \in Sids :
                 /\ Unused(i)
                 /\ sessions' = [ended EXCEPT ![i] =
                      [p |-> req[q].p, account |-> req[q].account,
                       rights |-> Claims(req[q].p, req[q].standing.rights), created |-> now,
                       b |-> req[q].b, state |-> req[q].state, code |-> req[q].code]]
                 /\ Set(q, [req[q] EXCEPT !.pc = "record",
                                          !.cookie = [kind |-> "session", id |-> i]])
                 /\ BeingDeleted(SubjectIn(req[q])) => SubjectIn(req[q]) \in overlap'
           \/ sessions' = ended /\ Finish(q)
    BY DEF Create
  <1>3. UNCHANGED <<cookie, users, owners>> /\ overlap \subseteq overlap'
    BY DEF Create
  <1>4. /\ ended \in [Sids -> Session \cup {None}]
        /\ \A i \in Sids : ended[i] \in {sessions[i], None}
    BY <1>2, EndsShape
  <1>5. ASSUME sessions' = ended, Finish(q) PROVE NewIdInv' /\ OwnerInv'
    BY <1>3, <1>4, <1>5, OwnersQuiet
  <1>6. ASSUME NEW i \in Sids, Unused(i),
               sessions' = [ended EXCEPT ![i] =
                  [p |-> req[q].p, account |-> req[q].account,
                   rights |-> Claims(req[q].p, req[q].standing.rights), created |-> now,
                   b |-> req[q].b, state |-> req[q].state, code |-> req[q].code]],
               Set(q, [req[q] EXCEPT !.pc = "record",
                                     !.cookie = [kind |-> "session", id |-> i]]),
               BeingDeleted(SubjectIn(req[q])) => SubjectIn(req[q]) \in overlap'
        PROVE  NewIdInv' /\ OwnerInv'
    <2>1. /\ \A o \in Requests \ {q} : req'[o] = req[o]
          /\ req'[q] = [req[q] EXCEPT !.pc = "record",
                                      !.cookie = [kind |-> "session", id |-> i]]
      BY <1>6 DEF Set, SignInTypeOK
    <2>2. /\ req'[q].pc = "record" /\ req'[q].p = req[q].p /\ req'[q].account = req[q].account
          /\ req'[q].cookie.kind = "session" /\ req'[q].cookie.id = i
      BY <1>1, <2>1 DEF Knowing
    <2>3. \A j \in Sids \ {i} : sessions'[j] \in {sessions[j], None}
      BY <1>4, <1>6
    <2>4. sessions'[i].p = req[q].p /\ sessions'[i].account = req[q].account
      BY <1>4, <1>6
    <2>5. ~InHand(i) /\ \A o \in Requests : ~Holds(req[o], i)
      BY <1>6, UnusedShape
    <2>6. \A j \in Sids : InHand(j)' => InHand(j)
      BY <1>3, <2>1, <2>2 DEF InHand
    <2>7. ASSUME NEW o \in Requests, req'[o].pc = "record" PROVE NewId(o)'
      <3>1. CASE o = q
        <4>1. ~InHand(i)'
          BY <2>5, <2>6
        <4>2. \A x \in Requests \ {q} : ~Holds(req[x], i)'
          BY <2>1, <2>5 DEF Holds, HasCookie, Names
        <4> QED BY <2>2, <2>4, <3>1, <4>1, <4>2 DEF NewId, InHand, Holds, Names
      <3>2. CASE o # q
        <4>1. req'[o] = req[o] /\ NewId(o)
          BY <2>1, <3>2 DEF NewIdInv
        <4>2. req[o].cookie \in SessionCookie
          BY <2>7, <4>1 DEF SignInTypeOK
        <4>3. PICK j \in Sids : j = req[o].cookie.id
          BY <4>2 DEF SessionCookie
        <4>4. /\ ~InHand(j) /\ \A x \in Requests \ {o} : ~Holds(req[x], j)
              /\ sessions[j] # None => sessions[j].p = req[o].p /\ sessions[j].account = req[o].account
          BY <2>7, <4>1, <4>3 DEF NewId
        <4>5. j # i
          <5>1. Holds(req[o], j)
            BY <2>7, <4>1, <4>2, <4>3 DEF Holds, HasCookie, Past, Names, SessionCookie
          <5> QED BY <2>5, <5>1
        <4>6. \A x \in Requests \ {o} : ~Holds(req[x], j)'
          <5>1. ~Holds(req[q], j)'
            BY <2>2, <4>5 DEF Holds, Names
          <5>2. ASSUME NEW x \in Requests \ {o}, x # q PROVE ~Holds(req[x], j)'
            BY <2>1, <4>4, <5>2 DEF Holds, HasCookie, Names
          <5> QED BY <5>1, <5>2
        <4>7. ~InHand(j)'
          BY <2>6, <4>4
        <4>8. sessions'[j] # None => sessions'[j].p = req[o].p /\ sessions'[j].account = req[o].account
          BY <2>3, <4>4, <4>5
        <4> QED BY <4>1, <4>3, <4>6, <4>7, <4>8 DEF NewId, InHand, Holds, Names
      <3> QED BY <3>1, <3>2
    <2>8. ASSUME NEW s \in Subjects \ overlap' PROVE OwnerOf(s)'
      <3>1. OwnerOf(s)
        BY <1>3, <2>8 DEF OwnerInv
      <3>2. \A o \in Requests : req'[o].pc \in Admitted /\ SubjectIn(req[o])' = s =>
                /\ req[o].pc \in Admitted /\ SubjectIn(req[o]) = s /\ req'[o].p = req[o].p
                /\ req'[o].pc = "list" <=> req[o].pc = "list"
        <4>1. \A o \in Requests \ {q} : req'[o] = req[o]
          BY <2>1
        <4>2. SubjectIn(req[q])' = SubjectIn(req[q])
          BY <2>2 DEF SubjectIn
        <4>3. req[q].pc \in Admitted /\ req[q].pc # "list" /\ req'[q].pc # "list"
          BY <1>1, <2>2 DEF Admitted
        <4> QED BY <2>2, <4>1, <4>2, <4>3 DEF SubjectIn
      <3>3. \A o \in Requests :
                req'[o].pc \in Admitted /\ SubjectIn(req[o])' = s => Fits(s, req[o])'
        BY <1>3, <3>1, <3>2 DEF OwnerOf, Fits, KnownTo, Admits
      <3>4. \A x, o \in Requests :
                /\ req'[x].pc \in Admitted /\ SubjectIn(req[x])' = s
                /\ req'[o].pc \in Admitted /\ SubjectIn(req[o])' = s
                => SameProvider(req'[x].p, req'[o].p)
        BY <3>1, <3>2 DEF OwnerOf
      <3>5. users'[s] # None => \A k \in owners'[s] \ {None} : SameProvider(k, users'[s])
        BY <1>3, <3>1 DEF OwnerOf
      <3>6. \A j \in Sids : sessions'[j] # None /\ InHand(j)' /\ SubjectIn(sessions[j])' = s =>
                users'[s] # None /\ SameProvider(sessions'[j].p, users'[s])
        BY <1>3, <2>3, <2>5, <2>6, <3>1 DEF OwnerOf, SubjectIn
      <3>7. Emptied(s)'
        <4>1. ASSUME NEW o \in Requests, Deleting(o, s)' PROVE Deleting(o, s)
          BY <2>1, <2>2, <4>1 DEF Deleting
        <4>2. BeingDeleted(s)' => BeingDeleted(s)
          BY <4>1 DEF BeingDeleted
        <4>3. SubjectIn(sessions[i])' = SubjectIn(req[q])
          BY <2>4 DEF SubjectIn
        <4>4. Emptied(s)
          BY <3>1 DEF OwnerOf
        <4>5. BeingDeleted(s) => SubjectIn(sessions[i])' # s
          BY <1>6, <2>8, <4>3
        <4>6. \A j \in Sids \ {i} : BeingDeleted(s) /\ sessions'[j] # None =>
                  SubjectIn(sessions[j])' # s
          BY <2>3, <4>4 DEF Emptied, SubjectIn
        <4> QED BY <4>2, <4>5, <4>6 DEF Emptied
      <3> QED BY <3>3, <3>4, <3>5, <3>6, <3>7 DEF OwnerOf, SameProvider
    <2> QED BY <2>7, <2>8 DEF NewIdInv, NewId, OwnerInv
  <1> QED BY <1>2, <1>5, <1>6, ZenonT(30)
\* recordLogin: the browser gets a session whose provider is remembered, or the
\* failure is on record.
LEMMA OwnersRecorded ==
    ASSUME SignInTypeOK, NewIdInv, OwnerInv, NEW q \in Requests, Record(q)
    PROVE  NewIdInv' /\ OwnerInv'
  <1> DEFINE r == [pc |-> "answer", b |-> req[q].b, set |-> req[q].cookie]
             s0 == SubjectOf[req[q].p][req[q].account]
  <1>1. /\ req[q].pc = "record" /\ Set(q, r) /\ UNCHANGED <<cookie, sessions, owners>>
        /\ \/ users' = [users EXCEPT ![s0] = req[q].p] /\ UNCHANGED overlap
           \/ overlap' = overlap \cup {s0} /\ UNCHANGED users
    BY DEF Record, Answer
  <1>2. /\ req'[q] = r /\ \A o \in Requests \ {q} : req'[o] = req[o]
    BY <1>1, SMTT(30) DEF Set, SignInTypeOK
  <1>3. req[q] \in Knowing /\ req[q].cookie \in SessionCookie
    BY <1>1, CallbackShapes DEF SignInTypeOK
  <1>4. req'[q].pc = "answer" /\ req'[q].set = req[q].cookie
    BY <1>2
  <1>5. PICK i \in Sids : i = req[q].cookie.id
    BY <1>3 DEF SessionCookie
  <1>6. s0 \in Subjects /\ req[q].p \in Providers /\ req[q].p # None
    BY <1>3, SubjectType, NoneAssumption DEF Knowing
  <1> HIDE DEF r
  <1>7. Holds(req[q], i)
    BY <1>1, <1>3, <1>5 DEF Holds, HasCookie, Past, Names, SessionCookie
  <1>8. \A j \in Sids : InHand(j)' => InHand(j) \/ j = i
    BY <1>1, <1>2, <1>4, <1>5 DEF InHand, Names
  <1>9. NewIdInv'
    <2>1. \A j \in Sids : ~Holds(req[q], j)'
      BY <1>4 DEF Holds, HasCookie, Past
    <2> QED BY <1>1, <1>2, <1>4, <1>7, <1>8, <2>1, IdsKept
  <1>10. sessions[i] # None => sessions[i].p = req[q].p /\ SubjectIn(sessions[i]) = s0
    BY <1>1, <1>5 DEF NewIdInv, NewId, SubjectIn
  <1>11. ASSUME NEW s \in Subjects \ overlap' PROVE OwnerOf(s)'
    <2>1. s \notin overlap /\ OwnerOf(s)
      BY <1>1, <1>11 DEF OwnerInv
    <2>2. \A o \in Requests : req'[o].pc \in Admitted => o # q /\ req'[o] = req[o]
      BY <1>2, <1>4 DEF Admitted
    <2>3. \A x, o \in Requests :
              /\ req'[x].pc \in Admitted /\ SubjectIn(req[x])' = s
              /\ req'[o].pc \in Admitted /\ SubjectIn(req[o])' = s
              => SameProvider(req'[x].p, req'[o].p)
      BY <2>1, <2>2 DEF OwnerOf, SubjectIn
    <2>6. Emptied(s)'
      <3>1. Emptied(s) /\ req'[q].pc \notin {"devices", "forget"}
        BY <1>4, <2>1 DEF OwnerOf
      <3> QED BY <1>1, <1>2, <3>1, EmptiedKept
    <2>4. CASE s # s0
      <3>1. users'[s] = users[s] /\ owners' = owners
        BY <1>1, <1>6, <2>4 DEF SignInTypeOK
      <3>2. \A o \in Requests :
                req'[o].pc \in Admitted /\ SubjectIn(req[o])' = s => Fits(s, req[o])'
        BY <2>1, <2>2, <3>1 DEF OwnerOf, Fits, KnownTo, Admits, SubjectIn
      <3>3. users'[s] # None => \A k \in owners'[s] \ {None} : SameProvider(k, users'[s])
        BY <2>1, <3>1 DEF OwnerOf
      <3>4. \A j \in Sids : sessions'[j] # None /\ InHand(j)' /\ SubjectIn(sessions[j])' = s =>
                users'[s] # None /\ SameProvider(sessions'[j].p, users'[s])
        BY <1>1, <1>8, <1>10, <2>1, <2>4, <3>1 DEF OwnerOf, SubjectIn
      <3> QED BY <2>3, <2>6, <3>2, <3>3, <3>4 DEF OwnerOf, SameProvider
    <2>5. CASE s = s0
      <3>1. users' = [users EXCEPT ![s0] = req[q].p]
        BY <1>1, <1>11, <2>5
      <3>2. users'[s] = req[q].p /\ owners' = owners
        BY <1>1, <1>6, <2>5, <3>1 DEF SignInTypeOK
      <3>3. req[q].pc \in Admitted /\ SubjectIn(req[q]) = s
        BY <1>1, <2>5 DEF Admitted, SubjectIn
      <3>4. Fits(s, req[q])
        BY <2>1, <3>3 DEF OwnerOf
      <3>5. users[s] # None => SameProvider(users[s], req[q].p)
        BY <3>4 DEF Fits, KnownTo, Admits
      <3>6. \A o \in Requests : req'[o].pc \in Admitted /\ SubjectIn(req[o])' = s =>
                SameProvider(req[q].p, req'[o].p)
        BY <2>1, <2>2, <3>3 DEF OwnerOf, SubjectIn
      <3>7. \A o \in Requests :
                req'[o].pc \in Admitted /\ SubjectIn(req[o])' = s => Fits(s, req[o])'
        BY <1>6, <3>2, <3>6 DEF Fits, KnownTo, Admits, SameProvider
      <3>8. \A k \in owners'[s] \ {None} : SameProvider(k, users'[s])
        <4>1. CASE users[s] = None
          BY <1>1, <3>2, <3>4, <4>1 DEF Fits, KnownTo, Admits
        <4>2. CASE users[s] # None
          BY <2>1, <3>2, <3>5, <4>2, SameProviders DEF OwnerOf
        <4> QED BY <4>1, <4>2
      <3>9. \A j \in Sids : sessions'[j] # None /\ InHand(j)' /\ SubjectIn(sessions[j])' = s =>
                users'[s] # None /\ SameProvider(sessions'[j].p, users'[s])
        <4> SUFFICES ASSUME NEW j \in Sids, sessions'[j] # None, InHand(j)',
                            SubjectIn(sessions[j])' = s
                     PROVE  users'[s] # None /\ SameProvider(sessions'[j].p, users'[s])
          OBVIOUS
        <4>1. sessions'[j] = sessions[j] /\ SubjectIn(sessions[j]) = s
          BY <1>1 DEF SubjectIn
        <4>2. CASE j = i
          BY <1>6, <1>10, <3>2, <4>1, <4>2, SameProviders
        <4>3. CASE InHand(j)
          <5>1. users[s] # None /\ SameProvider(sessions[j].p, users[s])
            BY <2>1, <4>1, <4>3 DEF OwnerOf
          <5> QED BY <1>6, <3>2, <3>5, <4>1, <5>1, SameProviders
        <4> QED BY <1>8, <4>2, <4>3
      <3> QED BY <2>3, <2>6, <3>7, <3>8, <3>9 DEF OwnerOf, SameProvider
    <2> QED BY <2>4, <2>5
  <1> QED BY <1>9, <1>11, SMTT(30) DEF OwnerInv

\* The requests that add a device or delete a user hand out no id.
LEMMA UserIds ==
    ASSUME SignInTypeOK, NewIdInv, NEW q \in Requests, UserStep(q)
    PROVE  /\ NewIdInv'
           /\ \A o \in Requests \ {q} : req'[o] = req[o]
           /\ \A i \in Sids : InHand(i)' => InHand(i)
           /\ \A i \in Sids : sessions'[i] \in {sessions[i], None}
  <1>1. PICK r \in {Idle} \cup Adding \cup Removing : Set(q, r)
    BY UserStepShape
  <1>2. r \in Request /\ r.pc \in {"idle", "add", "devices", "forget"}
    BY <1>1 DEF Request, Idle, Adding, Removing
  <1>3. req'[q] = r /\ \A o \in Requests \ {q} : req'[o] = req[o]
    BY <1>1, <1>2, SetShape
  <1>4. /\ \A i \in Sids : sessions'[i] \in {sessions[i], None}
        /\ cookie' = cookie
    BY UserStepShape
  <1>5. ASSUME NEW i \in Sids PROVE InHand(i)' => InHand(i)
    BY <1>2, <1>3, <1>4 DEF InHand
  <1>6. ASSUME NEW i \in Sids PROVE ~Holds(req[q], i)'
    BY <1>2, <1>3 DEF Holds, HasCookie, Past
  <1>7. req'[q].pc # "record"
    BY <1>2, <1>3
  <1>8. NewIdInv'
    BY <1>3, <1>4, <1>5, <1>6, <1>7, IdsKept
  <1> QED BY <1>3, <1>4, <1>5, <1>8

\* A request of who is signed in will add a device.
LEMMA OwnersServed ==
    ASSUME SignInTypeOK, NewIdInv, OwnerInv, NEW q \in Requests, NEW b \in Browsers, Serve(q, b)
    PROVE  NewIdInv' /\ OwnerInv'
  <1> DEFINE x == sessions[cookie[b].id]
             s0 == SubjectIn(x)
  <1>1. cookie[b].id \in Sids /\ x # None /\ x \in Session
    BY ServedShape DEF Serve
  <1>2. UserStep(q)
    BY DEF UserStep
  <1>3. /\ NewIdInv' /\ \A o \in Requests \ {q} : req'[o] = req[o]
        /\ \A i \in Sids : InHand(i)' => InHand(i)
    BY <1>2, UserIds
  <1>4. /\ Set(q, [pc |-> "add", p |-> x.p, account |-> x.account])
        /\ UNCHANGED <<cookie, sessions, users, owners, overlap>>
    BY DEF Serve
  <1>5. req'[q].pc = "add" /\ req'[q].p = x.p /\ SubjectIn(req[q])' = s0
    BY <1>4 DEF Set, SignInTypeOK, SubjectIn
  <1>6. InHand(cookie[b].id)
    BY DEF Serve, Served, InHand, Names
  <1> HIDE DEF s0
  <1>7. ASSUME NEW s \in Subjects \ overlap' PROVE OwnerOf(s)'
    <2>1. OwnerOf(s)
      BY <1>4, <1>7 DEF OwnerInv
    <2>2. s = s0 => users[s] # None /\ SameProvider(x.p, users[s])
      BY <1>1, <1>6, <2>1 DEF OwnerOf, s0
    <2> HIDE DEF x
    <2>3. ASSUME NEW o \in Requests \ {q}, req'[o].pc \in Admitted, SubjectIn(req[o])' = s
          PROVE  /\ req'[o] = req[o] /\ Fits(s, req[o])
                 /\ req[o].pc \in Admitted /\ SubjectIn(req[o]) = s
      BY <1>3, <2>1, <2>3 DEF OwnerOf, SubjectIn
    <2>4. s = s0 => users[s] # None /\ SameProvider(users[s], x.p)
      BY <2>2, SameProviders
    <2>5. \A o \in Requests :
              req'[o].pc \in Admitted /\ SubjectIn(req[o])' = s => Fits(s, req[o])'
      BY <1>4, <1>5, <2>3, <2>4 DEF Fits, KnownTo, Admits
    <2>6. ASSUME NEW o \in Requests \ {q}, req'[o].pc \in Admitted, SubjectIn(req[o])' = s, s = s0
          PROVE  SameProvider(req'[o].p, req'[q].p)
      <3>1. users[s] # None /\ SameProvider(x.p, users[s])
        BY <2>2, <2>6
      <3>2. users[s] # None => SameProvider(users[s], req[o].p)
        BY <2>3, <2>6 DEF Fits, KnownTo, Admits
      <3>3. req'[o] = req[o]
        BY <2>3, <2>6
      <3> QED BY <1>5, <3>1, <3>2, <3>3, SameProviders
    <2>7. \A y, o \in Requests :
              /\ req'[y].pc \in Admitted /\ SubjectIn(req[y])' = s
              /\ req'[o].pc \in Admitted /\ SubjectIn(req[o])' = s
              => SameProvider(req'[y].p, req'[o].p)
      BY <1>5, <2>1, <2>3, <2>6, SameProviders DEF OwnerOf
    <2>8. users'[s] # None => \A k \in owners'[s] \ {None} : SameProvider(k, users'[s])
      BY <1>4, <2>1 DEF OwnerOf
    <2>9. \A i \in Sids : sessions'[i] # None /\ InHand(i)' /\ SubjectIn(sessions[i])' = s =>
              users'[s] # None /\ SameProvider(sessions'[i].p, users'[s])
      BY <1>3, <1>4, <2>1 DEF OwnerOf, SubjectIn
    <2>10. Emptied(s)'
      <3>1. Emptied(s) /\ req'[q].pc \notin {"devices", "forget"}
        BY <1>5, <2>1 DEF OwnerOf
      <3> QED BY <1>3, <1>4, <3>1, EmptiedKept
    <2> QED BY <2>5, <2>7, <2>8, <2>9, <2>10 DEF OwnerOf, SameProvider
  <1> QED BY <1>3, <1>7 DEF OwnerInv

\* A device is added for whoever asked, signed in or not by now.
LEMMA OwnersAdded ==
    ASSUME SignInTypeOK, NewIdInv, OwnerInv, NEW q \in Requests, AddDevice(q)
    PROVE  NewIdInv' /\ OwnerInv'
  <1> DEFINE p == req[q].p
             s0 == SubjectIn(req[q])
  <1>1. s0 \in Subjects /\ req[q].pc = "add"
    BY UserRequests DEF AddDevice
  <1>2. UserStep(q)
    BY DEF UserStep
  <1>3. /\ NewIdInv' /\ \A o \in Requests \ {q} : req'[o] = req[o]
        /\ \A i \in Sids : InHand(i)' => InHand(i)
    BY <1>2, UserIds
  <1>4. /\ owners' = [owners EXCEPT ![s0] = @ \cup {p}]
        /\ Finish(q) /\ UNCHANGED <<cookie, sessions, users, overlap>>
    BY DEF AddDevice
  <1>5. req'[q].pc = "idle"
    BY <1>4 DEF Finish, Set, Idle, SignInTypeOK
  <1>6. req'[q].pc \notin {"devices", "forget"} /\ req'[q].pc \notin Admitted
    BY <1>5 DEF Admitted
  <1>7. req[q].pc \in Admitted
    BY <1>1 DEF Admitted
  <1>8. ASSUME NEW s \in Subjects \ overlap' PROVE OwnerOf(s)'
    <2>1. OwnerOf(s) /\ Emptied(s)
      BY <1>4, <1>8 DEF OwnerInv, OwnerOf
    <2>2. Emptied(s)'
      BY <1>3, <1>4, <1>6, <2>1, EmptiedKept
    <2>3. CASE s # s0
      <3>1. owners'[s] = owners[s] /\ users'[s] = users[s]
        BY <1>1, <1>4, <2>3 DEF SignInTypeOK
      <3>2. \A i \in Sids : sessions'[i] \in {sessions[i], None}
        BY <1>4
      <3> QED BY <1>3, <1>6, <2>1, <2>2, <3>1, <3>2, OwnerKept
    <2>4. CASE s = s0
      <3>1. owners'[s] = owners[s] \cup {p}
        BY <1>1, <1>4, <2>4 DEF SignInTypeOK
      <3>2. Fits(s, req[q])
        BY <1>7, <2>1, <2>4 DEF OwnerOf
      <3>3. ASSUME NEW o \in Requests, req'[o].pc \in Admitted, SubjectIn(req[o])' = s
            PROVE  /\ req'[o] = req[o] /\ req[o].pc \in Admitted /\ SubjectIn(req[o]) = s
                   /\ Fits(s, req[o]) /\ SameProvider(p, req[o].p)
        <4>1. req'[o] = req[o] /\ SubjectIn(req[o]) = s
          BY <1>3, <1>6, <3>3 DEF SubjectIn
        <4> QED BY <1>7, <2>1, <2>4, <3>3, <4>1 DEF OwnerOf
      <3> HIDE DEF p, s0
      <3>4. ASSUME NEW o \in Requests, req'[o].pc \in Admitted, SubjectIn(req[o])' = s
            PROVE  Fits(s, req[o])'
        BY <1>4, <3>1, <3>3, <3>4 DEF Fits, KnownTo, Admits
      <3>5. \A y, o \in Requests :
                /\ req'[y].pc \in Admitted /\ SubjectIn(req[y])' = s
                /\ req'[o].pc \in Admitted /\ SubjectIn(req[o])' = s
                => SameProvider(req'[y].p, req'[o].p)
        BY <3>3, SameProviders
      <3>6. users[s] # None => SameProvider(p, users[s])
        BY <3>2, SameProviders DEF Fits, KnownTo, Admits, p
      <3>7. users'[s] # None => \A k \in owners'[s] \ {None} : SameProvider(k, users'[s])
        BY <1>4, <2>1, <3>1, <3>6 DEF OwnerOf
      <3>8. \A i \in Sids : sessions'[i] # None /\ InHand(i)' /\ SubjectIn(sessions[i])' = s =>
                users'[s] # None /\ SameProvider(sessions'[i].p, users'[s])
        BY <1>3, <1>4, <2>1 DEF OwnerOf, SubjectIn
      <3> QED BY <2>2, <3>4, <3>5, <3>7, <3>8 DEF OwnerOf, SameProvider
    <2> QED BY <2>3, <2>4
  <1> QED BY <1>3, <1>8 DEF OwnerInv

\* DeleteUser up to its last step: sessions and devices only go.
LEMMA OwnersRemoved ==
    ASSUME SignInTypeOK, NewIdInv, OwnerInv, NEW q \in Requests, NEW s0 \in Subjects,
           \/ DeleteUser(q, s0)
           \/ DeleteDevicesForUser(q) /\ s0 = req[q].subject
    PROVE  NewIdInv' /\ OwnerInv'
  <1>1. UserStep(q)
    BY DEF UserStep
  <1>2. /\ NewIdInv' /\ \A o \in Requests \ {q} : req'[o] = req[o]
        /\ \A i \in Sids : InHand(i)' => InHand(i)
        /\ \A i \in Sids : sessions'[i] \in {sessions[i], None}
    BY <1>1, UserIds
  <1>3. /\ UNCHANGED <<users, overlap>>
        /\ \A s \in Subjects : owners'[s] \subseteq owners[s]
    BY DEF DeleteUser, DeleteDevicesForUser, SignInTypeOK
  <1>4. req'[q].pc \in {"devices", "forget"} /\ req'[q].subject = s0
    <2>1. CASE DeleteUser(q, s0)
      BY <2>1 DEF DeleteUser, Set, SignInTypeOK
    <2>2. CASE DeleteDevicesForUser(q) /\ s0 = req[q].subject
      <3>1. req'[q] = [req[q] EXCEPT !.pc = "forget"]
        BY <2>2 DEF DeleteDevicesForUser, Set, SignInTypeOK
      <3>2. req'[q] \in Removing /\ req'[q].subject = s0
        BY <2>2, <3>1, UserRequests
      <3> QED BY <3>2 DEF Removing
    <2> QED BY <2>1, <2>2
  <1>5. req'[q].pc \notin Admitted
    BY <1>4 DEF Admitted
  <1>6. ASSUME NEW s \in Subjects \ overlap' PROVE OwnerOf(s)'
    <2>1. OwnerOf(s) /\ Emptied(s)
      BY <1>3, <1>6 DEF OwnerInv, OwnerOf
    <2>2. Emptied(s)'
      <3>1. ASSUME NEW o \in Requests \ {q}, Deleting(o, s)' PROVE Deleting(o, s)
        BY <1>2, <3>1 DEF Deleting
      <3>2. Deleting(q, s)' => s = s0
        BY <1>4 DEF Deleting
      <3>3. BeingDeleted(s)' => s = s0 \/ BeingDeleted(s)
        BY <3>1, <3>2 DEF BeingDeleted
      <3>4. BeingDeleted(s) => \A i \in Sids : sessions'[i] # None => SubjectIn(sessions[i])' # s
        BY <1>2, <2>1 DEF Emptied, SubjectIn
      <3>5. ASSUME s = s0
            PROVE  \A i \in Sids : sessions'[i] # None => SubjectIn(sessions[i])' # s
        <4>1. CASE DeleteUser(q, s0)
          <5>1. sessions' = EndAllForOwner(s0)
            BY <4>1 DEF DeleteUser
          <5> QED BY <3>5, <5>1 DEF EndAllForOwner, SubjectIn
        <4>2. CASE DeleteDevicesForUser(q) /\ s0 = req[q].subject
          <5>1. Deleting(q, s)
            BY <3>5, <4>2 DEF DeleteDevicesForUser, Deleting
          <5> QED BY <3>4, <5>1 DEF BeingDeleted
        <4> QED BY <4>1, <4>2
      <3> QED BY <3>3, <3>4, <3>5 DEF Emptied
    <2>3. users'[s] = users[s] /\ owners'[s] \subseteq owners[s]
      BY <1>3
    <2> QED BY <1>2, <1>5, <2>1, <2>2, <2>3, OwnerKept
  <1> QED BY <1>2, <1>6 DEF OwnerInv

\* The row goes when nobody is signed in; whoever is about to be was checked
\* against it, and so were the devices.
LEMMA OwnersForgotten ==
    ASSUME SignInTypeOK, NewIdInv, OwnerInv, NEW q \in Requests, ForgetUser(q)
    PROVE  NewIdInv' /\ OwnerInv'
  <1> DEFINE s0 == req[q].subject
  <1>1. s0 \in Subjects /\ req[q].pc = "forget"
    BY UserRequests DEF ForgetUser, Removing
  <1>2. UserStep(q)
    BY DEF UserStep
  <1>3. /\ NewIdInv' /\ \A o \in Requests \ {q} : req'[o] = req[o]
        /\ \A i \in Sids : InHand(i)' => InHand(i)
        /\ \A i \in Sids : sessions'[i] \in {sessions[i], None}
    BY <1>2, UserIds
  <1>4. /\ users' = [users EXCEPT ![s0] = None]
        /\ overlap' = IF Lingers(s0) THEN overlap ELSE overlap \ {s0}
        /\ Finish(q) /\ UNCHANGED <<cookie, sessions, owners>>
    BY DEF ForgetUser
  <1>5. req'[q].pc = "idle"
    BY <1>4 DEF Finish, Set, Idle, SignInTypeOK
  <1>6. req'[q].pc \notin {"devices", "forget"} /\ req'[q].pc \notin Admitted
    BY <1>5 DEF Admitted
  <1>7. Deleting(q, s0)
    BY <1>1 DEF Deleting
  <1> HIDE DEF s0
  <1>8. ASSUME NEW s \in Subjects \ overlap' PROVE OwnerOf(s)'
    <2>1. CASE s # s0
      <3>1. OwnerOf(s) /\ Emptied(s)
        BY <1>4, <1>8, <2>1 DEF OwnerInv, OwnerOf
      <3>2. Emptied(s)'
        BY <1>3, <1>6, <3>1, EmptiedKept
      <3>3. users'[s] = users[s] /\ owners'[s] \subseteq owners[s]
        BY <1>1, <1>4, <2>1 DEF SignInTypeOK
      <3> QED BY <1>3, <1>6, <3>1, <3>2, <3>3, OwnerKept
    <2>2. CASE s = s0
      <3>1. users'[s] = None /\ owners'[s] = owners[s]
        BY <1>1, <1>4, <2>2 DEF SignInTypeOK
      <3>2. \A i \in Sids : sessions[i] # None => SubjectIn(sessions[i]) # s
        <4>1. CASE Lingers(s0)
          <5>1. Emptied(s)
            BY <1>4, <1>8, <4>1 DEF OwnerInv, OwnerOf
          <5> QED BY <1>7, <2>2, <5>1 DEF Emptied, BeingDeleted
        <4>2. CASE ~Lingers(s0)
          BY <2>2, <4>2 DEF Lingers
        <4> QED BY <4>1, <4>2
      <3>3. \A i \in Sids : sessions'[i] # None => SubjectIn(sessions[i])' # s
        BY <1>4, <3>2 DEF SubjectIn
      <3>4. ASSUME NEW o \in Requests, req'[o].pc \in Admitted, SubjectIn(req[o])' = s
            PROVE  /\ req'[o] = req[o] /\ OwnerOf(s)
                   /\ req[o].pc \in Admitted /\ SubjectIn(req[o]) = s
        <4>1. req'[o] = req[o] /\ SubjectIn(req[o]) = s /\ req[o].pc \in Admitted
          BY <1>3, <1>6, <3>4 DEF SubjectIn
        <4>2. Lingers(s0)
          BY <2>2, <4>1 DEF Lingers, Acting, Admitted
        <4>3. OwnerOf(s)
          BY <1>4, <1>8, <4>2 DEF OwnerInv
        <4> QED BY <4>1, <4>3
      <3>5. ASSUME NEW o \in Requests, req'[o].pc \in Admitted, SubjectIn(req[o])' = s
            PROVE  Fits(s, req[o])'
        <4>1. /\ OwnerOf(s) /\ req'[o] = req[o]
              /\ req[o].pc \in Admitted /\ SubjectIn(req[o]) = s
          BY <3>4, <3>5
        <4>2. Fits(s, req[o])
          BY <4>1 DEF OwnerOf
        <4>3. ASSUME NEW k \in owners[s] \ {None}, req[o].pc # "list"
              PROVE  SameProvider(k, req[o].p)
          <5>1. CASE users[s] = None
            BY <4>2, <4>3, <5>1 DEF Fits, KnownTo, Admits
          <5>2. CASE users[s] # None
            <6>1. SameProvider(users[s], req[o].p)
              BY <4>2, <5>2 DEF Fits, KnownTo, Admits
            <6>2. SameProvider(k, users[s])
              BY <4>1, <4>3, <5>2 DEF OwnerOf
            <6> QED BY <6>1, <6>2, SameProviders
          <5> QED BY <5>1, <5>2
        <4> QED BY <3>1, <4>1, <4>3 DEF Fits, KnownTo, Admits, SameProvider
      <3>6. \A y, o \in Requests :
                /\ req'[y].pc \in Admitted /\ SubjectIn(req[y])' = s
                /\ req'[o].pc \in Admitted /\ SubjectIn(req[o])' = s
                => SameProvider(req'[y].p, req'[o].p)
        BY <3>4 DEF OwnerOf
      <3>7. Emptied(s)'
        BY <3>3 DEF Emptied
      <3> QED BY <3>1, <3>3, <3>5, <3>6, <3>7 DEF OwnerOf, SameProvider
    <2> QED BY <2>1, <2>2
  <1> QED BY <1>3, <1>8 DEF OwnerInv

\* A device goes.
LEMMA OwnersOfFewer ==
    ASSUME SignInTypeOK, NewIdInv, OwnerInv, NEW s0 \in Subjects, NEW k0, DeleteDevice(s0, k0)
    PROVE  NewIdInv' /\ OwnerInv'
  <1>1. /\ UNCHANGED <<req, cookie, sessions, users, overlap>>
        /\ \A s \in Subjects : owners'[s] \subseteq owners[s]
    BY DEF DeleteDevice, SignInTypeOK
  <1>2. NewIdInv'
    BY <1>1 DEF NewIdInv, NewId, InHand, Holds, HasCookie, Names
  <1>3. ASSUME NEW s \in Subjects \ overlap' PROVE OwnerOf(s)'
    <2>1. OwnerOf(s) /\ owners'[s] \subseteq owners[s]
      BY <1>1, <1>3 DEF OwnerInv
    <2>2. Emptied(s)'
      BY <1>1, <2>1 DEF OwnerOf, Emptied, BeingDeleted, Deleting, SubjectIn
    <2> QED BY <1>1, <2>1, <2>2
          DEF OwnerOf, Fits, KnownTo, Admits, SubjectIn, InHand, Names, SameProvider
  <1> QED BY <1>2, <1>3 DEF OwnerInv

\* Whoever acts under a subject has the same provider, through every step.
LEMMA OwnersHold == Spec => [](NewIdInv /\ OwnerInv)
  <1>1. Init => NewIdInv /\ OwnerInv
    <2> SUFFICES ASSUME Init PROVE NewIdInv /\ OwnerInv
      OBVIOUS
    <2>1. \A q \in Requests : req[q].pc = "idle"
      BY DEF Init, Idle
    <2>2. \A i \in Sids : sessions[i] = None
      BY DEF Init
    <2>3. \A s \in Subjects : users[s] = None
      BY DEF Init
    <2> QED BY <2>1, <2>2, <2>3
          DEF NewIdInv, NewId, OwnerInv, OwnerOf, Emptied, BeingDeleted, Deleting, Admitted
  <1>2. SignInTypeOK /\ NewIdInv /\ OwnerInv /\ [Next]_vars => NewIdInv' /\ OwnerInv'
    <2> SUFFICES ASSUME SignInTypeOK, NewIdInv, OwnerInv, [Next]_vars
                 PROVE  NewIdInv' /\ OwnerInv'
      OBVIOUS
    <2>1. ASSUME UNCHANGED <<req, cookie, sessions, users, owners, overlap>>
          PROVE  NewIdInv' /\ OwnerInv'
      BY <2>1 DEF NewIdInv, NewId, InHand, Holds, HasCookie, Names, OwnerInv, OwnerOf, Emptied,
                  BeingDeleted, Deleting, Fits, KnownTo, Admits, SubjectIn, SameProvider
    <2>2. CASE UNCHANGED vars
      BY <2>1, <2>2 DEF vars
    <2>3. CASE Next
      <3>1. CASE \E q \in Requests, b \in Browsers :
                    \/ SignOut(q, b)
                    \/ \E p \in Providers : Login(q, b, p)
                    \/ \E p \in Providers, a \in Accounts : BuiltInSignIn(q, b, p, a)
                    \/ \E p \in Providers, state, code \in Logins :
                          Callback(q, b, p, state, code)
        BY <3>1, OwnersBegun
      <3>2. CASE \E q \in Requests :
                    \/ Exchange(q) \/ ReadClaims(q) \/ Check(q) \/ CheckDevices(q) \/ Create(q) \/ Record(q)
                    \/ Delivered(q) \/ Abandoned(q)
        BY <3>2, OwnersQuiet, OwnersChecked, OwnersCreated, OwnersRecorded
      <3>3. CASE \E q \in Requests : UserStep(q)
        <4>1. ASSUME NEW q \in Requests, DeleteDevicesForUser(q) PROVE NewIdInv' /\ OwnerInv'
          <5>1. req[q].subject \in Subjects
            BY <4>1, UserRequests DEF Removing
          <5> QED BY <4>1, <5>1, OwnersRemoved
        <4> QED BY <3>3, <4>1, OwnersServed, OwnersAdded, OwnersRemoved, OwnersForgotten
              DEF UserStep
      <3>5. CASE \E s \in Subjects, k \in Providers \cup {None} : DeleteDevice(s, k)
        BY <3>5, OwnersOfFewer
      <3>4. CASE \/ \E n \in Logins, a \in Accounts : Authenticate(n, a)
                 \/ \E p \in Providers, a \in Accounts : Regrant(p, a)
                 \/ Tick
        BY <2>1, <3>4 DEF Authenticate, Regrant, Tick
      <3> QED BY <2>3, <3>1, <3>2, <3>3, <3>4, <3>5 DEF Next, UserStep
    <2> QED BY <2>2, <2>3
  <1> QED BY <1>1, <1>2, SignInTypes, PTL DEF Spec

\* OneOwner for any number of providers, browsers, sign-ins and deletions at a
\* time: under one subject a signed-in browser finds no device and no other
\* signed-in browser of another provider (checkLogin and recordLogin of http.go,
\* DeleteUser of user_service.go) - outside the three races that the property
\* names, and once more when the user was deleted with nobody left under the name.
THEOREM OneOwnerPerSubject == Spec => []OneOwner
  <1>1. SignInTypeOK /\ OwnerInv => OneOwner
    <2> SUFFICES ASSUME SignInTypeOK, OwnerInv, NEW i \in Sids, Named(i),
                        SubjectIn(sessions[i]) \notin overlap,
                        NEW k \in (owners[SubjectIn(sessions[i])] \ {None}) \cup
                            {sessions[j].p : j \in {j \in Sids :
                                Named(j) /\ SubjectIn(sessions[j]) = SubjectIn(sessions[i])}}
                 PROVE  SameProvider(k, sessions[i].p)
      BY DEF OneOwner, SubjectIn
    <2> DEFINE s == SubjectIn(sessions[i])
    <2>1. \A j \in Sids : Named(j) => sessions[j] # None /\ sessions[j] \in Session /\ InHand(j)
      BY DEF Named, Live, SignInTypeOK, InHand, Names
    <2>2. s \in Subjects
      BY <2>1, SubjectType DEF SubjectIn, Session
    <2>3. OwnerOf(s)
      BY <2>2 DEF OwnerInv
    <2> HIDE DEF s
    <2>4. \A j \in Sids : Named(j) /\ SubjectIn(sessions[j]) = s =>
              users[s] # None /\ SameProvider(sessions[j].p, users[s])
      BY <2>1, <2>3 DEF OwnerOf
    <2>5. users[s] # None /\ SameProvider(sessions[i].p, users[s])
      BY <2>4 DEF s
    <2>6. SameProvider(k, users[s])
      BY <2>3, <2>4, <2>5 DEF OwnerOf, s
    <2> QED BY <2>5, <2>6, SameProviders
  <1> QED BY <1>1, OwnersHold, SignInTypes, PTL
=============================================================================
