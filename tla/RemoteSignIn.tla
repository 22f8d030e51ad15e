---------------------------- MODULE RemoteSignIn ----------------------------
(***************************************************************************)
(* The sign-in through an identity provider: internal/authnz (router.go,   *)
(* authconfig/oidc.go, github.go, gitlab.go, authruntime, authsession) and *)
(* the check and the record of a sign-in in cmd/serve/http.go.             *)
(*                                                                         *)
(* A browser starts a sign-in (a cookie with a random state, nonce and     *)
(* verifier), signs in at the provider, and comes back with a state and a  *)
(* code.  The request that takes the callback redeems the code, reads the  *)
(* claims, checks that the subject is nobody else's, starts the session,   *)
(* remembers the user, and answers with the new cookie.  Requests of       *)
(* several browsers, or of several tabs of one, interleave at every call   *)
(* to the provider or the storage, and a crash may end one anywhere.  So   *)
(* do the requests that add a device, and those of an admin who deletes a  *)
(* user: their sessions, their devices and their users row, one after the  *)
(* other.                                                                  *)
(*                                                                         *)
(* The random strings of one sign-in are one member of Logins: state,      *)
(* nonce and verifier are fields that hold it or not.  What a provider     *)
(* knows of an account is its standing: the rights its claims, teams or    *)
(* organizations amount to, and its email address.  How the built-in       *)
(* providers establish who somebody is, is in the module SecondFactor;     *)
(* here they only enter at SetSession.                                     *)
(***************************************************************************)
EXTENDS Integers, FiniteSets

CONSTANTS
    Browsers, Requests, Accounts, Logins, Sids,
    Oidc,           \* names of the OIDC (and GitLab) providers
    Github,         \* names of the GitHub providers
    BuiltIn,        \* the names of basic and simple auth
    IDToken,        \* OIDC providers with claimsFromIDToken
    PKCE,           \* OIDC providers that announce S256
    EmailDomains,   \* OIDC providers restricted to email domains
    AccessClaim,    \* OIDC providers with an access claim
    Setups,         \* what the server may start with: the configured providers,
                    \* what they say of the accounts, who owns devices
    Subjects,
    SubjectOf,      \* [Providers -> [Accounts -> Subjects]]
    AdminUsername,  \* the subject that is the configured admin
    Standings,      \* what a provider may say of an account
    None,           \* no value; as a device's provider: not recorded
    MaxAge, MaxTime, MaxChanges, MaxRequests

Providers == Oidc \cup Github \cup BuiltIn

Rights == {"access", "admin"}
Emails == {"inside", "unstated", "unverified", "outside"}

ASSUME ProviderNames ==
    /\ Oidc \cap Github = {} /\ Oidc \cap BuiltIn = {} /\ Github \cap BuiltIn = {}
    /\ IDToken \subseteq Oidc /\ PKCE \subseteq Oidc
    /\ EmailDomains \subseteq Oidc /\ AccessClaim \subseteq Oidc
    /\ \A u \in Setups : /\ u.providers \subseteq Providers
                         /\ u.standing \in Standings
                         /\ u.owners \subseteq Providers \cup {None}
    /\ SubjectOf \in [Providers -> [Accounts -> Subjects]]
ASSUME StandingsAssumption ==
    Standings \subseteq [rights : SUBSET Rights, email : Emails]
ASSUME SignInBounds == MaxAge \in Nat \ {0} /\ MaxTime \in Nat /\ MaxChanges \in Nat /\ MaxRequests \in Nat

VARIABLES
    conf,       \* the configured providers
    now,
    standing,   \* what each provider says of each account
    changes,    \* how often that changed
    asked,      \* how many requests there have been
    held,       \* when an account last had a right at a provider
    logins,     \* the sign-ins started, and the code each one got
    cookie,     \* the cookie of each browser
    sessions,   \* the sessions in the storage, None where there is none
    users,      \* the provider of each users row, None where there is no row
    owners,     \* the providers the devices of a subject name
    req,        \* the requests being served
    overlap     \* subjects with a sign-in that overlapped another one or the
                \* deletion of the user, or that was not remembered

vars == <<conf, now, standing, changes, asked, held, logins, cookie, sessions, users,
          owners, req, overlap>>

Idle == [pc |-> "idle"]
NoCookie == [kind |-> "none"]

(***************************************************************************)
(* Initially nobody is signed in, and some devices may exist already, the  *)
(* ones from before devices named their provider included.                 *)
(***************************************************************************)
Init ==
    /\ \E u \in Setups :
           /\ conf = u.providers
           /\ standing = [p \in conf |-> [a \in Accounts |-> u.standing]]
           /\ owners = [s \in Subjects |-> u.owners]
    /\ now = 0
    /\ changes = 0 /\ asked = 0
    /\ held = [p \in conf |-> [a \in Accounts |->
                  [r \in Rights |-> IF r \in standing[p][a].rights THEN 0 ELSE None]]]
    /\ logins = [n \in Logins |-> None]
    /\ cookie = [b \in Browsers |-> NoCookie]
    /\ sessions = [i \in Sids |-> None]
    /\ users = [s \in Subjects |-> None]
    /\ req = [q \in Requests |-> Idle]
    /\ overlap = {}

Set(q, r) == req' = [req EXCEPT ![q] = r]
Finish(q) == Set(q, Idle)

\* The answer on its way to the browser: the cookie it sets.
Answer(q, b, c) == Set(q, [pc |-> "answer", b |-> b, set |-> c])

\* Whose a request or a session is.
SubjectIn(x) == SubjectOf[x.p][x.account]

\* A new request is taken.
Begin(q) == req[q].pc = "idle" /\ asked < MaxRequests /\ asked' = asked + 1

Expired(s) == now - s.created >= MaxAge

\* Manager.Identity: the session an id names, unless it ended or expired.
Live(i) == sessions[i] # None /\ ~ Expired(sessions[i])

\* authsession.SetSession and ClearSession end the session the cookie names,
\* if it can still be read.  A failure to end it is only logged.
Ends(c) ==
    IF c.kind = "session" /\ Live(c.id)
        THEN {sessions, [sessions EXCEPT ![c.id] = None]}
        ELSE {sessions}

----------------------------------------------------------------------------
(* What a browser asks for.                                                *)

\* loginHandler of OIDC and Invoke of GitHub: new random strings in the
\* cookie, in place of what was there, and a redirect to the provider.
OidcCookie(p, n) == [kind |-> "login", state |-> n, nonce |-> n,
                     verifier |-> IF p \in PKCE THEN n ELSE None]
GithubCookie(n) == [kind |-> "login", state |-> n, nonce |-> None, verifier |-> None]

Login(q, b, p) ==
    /\ Begin(q)
    /\ p \in conf \ BuiltIn
    /\ \E n \in Logins :
           /\ logins[n] = None
           /\ logins' = [logins EXCEPT ![n] =
                            [b |-> b, p |-> p, account |-> None, redeemed |-> FALSE]]
           /\ Answer(q, b, IF p \in Oidc THEN OidcCookie(p, n) ELSE GithubCookie(n))
    /\ sessions' \in Ends(cookie[b])
    /\ UNCHANGED <<conf, now, standing, changes, held, cookie, users, owners, overlap>>

\* Somebody signs in at the provider, which issues a code for this sign-in.
Authenticate(n, a) ==
    /\ logins[n] # None /\ logins[n].account = None
    /\ \E b \in Browsers : cookie[b].kind = "login" /\ cookie[b].state = n
    /\ logins' = [logins EXCEPT ![n].account = a]
    /\ UNCHANGED <<conf, now, standing, changes, asked, held, cookie, sessions, users, owners,
                   req, overlap>>

\* Mutant: any sign-in in progress will do.
StateOkUnchecked(c, state) == c.kind = "login"

\* The first checks of the callback: a sign-in in progress in this browser,
\* and the state it started with.  A request that fails them changes nothing.
StateOk(c, state) == c.kind = "login" /\ c.state = state

\* The provider issued a code for this sign-in.
Issued(n) == logins[n] # None /\ logins[n].account # None

\* A callback of provider p with a state and a code from any sign-in: a link
\* may be opened twice, in another browser, or after a newer sign-in began.
Callback(q, b, p, state, code) ==
    /\ Begin(q)
    /\ p \in conf \ BuiltIn
    /\ logins[state] # None
    /\ Issued(code)
    /\ StateOk(cookie[b], state)
    /\ Set(q, [pc |-> "exchange", b |-> b, p |-> p, cookie |-> cookie[b],
               state |-> state, code |-> code])
    /\ UNCHANGED <<conf, now, standing, changes, held, logins, cookie, sessions, users,
                   owners, overlap>>

\* The form of basic or simple auth, filled in correctly.
BuiltInSignIn(q, b, p, a) ==
    /\ Begin(q)
    /\ p \in conf \cap BuiltIn
    /\ Set(q, [pc |-> "check", b |-> b, p |-> p, cookie |-> cookie[b], state |-> None,
               code |-> None, account |-> a, standing |-> [rights |-> {}, email |-> "outside"]])
    /\ UNCHANGED <<conf, now, standing, changes, held, logins, cookie, sessions, users,
                   owners, overlap>>

\* POST /signout: the session ends before the cookie goes.
SignOut(q, b) ==
    /\ Begin(q)
    /\ cookie[b].kind # "none"
    /\ sessions' \in Ends(cookie[b])
    /\ Answer(q, b, NoCookie)
    /\ UNCHANGED <<conf, now, standing, changes, held, logins, cookie, users, owners,
                   overlap>>

----------------------------------------------------------------------------
(* The callback, one step per call it makes.                               *)

\* The token endpoint (external): a code works once, for its own provider,
\* and with the verifier its sign-in announced.
Redeemable(r) ==
    LET l == logins[r.code] IN
    /\ l.p = r.p
    /\ ~ l.redeemed
    /\ l.p \in PKCE => r.cookie.verifier = r.code

\* oauthConfig.Exchange.  The ID token carries the claims as they are now.
Exchange(q) ==
    LET r == req[q]
        a == logins[r.code].account IN
    /\ r.pc = "exchange"
    /\ Redeemable(r)
    /\ logins' = [logins EXCEPT ![r.code].redeemed = TRUE]
    /\ Set(q, [pc |-> "claims", b |-> r.b, p |-> r.p, cookie |-> r.cookie,
               state |-> r.state, code |-> r.code, account |-> a,
               standing |-> standing[r.p][a]])
    /\ UNCHANGED <<conf, now, standing, changes, asked, held, cookie, sessions, users, owners,
                   overlap>>

\* The nonce of the ID token is the one of the cookie.
NonceOk(r) == r.p \in IDToken => r.cookie.nonce = r.code

\* emailVerified and verifyEmailDomain: an address stated as unverified, or of
\* no configured domain, is refused; one nothing is stated of is not.
EmailOk(p, email) == p \in EmailDomains => email \in {"inside", "unstated"}

\* GithubConfig.allowed: in one of the users, teams or organizations.
Allowed(p, rights) == p \in Github => "access" \in rights

\* What the claims of the session will say: the claim mapping of OIDC; of
\* GitHub only whether the account is an admin.  The rules of the mapping are
\* evaluated in what a standing is: its rights are what they amount to, so the
\* mapping itself hands them on.  A rule that cannot be evaluated ends the
\* request (Abandoned); the policies it may yield are in no property.
ClaimMapping(rights) == rights
GithubClaims(rights) == rights \cap {"admin"}
Claims(p, rights) == IF p \in Oidc THEN ClaimMapping(rights) ELSE GithubClaims(rights)

\* The claims: of the ID token, or asked of the provider now (UserInfo, the
\* GitHub API).  A sign-in that is refused here leaves everything as it is.
ReadClaims(q) ==
    LET r == req[q]
        s == IF r.p \in IDToken THEN r.standing ELSE standing[r.p][r.account] IN
    /\ r.pc = "claims"
    /\ IF NonceOk(r) /\ EmailOk(r.p, s.email) /\ Allowed(r.p, s.rights)
           THEN Set(q, [r EXCEPT !.pc = "check", !.standing = s])
           ELSE Finish(q)
    /\ UNCHANGED <<conf, now, standing, changes, asked, held, logins, cookie, sessions, users,
                   owners, overlap>>

SameProvider(p, q) == p = q \/ {p, q} \subseteq BuiltIn

\* What is known of a subject admits a sign-in with this provider.
Admits(known, p) == \A k \in known \ {None} : SameProvider(k, p)

\* A request that acts for a subject and that no check sees: a sign-in between
\* the beginning of its check and its record, or a device about to be added.
Acting(o, s) == req[o].pc \in {"list", "create", "record", "add"} /\ SubjectIn(req[o]) = s
Unseen(q, s, p) == \E o \in Requests \ {q} : Acting(o, s) /\ ~ SameProvider(req[o].p, p)

\* checkLogin asks for the users row first.
Check(q) ==
    LET r == req[q]
        s == SubjectOf[r.p][r.account] IN
    /\ r.pc = "check"
    /\ IF users[s] = None \/ Admits({users[s]}, r.p)
           THEN /\ Set(q, [r EXCEPT !.pc = IF users[s] = None THEN "list" ELSE "create"])
                /\ overlap' = IF Unseen(q, s, r.p) THEN overlap \cup {s} ELSE overlap
           ELSE Finish(q) /\ UNCHANGED overlap
    /\ UNCHANGED <<conf, now, standing, changes, asked, held, logins, cookie, sessions, users,
                   owners>>

\* Mutant: the devices are not looked at.
DevicesIgnored(s) == {}

\* The providers that the devices of the subject name.
DeviceProviders(s) == owners[s]

\* Without a row, checkLogin lists the devices and goes by the providers they
\* name.
CheckDevices(q) ==
    LET r == req[q]
        s == SubjectOf[r.p][r.account] IN
    /\ r.pc = "list"
    /\ IF Admits(DeviceProviders(s), r.p) THEN Set(q, [r EXCEPT !.pc = "create"]) ELSE Finish(q)
    /\ UNCHANGED <<conf, now, standing, changes, asked, held, logins, cookie, sessions, users,
                   owners, overlap>>

\* An id is random: it is not one that a browser, or a request, still names.
Names(c, i) == c.kind = "session" /\ c.id = i
Unused(i) ==
    /\ \A b \in Browsers : ~ Names(cookie[b], i)
    /\ \A q \in Requests :
           /\ "cookie" \in DOMAIN req[q] => ~ Names(req[q].cookie, i)
           /\ "set" \in DOMAIN req[q] => ~ Names(req[q].set, i)

\* A request that deletes this user has ended the sessions there were.
Deleting(o, s) == req[o].pc \in {"devices", "forget"} /\ req[o].subject = s
BeingDeleted(s) == \E o \in Requests : Deleting(o, s)

\* authsession.SetSession: the session the cookie names ends, the new one is
\* written.  When that fails there is no new session, and the old is gone.
Create(q) ==
    LET r == req[q] IN
    /\ r.pc = "create"
    /\ \E ended \in Ends(r.cookie) :
        \/ \E i \in Sids :
               /\ ended[i] = None
               /\ Unused(i)
               /\ sessions' = [ended EXCEPT ![i] =
                      [p |-> r.p, account |-> r.account, rights |-> Claims(r.p, r.standing.rights),
                       created |-> now, b |-> r.b, state |-> r.state, code |-> r.code]]
               /\ Set(q, [r EXCEPT !.pc = "record", !.cookie = [kind |-> "session", id |-> i]])
               /\ overlap' = IF BeingDeleted(SubjectIn(r)) THEN overlap \cup {SubjectIn(r)}
                                                           ELSE overlap
        \/ sessions' = ended /\ Finish(q) /\ UNCHANGED overlap
    /\ UNCHANGED <<conf, now, standing, changes, asked, held, logins, cookie, users, owners>>

\* recordLogin: the users row is written, or the failure logged.  The sign-in
\* goes on either way.
Record(q) ==
    LET r == req[q]
        s == SubjectOf[r.p][r.account] IN
    /\ r.pc = "record"
    /\ \/ users' = [users EXCEPT ![s] = r.p] /\ UNCHANGED overlap
       \/ overlap' = overlap \cup {s} /\ UNCHANGED users
    /\ Answer(q, r.b, r.cookie)
    /\ UNCHANGED <<conf, now, standing, changes, asked, held, logins, cookie, sessions, owners>>

\* The answer reaches the browser, whatever others did so in the meantime.
Delivered(q) ==
    /\ req[q].pc = "answer"
    /\ cookie' = [cookie EXCEPT ![req[q].b] = req[q].set]
    /\ Finish(q)
    /\ UNCHANGED <<conf, now, standing, changes, asked, held, logins, sessions, users, owners,
                   overlap>>

\* The request ends early: the provider or the storage fails, the answer is
\* lost, or the replica crashes.
Abandoned(q) ==
    /\ req[q].pc # "idle"
    /\ Finish(q)
    /\ overlap' = IF req[q].pc = "record"
                      THEN overlap \cup {SubjectOf[req[q].p][req[q].account]}
                      ELSE overlap
    /\ UNCHANGED <<conf, now, standing, changes, asked, held, logins, cookie, sessions, users,
                   owners>>

----------------------------------------------------------------------------
(* A signed-in browser.                                                    *)

\* Mutant: the name is enough, whatever the provider.
ElevatedByName(p, s) == s = AdminUsername

\* ClaimsMiddleware: the configured admin name counts for basic and simple
\* auth only; an OIDC provider with an access claim demands it every time.
Elevated(p, s) == p \in BuiltIn /\ s = AdminUsername
RightsOf(x) ==
    x.rights \cup (IF Elevated(x.p, SubjectOf[x.p][x.account]) THEN {"admin"} ELSE {})
HasAccess(x) == x.p \in AccessClaim => "access" \in x.rights

\* Middleware and RequireAuthentication let a request of this browser through.
Served(b) ==
    cookie[b].kind = "session" /\ Live(cookie[b].id) /\ HasAccess(sessions[cookie[b].id])

\* A request that will add a device; it has read whose session this is.
Serve(q, b) ==
    /\ req[q].pc = "idle"
    /\ Served(b)
    /\ LET x == sessions[cookie[b].id]
       IN  Set(q, [pc |-> "add", p |-> x.p, account |-> x.account])
    /\ UNCHANGED <<conf, now, standing, changes, asked, held, logins, cookie, sessions, users,
                   owners, overlap>>

\* AddDevice: the device names the provider of its owner, whether or not the
\* session, the users row or the owner's other devices are still there.
AddDevice(q) ==
    LET r == req[q] IN
    /\ r.pc = "add"
    /\ owners' = [owners EXCEPT ![SubjectIn(r)] = @ \cup {r.p}]
    /\ Finish(q)
    /\ UNCHANGED <<conf, now, standing, changes, asked, held, logins, cookie, sessions, users,
                   overlap>>

\* The last device that names this provider goes: deleted by its owner or an
\* admin, or unused for too long.
DeleteDevice(s, k) ==
    /\ k \in owners[s]
    /\ owners' = [owners EXCEPT ![s] = @ \ {k}]
    /\ UNCHANGED <<conf, now, standing, changes, asked, held, logins, cookie, sessions, users,
                   req, overlap>>

----------------------------------------------------------------------------
(* DeleteUser of the API, which an admin calls (anybody: an admin need not *)
(* be one of Accounts).  The API tokens go first; they are in the module   *)
(* WebAccess.  A step that fails ends the request (Abandoned).             *)

\* EndAllForOwner: one statement, for the sessions there are.
EndAllForOwner(s) ==
    [i \in Sids |-> IF sessions[i] # None /\ SubjectIn(sessions[i]) = s THEN None
                                                                     ELSE sessions[i]]

DeleteUser(q, s) ==
    /\ Begin(q)
    /\ sessions' = EndAllForOwner(s)
    /\ Set(q, [pc |-> "devices", subject |-> s])
    /\ UNCHANGED <<conf, now, standing, changes, held, logins, cookie, users, owners, overlap>>

\* The devices of the user, in one transaction that lists them and then deletes
\* each by its name: one that is renamed in between stays.
DeleteDevicesForUser(q) ==
    LET r == req[q] IN
    /\ r.pc = "devices"
    /\ \E kept \in SUBSET owners[r.subject] : owners' = [owners EXCEPT ![r.subject] = kept]
    /\ Set(q, [r EXCEPT !.pc = "forget"])
    /\ UNCHANGED <<conf, now, standing, changes, asked, held, logins, cookie, sessions, users,
                   overlap>>

\* Somebody is still signed in under this subject, or about to be, or about
\* to add a device.
Lingers(s) ==
    \/ \E i \in Sids : sessions[i] # None /\ SubjectIn(sessions[i]) = s
    \/ \E o \in Requests : Acting(o, s)

\* The users row goes last.  With nobody left under the subject the next
\* sign-in is checked against the devices that are left alone.
ForgetUser(q) ==
    LET s == req[q].subject IN
    /\ req[q].pc = "forget"
    /\ users' = [users EXCEPT ![s] = None]
    /\ overlap' = IF Lingers(s) THEN overlap ELSE overlap \ {s}
    /\ Finish(q)
    /\ UNCHANGED <<conf, now, standing, changes, asked, held, logins, cookie, sessions, owners>>

----------------------------------------------------------------------------
(* The world around.                                                       *)

\* The provider says something else of an account.
Regrant(p, a) ==
    /\ changes < MaxChanges
    /\ p \in conf \ BuiltIn
    /\ \E s \in Standings \ {standing[p][a]} :
           /\ standing' = [standing EXCEPT ![p][a] = s]
           /\ held' = [held EXCEPT ![p][a] =
                          [r \in Rights |-> IF r \in s.rights \cup standing[p][a].rights
                                                THEN now ELSE @[r]]]
    /\ changes' = changes + 1
    /\ UNCHANGED <<conf, now, asked, logins, cookie, sessions, users, owners, req, overlap>>

\* Time passes in units of a session's life, between requests only: a request
\* is over in a moment of that scale.
Tick ==
    /\ now < MaxTime
    /\ \A q \in Requests : req[q].pc = "idle"
    /\ now' = now + 1
    /\ held' = [p \in conf |-> [a \in Accounts |-> [r \in Rights |->
                   IF r \in standing[p][a].rights THEN now + 1 ELSE held[p][a][r]]]]
    /\ UNCHANGED <<conf, standing, changes, asked, logins, cookie, sessions, users, owners, req,
                   overlap>>

Next ==
    \/ \E q \in Requests, b \in Browsers :
           \/ SignOut(q, b) \/ Serve(q, b)
           \/ \E p \in Providers : Login(q, b, p)
           \/ \E p \in Providers, a \in Accounts : BuiltInSignIn(q, b, p, a)
           \/ \E p \in Providers, state, code \in Logins : Callback(q, b, p, state, code)
    \/ \E q \in Requests :
           \/ Exchange(q) \/ ReadClaims(q) \/ Check(q) \/ CheckDevices(q) \/ Create(q)
           \/ Record(q) \/ Delivered(q) \/ Abandoned(q)
           \/ AddDevice(q) \/ DeleteDevicesForUser(q) \/ ForgetUser(q)
    \/ \E q \in Requests, s \in Subjects : DeleteUser(q, s)
    \/ \E s \in Subjects, k \in Providers \cup {None} : DeleteDevice(s, k)
    \/ \E n \in Logins, a \in Accounts : Authenticate(n, a)
    \/ \E p \in Providers, a \in Accounts : Regrant(p, a)
    \/ Tick

Spec == Init /\ [][Next]_vars

----------------------------------------------------------------------------
LoginCookie == [kind : {"login"}, state : Logins, nonce : Logins \cup {None},
                verifier : Logins \cup {None}]
SessionCookie == [kind : {"session"}, id : Sids]
Cookie == {NoCookie} \cup LoginCookie \cup SessionCookie
Standing == [rights : SUBSET Rights, email : Emails]
Started == [b : Browsers, p : Providers, account : Accounts \cup {None}, redeemed : BOOLEAN]
Session == [p : Providers, account : Accounts, rights : SUBSET Rights, created : 0 .. MaxTime,
            b : Browsers, state : Logins \cup {None}, code : Logins \cup {None}]

\* A request with its code, one that knows whose sign-in it is, an answer, a
\* device to be added, and a user being deleted.
Exchanging == [pc : {"exchange"}, b : Browsers, p : Providers, cookie : LoginCookie,
               state : Logins, code : Logins]
Knowing == [pc : {"claims", "check", "list", "create", "record"}, b : Browsers, p : Providers,
            cookie : Cookie, state : Logins \cup {None}, code : Logins \cup {None},
            account : Accounts, standing : Standing]
Answering == [pc : {"answer"}, b : Browsers, set : Cookie]
Adding == [pc : {"add"}, p : Providers, account : Accounts]
Removing == [pc : {"devices", "forget"}, subject : Subjects]

\* None is told apart from every value.
ASSUME NoneAssumption ==
    /\ None \notin Logins /\ None \notin Accounts /\ None \notin Providers /\ None \notin Nat
    /\ None \notin Started /\ None \notin Session

\* The state of the sign-in is well formed; above all a callback past its
\* checks came with a sign-in in progress, so it never has a session to end,
\* and a session is only ever started for a configured provider.
SignInTypeOK ==
    /\ conf \subseteq Providers /\ now \in 0 .. MaxTime /\ changes \in 0 .. MaxChanges
    /\ asked \in 0 .. MaxRequests
    /\ standing \in [conf -> [Accounts -> Standings]]
    /\ held \in [conf -> [Accounts -> [Rights -> Nat \cup {None}]]]
    /\ logins \in [Logins -> Started \cup {None}]
    /\ cookie \in [Browsers -> Cookie]
    /\ sessions \in [Sids -> Session \cup {None}]
    /\ users \in [Subjects -> Providers \cup {None}]
    /\ owners \in [Subjects -> SUBSET (Providers \cup {None})]
    /\ req \in [Requests -> {Idle} \cup Exchanging \cup Knowing \cup Answering
                              \cup Adding \cup Removing]
    /\ \A q \in Requests :
           req[q].pc \in {"exchange", "claims", "check", "list", "create", "record"} =>
               /\ req[q].p \in conf
               /\ req[q].pc # "record" /\ req[q].p \notin BuiltIn => req[q].cookie \in LoginCookie
               /\ req[q].pc \in {"exchange", "claims"} => req[q].p \notin BuiltIn
               /\ req[q].pc = "exchange" => Issued(req[q].code)
               /\ req[q].pc = "record" => req[q].cookie \in SessionCookie
    /\ \A i \in Sids : sessions[i] # None => sessions[i].p \in conf
    /\ overlap \subseteq Subjects

\* Whether a provider ties its codes to the sign-in they were issued for: by
\* the nonce of an ID token or by PKCE.
BindsCodes(p) == p \in IDToken \cup PKCE

\* A session belongs to the sign-in its own browser started: the state came
\* from there, and so did the code - wherever the provider ties the code to
\* the sign-in, and otherwise when state and code arrive as they were sent.
\* (oidc.go: "PKCE binds the code to this browser"; the state "ties the
\* answer to the sign-in this browser started", github.go.)
OwnSignIn ==
    \A i \in Sids : sessions[i] # None /\ sessions[i].code # None =>
        LET x == sessions[i] IN
        BindsCodes(x.p) \/ x.state = x.code =>
            /\ logins[x.code].b = x.b
            /\ logins[x.code].p = x.p
            /\ logins[x.code].account = x.account

Named(i) == Live(i) /\ \E b \in Browsers : cookie[b].kind = "session" /\ cookie[b].id = i

\* Two providers that hand out the same subject do not make two people one:
\* a browser that is signed in finds no device, and no other signed-in
\* browser, of another provider under its subject (checkLogin), although
\* users are deleted and their identifier is used again.  Three races are
\* excepted, from when they happen until the user is deleted with nobody left
\* under the subject (overlap): a sign-in began its check while one of another
\* provider was between check and record, or about to add a device; a sign-in
\* was not remembered; a session began while the user was being deleted, after
\* DeleteUser had ended the sessions and before it removed the row.  Devices
\* that API tokens add are outside this module.
OneOwner ==
    \A i \in Sids : Named(i) =>
        LET s == SubjectOf[sessions[i].p][sessions[i].account]
            others == {sessions[j].p : j \in {j \in Sids :
                          Named(j) /\ SubjectOf[sessions[j].p][sessions[j].account] = s}} IN
        s \in overlap \/ \A k \in (owners[s] \ {None}) \cup others : SameProvider(k, sessions[i].p)

RecentlyHeld(p, a, r) == held[p][a][r] # None /\ now - held[p][a][r] < MaxAge

\* What a provider takes away is gone within the life of a session: a request
\* is let through only with rights, and only with the access, that the
\* account had at its provider less than MaxAge before; only the configured
\* admin of the built-in sign-in needs none (router.go, DefaultSessionMaxAge).
\* This is of browser sessions: an API token keeps the claims of the session
\* that made it for as long as it lives (docs/auth.md, "Changes at the identity
\* provider do not reach a token").
RevokedInTime ==
    \A b \in Browsers : Served(b) =>
        LET x == sessions[cookie[b].id]
            needed == RightsOf(x) \cup
                (IF x.p \in AccessClaim \cup Github THEN {"access"} ELSE {}) IN
        \A r \in needed :
            \/ r = "admin" /\ x.p \in BuiltIn /\ SubjectOf[x.p][x.account] = AdminUsername
            \/ RecentlyHeld(x.p, x.account, r)

=============================================================================
