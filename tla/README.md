# wg-access-server in TLA+

Models of the parts of wg-access-server that are hard to test - requests of
several replicas on one table, WireGuard interfaces, firewall rules and a DNS zone
that follow that table, traffic that is counted by several processes, databases
that are migrated while servers start, sessions and tokens that are revoked while
they are in use, sign-ins that are answered late, twice or in the wrong browser -
with TLC runs on small instances, a refinement, and TLAPS proofs for every
instance.

## The system

| Component | State it keeps | Operations | What makes it correct |
|---|---|---|---|
| Device manager (`internal/devices`) | none of its own: the `devices` table | add, rename, set routes, rotate key, set access, delete, block or delete for an owner | no address, name, key or routed network is given out twice; the limit per user holds |
| Allocation lock (`storage/allocation_lock.go`) | a mutex per process, a named lock in Postgres or MySQL | acquire with a timeout, release, discard the connection | at most one holder over all replicas; never left behind |
| Peer synchronization (`devices.go` StartSync/sync, `access.go`) | the peers of the interface, a one-element channel | callbacks of events, `resyncLoop`, `accessLoop`, first sync | the interface carries what the table says; a blocked device has no peer |
| Storage watchers (`gormwatcher.go`, `pgwatcher.go`) | callbacks; a listening connection; a trigger | report adds, updates, deletes, reconnects | every change leads to an event or a resync in every process that needs it |
| SQL storage (`storage/sql.go`) | tables | one or a few statements per call | each call keeps its promise when calls interleave |
| Traffic metadata, inactive devices (`metadata.go`, `inactive.go`) | last counters of each peer | observe, record, delete after a grace period | traffic is counted once; an active device is never deleted, an inactive one is |
| Firewall state (`routes.go`), rules (`internal/network`) | state last handed over; the tables of the kernel | recompute, hand over, replace | a device reaches what its policies give it, and never more |
| DNS proxy and zone (`internal/dnsproxy`, `cmd/serve/dns.go`) | zone, cache, who failed when | rebuild, look up, ask upstreams | the zone follows the table; the cache serves nobody a wrong answer |
| Built-in sign-in (`internal/users`, `authconfig/simple.go`) | failed attempts, last one-time step, challenges | password, second factor, passkey, throttle | a code or challenge counts once; limits hold |
| Sign-in through a provider (`authconfig/oidc.go`, `github.go`, `cmd/serve/http.go`) | cookies, sessions, the provider of each user | login, callback, check, record | a session comes from the sign-in its browser began; one subject is one person |
| Web sessions, API tokens, `api` services | session and token tables | create, list, end, revoke a user | revoked access stays revoked |
| Migrations (`storage/migrations.go`), `cmd/migrate` | the schema and its record, the schema lock | migrate at start, copy a storage | concurrent starts and half-done migrations end well; a copy is whole |

Components interact in three ways. Requests share the database, and each SQL
statement is atomic but a request is several of them. A write reaches the
interface, the firewall and the zone of the same process through gorm's callbacks
and, on Postgres, every replica through a trigger and `NOTIFY`. Background loops
(`resyncLoop`, `accessLoop`, the zone updater, the metadata and inactive loops)
read the table and act on what they read some time later. The hard behaviours all
come from there: stale reads, overlapping synchronizations, lost notifications,
lock timeouts racing the grant, and processes that end between two steps.
`PROJECT.json` lists them as hazards, each at its line and with the properties
that would catch it.

## Modules

| Module | Models |
|---|---|
| `DeviceAllocation` | the table of devices and the requests that change it, for any number of replicas |
| `DeviceTable` | the abstract specification of that table: every operation happens at once |
| `DeviceAllocationRefines` | the refinement mapping from the first to the second |
| `DeviceAllocationProofs` | the theorems about the first, and about the refinement |
| `PeerSync` | how the interfaces follow the table |
| `Firewall` | the forwarding rules, and how they follow the table and the users |
| `Traffic` | what replicas record of traffic, and what they delete by it |
| `Dns` | the zone that follows the table; the proxy with its cache |
| `Schema` | opening the database: lock, migrations, trigger; copying a storage |
| `WebAccess` | the sessions and tokens of a user and how they are taken away |
| `SecondFactor` | what the built-in sign-in asks for besides the password |
| `RemoteSignIn` | the sign-in through OIDC, GitLab or GitHub beside the built-in one, while devices and users come and go |

Each has an `MC` module with the instances for TLC, and all but `Traffic` have a
module of theorems, `PeerSyncProofs` and so on. The modules meet where the code
does, and what one leaves abstract another has: the allocation lock is a single
step in `PeerSync` and its inside is `DeviceAllocation`; the synchronizations of
`Firewall` are those of `PeerSync` with the work on the peers left out; the peers
of `Traffic` follow the rows as `PeerSync` shows they do; the trigger that
`PeerSync` and `Dns` hear from is `Schema`'s; the sign-in is a step of `WebAccess`
(`SignIn`), and what comes before it is `SecondFactor` or `RemoteSignIn`; adding or
blocking a device is a step of `WebAccess`.

### DeviceAllocation and DeviceTable

| State | Code |
|---|---|
| `devices` | the `devices` table, by primary key (owner, name) |
| `mutex` | `SQLStorage.allocationMu` of each process |
| `dbLock` | the session that holds the named lock of the database |
| `pc`, `req` | where each handler is and in which request |
| `addr`, `existing`, `listed` | `clientAddr`, the count in `Save`, the rows `DeleteForOwner` listed |
| `dropped` | history: a session was lost while it held the lock |

An action is one statement, lock operation or failure: `AddList`, `AddAddresses`,
`AddCount`, `AddWrite` are `addDeviceLocked` and `Save`; `RenameGet/List/Write`,
`RoutesGet/Check/Write`, `RotateGet/Check/Write`, `DeleteGet/Write`,
`OwnerList/Delete` likewise. `QueryFails` is any statement that fails and takes
the error path, by way of the deferred unlock; `Crash` ends a process.
`GrantDbLock` is the database giving the lock to a session that asked for it,
whether or not its handler still waits.

Addresses are offsets into a subnet: 0 is the network, 1 the server. The walk of
`nextClientAddressLocked` is "the least free offset", and `Contains` the upper
bound `Size - 1`: like the code, it hands out the IPv4 broadcast address. A
routed network is the set of points it contains, so overlap is intersection.
The text form of addresses, keys and routes is left out.

`DeviceTable` is what the comments of the `Storage` interface
(`storage/contracts.go`) promise: a device is added with an address, a name and a
key nobody has at that moment, renamed without losing anything, and so on, each
at once. `ImplementsTable` says that every write of `DeviceAllocation`, at the end
of several statements, is such an operation in the state it happens in, with
`table <- devices` and `lost <- dropped`: once a session that held the lock is
lost, what is promised is only what the database enforces by itself (the primary
key and the unique index on the key).

Left out on purpose: a statement that commits although it reports a failure; a
MySQL update that matches a row and changes nothing, which the code takes for a
row that is gone; the failure to reserve a connection is the same as a failure
to acquire (`AcquireFails`). A device's access fields are in `PeerSync`.

### PeerSync

| State | Code |
|---|---|
| `backend`, `on` | the deployment: which watcher, and where the handlers run |
| `rows`, `lock` | the table; the allocation lock (its inside is `DeviceAllocation`) |
| `pc`, `job`, `copy`, `queue` | a request: the rows it read, the events whose callbacks it still runs |
| `peers` | the peers of each replica's interface (external, through `wgembed`) |
| `resync` | whether the channel `d.resync` is full |
| `sync` | the first synchronization (`boot`) and the one of `resyncLoop` (`loop`) |
| `access` | the pass of `accessLoop` |
| `notes`, `connected` | notifications on their way, the state of the listener |
| `raced` | history: a write met a stale reader that asks for no resync |

A request is a read step, a write step, one step per callback, and for a key
rotation two calls to the interface. A synchronization lists the devices, lists
the peers, and then makes one call per step, removals before additions. With
`"gorm"` (SQLite and MySQL) events run in the writing process and carry the copy
of the row that was read; with `"postgres"` every change is a notification
without a row, which asks for a resync, and may be lost with the connection. A
call to the interface may fail (`MaxFails`), a replica may restart with a new
interface (`MaxRestarts`).

A peer's allowed IPs are one value, and a public key stands for the pair with its
pre-shared key. `MaxNotes` merges notifications: what exceeds it is taken for one
with the last, which is what the one-element channel does with them anyway.
Requests that are refused change nothing and are not modelled here; the sign-in
that writes the users table only adds resyncs. Failing to list the devices in an
access pass is the same as not making that pass.

Three stale readers act without asking for a resync afterwards: the first
synchronization (`resyncLoop` is started before it, so the two overlap and the
older list may act last), the access pass, which removes the peer of a device
that has been allowed again since it was listed, and the end of a key rotation,
which applies its copy of a device that was deleted or blocked meanwhile. `raced`
records that a write happened during one of them, and `PeersFollow` is about
everything else: with the clause dropped TLC finds all three.

`PeerAssumption` has all handlers of a `"gorm"` deployment on one replica, as
`docs/storage.md:10` says of SQLite and MySQL: another process on the same database
would hear of nothing, and `PeersFollow` does not hold there.

### Firewall

| State | Code |
|---|---|
| `conf` | the configuration of the running process (backend, families, NAT, gateway, isolation, policies) |
| `rows`, `groups`, `now` | the devices table, the policies in the users table, the clock that expiry dates meet |
| `ipt`, `nft` | the kernel: the chains of each family, the table of nftables (external) |
| `proc`, `event`, `resync`, `sync` | the process, and the synchronizations of `PeerSync` |
| `mu`, `cmds`, `applied` | `firewallMu`, what is left of the commands under it, `d.firewall` |
| `behind`, `half` | history: the last synchronization failed or was overtaken; an iptables update stopped in the middle |

`RulesOf` builds the rules of a family in the order of the code: isolation, the
policies (server, the networks of each policy with their answers, reject for
members), then the open rules. Neighbours that all accept are a set of rules put
into some order (`SetToSeq`), for that order decides nothing. nftables has the rules
of both families in one chain; as a rule of one family matches no packet of the
other, `nft` has a list per family. `Commands` makes one transaction of them for nftables and a list
of commands for iptables; `RunCommand` and `CommandFails` execute it one by one.
`RemoveOther` takes out what the other backend left. `Start` installs the rules
without anything of the tables before the first synchronization. A place is a
host in a family, a network a set of places, and the first rule that matches a
packet decides. What `MayReach` says a device may reach is the reference definition:
it looks at the configuration and the tables only, never at the order of rules.
Between clients that are not isolated more may pass than it says (`RulesExact`): where
there is no NAT, the rule that lets the answers of a network back does not ask who
began, and the network may contain a client.

`FirewallAssumption` says what the configuration check guarantees (policies need
nftables), that there are finitely many networks and policies, and that the server,
the devices and the other hosts have different addresses.

### Traffic

| State | Code |
|---|---|
| `rows` | key, creation, last handshake, bytes and block of each device |
| `peers`, `last` | the counters of each replica's interface; `trafficTracker.last` |
| `meta` | the pass of `syncMetrics`: updates to write, rows its transaction has locked |
| `pass` | the pass of `checkAndRemove`: the devices left to delete |
| `unseen`, `sent`, `gone`, `lossy`, `used` | history, for the properties |

`CollectMetadata` lists the peers and advances the tracker; `RecordUpdate` is one
`UPDATE` of the transaction, which locks its row; `CommitMetadata` adds in the
database. `RecordFails` is a transaction that is rolled back, by an error or by
the database when two of them wait for each other's rows. `ListInactive` and
`DeleteInactive` are the other loop. One unit of the clock is one interval, and
`Tick` waits until the loops have run: they keep up with their tickers. Received
and transmitted bytes are treated alike, so one counter stands for both. Restoring
a peer after a restart is `AddPeer`, in any order with the loops.

### Dns

| State | Code |
|---|---|
| `table`, `note` | the devices, and a change on its way to the callbacks |
| `updater`, `changed`, `quit` | `startDNS` and then the goroutine of `zoneUpdater`, its slot, its end |
| `listed`, `zone` | the zone being built, `DNSAuth.zone` |
| `cache`, `failedAt`, `handler` | the cache, the upstreams that failed, the queries under way |
| `stale`, `answer` | history: a change nobody heard or a failed list; the last answer |

A name is the sequence of its labels, compared in lower case; when two names
differ in their case only, the order of a Go map decides (`ZonesOf` is the set of
outcomes). `Lookup` takes the last two labels, so owners and devices with a dot in
their name are not found, which `DevicesFound` leaves out. A response names the
question and the network it was given for, its least TTL and whether it is cut;
`PurgeECS` takes the client's network out of what upstreams see. The two lists of
`orderedUpstreams` are sets of places in the configured list, from which the least
is taken (`IsNext`): both keep the configured order.

### Schema

| State | Code |
|---|---|
| `backend` | Postgres, MySQL or SQLite |
| `schema`, `applied` | the parts of the schema; the rows of `schema_migrations` |
| `lock`, `trigger` | the schema lock; the trigger that reports updates |
| `process` | a server of some version, or a copying command: its step, what it found applied, what is left of a migration, what its transaction holds |
| `dest` | what the destination of a copy holds |
| `lost`, `collided`, `cutOff`, `copied` | history |

A migration is a sequence of parts, which `Look` passes over when they are there
and `Alter` adds: at once on MySQL, in the transaction of the migration elsewhere.
What is missing is a set, and the next part is the one that comes first in the
migration (`Foremost`).
`DropTrigger` and `CreateTrigger` are `attachUpdateTrigger`, in the lock. `Crash`,
`LoseLock` and `AcquireTimesOut` are the failures. SQLite is opened by one process
at a time and has no lock. `CopyItem` is `copyAll`, in its order.

### WebAccess

| State | Code |
|---|---|
| `sessions`, `tokens` | the rows of the two tables that belong to the user |
| `issued` | the ids handed out; they are random, so never one twice |
| `expired` | the rows whose date has passed |
| `devices`, `userRow` | the access of each device; the row of the users table |
| `request` | a request: its session or token, and the steps it has still to take |
| `madeBy`, `late`, `cut` | history: through what a token or device was made, whether that was gone by then, what each operation took away |

`Authenticate` is the middlewares: the row is read once, when the request
arrives, and the request acts later. `Touch` writes the time of the last use.
`CreateToken`, `AddDevice`, `DeleteSession`, `DeleteToken` are what it asks for;
`Refuse` is every answer that changes nothing. `DeleteOtherSessions`,
`ChangePassword`, `FindSession`, `ListOthers`, `EndOther` and
`DeleteTokensForOwner` are `DeleteOtherSessions` and the `signOutElsewhere` of
`ChangePassword`; `StartAdmin`, `DeleteTokensForOwner`, `EndAllForOwner`,
`TakeDevices`, `ForgetUser` are `RevokeAccess` and `DeleteUser`, in the order `Steps`
gives. `SignIn`, `EndPrevious`, `CreateSession`, `RecordLogin`, `SignOut` and
`Cleanup` are the rest of a session's life. `StorageFails` is a call that fails, and
`AfterError` what the code goes on with.

One user is enough, since every statement names the owner; the admin is
somebody else. Whoever has authenticated may still act once after the row is
gone: the properties leave out exactly what was made that way (`late`). The
lookup before a single row is deleted is one step with the deletion, because the
owner of an id never changes.

### SecondFactor

| State | Code |
|---|---|
| `user` | the row of the users table: the TOTP columns and the challenge |
| `passkeys` | the table, by id: the sign count |
| `mu`, `challengeMu` | `TwoFactor.mu`, `Passkeys.challengeMu` of each process |
| `wrong` | the attempts counted by `beginSecondFactor` and `Passwords.attempt` |
| `request`, `pending` | a request; until when the cookie of a password step counts |
| `clock` | the time in steps of thirty seconds |
| `ops` | which operations the behaviour uses, chosen at the start |
| `issued`, `asked`, `answers` | what was handed out, and what authenticators signed |
| `guesses`, `used`, `reused`, `retired`, `alone` | history, for the properties |

The password step is `SubmitPassword`, `HasPasskey`, `CodesEnabled`, each a read that
may fail; the second step is `GiveCode` or `FinishWithPasskey`, which reserve an
attempt. `StartTwoFactor`, `ConfirmTwoFactor`, `NewRecoveryCodes`, and `Check` for
a sign-in read under the mutex (`ReadUnderLock`), compute what to write (`Edits`) and
write all columns (`WriteTotp`); `ClearTotp` and `ResetTwoFactor` write the empty
state. A passkey exchange is `BeginRegistration` or `BeginLogin`, an answer,
`TakeChallenge`, `ClearChallenge`, and the write of the new key or of its count.
`DeleteUser` is the storage's.

A code of the app is a secret and a time step, so two codes never coincide; a
recovery code is a value; an authenticator's answer names its challenge, its
credential and its count. The growing delays of the throttle, the names of
passkeys and the expiry of a challenge are left out. That a record of wrong
answers is old enough to be forgotten may be the case at any attempt. Three
things the model shows and no property speaks of: the code that confirms an
enrolment signs in once more, since no step is remembered for it; `DeleteUser`
takes no mutex, so a request between its read and its write puts the second
factor into the row that the next sign-in makes; and a registration under way
adds its passkey after the user is gone. HTTP basic authentication is the
password step with a refusal where that would ask for a code.

### RemoteSignIn

| State | Code |
|---|---|
| `conf`, `standing` | the configured providers, and what each says of an account (external) |
| `logins` | the sign-ins started, by their random state, nonce and verifier, and the code each got |
| `cookie`, `sessions` | the cookie of each browser, the session rows |
| `users`, `owners` | the provider in a users row; the providers the devices of a subject name |
| `req` | a request and the answer on its way to its browser |
| `held`, `overlap` | history: when an account last had a right; subjects with a sign-in that overlapped another one or the deletion of its user, or that was not recorded |

`Login` sets the cookie of a sign-in, `Callback` compares the state, `Exchange`
redeems the code, `ReadClaims` checks nonce, email domain, teams and claims,
`Check` and `CheckDevices` are the two reads of `checkLogin`, `Create` ends the old
session and writes the new one, `Record` is `recordLogin`, and `Delivered` brings the
cookie to the browser, after whatever other answers did. `Abandoned` is a failure at
any of these. A callback may carry the state and the code of any sign-in. The id of a
session is random: a new one is never one that some cookie still names (`Unused`).
The expressions of a claim mapping are evaluated in what a provider says of an account
(`standing`), which is an input; one that cannot be evaluated is an `Abandoned`, and the
policies they yield are in no property.

`Serve` is a request of a signed-in browser that will add a device, and `AddDevice`
what comes of it, by then perhaps without a session or a user; `DeleteDevice` is a
device that goes for whatever reason. `DeleteUser`, `DeleteDevicesForUser` and
`ForgetUser` are the deletion of a user by an admin, who need not be one of the
accounts: the sessions end, the devices go (but for one that is renamed meanwhile), the
users row goes, and every other request may come in between. Any two providers may hand
out the same subject, two entries for github.com included; in the run all of them do.

`OneOwner` names three exceptions, and the run needs each of them: without it TLC finds
the race in question. A sign-in begins its check while one of another provider is
between its own check and its record, or a request of another provider is about to add
a device; a sign-in could not be recorded; a session begins after `DeleteUser` ended
the sessions and before it removed the row. A subject stays excepted until it is
deleted with nobody left under it.

## Runs

| Run | Instance | States, time | Shows |
|---|---|---|---|
| `AllocationReplicas` | 2 replicas, a handler each, 2 owners, 2 names, 2 keys, 4 addresses (2 for clients), limit 1, database lock | 746k, 45 s | `LockExclusion`, `AddressesUniqueUnderLock`, `QuotaHeld`, `NoStrayLock` |
| `AllocationRoutes` | 1 process, 2 handlers, 1 owner, both families, 3 networks of which two overlap and one contains a point of the VPN | 409k, 40 s | `TypeOK`, `AddressesUsable`, `RoutesDisjoint`, `ImplementsTable` |
| `AllocationFinish` | 2 replicas, lost sessions, 1 key, fair | 86k, 40 s | `RequestsFinish`, `ImplementsTable` |
| `PeersInSync` | 1 gorm process with 2 handlers, 2 devices, 2 keys (add, rename, access, rotate, block and delete for the owner); or 2 Postgres replicas, 1 device, 2 configurations, disconnects (add, routes, delete) | 2.25M, 150 s | `PeersFollow` |
| `PeersEventually` | 1 gorm process, a clock, a failing call, a restart, fair | 447k, 115 s | `BlockedLosesPeer`, `EventuallyInSync` |
| `FirewallRules` | nftables with 2 policies and both families, with isolation and NAT for one, or without both and with an unknown gateway; or iptables with one family; 2 devices, 5 networks, up to 2 changes, a failure, a second start | 530k, 50 s | `RulesFollow`, `NeverOpen`, `AnswersReturn` |
| `TrafficCounted` | 2 replicas, 1 device, 1 key, 4 events, 6 intervals, grace period 4 | 1.15M, 140 s | `CountedOnce`, `ActiveStay`, `InactiveGo` |
| `DnsAnswers` | 3 devices (two names alike but for their case, one owner with a dot), 3 changes; 2 queries of 2 questions, 2 upstreams, a cache of 1 | 945k, 140 s | `DevicesFound`, `ZoneCatchesUp`, `AnswersFresh`, `AnswersForAll`, `EveryUpstreamAsked` |
| `SchemaChanges` | a server of an old and one of a new version and a copying command, 3 migrations, 4 starts, 2 faults, all backends | 487k, 16 s | `RecordedIsThere`, `TakeTurns`, `UpdatesReported`, `NewerRefused`, `CopyWhole` |
| `SignedOut` | 2 requests, 2 sessions, 1 token, 1 device, one operation that ends sessions, one expiry, one failing call; all operations | 1.44M, 45 s | `SignedOutElsewhere`, `WaysInFirst`, `EndedStaysEnded`, `AskerStaysSignedIn` |
| `SecondFactors` | 1 process, 2 requests, 1 secret, 2 recovery codes, 1 passkey, 3 challenges, 2 time steps, limit 1, one failing call; five sets of operations | 1.58M, 130 s | `CodesOnce`, `RemovedStaysRemoved`, `GuessesLimited`, `PasswordNotEnough` |
| `RemoteSignIn` | 2 browsers, 2 requests at a time, 4 in all (requests for devices not counted), 2 sign-ins, 2 sessions; two OIDC providers (one with an ID token, one with PKCE), GitHub and the built-in ones, which all hand out the same subject | 2.31M, 140 s | `OwnSignIn`, `OneOwner`, `RevokedInTime` |

Every property has a mutant in `PROJECT.json`: a definition changed the way a
plausible bug would change the code (its operator stands before it, with a comment
that begins with "Mutant"), under which TLC finds the property violated.

### Why the bounds are enough

Two handlers are enough for every race between a reader and a writer, and the
protected section makes a third wait. The IPv4 subnet of `AllocationRoutes` has a
single client address and its IPv6 subnet two, so that one family runs out while
the other does not; the limit of one device in `AllocationReplicas` is hit by the
second request. Two keys give a rotation its old and its new one. In
`FirewallRules` a change meets a synchronization that has listed already, and a
second start finds what the first left behind, half-built chains and the rules of
the other backend included; its networks tell every kind of place apart (open,
policy, routed, none). Four events of `TrafficCounted` are traffic, a block, an
unblock and traffic again - a counter that is reset - or traffic on both replicas
with a failure and a restart; with one row two transactions never wait for each
other in a circle, and the deadlock that takes two (`Deadlocked`) ends in the same
rollback as any failure. Six intervals let a grace period of four pass after a
device was used. The three changes of `DnsAnswers` put one into every gap of a
rebuild. The three migrations of `SchemaChanges` are one of one part, one of two,
which can be cut in the middle, and one that SQLite leaves out; the old version
knows the first two. Two sessions are one that asks and another one, or one that
ends and one that signs in. Two time steps with a window of one give a code that
fits both, and a third challenge lets a sign-in follow a registration and meet a
replaced challenge. A limit of one wrong answer is exceeded by the second of two
parallel requests. Four requests of `RemoteSignIn` are two logins and two
callbacks, in one browser or in two, or a sign-in and a sign-out between them, or a
sign-in with one provider, the deletion of its user, and a built-in sign-in under the
same name; requests that add a device come on top.

Safety runs are symmetric in values that only compare with each other (keys,
owners, names, sessions, requests, browsers and their sign-ins); the fair runs use
no symmetry. Three runs have a constraint. `Unraced` (`PeersInSync`) drops the
successors of states in which a race is recorded, about which `PeersFollow` says
nothing; the other replica would have met the same writes had the racing one read
earlier or later.
`Budget` (`FirewallRules`) allows two changes with one start or one with two.
`OneHalf` (`DnsAnswers`) explores the zone and the proxy one at a time: they share
no state, every fair action belongs to one of them, and the constraint only cuts
off changes, queries and ticks of the other half, which no fairness demands.

The runs check for deadlock but for `FirewallRules`, `TrafficCounted`, `DnsAnswers`,
`SchemaChanges`, `SignedOut` and `RemoteSignIn`, where everything rests once the
changes, events, starts or ids of the instance are used up.

Of the type invariants only `TypeOK` of `DeviceAllocation` is listed by a run. The
others hold on the same instances; those of `PeerSync`, `Firewall`, `Dns`,
`SecondFactor` and `RemoteSignIn` are proved, those of `Schema` and `WebAccess` are part
of the inductive invariants, and `TrafficTypeOK` is for the reader.

### Fairness

`AllocationFinish`: a goroutine that can run does (weak fairness of each
handler's steps), and a Go mutex is handed to its longest waiter in starvation
mode, hence strong fairness of `LockMutex`. Nothing is assumed of the database's
lock: waiting for it is bounded by `allocationLockTimeout`, after which
`AcquireFails` is a step of the handler. `PeersEventually`: goroutines run, the
two loops are never stopped before the process ends, and the listener reconnects
and delivers. `TrafficCounted`: the two loops run until the process ends, which is
weak fairness of their steps; deleting a device may fail for as long as failures
are allowed. `DnsAnswers`: the goroutine of the updater runs, and a committed change
is reported. No request has to arrive, nothing has to fail, the clock need not
advance.

## Where the code and its documentation disagree

The models have these behaviours, found while modelling; the properties of the
runs leave them out, and say so.

| The repository says | The code does |
|---|---|
| "two admins working at the same time then cannot undo each other's change" (`internal/devices/devices.go:682`) | `SetDeviceAccess` (line 708) reads the row and writes both columns, so a change of the other column in between is undone |
| "every API token of theirs is revoked" (`README.md:178`; the comment at `internal/api/user_service.go:226` gives the reason for the other order) | `RevokeAccess` and `DeleteUser` (line 132) delete the tokens before they end the sessions, and a session makes another token in between |
| "A code signs in once." (`docs/auth.md:273`) | the in-memory `SaveUser` (`internal/storage/inmemory.go:329`), which every sign-in calls, drops the last accepted step; on SQL a code counts once in one process, but two replicas that check it at the same moment both accept it, for the lock of `Check` (`internal/users/twofactor.go:161`) is a mutex of the process |
| "A failure is not remembered, so the next change tries again" (`internal/devices/routes.go:229`) | after a failed update, a change back to the state handed over last is skipped (line 243), and an iptables chain stays half built |
| "Blocking takes effect right away, on every replica sharing a database." (`README.md:147`) | on MySQL a replica that did not write hears of nothing (`internal/storage/gormwatcher.go:18`); its own access pass takes the peer away later; `docs/storage.md:10` says MySQL is for single instances, `README.md:36` that replicas can share it |
| "every device of theirs is blocked" (`README.md:177`) | `BlockForOwner`, like `DeleteForOwner`, lists the rows and then names each by its primary key (`internal/storage/sql.go:561`), so a device that is renamed in between escapes |
| "Deleting a user in the web UI frees their identifier, along with their devices and their API tokens." (`docs/auth.md:383`); "a failure here leaves a user without access rather than access without a user" (`internal/api/user_service.go:90`) | a session that begins after `EndAllForOwner` (line 81) and before `ForgetUser` (line 92) stays: access without a users row and, when it added no device, nothing that keeps another provider's sign-in with the same identifier out |
| "a passkey makes the password alone no longer enough" (`docs/auth.md:236`) | when the passkeys or the user cannot be read, `Enabled` says that there is no second factor (`internal/users/twofactor.go:85`), and the password alone signs in; `PasswordNotEnough` leaves failed reads out |

Beside these: a policy called `members` and the set of all members have the same
name in the nftables ruleset (`internal/network/nftables.go:124`); names are
abstract here, so no module shows it.

## Proofs

Every theorem holds for all values of the constants that satisfy the assumptions
of its module, and has the same property as the run, which shows it on a small
instance. The inductive invariants were checked with TLC on these instances
before they were proved. In each module an action has its lemma or its case, and
what several need is a lemma.

### DeviceAllocationProofs

From `AllocationAssumption` and `ManualAssumption` (handlers run on replicas, sizes
are natural numbers, without a database lock there is one replica, the markers are
none of the values):

- `TypeCorrect`: `TypeOK`, with `RequestInv`: a handler's request is of the kind
  its step belongs to, which makes `req[h].newName` and the like meaningful;
- `MutualExclusion`: `LockExclusion`. It is not inductive: `LockInv` says that
  whoever is past the acquisition holds the mutex of its process and, with a
  database lock and no lost session, that lock too;
- `LockReturned`: `NoStrayLock`, whichever statement fails;
- `AddressSafety` and `RouteSafety`: `AddressesUniqueUnderLock` and
  `RoutesDisjoint`. The choice is made in one step and written in a later one, so
  the invariant `TableInv` says, besides the property itself, that what a handler
  in the protected section read still holds (`ReadsHold`): its address is used by
  nobody, its routes overlap with nobody's, the row it counted is as it counted
  it. Steps of the handler keep it by the guards of the code; steps outside the
  lock only remove rows or change keys (`OutsideShrinks`), which cannot make a
  free address taken; and no other handler is inside, by `LockInv`;
- `AddressValidity`: `AddressesUsable`, from what a request has chosen so far;
- `QuotaSafety`: `QuotaHeld`, from: a handler that has counted and not inserted yet
  still finds its owner below the limit (`QuotaInv`), for others only delete;
- `Refinement`: `ImplementsTable`. The initial states agree, and every step is one of
  `DeviceTable` or leaves it alone: the write of an operation is the whole abstract
  operation, because `ReadsHold` says that what the guards of `DeviceTable` ask for
  is still true when it happens.

### PeerSyncProofs

From `PeerAssumption` (the deployments, finitely many devices, at least one
notification on its way, the markers are none of the values):

- `PeerTypes`: `PeerTypeOK`, with where a handler can be and in which request
  (`HandlerOK`);
- `PeersAlwaysFollow`: `PeersFollow`. It speaks of moments at which nothing is under
  way; `Synced` says what holds in between, for every running replica. What a reader
  that asks for no resync has read is still so unless a race was recorded
  (`ReadersFresh`). What `resyncLoop` has read is still so unless another run of it is
  due (`LoopFresh`); the callbacks of an event end by asking for one. And every
  difference between the table and the peers is on the list of one of the two
  synchronizations, or a run is due that will find it (`Repaired`). All this needs
  that no two rows have the same key (`UniqueKeys`, the unique index), else the repair
  of one would undo the other's.

### FirewallProofs

From `FirewallAssumption` and `TablesAssumption` (what the tables hold at first has
its type):

- `FirewallTypes`: `FirewallTypeOK`;
- `NothingOpened`, `RulesAlwaysFollow` and `AnswersAlwaysReturn`: `NeverOpen`,
  `RulesFollow` and `AnswersReturn`.

The argument has two halves. The first is about lists of rules and has no state.
What a list lets through follows from its parts (`AcceptsBoth`, `AcceptsAll`), so
`RulesMean` says for any configuration and state which packets `RulesOf` accepts,
and `DeviceReaches` that for a device this is `MayReach`. The commands of iptables
are in a known order (`Layout`), a chain that was built by them has each rule where
it was first (`Mirrors`), and such a chain lets through what the rules do
(`MirrorMeans`), although `AppendUnique` leaves out what is there already.

The second half is the inductive invariant `FirewallInv`, four parts beside the types:
who holds `firewallMu` and where everybody is (`ControlInv`); that the commands left
are the end of what has to be done for one state, and the kernel has the effect of
those before (`WorkInv`: `StepFamily` is one command more); that between two updates
the kernel has the rules of `d.firewall`, unless an iptables update stopped in the
middle (`RestInv`); and that, with no change on its way, `resyncLoop` works with the
tables as they are, while the first synchronization does, or `resyncLoop` is
still to correct it, or has overtaken it (`FreshInv`). A clock that moves only takes
access away, so what a synchronization knew of the devices that may still connect
stays true (`AgreesKept`).

### SchemaProofs

From `SchemaAssumption` (a migration is a sequence of parts, no part in two of
them, every version knows a beginning of the list):

- `MigrationsComplete`: `RecordedIsThere`, also after a lock was lost, since parts and
  records are only ever added. `KnowledgeInv`: what a process found applied is, all
  before the migration it is at too, and a migration about to be recorded has its
  parts in the schema or in the transaction;
- `StartsTakeTurns`: `TakeTurns`, and `NewerIsRefused`: the action property
  `NewerRefused`. As long as no lock was lost, who is inside has it (`TurnInv`), and
  what a process inside has seen of the database is still so (`FreshInv`);
- `TriggerStays`: `UpdatesReported`; `CopyComplete`: `CopyWhole`, from: a copy has
  written everything before the item it is at.

### RemoteSignInProofs

From `ProviderNames` and `StandingsAssumption` (the kinds of providers and what they
say of an account; nothing of which subjects they hand out), `SignInBounds` and
`NoneAssumption` (`None` is no account, sign-in, session or time):

- `SignInTypes`: `SignInTypeOK`, with what a request knows at each of its steps;
- `SessionsOfOwnSignIn`: `OwnSignIn`. A cookie of a sign-in names one that its own
  browser began, and the request keeps that through every step of the callback;
- `RightsRunOut`: `RevokedInTime`, from: whatever rights a request or a session
  has, the account held when the claims were read, and the session is not older;
- `OneOwnerPerSubject`: `OneOwner`. Unless there was one of the three races, whoever
  acts under a subject - a sign-in from the first read of its check on, a request that
  will add a device, a browser with a session - has the same provider, and it is that
  of the users row once there is one, and of the devices (`OwnerOf`). A browser with a
  session has a row, so the row may only go when nobody is signed in: `Emptied` says
  that from the first step of a deletion on there is no session of that user, and
  whoever is still about to act was checked against the row or the devices before
  it went. `NewIdInv` says that the id of a new session is in one request only.

### WebAccessProofs

From `AccessAssumption` (sessions, tokens and devices are different things):

- `NothingComesBack`: the action property `EndedStaysEnded`, for `TouchSession` and
  `TouchToken` update a row that is there and make none;
- `AskerKept`: `AskerStaysSignedIn`;
- `PasswordSignsOut`: `SignedOutElsewhere`, and `RevokedForGood`: `WaysInFirst`. An
  operation is always at a place of its plan, with what comes after it in the
  right order (`PlanInv`), and what it has taken away is gone (`GoneInv`), so that
  whatever is made through that later is late.

### SecondFactorProofs

From `FactorAssumption` and `NamesAssumption` (secrets, codes, passkeys and
challenges are different from each other and from the markers; there are finitely
many requests):

- `FactorTypes`: `TypeOK`, with what a request has read, computed or been given at
  each of its steps;
- `GuessesBounded`: `GuessesLimited`, for any number of processes. An attempt is
  counted in `wrong` before the answer is checked, so checked wrong answers plus
  reserved attempts stay within the limit;
- `RemovedForGood`: `RemovedStaysRemoved`, for one process and either storage.
  Whoever is between read and write holds the mutex, so what it writes was not
  retired meanwhile (what `DeleteUser` removes without a mutex is not in `retired`,
  but for the passkeys);
- `FactorAskedFor`: `PasswordNotEnough`, for one process;
- `AcceptedOnce`: `CodesOnce`, for one process with a SQL storage: what was used is
  spent in the row, or will be by the write of the request that holds the mutex.

The last three have `OneProcess` as a hypothesis because the mutexes of
`TwoFactor` and `Passkeys` are local to a process: with two, both may read the row
before either writes. `AcceptedOnce` asks for SQL because the in-memory `SaveUser`,
run after every sign-in, drops the last step of a code.

### DnsProofs

From `DnsAssumption`:

- `DnsTypes`: `DnsTypeOK`, which bounds the cache by its size too: a full one drops
  an entry for the one it takes up;
- `ZoneFollows`: `DevicesFound`. `ZoneInv`: unless a change is on its way, in the slot
  or was missed, what a rebuild has listed and what was pushed is a zone of the
  table as it is;
- `NothingStale`, `CacheIsForAll` and `NoUpstreamLeftOut`: `AnswersFresh`,
  `AnswersForAll` and `EveryUpstreamAsked`. `ProxyInv` says of every entry of the
  cache that anyone may have it and that it runs out with its TTL, and of every
  query that each upstream was tried or is left and that the one waited for has
  not had its time.

### Only model-checked

- Liveness (`RequestsFinish` and the other properties of the fair runs,
  `ZoneCatchesUp`), which is beyond the prover, as is fairness.
- `CountedOnce` of `Traffic`: it compares sums over rows, updates and replicas
  (`MapThenSumSet`), and what a fold computes for every set takes an induction over
  data.
- `ActiveStay` of `Traffic`, an action property without a sum: the argument is the
  times at which the two loops of several replicas read a row.

## Plan

Modelled: every component that keeps state of its own. Proved: every safety
invariant of the runs but `CountedOnce`, and every action property but `ActiveStay`,
which is what is left to prove. It needs an invariant of the last time at which each
device was used, was seen by a replica and was recorded.

## Not modelled

The HTTP front, metrics, audit and traces, hooks and the web pages keep no state
that another part relies on, or only print it. Reading the configuration is left
out; what its validation guarantees to the other components is in their
assumptions. Generated code (`proto/`) and third-party libraries (`wgembed`,
`pgevents`, gorm, the database, the packets of DNS) appear as external actions
where the code uses them, or not at all. The in-memory storage is a second
implementation for trying the server out; only its `SaveUser` and `SetUserTOTP` are
modelled.
