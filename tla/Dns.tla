--------------------------------- MODULE Dns ---------------------------------
(***************************************************************************)
(* The embedded DNS server: the zone of the devices, which follows their   *)
(* table (startDNS and zoneUpdater of cmd/serve, DNSAuth), and the proxy   *)
(* that asks the upstream servers for every other name (DNSProxy).         *)
(*                                                                         *)
(* A domain name is the sequence of its labels, below the server's domain. *)
(* The device table and what is heard of its changes are those of          *)
(* PeerSync; here a change is on its way, and then it is heard.            *)
(***************************************************************************)
EXTENDS Integers, Sequences, FiniteSets, SequencesExt

CONSTANTS
    Devices,     \* [owner, name], each a sequence of labels
    Addresses,   \* of a device: a set of <<family, address>>
    Fold,        \* the lower case of a label
    Handlers, Questions,
    Subnets,     \* what a client tells of its network, NoSubnet if nothing
    Upstreams,   \* a sequence
    TTLs, CacheSize, Timeout, Cooldown,
    MaxTime,     \* bound of the clock
    MaxChanges,  \* bound of the changes and of the lists that fail
    MaxQueries,  \* bound of the queries
    NoSubnet, NoEntry, NoZone, Server

ASSUME DnsAssumption ==
    /\ \A d \in Devices : d.owner # <<>> /\ d.name # <<>>
    /\ \A d \in Devices : \A l \in Range(d.owner \o d.name) : Fold[Fold[l]] = Fold[l]
    /\ Devices \subseteq [owner: Seq(DOMAIN Fold), name: Seq(DOMAIN Fold)]
    /\ NoSubnet \in Subnets
    \* New of dnsproxy refuses to start without an upstream
    /\ Upstreams \in Seq(Range(Upstreams)) /\ Upstreams # <<>>
    /\ {CacheSize, Timeout, Cooldown, MaxTime, MaxChanges, MaxQueries} \cup TTLs \subseteq Nat

Never == 0 - Cooldown
Times == 0 .. MaxTime

VARIABLES
    table,     \* the rows: a function of the devices that exist
    note,      \* a change was committed that was not heard yet
    updater,   \* where startDNS, and then the updater's goroutine, are
    changed,   \* the one slot of zoneUpdater.changed
    quit,      \* zoneUpdater.quit is closed
    listed,    \* the zone that a rebuild has generated and not pushed yet
    zone,      \* DNSAuth.zone
    changes,
    stale,     \* history: a change was heard by nobody, or a list failed
    now, cache, failedAt,
    queries,
    handler,   \* the query that a goroutine of the proxy works on
    answer     \* history: the last answer to a client

zoneVars == <<table, note, updater, changed, quit, listed, zone, changes, stale>>
proxyVars == <<now, cache, failedAt, queries, handler, answer>>
vars == <<zoneVars, proxyVars>>

-----------------------------------------------------------------------------
(* The zone.                                                               *)

FoldAll(labels) == [i \in DOMAIN labels |-> Fold[labels[i]]]
ZoneKey(d) == [owner |-> FoldAll(d.owner), name |-> FoldAll(d.name)]
Keys == {ZoneKey(d) : d \in Devices}

\* generateZone and PushZone: when two names differ in their case only, the order of
\* a Go map decides whose addresses stay.
ZonesOf(rows) ==
    {z \in [Keys -> {{}} \cup Range(rows)] :
        \A k \in Keys :
            LET those == {d \in DOMAIN rows : ZoneKey(d) = k}
            IN  IF those = {} THEN z[k] = {} ELSE \E d \in those : z[k] = rows[d]}

Event == changes < MaxChanges /\ changes' = changes + 1

\* A device is added, renamed (with its addresses), or deleted, by this or by
\* another replica.
Change(rows) ==
    /\ Event
    /\ table' = rows
    /\ note' = TRUE
    /\ UNCHANGED <<updater, changed, quit, listed, zone, stale, proxyVars>>

Add(d, a) ==
    /\ d \notin DOMAIN table
    /\ Change([e \in DOMAIN table \cup {d} |-> IF e = d THEN a ELSE table[e]])

Rename(d, new) ==
    /\ d \in DOMAIN table /\ new \notin DOMAIN table /\ new.owner = d.owner
    /\ Change([e \in (DOMAIN table \ {d}) \cup {new} |-> IF e = new THEN table[d] ELSE table[e]])

Delete(d) ==
    /\ d \in DOMAIN table
    /\ Change([e \in DOMAIN table \ {d} |-> table[e]])

\* Without a domain there is no zone.
Configured == updater # "off"

Registered == updater \in {"wait", "push", "done"}

\* Mutant: a change is passed over while a rebuild is running.
HeardWhenWaiting ==
    /\ note
    /\ note' = FALSE
    /\ changed' = (changed \/ updater = "wait")
    /\ stale' = (stale \/ updater = "register")
    /\ UNCHANGED <<table, updater, quit, listed, zone, proxyVars, changes>>

\* A callback of the storage calls notify, which never blocks: the slot is full, or
\* is filled.  Before startDNS has registered it, nobody is told.
Heard ==
    /\ note
    /\ note' = FALSE
    /\ changed' = (changed \/ Registered)
    /\ stale' = (stale \/ updater = "register" \/ updater = "startPush")
    /\ UNCHANGED <<table, updater, quit, listed, zone, proxyVars, changes>>

\* ListAllDevices of a rebuild.  When it fails, the zone holds the server only.
ListThen(next) ==
    /\ updater' = next
    /\ \/ /\ listed' \in ZonesOf(table)
          /\ stale' = FALSE
          /\ UNCHANGED changes
       \/ /\ Event
          /\ listed' = [k \in Keys |-> {}]
          /\ stale' = TRUE
    /\ UNCHANGED <<table, note, quit, zone, proxyVars>>

PushThen(next) ==
    /\ updater' = next
    /\ zone' = listed
    /\ listed' = NoZone
    /\ UNCHANGED <<table, note, changed, quit, stale, proxyVars, changes>>

\* startDNS: rebuild, and then newZoneUpdater and the callbacks.
StartList == updater = "start" /\ ListThen("startPush") /\ UNCHANGED changed
StartPush == updater = "startPush" /\ PushThen("register")
Register ==
    /\ updater = "register"
    /\ updater' = "wait"
    /\ UNCHANGED <<table, note, changed, quit, listed, zone, stale, proxyVars, changes>>

\* The goroutine takes the note out of the slot before it lists.
Rebuild == updater = "wait" /\ changed /\ changed' = FALSE /\ ListThen("push")

\* Mutant: the note is taken out when the rebuild is done.
PushClears ==
    /\ updater = "push"
    /\ updater' = "wait" /\ zone' = listed /\ listed' = NoZone /\ changed' = FALSE
    /\ UNCHANGED <<table, note, quit, stale, proxyVars, changes>>

Push == updater = "push" /\ PushThen("wait")

\* stop: the goroutine ends between two rebuilds, also when another is due.
Stop ==
    /\ Registered /\ ~quit
    /\ quit' = TRUE
    /\ UNCHANGED <<table, note, updater, changed, listed, zone, stale, proxyVars, changes>>

Quit ==
    /\ updater = "wait" /\ quit
    /\ updater' = "done"
    /\ UNCHANGED <<table, note, changed, quit, listed, zone, stale, proxyVars, changes>>

\* DNSAuth.Lookup, without the family that was asked for: the server's own addresses
\* for the domain itself, nothing for an owner, and a device by the last two labels.
Lookup(labels) ==
    LET n == Len(labels)
        key == [owner |-> <<Fold[labels[n]]>>, name |-> <<Fold[labels[n - 1]]>>]
    IN  IF n = 0 THEN [rcode |-> "NOERROR", addresses |-> {Server}]
        ELSE IF n = 1 THEN [rcode |-> "NOERROR", addresses |-> {}]
        ELSE IF key \in Keys /\ zone[key] # {}
             THEN [rcode |-> "NOERROR", addresses |-> zone[key]]
             ELSE [rcode |-> "NXDOMAIN", addresses |-> {}]

-----------------------------------------------------------------------------
(* The proxy.                                                              *)

Idle == [pc |-> "idle"]
Waiting(h) == handler[h].pc = "sent"

\* A response: to which question and network it was given and when, the least TTL of
\* its records (0 as well when there is no answer in it), and whether it is large or
\* was cut off.
Response == [question: Questions, subnet: Subnets, ttl: TTLs, at: Times,
             size: {"small", "large", "cut"}]

Tick ==
    /\ now < MaxTime
    /\ \A h \in Handlers : Waiting(h) => now < handler[h].at + Timeout
    /\ now' = now + 1
    /\ UNCHANGED <<zoneVars, cache, failedAt, queries, handler, answer>>

\* The places in Upstreams of the ones in their cooldown.
Cooling == {i \in DOMAIN Upstreams : now - failedAt[Upstreams[i]] < Cooldown}

\* Mutant: upstreams that failed are left out.
OrderedUpstreamsHealthy == [healthy |-> DOMAIN Upstreams \ Cooling, cooling |-> {}]

\* The order is kept: each of the two lists stands for the places of its upstreams.
OrderedUpstreams == [healthy |-> DOMAIN Upstreams \ Cooling, cooling |-> Cooling]

Left(todo) == todo.healthy \cup todo.cooling

\* The one that comes next.
IsNext(todo, i) ==
    LET list == IF todo.healthy # {} THEN todo.healthy ELSE todo.cooling
    IN  i \in list /\ \A j \in list : i <= j

Without(todo, i) == [healthy |-> todo.healthy \ {i}, cooling |-> todo.cooling \ {i}]

\* Mutant: the network of the client is passed on.
PurgeECSNot(subnet) == subnet

PurgeECS(subnet) == NoSubnet

Cached == {q \in Questions : cache[q] # NoEntry}

\* Mutant: an entry is served until it is replaced.
FreshEver(q) == cache[q] # NoEntry

Fresh(q) == cache[q] # NoEntry /\ now < cache[q].expires

\* SetReply with the upstream's code, and truncateIfRequired: what does not fit is
\* left out for a client that asks over UDP.
ReplyTo(request, response) ==
    IF response.size = "large" /\ request.transport = "udp"
    THEN [response EXCEPT !.size = "cut"] ELSE response

Answered(request, response) ==
    [request |-> request, age |-> now - response.at, reply |-> ReplyTo(request, response)]

\* The entry is copied.
CacheHit(h, request) ==
    /\ answer' = Answered(request, cache[request.question].response)
    /\ UNCHANGED <<cache, handler>>

\* ServeDNS: a query of a client, and the cache, from which an expired entry is
\* removed.
Query(h) ==
    \E q \in Questions, subnet \in Subnets, transport \in {"udp", "tcp"} :
        LET request == [question |-> q, subnet |-> subnet, transport |-> transport]
        IN  /\ handler[h] = Idle
            /\ queries < MaxQueries /\ queries' = queries + 1
            /\ IF Fresh(q) THEN CacheHit(h, request)
               ELSE /\ cache' = [cache EXCEPT ![q] = NoEntry]
                    /\ handler' = [handler EXCEPT ![h] =
                            [pc |-> "try", request |-> request, todo |-> OrderedUpstreams,
                             tried |-> {}]]
                    /\ UNCHANGED answer
            /\ UNCHANGED <<zoneVars, now, failedAt>>

\* exchange with the next upstream, first over UDP.
Send(h) ==
    /\ handler[h].pc = "try"
    /\ \E i \in Left(handler[h].todo) :
        /\ IsNext(handler[h].todo, i)
        /\ handler' = [handler EXCEPT ![h] =
                [pc |-> "sent", via |-> "udp", at |-> now, asked |-> i,
                 request |-> handler[h].request, todo |-> handler[h].todo,
                 tried |-> handler[h].tried]]
    /\ UNCHANGED <<zoneVars, now, cache, failedAt, queries, answer>>

\* cacheResponse.  A full cache drops another entry, the least recently used one.
CacheResponse(response) ==
    LET q == response.question
        entry == [response |-> response, expires |-> now + response.ttl]
        others == Cached \ {q}
        dropped == IF Cardinality(others) < CacheSize THEN {{}} ELSE {{old} : old \in others}
    IN  IF CacheSize = 0 \/ response.ttl = 0 THEN UNCHANGED cache
        ELSE \E out \in dropped :
                cache' = [c \in Questions |-> IF c = q THEN entry
                                              ELSE IF c \in out THEN NoEntry ELSE cache[c]]

\* The upstream answers: what it gives depends on the network it was told of.
Receive(h) ==
    /\ Waiting(h)
    /\ \E ttl \in TTLs, size \in {"small", "large"} :
        LET request == handler[h].request
            response == [question |-> request.question, subnet |-> PurgeECS(request.subnet),
                         ttl |-> ttl, at |-> handler[h].at, size |-> size]
        IN  /\ size = "large" => handler[h].via = "tcp"
            /\ failedAt' = [failedAt EXCEPT ![Upstreams[handler[h].asked]] = Never]
            /\ CacheResponse(response)
            /\ answer' = Answered(request, response)
            /\ handler' = [handler EXCEPT ![h] = Idle]
    /\ UNCHANGED <<zoneVars, now, queries>>

\* The response over UDP is cut off: the same upstream is asked over TCP.
Truncated(h) ==
    /\ Waiting(h) /\ handler[h].via = "udp"
    /\ handler' = [handler EXCEPT ![h].via = "tcp", ![h].at = now]
    /\ UNCHANGED <<zoneVars, now, cache, failedAt, queries, answer>>

\* An error or a timeout: the next upstream.
ExchangeFails(h) ==
    /\ Waiting(h)
    /\ LET u == Upstreams[handler[h].asked]
       IN  /\ failedAt' = [failedAt EXCEPT ![u] = now]
           /\ handler' = [handler EXCEPT ![h] =
                [pc |-> "try", request |-> handler[h].request,
                 todo |-> Without(handler[h].todo, handler[h].asked),
                 tried |-> handler[h].tried \cup {u}]]
    /\ UNCHANGED <<zoneVars, now, cache, queries, answer>>

\* No upstream is left: SERVFAIL.
Fail(h) ==
    /\ handler[h].pc = "try" /\ Left(handler[h].todo) = {}
    /\ handler' = [handler EXCEPT ![h] = Idle]
    /\ answer' = [failed |-> handler[h].tried]
    /\ UNCHANGED <<zoneVars, now, cache, failedAt, queries>>

-----------------------------------------------------------------------------
Init ==
    /\ table \in [Devices -> Addresses] \cup {<<>>}
    /\ note = FALSE /\ updater \in {"start", "off"} /\ changed = FALSE /\ quit = FALSE
    /\ listed = NoZone /\ zone = [k \in Keys |-> {}] /\ stale = FALSE
    /\ now = 0
    /\ cache = [q \in Questions |-> NoEntry]
    /\ failedAt = [u \in Range(Upstreams) |-> Never]
    /\ handler = [h \in Handlers |-> Idle] /\ answer = <<>>
    /\ changes = 0 /\ queries = 0

UpdaterStep == StartList \/ StartPush \/ Register \/ Rebuild \/ Push \/ Quit
HandlerStep(h) == Send(h) \/ Receive(h) \/ Truncated(h) \/ ExchangeFails(h) \/ Fail(h)

Next ==
    \/ UpdaterStep \/ Heard \/ Stop \/ Tick
    \/ \E d \in Devices : \/ Delete(d)
                          \/ \E a \in Addresses : Add(d, a)
                          \/ \E new \in Devices : Rename(d, new)
    \/ \E h \in Handlers : Query(h) \/ HandlerStep(h)

Spec == Init /\ [][Next]_vars
             /\ WF_vars(UpdaterStep) /\ WF_vars(Heard)
             /\ \A h \in Handlers : WF_vars(HandlerStep(h))

-----------------------------------------------------------------------------
Zones == [Keys -> Addresses \cup {{}}]
Request == [question: Questions, subnet: Subnets, transport: {"udp", "tcp"}]
Entry == [response: Response, expires: Nat]
Todo == [healthy: SUBSET DOMAIN Upstreams, cooling: SUBSET DOMAIN Upstreams]
Trying == [pc: {"try"}, request: Request, todo: Todo, tried: SUBSET Range(Upstreams)]
Sent == [pc: {"sent"}, request: Request, todo: Todo, tried: SUBSET Range(Upstreams),
         via: {"udp", "tcp"}, at: Times, asked: DOMAIN Upstreams]

ZoneTypeOK ==
    /\ DOMAIN table \subseteq Devices /\ table \in [DOMAIN table -> Addresses]
    /\ {note, changed, quit, stale} \subseteq BOOLEAN
    /\ updater \in {"off", "start", "startPush", "register", "wait", "push", "done"}
    /\ zone \in Zones
    /\ listed \in IF updater \in {"startPush", "push"} THEN Zones ELSE {NoZone}
    /\ changes \in 0 .. MaxChanges

ProxyTypeOK ==
    /\ now \in Times
    /\ cache \in [Questions -> Entry \cup {NoEntry}]
    /\ IsFiniteSet(Cached) /\ Cardinality(Cached) <= CacheSize
    /\ failedAt \in [Range(Upstreams) -> Times \cup {Never}]
    /\ queries \in 0 .. MaxQueries
    /\ handler \in [Handlers -> {Idle} \cup Trying \cup Sent]

\* Every variable has its type, and the cache is never larger than it may be: the
\* ground of every other invariant.
DnsTypeOK == ZoneTypeOK /\ ProxyTypeOK

Plain(d) == Len(d.owner) = 1 /\ Len(d.name) = 1
Settled == updater = "wait" /\ ~changed /\ ~note

\* What a client is told of a device: once every change was heard and the updater
\* rests, a device is found under its name in any case, with the addresses of a
\* device of that name, and a name that no device has is not found.  Not meant are
\* a change before the callbacks were registered, a list that failed, and owners
\* and devices with a dot in their name, which are not found.
DevicesFound ==
    Settled /\ ~stale => \A d \in Devices :
        LET same == {e \in DOMAIN table : ZoneKey(e) = ZoneKey(d)}
            found == Lookup(d.name \o d.owner)
        IN  Plain(d) =>
            IF same = {} THEN found.rcode = "NXDOMAIN"
            ELSE \E e \in same : found.addresses = table[e]

\* An updater that is not stopped comes to rest with the zone of the table, however
\* the changes interleave with its rebuilds.
ZoneCatchesUp == [](quit \/ <>(quit \/ stale \/ zone \in ZonesOf(table)))

\* The comment at cacheResponse: the cache never serves a record past its TTL.  Seen
\* from the upstream, the time that it took to answer comes on top.
AnswersFresh ==
    "reply" \in DOMAIN answer =>
        answer.age <= Timeout \/ answer.age < answer.reply.ttl + Timeout

\* The cache is shared: what one client is answered never depends on the network of
\* another, and a client over TCP never gets what was cut for one over UDP.
AnswersForAll ==
    "reply" \in DOMAIN answer =>
        /\ answer.reply.question = answer.request.question
        /\ answer.reply.subnet \in {NoSubnet, answer.request.subnet}
        /\ answer.request.transport = "tcp" => answer.reply.size # "cut"

\* A query is only refused after every upstream was asked, the ones in their cooldown
\* too.
EveryUpstreamAsked ==
    "failed" \in DOMAIN answer => answer.failed = Range(Upstreams)
=============================================================================
