------------------------------ MODULE DnsProofs ------------------------------
(***************************************************************************)
(* What Dns promises of the zone and of the proxy, for every table of      *)
(* devices, every list of upstreams and every size of the cache.           *)
(***************************************************************************)
EXTENDS Dns, FiniteSetTheorems, SequenceTheorems, TLAPS

LEMMA Numbers ==
    /\ CacheSize \in Nat /\ Timeout \in Nat /\ Cooldown \in Nat /\ TTLs \subseteq Nat
    /\ MaxTime \in Nat /\ MaxChanges \in Nat /\ MaxQueries \in Nat
    BY DnsAssumption

LEMMA TimesAreNumbers == Times \subseteq Nat
    BY Numbers DEF Times

LEMMA ResponseShape ==
    ASSUME NEW response \in Response
    PROVE  /\ response.question \in Questions
           /\ response.ttl \in TTLs /\ response.ttl \in Nat
           /\ response.at \in Times /\ response.at \in Nat
<1>1. response.question \in Questions /\ response.ttl \in TTLs /\ response.at \in Times
    BY DEF Response
<1> QED
    BY <1>1, Numbers, TimesAreNumbers

ChangeStep ==
    \E d \in Devices : \/ Delete(d)
                       \/ \E a \in Addresses : Add(d, a)
                       \/ \E new \in Devices : Rename(d, new)

-----------------------------------------------------------------------------
(* The zone.                                                               *)

\* Unless something is still to be heard, or was missed, what a rebuild has listed and
\* what was pushed are zones of the table as it is now.
ZoneInv ==
    ~stale /\ ~note /\ ~changed =>
        /\ updater \in {"startPush", "push"} => listed \in ZonesOf(table)
        /\ updater \in {"register", "wait"} => zone \in ZonesOf(table)

\* Every change of the table is on its way; whoever hears it either fills the slot or,
\* before the callbacks are there, has missed it.
LEMMA ZoneKept ==
    ASSUME ZoneInv, [Next]_vars
    PROVE  ZoneInv'
<1>1. CASE StartList
    BY <1>1 DEF ZoneInv, StartList, ListThen
<1>2. CASE StartPush
    BY <1>2 DEF ZoneInv, StartPush, PushThen
<1>3. CASE Register
    BY <1>3 DEF ZoneInv, Register
<1>4. CASE Rebuild
    BY <1>4 DEF ZoneInv, Rebuild, ListThen
<1>5. CASE Push
    BY <1>5 DEF ZoneInv, Push, PushThen
<1>6. CASE Quit
    BY <1>6 DEF ZoneInv, Quit
<1>7. CASE Heard
    BY <1>7 DEF ZoneInv, Heard, Registered
<1>8. CASE Stop
    BY <1>8 DEF ZoneInv, Stop
<1>9. CASE ChangeStep
    BY <1>9 DEF ZoneInv, ChangeStep, Add, Rename, Delete, Change
<1>10. CASE UNCHANGED zoneVars
    BY <1>10 DEF ZoneInv, zoneVars, ZonesOf
<1>11. CASE Tick
    BY <1>10, <1>11 DEF Tick
<1>12. CASE \E h \in Handlers : Query(h) \/ HandlerStep(h)
    BY <1>10, <1>12 DEF Query, HandlerStep, Send, Receive, Truncated, ExchangeFails, Fail
<1> QED
    BY <1>1, <1>2, <1>3, <1>4, <1>5, <1>6, <1>7, <1>8, <1>9, <1>10, <1>11, <1>12
    DEF Next, UpdaterStep, ChangeStep, vars

\* For the name of a device without a dot, Lookup looks under the key of the device.
LEMMA LookupOfPlain ==
    ASSUME NEW d \in Devices, Plain(d)
    PROVE  /\ ZoneKey(d) \in Keys
           /\ Lookup(d.name \o d.owner) =
                IF zone[ZoneKey(d)] # {}
                THEN [rcode |-> "NOERROR", addresses |-> zone[ZoneKey(d)]]
                ELSE [rcode |-> "NXDOMAIN", addresses |-> {}]
<1> DEFINE labels == d.name \o d.owner
           key == [owner |-> <<Fold[labels[2]]>>, name |-> <<Fold[labels[1]]>>]
<1>1. ZoneKey(d) \in Keys
    BY DEF Keys
<1>2. d.owner \in Seq(DOMAIN Fold) /\ d.name \in Seq(DOMAIN Fold)
    BY DnsAssumption
<1>3. Len(labels) = 2 /\ labels[1] = d.name[1] /\ labels[2] = d.owner[1]
    <2>1. ASSUME NEW s \in Seq(DOMAIN Fold), NEW t \in Seq(DOMAIN Fold), Len(s) = 1, Len(t) = 1
          PROVE  Len(s \o t) = 2 /\ (s \o t)[1] = s[1] /\ (s \o t)[2] = t[1]
        <3>1. /\ Len(s \o t) = Len(s) + Len(t)
              /\ \A i \in 1 .. Len(s) + Len(t) :
                    (s \o t)[i] = IF i <= Len(s) THEN s[i] ELSE t[i - Len(s)]
            BY ConcatProperties, Zenon
        <3>2. Len(s) + Len(t) = 2
            BY <2>1
        <3> DEFINE st == s \o t
        <3> HIDE DEF st
        <3>3. /\ Len(st) = 2
              /\ \A i \in 1 .. 2 : st[i] = IF i <= 1 THEN s[i] ELSE t[i - 1]
            BY <2>1, <3>1, <3>2 DEF st
        <3>4. st[1] = s[1] /\ st[2] = t[1]
            BY <3>3
        <3> QED
            BY <3>3, <3>4 DEF st
    <2> QED
        BY <1>2, <2>1 DEF Plain
<1>4. /\ DOMAIN d.owner = {1} /\ DOMAIN d.name = {1}
    BY <1>2 DEF Plain
<1>5. ASSUME NEW s, DOMAIN s = {1}
      PROVE  FoldAll(s) = <<Fold[s[1]]>>
    BY <1>5 DEF FoldAll
<1>6. key = ZoneKey(d)
    BY <1>3, <1>4, <1>5 DEF ZoneKey
<1>7. Lookup(labels) =
        IF key \in Keys /\ zone[key] # {}
        THEN [rcode |-> "NOERROR", addresses |-> zone[key]]
        ELSE [rcode |-> "NXDOMAIN", addresses |-> {}]
    <2>1. \A s : Len(s) = 2 => Lookup(s) =
            LET k == [owner |-> <<Fold[s[2]]>>, name |-> <<Fold[s[1]]>>]
            IN  IF k \in Keys /\ zone[k] # {}
                THEN [rcode |-> "NOERROR", addresses |-> zone[k]]
                ELSE [rcode |-> "NXDOMAIN", addresses |-> {}]
        BY DEF Lookup
    <2> QED
        BY <1>3, <2>1
<1> QED
    BY <1>1, <1>6, <1>7

LEMMA ZoneFound ==
    ASSUME ZoneInv
    PROVE  DevicesFound
<1> SUFFICES ASSUME Settled, ~stale, NEW d \in Devices, Plain(d)
             PROVE  LET same == {e \in DOMAIN table : ZoneKey(e) = ZoneKey(d)}
                        found == Lookup(d.name \o d.owner)
                    IN  IF same = {} THEN found.rcode = "NXDOMAIN"
                        ELSE \E e \in same : found.addresses = table[e]
    BY DEF DevicesFound
<1> DEFINE same == {e \in DOMAIN table : ZoneKey(e) = ZoneKey(d)}
           found == Lookup(d.name \o d.owner)
<1>1. zone \in ZonesOf(table)
    BY DEF ZoneInv, Settled
<1>2. IF same = {} THEN zone[ZoneKey(d)] = {} ELSE \E e \in same : zone[ZoneKey(d)] = table[e]
    BY <1>1, LookupOfPlain DEF ZonesOf
<1>3. /\ found.addresses = zone[ZoneKey(d)]
      /\ zone[ZoneKey(d)] = {} => found.rcode = "NXDOMAIN"
    <2>1. found = IF zone[ZoneKey(d)] # {}
                  THEN [rcode |-> "NOERROR", addresses |-> zone[ZoneKey(d)]]
                  ELSE [rcode |-> "NXDOMAIN", addresses |-> {}]
        BY LookupOfPlain
    <2> HIDE DEF found
    <2> QED
        BY <2>1
<1> HIDE DEF same, found
<1>4. IF same = {} THEN found.rcode = "NXDOMAIN" ELSE \E e \in same : found.addresses = table[e]
    BY <1>2, <1>3
<1> QED
    BY <1>4 DEF same, found

\* The types of the zone.
LEMMA ZoneTypesKept ==
    ASSUME ZoneTypeOK, [Next]_vars
    PROVE  ZoneTypeOK'
<1> USE DEF ZoneTypeOK
<1>1. \A z \in ZonesOf(table) : z \in Zones
    BY DEF ZonesOf, Zones, Range
<1>2. [k \in Keys |-> {}] \in Zones
    BY DEF Zones
<1>3. changes \in 0 .. MaxChanges /\ (Event => changes' \in 0 .. MaxChanges)
    BY Numbers DEF Event
<1>4. ASSUME NEW next \in {"startPush", "push"}, ListThen(next), changed' \in BOOLEAN
      PROVE  ZoneTypeOK'
    <2>1. listed' \in Zones /\ stale' \in BOOLEAN /\ changes' \in 0 .. MaxChanges
        BY <1>1, <1>2, <1>3, <1>4 DEF ListThen
    <2>2. updater' = next /\ UNCHANGED <<table, note, quit, zone>>
        BY <1>4 DEF ListThen
    <2>3. listed' \in IF updater' \in {"startPush", "push"} THEN Zones ELSE {NoZone}
        BY <2>1, <2>2
    <2> QED
        BY <1>4, <2>1, <2>2, <2>3 DEF Zones, Keys
<1>5. ASSUME NEW next \in {"register", "wait"}, PushThen(next), updater \in {"startPush", "push"}
      PROVE  ZoneTypeOK'
    BY <1>5 DEF PushThen
<1>6. CASE StartList
    BY <1>4, <1>6 DEF StartList
<1>7. CASE StartPush
    BY <1>5, <1>7 DEF StartPush
<1>8. CASE Register
    BY <1>8 DEF Register
<1>9. CASE Rebuild
    BY <1>4, <1>9 DEF Rebuild
<1>10. CASE Push
    BY <1>5, <1>10 DEF Push
<1>11. CASE Quit
    BY <1>11 DEF Quit
<1>12. CASE Heard
    BY <1>12 DEF Heard, Registered
<1>13. CASE Stop
    BY <1>13 DEF Stop
<1>14. CASE ChangeStep
    <2>1. ASSUME NEW rows, Change(rows), DOMAIN rows \subseteq Devices,
                 rows \in [DOMAIN rows -> Addresses]
          PROVE  ZoneTypeOK'
        BY <1>3, <2>1 DEF Change
    <2>2. ASSUME NEW d \in Devices, Delete(d)
          PROVE  ZoneTypeOK'
        BY <2>1, <2>2 DEF Delete
    <2>3. ASSUME NEW d \in Devices, NEW a \in Addresses, Add(d, a)
          PROVE  ZoneTypeOK'
        BY <2>1, <2>3 DEF Add
    <2>4. ASSUME NEW d \in Devices, NEW new \in Devices, Rename(d, new)
          PROVE  ZoneTypeOK'
        BY <2>1, <2>4 DEF Rename
    <2> QED
        BY <1>14, <2>2, <2>3, <2>4 DEF ChangeStep
<1>15. CASE UNCHANGED zoneVars
    BY <1>15 DEF zoneVars
<1>16. CASE Tick
    BY <1>15, <1>16 DEF Tick
<1>17. CASE \E h \in Handlers : Query(h) \/ HandlerStep(h)
    BY <1>15, <1>17 DEF Query, HandlerStep, Send, Receive, Truncated, ExchangeFails, Fail
<1> QED
    BY <1>6, <1>7, <1>8, <1>9, <1>10, <1>11, <1>12, <1>13, <1>14, <1>15, <1>16, <1>17
    DEF Next, UpdaterStep, ChangeStep, vars

-----------------------------------------------------------------------------
(* The proxy.                                                              *)

\* What is cached may be given to anyone: it answers the question it is kept for, was
\* asked for without a network, is whole, and runs out with its TTL.
EntryOK(q, e) ==
    /\ e.response.question = q
    /\ e.response.subnet = NoSubnet
    /\ e.response.size # "cut"
    /\ e.expires <= e.response.at + Timeout + e.response.ttl

\* Every upstream was tried or is still to be tried, and the one that is waited for has
\* not had its time yet.
HandlerOK(s, time) ==
    /\ s.pc \in {"try", "sent"} =>
            s.tried \cup {Upstreams[i] : i \in Left(s.todo)} = Range(Upstreams)
    /\ s.pc = "sent" => s.asked \in Left(s.todo) /\ s.at <= time /\ time <= s.at + Timeout

AnswersOK == AnswersFresh /\ AnswersForAll /\ EveryUpstreamAsked

ProxyInv ==
    /\ ProxyTypeOK
    /\ \A q \in Cached : EntryOK(q, cache[q])
    /\ \A h \in Handlers : HandlerOK(handler[h], now)
    /\ AnswersOK

\* A full cache makes room: whatever is cached, was cached or is the new response.
LEMMA RoomIsMade ==
    ASSUME ProxyTypeOK, NEW response \in Response, CacheResponse(response)
    PROVE  /\ cache' \in [Questions -> Entry \cup {NoEntry}]
           /\ IsFiniteSet(Cached') /\ Cardinality(Cached') <= CacheSize
           /\ \A c \in Cached' :
                \/ c \in Cached /\ cache'[c] = cache[c]
                \/ /\ c = response.question
                   /\ cache'[c] = [response |-> response, expires |-> now + response.ttl]
<1> DEFINE q == response.question
           entry == [response |-> response, expires |-> now + response.ttl]
           others == Cached \ {q}
<1>1. /\ cache \in [Questions -> Entry \cup {NoEntry}]
      /\ IsFiniteSet(Cached) /\ Cardinality(Cached) <= CacheSize /\ CacheSize \in Nat
    BY Numbers DEF ProxyTypeOK
<1>2. CASE UNCHANGED cache
    BY <1>1, <1>2 DEF Cached
<1>3. CASE ~UNCHANGED cache
    <2>1. CacheSize # 0
        BY <1>3 DEF CacheResponse
    <2>2. PICK out \in IF Cardinality(others) < CacheSize THEN {{}} ELSE {{old} : old \in others} :
            cache' = [c \in Questions |-> IF c = q THEN entry
                                          ELSE IF c \in out THEN NoEntry ELSE cache[c]]
        BY <1>3 DEF CacheResponse
    <2>3. q \in Questions /\ entry \in Entry
        <3>1. now \in Nat
            BY TimesAreNumbers DEF ProxyTypeOK
        <3> QED
            BY <3>1, ResponseShape DEF Entry
    <2>4. cache' \in [Questions -> Entry \cup {NoEntry}]
        BY <1>1, <2>2, <2>3
    <2>5. /\ IsFiniteSet(others) /\ Cardinality(others) \in Nat
          /\ Cardinality(others) <= Cardinality(Cached)
        BY <1>1, FS_Subset, FS_CardinalityType, Zenon
    <2>6. Cached' \subseteq (others \ out) \cup {q}
        BY <2>2 DEF Cached
    <2>7. /\ IsFiniteSet(others \ out)
          /\ Cardinality(others \ out) \in Nat
          /\ Cardinality(others \ out) < CacheSize
        <3>1. CASE Cardinality(others) < CacheSize
            <4>1. others \ out = others
                BY <2>2, <3>1
            <4> QED
                BY <2>5, <3>1, <4>1
        <3>2. CASE ~(Cardinality(others) < CacheSize)
            <4>1. PICK old \in others : out = {old}
                BY <2>2, <3>2
            <4>2. /\ IsFiniteSet(others \ {old})
                  /\ Cardinality(others \ {old}) = Cardinality(others) - 1
                BY <2>5, FS_RemoveElement
            <4>3. Cardinality(Cached) \in Nat
                BY <1>1, FS_CardinalityType
            <4> QED
                BY <1>1, <2>1, <2>5, <4>1, <4>2, <4>3, FS_CardinalityType
        <3> QED
            BY <3>1, <3>2
    <2>8. /\ IsFiniteSet((others \ out) \cup {q})
          /\ Cardinality((others \ out) \cup {q}) <= CacheSize
          /\ Cardinality((others \ out) \cup {q}) \in Nat
        <3>1. q \notin others \ out
            OBVIOUS
        <3> HIDE DEF q, others
        <3> DEFINE rest == others \ out
        <3> HIDE DEF rest
        <3>2. /\ IsFiniteSet(rest \cup {q})
              /\ Cardinality(rest \cup {q}) = Cardinality(rest) + 1
            BY <2>7, <3>1, FS_AddElement DEF rest
        <3>3. Cardinality(rest) \in Nat /\ Cardinality(rest) < CacheSize
            BY <2>7 DEF rest
        <3>4. Cardinality(rest \cup {q}) <= CacheSize /\ Cardinality(rest \cup {q}) \in Nat
            BY <1>1, <3>2, <3>3
        <3> QED
            BY <3>2, <3>4 DEF rest
    <2>9. /\ IsFiniteSet(Cached') /\ Cardinality(Cached') \in Nat
          /\ Cardinality(Cached') <= Cardinality((others \ out) \cup {q})
        BY <2>6, <2>8, FS_Subset, FS_CardinalityType, Zenon
    <2>10. \A c \in Cached' : \/ c \in Cached /\ cache'[c] = cache[c]
                              \/ c = q /\ cache'[c] = entry
        BY <2>2 DEF Cached
    <2> QED
        BY <1>1, <2>4, <2>8, <2>9, <2>10
<1> QED
    BY <1>2, <1>3

\* A step of one handler: the others are as they were.
LEMMA OneHandler ==
    ASSUME ProxyInv, NEW h \in Handlers, NEW n \in {Idle} \cup Trying \cup Sent,
           handler' = [handler EXCEPT ![h] = n], HandlerOK(n, now), UNCHANGED now
    PROVE  /\ handler' \in [Handlers -> {Idle} \cup Trying \cup Sent]
           /\ \A k \in Handlers : HandlerOK(handler'[k], now)
<1>1. handler \in [Handlers -> {Idle} \cup Trying \cup Sent]
    BY DEF ProxyInv, ProxyTypeOK
<1>2. handler'[h] = n /\ \A k \in Handlers \ {h} : handler'[k] = handler[k]
    BY <1>1
<1>3. handler' \in [Handlers -> {Idle} \cup Trying \cup Sent]
    BY <1>1
<1>4. \A k \in Handlers : HandlerOK(handler[k], now)
    BY DEF ProxyInv
<1> QED
    BY <1>2, <1>3, <1>4

\* What the record of a handler holds.
LEMMA HandlerShape ==
    ASSUME ProxyInv, NEW h \in Handlers
    PROVE  /\ handler[h].pc \in {"idle", "try", "sent"}
           /\ handler[h].pc = "idle" => handler[h] = Idle
           /\ handler[h].pc = "try" => handler[h] \in Trying
           /\ handler[h].pc = "sent" => handler[h] \in Sent
           /\ HandlerOK(handler[h], now)
<1>1. handler[h] \in {Idle} \cup Trying \cup Sent
    BY DEF ProxyInv, ProxyTypeOK
<1>2. HandlerOK(handler[h], now)
    BY DEF ProxyInv
<1> QED
    BY <1>1, <1>2 DEF Idle, Trying, Sent

\* An answer that was given in time to a client whose request it is.
LEMMA AnswerIsOK ==
    ASSUME ProxyTypeOK, NEW request \in Request, NEW response \in Response,
           answer' = Answered(request, response),
           response.question = request.question, response.subnet = NoSubnet,
           response.size # "cut",
           now - response.at <= Timeout \/ now - response.at < response.ttl + Timeout
    PROVE  AnswersOK'
<1> DEFINE reply == ReplyTo(request, response)
<1>1. /\ reply.question = response.question /\ reply.subnet = response.subnet
      /\ reply.ttl = response.ttl
      /\ request.transport = "tcp" => reply.size = response.size
    <2>1. [response EXCEPT !.size = "cut"] =
            [question |-> response.question, subnet |-> response.subnet, ttl |-> response.ttl,
             at |-> response.at, size |-> "cut"]
        BY DEF Response
    <2>2. reply = response \/ reply = [response EXCEPT !.size = "cut"]
        BY DEF ReplyTo
    <2>3. request.transport = "tcp" => reply = response
        BY DEF ReplyTo
    <2> HIDE DEF reply
    <2> QED
        BY <2>1, <2>2, <2>3
<1>2. answer' = [request |-> request, age |-> now - response.at, reply |-> reply]
    BY DEF Answered
<1> HIDE DEF reply
<1>3. /\ DOMAIN answer' = {"request", "age", "reply"} /\ answer'.request = request
      /\ answer'.age = now - response.at /\ answer'.reply = reply
    BY <1>2
<1>4. AnswersFresh'
    BY <1>1, <1>3 DEF AnswersFresh
<1>5. AnswersForAll'
    BY <1>1, <1>3 DEF AnswersForAll
<1>6. EveryUpstreamAsked'
    BY <1>3 DEF EveryUpstreamAsked
<1> QED
    BY <1>4, <1>5, <1>6 DEF AnswersOK

LEMMA AnswerKept ==
    ASSUME AnswersOK, UNCHANGED answer
    PROVE  AnswersOK'
    BY DEF AnswersOK, AnswersFresh, AnswersForAll, EveryUpstreamAsked

LEMMA QueryKept ==
    ASSUME ProxyInv, NEW h \in Handlers, Query(h)
    PROVE  ProxyInv'
<1>1. PICK q \in Questions, subnet \in Subnets, transport \in {"udp", "tcp"} :
        LET request == [question |-> q, subnet |-> subnet, transport |-> transport]
        IN  /\ queries < MaxQueries /\ queries' = queries + 1
            /\ IF Fresh(q) THEN CacheHit(h, request)
               ELSE /\ cache' = [cache EXCEPT ![q] = NoEntry]
                    /\ handler' = [handler EXCEPT ![h] =
                            [pc |-> "try", request |-> request, todo |-> OrderedUpstreams,
                             tried |-> {}]]
                    /\ UNCHANGED answer
            /\ UNCHANGED <<zoneVars, now, failedAt>>
    BY DEF Query
<1> DEFINE request == [question |-> q, subnet |-> subnet, transport |-> transport]
<1>2. request \in Request
    BY DEF Request
<1>3. /\ now' = now /\ failedAt' = failedAt /\ queries' \in 0 .. MaxQueries
    BY <1>1, Numbers DEF ProxyInv, ProxyTypeOK
<1>4. CASE Fresh(q)
    <2>1. /\ answer' = Answered(request, cache[q].response)
          /\ cache' = cache /\ handler' = handler
        BY <1>1, <1>4 DEF CacheHit
    <2>2. /\ q \in Cached /\ now < cache[q].expires /\ cache[q] \in Entry
          /\ EntryOK(q, cache[q])
        BY <1>4 DEF Fresh, Cached, ProxyInv, ProxyTypeOK
    <2> DEFINE response == cache[q].response
    <2>3. response \in Response /\ cache[q].expires \in Nat
        BY <2>2 DEF Entry
    <2>4. now \in Nat /\ response.at \in Nat /\ response.ttl \in Nat
        <3>1. now \in Times
            BY DEF ProxyInv, ProxyTypeOK
        <3> QED
            BY <2>3, <3>1, ResponseShape, TimesAreNumbers
    <2>5. now - response.at < response.ttl + Timeout
        BY <2>2, <2>3, <2>4, Numbers DEF EntryOK
    <2>6. AnswersOK'
        BY <1>2, <2>1, <2>2, <2>3, <2>5, AnswerIsOK DEF EntryOK, ProxyInv
    <2>7. Cached' = Cached
        BY <2>1 DEF Cached
    <2> QED
        BY <1>3, <2>1, <2>6, <2>7 DEF ProxyInv, ProxyTypeOK
<1>5. CASE ~Fresh(q)
    <2> DEFINE n == [pc |-> "try", request |-> request, todo |-> OrderedUpstreams, tried |-> {}]
    <2>1. /\ cache' = [cache EXCEPT ![q] = NoEntry]
          /\ handler' = [handler EXCEPT ![h] = n]
          /\ UNCHANGED answer
        BY <1>1, <1>5
    <2>2. /\ cache' \in [Questions -> Entry \cup {NoEntry}]
          /\ Cached' \subseteq Cached /\ \A c \in Cached' : cache'[c] = cache[c]
        BY <2>1 DEF Cached, ProxyInv, ProxyTypeOK
    <2>3. /\ IsFiniteSet(Cached) /\ Cardinality(Cached) <= CacheSize
          /\ Cardinality(Cached) \in Nat
        BY FS_CardinalityType DEF ProxyInv, ProxyTypeOK
    <2>4. /\ IsFiniteSet(Cached') /\ Cardinality(Cached') \in Nat
          /\ Cardinality(Cached') <= Cardinality(Cached)
        BY <2>2, <2>3, FS_Subset, FS_CardinalityType, Zenon
    <2>5. Cardinality(Cached') <= CacheSize
        BY <2>3, <2>4, Numbers
    <2>6. OrderedUpstreams \in Todo /\ Left(OrderedUpstreams) = DOMAIN Upstreams
        BY DEF OrderedUpstreams, Todo, Cooling, Left
    <2>7. n \in Trying
        BY <1>2, <2>6 DEF Trying
    <2>8. HandlerOK(n, now)
        BY <2>6 DEF HandlerOK, Range
    <2> HIDE DEF n, request
    <2>9. /\ handler' \in [Handlers -> {Idle} \cup Trying \cup Sent]
          /\ \A k \in Handlers : HandlerOK(handler'[k], now)
        BY <1>3, <2>1, <2>7, <2>8, OneHandler
    <2>10. AnswersOK'
        BY <2>1, AnswerKept DEF ProxyInv
    <2>11. \A c \in Cached' : EntryOK(c, cache'[c])
        BY <2>2 DEF ProxyInv
    <2>12. ProxyTypeOK'
        BY <1>3, <2>2, <2>4, <2>5, <2>9 DEF ProxyInv, ProxyTypeOK
    <2> QED
        BY <1>3, <2>9, <2>10, <2>11, <2>12 DEF ProxyInv
<1> QED
    BY <1>4, <1>5

\* The state of the proxy but for one handler is unchanged.
LEMMA HandlerOnly ==
    ASSUME ProxyInv, NEW h \in Handlers, NEW n \in Trying \cup Sent,
           handler' = [handler EXCEPT ![h] = n], HandlerOK(n, now),
           UNCHANGED <<now, cache, queries, answer>>,
           failedAt' \in [Range(Upstreams) -> Times \cup {Never}]
    PROVE  ProxyInv'
<1>1. /\ handler' \in [Handlers -> {Idle} \cup Trying \cup Sent]
      /\ \A k \in Handlers : HandlerOK(handler'[k], now)
    BY OneHandler
<1>2. Cached' = Cached
    BY DEF Cached
<1>3. AnswersOK'
    BY AnswerKept DEF ProxyInv
<1>4. ProxyTypeOK'
    BY <1>1, <1>2 DEF ProxyInv, ProxyTypeOK
<1> QED
    BY <1>1, <1>2, <1>3, <1>4 DEF ProxyInv

LEMMA SendKept ==
    ASSUME ProxyInv, NEW h \in Handlers, Send(h)
    PROVE  ProxyInv'
<1>1. handler[h] \in Trying /\ HandlerOK(handler[h], now) /\ handler[h].pc = "try"
    BY HandlerShape DEF Send
<1>2. PICK i \in Left(handler[h].todo) :
        handler' = [handler EXCEPT ![h] =
                [pc |-> "sent", via |-> "udp", at |-> now, asked |-> i,
                 request |-> handler[h].request, todo |-> handler[h].todo,
                 tried |-> handler[h].tried]]
    BY DEF Send
<1> DEFINE n == [pc |-> "sent", via |-> "udp", at |-> now, asked |-> i,
                 request |-> handler[h].request, todo |-> handler[h].todo,
                 tried |-> handler[h].tried]
<1>3. now \in Times /\ now \in Nat
    BY TimesAreNumbers DEF ProxyInv, ProxyTypeOK
<1>4. i \in DOMAIN Upstreams
    BY <1>1, <1>2 DEF Trying, Todo, Left
<1>5. n \in Sent
    BY <1>1, <1>3, <1>4 DEF Trying, Sent
<1>6. HandlerOK(n, now)
    BY <1>1, <1>2, <1>3, Numbers DEF HandlerOK
<1> HIDE DEF n
<1>7. /\ handler' = [handler EXCEPT ![h] = n]
      /\ UNCHANGED <<now, cache, queries, answer, failedAt>>
    BY <1>2 DEF n, Send
<1> QED
    BY <1>5, <1>6, <1>7, HandlerOnly DEF ProxyInv, ProxyTypeOK

LEMMA TruncatedKept ==
    ASSUME ProxyInv, NEW h \in Handlers, Truncated(h)
    PROVE  ProxyInv'
<1>1. handler[h] \in Sent /\ HandlerOK(handler[h], now) /\ handler[h].pc = "sent"
    BY HandlerShape DEF Truncated, Waiting
<1> DEFINE n == [handler[h] EXCEPT !.via = "tcp", !.at = now]
<1>2. now \in Times /\ now \in Nat
    BY TimesAreNumbers DEF ProxyInv, ProxyTypeOK
<1>3. /\ n \in Sent /\ n.at = now /\ n.pc = "sent" /\ n.tried = handler[h].tried
      /\ n.todo = handler[h].todo /\ n.asked = handler[h].asked
    BY <1>1, <1>2 DEF Sent
<1> HIDE DEF n
<1>4. HandlerOK(n, now)
    BY <1>1, <1>2, <1>3, Numbers DEF HandlerOK
<1>5. /\ handler' = [handler EXCEPT ![h] = n]
      /\ UNCHANGED <<now, cache, queries, answer, failedAt>>
    BY DEF n, Truncated
<1> QED
    BY <1>3, <1>4, <1>5, HandlerOnly DEF ProxyInv, ProxyTypeOK

LEMMA ExchangeFailsKept ==
    ASSUME ProxyInv, NEW h \in Handlers, ExchangeFails(h)
    PROVE  ProxyInv'
<1> DEFINE s == handler[h]
           u == Upstreams[s.asked]
           n == [pc |-> "try", request |-> s.request, todo |-> Without(s.todo, s.asked),
                 tried |-> s.tried \cup {u}]
<1>1. s \in Sent /\ HandlerOK(s, now) /\ s.pc = "sent"
    BY HandlerShape DEF ExchangeFails, Waiting
<1>2. now \in Times
    BY DEF ProxyInv, ProxyTypeOK
<1>3. s.asked \in DOMAIN Upstreams /\ s.todo \in Todo /\ u \in Range(Upstreams)
    BY <1>1 DEF Sent, Range
<1>4. n \in Trying
    BY <1>1, <1>3 DEF Sent, Trying, Todo, Without
<1>5. HandlerOK(n, now)
    <2>1. Left(Without(s.todo, s.asked)) = Left(s.todo) \ {s.asked}
        BY DEF Left, Without
    <2>2. /\ s.tried \cup {Upstreams[i] : i \in Left(s.todo)} = Range(Upstreams)
          /\ s.asked \in Left(s.todo)
        BY <1>1 DEF HandlerOK
    <2>3. s.tried \cup {u} \cup {Upstreams[i] : i \in Left(s.todo) \ {s.asked}} = Range(Upstreams)
        BY <2>2
    <2> QED
        BY <2>1, <2>3 DEF HandlerOK
<1>6. /\ handler' = [handler EXCEPT ![h] = n]
      /\ UNCHANGED <<now, cache, queries, answer>>
      /\ failedAt' = [failedAt EXCEPT ![u] = now]
    BY DEF ExchangeFails
<1> HIDE DEF n, u
<1>7. failedAt' \in [Range(Upstreams) -> Times \cup {Never}]
    BY <1>2, <1>3, <1>6 DEF ProxyInv, ProxyTypeOK
<1> QED
    BY <1>4, <1>5, <1>6, <1>7, HandlerOnly

LEMMA ReceiveKept ==
    ASSUME ProxyInv, NEW h \in Handlers, Receive(h)
    PROVE  ProxyInv'
<1> DEFINE s == handler[h]
           u == Upstreams[s.asked]
<1>1. s \in Sent /\ HandlerOK(s, now) /\ s.pc = "sent"
    BY HandlerShape DEF Receive, Waiting
<1>2. PICK ttl \in TTLs, size \in {"small", "large"} :
        LET response == [question |-> s.request.question, subnet |-> PurgeECS(s.request.subnet),
                         ttl |-> ttl, at |-> s.at, size |-> size]
        IN  /\ failedAt' = [failedAt EXCEPT ![u] = Never]
            /\ CacheResponse(response)
            /\ answer' = Answered(s.request, response)
            /\ handler' = [handler EXCEPT ![h] = Idle]
    BY DEF Receive
<1> DEFINE response == [question |-> s.request.question, subnet |-> PurgeECS(s.request.subnet),
                        ttl |-> ttl, at |-> s.at, size |-> size]
<1>3. /\ s.request \in Request /\ s.at \in Times /\ u \in Range(Upstreams)
    BY <1>1 DEF Sent, Range
<1>4. /\ response \in Response /\ response.question = s.request.question
      /\ response.subnet = NoSubnet /\ response.size # "cut"
      /\ response.at = s.at /\ response.ttl = ttl
    BY <1>3, DnsAssumption DEF Request, Response, PurgeECS
<1>5. /\ CacheResponse(response) /\ answer' = Answered(s.request, response)
      /\ handler' = [handler EXCEPT ![h] = Idle]
      /\ failedAt' = [failedAt EXCEPT ![u] = Never]
      /\ UNCHANGED <<now, queries>>
    BY <1>2 DEF Receive
<1> HIDE DEF response, u
<1>6. now \in Nat /\ s.at \in Nat /\ ttl \in Nat /\ Timeout \in Nat
    BY <1>3, Numbers, TimesAreNumbers DEF ProxyInv, ProxyTypeOK
<1>7. now <= s.at + Timeout
    BY <1>1 DEF HandlerOK
<1>8. now - response.at <= Timeout
    BY <1>4, <1>6, <1>7
<1>9. AnswersOK'
    BY <1>3, <1>4, <1>5, <1>8, AnswerIsOK DEF ProxyInv
<1>10. /\ cache' \in [Questions -> Entry \cup {NoEntry}]
       /\ IsFiniteSet(Cached') /\ Cardinality(Cached') <= CacheSize
       /\ \A c \in Cached' :
            \/ c \in Cached /\ cache'[c] = cache[c]
            \/ /\ c = response.question
               /\ cache'[c] = [response |-> response, expires |-> now + response.ttl]
    BY <1>4, <1>5, RoomIsMade DEF ProxyInv
<1>11. EntryOK(response.question, [response |-> response, expires |-> now + response.ttl])
    BY <1>4, <1>6, <1>7 DEF EntryOK
<1>12. \A c \in Cached' : EntryOK(c, cache'[c])
    BY <1>10, <1>11 DEF ProxyInv
<1>13. failedAt' \in [Range(Upstreams) -> Times \cup {Never}]
    BY <1>3, <1>5 DEF ProxyInv, ProxyTypeOK
<1>14. HandlerOK(Idle, now)
    BY DEF HandlerOK, Idle
<1>15. /\ handler' \in [Handlers -> {Idle} \cup Trying \cup Sent]
       /\ \A k \in Handlers : HandlerOK(handler'[k], now)
    BY <1>5, <1>14, OneHandler
<1>16. ProxyTypeOK'
    BY <1>5, <1>10, <1>13, <1>15 DEF ProxyInv, ProxyTypeOK
<1> QED
    BY <1>5, <1>9, <1>12, <1>15, <1>16 DEF ProxyInv

LEMMA FailKept ==
    ASSUME ProxyInv, NEW h \in Handlers, Fail(h)
    PROVE  ProxyInv'
<1>1. HandlerOK(handler[h], now) /\ handler[h].pc = "try" /\ Left(handler[h].todo) = {}
    BY HandlerShape DEF Fail
<1>2. handler[h].tried = Range(Upstreams)
    BY <1>1 DEF HandlerOK
<1>3. /\ handler' = [handler EXCEPT ![h] = Idle] /\ answer' = [failed |-> handler[h].tried]
      /\ UNCHANGED <<now, cache, failedAt, queries>>
    BY DEF Fail
<1>4. AnswersOK'
    BY <1>2, <1>3 DEF AnswersOK, AnswersFresh, AnswersForAll, EveryUpstreamAsked
<1>5. HandlerOK(Idle, now)
    BY DEF HandlerOK, Idle
<1>6. /\ handler' \in [Handlers -> {Idle} \cup Trying \cup Sent]
      /\ \A k \in Handlers : HandlerOK(handler'[k], now)
    BY <1>3, <1>5, OneHandler
<1>7. Cached' = Cached
    BY <1>3 DEF Cached
<1>8. ProxyTypeOK'
    BY <1>3, <1>6, <1>7 DEF ProxyInv, ProxyTypeOK
<1> QED
    BY <1>3, <1>4, <1>6, <1>7, <1>8 DEF ProxyInv

\* Time waits for an exchange that is due.
LEMMA TickKept ==
    ASSUME ProxyInv, Tick
    PROVE  ProxyInv'
<1>1. /\ now < MaxTime /\ now' = now + 1 /\ UNCHANGED <<cache, failedAt, queries, handler, answer>>
      /\ \A h \in Handlers : Waiting(h) => now < handler[h].at + Timeout
    BY DEF Tick
<1>2. now \in Times /\ now \in Nat
    BY TimesAreNumbers DEF ProxyInv, ProxyTypeOK
<1>3. now' \in Times
    BY <1>1, <1>2, Numbers DEF Times
<1>4. Cached' = Cached
    BY <1>1 DEF Cached
<1>5. ProxyTypeOK'
    BY <1>1, <1>3, <1>4 DEF ProxyInv, ProxyTypeOK
<1>6. AnswersOK'
    BY <1>1, AnswerKept DEF ProxyInv
<1>7. ASSUME NEW h \in Handlers
      PROVE  HandlerOK(handler[h], now + 1)
    <2>1. HandlerOK(handler[h], now) /\ (handler[h].pc = "sent" => handler[h] \in Sent)
        BY HandlerShape
    <2>2. CASE handler[h].pc = "sent"
        <3>1. handler[h].at \in Nat
            BY <2>1, <2>2, TimesAreNumbers DEF Sent
        <3>2. now < handler[h].at + Timeout
            BY <1>1, <2>2 DEF Waiting
        <3>3. handler[h].at <= now + 1 /\ now + 1 <= handler[h].at + Timeout
            BY <1>2, <2>1, <2>2, <3>1, <3>2, Numbers DEF HandlerOK
        <3> QED
            BY <2>1, <3>3 DEF HandlerOK
    <2>3. CASE handler[h].pc # "sent"
        BY <2>1, <2>3 DEF HandlerOK
    <2> QED
        BY <2>2, <2>3
<1> QED
    BY <1>1, <1>4, <1>5, <1>6, <1>7 DEF ProxyInv

LEMMA ProxyKept ==
    ASSUME ProxyInv, [Next]_vars
    PROVE  ProxyInv'
<1>1. CASE UNCHANGED proxyVars
    <2>1. Cached' = Cached
        BY <1>1 DEF Cached, proxyVars
    <2>2. AnswersOK'
        BY <1>1, AnswerKept DEF ProxyInv, proxyVars
    <2>3. ProxyTypeOK'
        BY <1>1, <2>1 DEF ProxyInv, ProxyTypeOK, proxyVars
    <2> QED
        BY <1>1, <2>1, <2>2, <2>3 DEF ProxyInv, proxyVars
<1>2. CASE UpdaterStep
    BY <1>1, <1>2 DEF UpdaterStep, StartList, StartPush, Register, Rebuild, Push, Quit,
                      ListThen, PushThen
<1>3. CASE Heard \/ Stop
    BY <1>1, <1>3 DEF Heard, Stop
<1>4. CASE ChangeStep
    BY <1>1, <1>4 DEF ChangeStep, Add, Rename, Delete, Change
<1>5. CASE Tick
    BY <1>5, TickKept
<1>6. CASE \E h \in Handlers : Query(h) \/ HandlerStep(h)
    BY <1>6, QueryKept, SendKept, ReceiveKept, TruncatedKept, ExchangeFailsKept, FailKept
    DEF HandlerStep
<1> QED
    BY <1>1, <1>2, <1>3, <1>4, <1>5, <1>6 DEF Next, ChangeStep, vars

LEMMA ProxyStarts ==
    ASSUME Init
    PROVE  ProxyInv
<1>1. Cached = {}
    BY DEF Init, Cached
<1>2. IsFiniteSet(Cached) /\ Cardinality(Cached) <= CacheSize
    BY <1>1, FS_EmptySet, Numbers
<1>3. now \in Times /\ queries \in 0 .. MaxQueries
    BY Numbers DEF Init, Times
<1>4. ProxyTypeOK
    BY <1>2, <1>3 DEF Init, ProxyTypeOK
<1>5. \A h \in Handlers : HandlerOK(handler[h], now)
    BY DEF Init, HandlerOK, Idle
<1>6. AnswersOK
    BY DEF Init, AnswersOK, AnswersFresh, AnswersForAll, EveryUpstreamAsked
<1> QED
    BY <1>1, <1>4, <1>5, <1>6 DEF ProxyInv

-----------------------------------------------------------------------------
(* The theorems. *)

\* Spec without its fairness, which no safety property needs.
LEMMA SafetyOnly == Spec => Init /\ [][Next]_vars
    BY PTL DEF Spec

\* A device is found under its name once every change was heard and the updater rests
\* (DevicesFound), for every table, however two names collide and whatever order the
\* changes, the callbacks and the rebuilds of startDNS and zoneUpdater take.
THEOREM ZoneFollows == Spec => []DevicesFound
<1>1. Init => ZoneInv
    BY DEF Init, ZoneInv
<1>2. ZoneInv /\ [Next]_vars => ZoneInv'
    BY ZoneKept
<1>3. ZoneInv => DevicesFound
    BY ZoneFound
<1> QED
    BY <1>1, <1>2, <1>3, SafetyOnly, PTL

LEMMA ProxyAlways == Spec => []ProxyInv
<1>1. Init => ProxyInv
    BY ProxyStarts
<1>2. ProxyInv /\ [Next]_vars => ProxyInv'
    BY ProxyKept
<1> QED
    BY <1>1, <1>2, SafetyOnly, PTL

\* Every variable keeps its type and the cache of the proxy is never larger than
\* CacheSize, of whatever size it is made and whatever is asked (DnsTypeOK).
THEOREM DnsTypes == Spec => []DnsTypeOK
<1>1. Init => ZoneTypeOK
    <2> SUFFICES ASSUME Init
                 PROVE  ZoneTypeOK
        OBVIOUS
    <2>1. DOMAIN table \subseteq Devices /\ table \in [DOMAIN table -> Addresses]
        <3>1. CASE table \in [Devices -> Addresses]
            BY <3>1
        <3>2. CASE table = <<>>
            <4>1. DOMAIN table = {} /\ table = [e \in {} |-> table[e]]
                BY <3>2
            <4> QED
                BY <4>1
        <3> QED
            BY <3>1, <3>2 DEF Init
    <2>2. changes \in 0 .. MaxChanges
        BY Numbers DEF Init
    <2> QED
        BY <2>1, <2>2 DEF Init, ZoneTypeOK, Zones
<1>2. ZoneTypeOK /\ [Next]_vars => ZoneTypeOK'
    BY ZoneTypesKept
<1>3. ZoneTypeOK /\ ProxyInv => DnsTypeOK
    BY DEF ProxyInv, DnsTypeOK
<1> QED
    BY <1>1, <1>2, <1>3, ProxyAlways, SafetyOnly, PTL

\* An answer is never older than its TTL and the time one exchange may take
\* (AnswersFresh), whether Lookup takes it from the cache or from an upstream.
THEOREM NothingStale == Spec => []AnswersFresh
<1>1. ProxyInv => AnswersFresh
    BY DEF ProxyInv, AnswersOK
<1> QED
    BY <1>1, ProxyAlways, PTL

\* What the shared cache holds of one client's query is right for every other client
\* (AnswersForAll): purgeECS before the query, truncateIfRequired after the copy.
THEOREM CacheIsForAll == Spec => []AnswersForAll
<1>1. ProxyInv => AnswersForAll
    BY DEF ProxyInv, AnswersOK
<1> QED
    BY <1>1, ProxyAlways, PTL

\* Lookup fails only after an exchange with every upstream failed (EveryUpstreamAsked),
\* for any list of upstreams and whatever other queries find out of them meanwhile.
THEOREM NoUpstreamLeftOut == Spec => []EveryUpstreamAsked
<1>1. ProxyInv => EveryUpstreamAsked
    BY DEF ProxyInv, AnswersOK
<1> QED
    BY <1>1, ProxyAlways, PTL
=============================================================================
