------------------------------ MODULE Firewall ------------------------------
(***************************************************************************)
(* The forwarding rules of the VPN: how they are computed from the         *)
(* configuration, the networks routed through devices and the access       *)
(* policies of the people who signed in, how the two backends put them     *)
(* into the kernel, and how one server process keeps them up to date       *)
(* (internal/network, syncFirewallState of internal/devices and            *)
(* cmd/serve/wireguard.go).                                                *)
(*                                                                         *)
(* nftables replaces its table in one transaction.  iptables clears its    *)
(* chains and appends rule by rule, and any of those commands may fail.    *)
(* The synchronization that hands the rules over is the one that PeerSync  *)
(* models for the peers; its work on the peers is left out here.  Other    *)
(* replicas are the same process again: they only write to the tables.     *)
(*                                                                         *)
(* A place is the address of a host in a family; a network is a set of     *)
(* places of one family, and a rule matches two sets of places.            *)
(***************************************************************************)
EXTENDS Integers, Sequences, FiniteSets, SequencesExt

CONSTANTS
    Devices,      \* the primary keys of devices
    Owners, OwnerOf,
    Mapped,       \* the owners whose provider maps claims to policies
    Policies, Nets, NetFamily, NetHosts,
    Hosts,        \* hosts that are neither the server nor a device
    Grants,       \* the sets of policies that claims may give
    AllowedIPs,   \* vpn.allowedIPs
    PolicyNets,   \* the networks of each policy
    Routable,     \* what may be routed to a device
    Tables,       \* what the devices and users tables may hold at first
    Confs,        \* the configurations that a start may find
    MaxWrites,    \* bound of the changes of the tables
    MaxFails,     \* bound of the commands and statements that fail
    MaxStarts,    \* bound of the starts of the process
    Server, NoDevice, Nobody

Families == {"ip", "ip6"}
Who == Devices \cup Hosts \cup {Server}
PlacesOf(f) == {<<w, f>> : w \in Who}

\* families: the ones that have a VPN network; gateway: its interface is known.
Conf == [firewall: {"iptables", "nftables", "none"}, isolation: BOOLEAN,
         families: SUBSET Families, nat: [Families -> BOOLEAN], gateway: BOOLEAN,
         policies: SUBSET Policies]

\* The server refuses to start with policies and any backend but nftables.
ASSUME FirewallAssumption ==
    /\ OwnerOf \in [Devices -> Owners] /\ Mapped \subseteq Owners
    /\ NetFamily \in [Nets -> Families] /\ NetHosts \in [Nets -> SUBSET Who]
    /\ Grants \subseteq SUBSET Policies
    /\ AllowedIPs \subseteq Nets /\ Routable \subseteq Nets
    /\ PolicyNets \in [Policies -> SUBSET Nets]
    /\ Confs \subseteq Conf
    /\ \A c \in Confs : c.firewall = "nftables" \/ c.policies = {}
    /\ {MaxWrites, MaxFails, MaxStarts} \subseteq Nat
    /\ IsFiniteSet(Nets) /\ IsFiniteSet(Policies)
    /\ Server \notin Devices /\ Hosts \cap (Devices \cup {Server}) = {}
    /\ Nobody \notin {"boot", "loop", "start"}

\* Until when a device may connect: 0 if it is blocked, 2 if it never expires.
Row == [routes: SUBSET Routable, until: 0 .. 2]
Never == 2
State == [routed: SUBSET Routable, members: [Policies -> SUBSET Devices]]

ASSUME TablesAssumption ==
    Tables \subseteq [rows: [Devices -> Row \cup {NoDevice}],
                      groups: [Owners -> SUBSET Policies]]

NoState == [routed |-> {}, members |-> [p \in Policies |-> {}]]

NetPlaces(n) == {<<w, NetFamily[n]>> : w \in NetHosts[n]}
Cidr(f) == {<<w, f>> : w \in Devices \cup {Server}}

-----------------------------------------------------------------------------
(* The rules.                                                              *)

NetsOf(nets, f) == {n \in nets : NetFamily[n] = f}

\* One rule per network: accept what "from" sends there.
To(from, nets, f) ==
    {[from |-> from, to |-> NetPlaces(n), act |-> "accept"] : n \in NetsOf(nets, f)}

\* Mutant: the answers are let back only to everybody, not to a policy's members.
BackToAll(c, nets, to, f) ==
    {[from |-> NetPlaces(n), to |-> to, act |-> "accept"] :
        n \in {m \in NetsOf(nets, f) : ~c.nat[f] /\ to = Cidr(f)}}

\* Without NAT the answers come back to the clients' own addresses.
Back(c, nets, to, f) ==
    {[from |-> NetPlaces(n), to |-> to, act |-> "accept"] :
        n \in {m \in NetsOf(nets, f) : ~c.nat[f]}}

Reject(from, to) == <<[from |-> from, to |-> to, act |-> "reject"]>>

Isolation(c, f) == IF c.isolation THEN Reject(Cidr(f), Cidr(f)) ELSE <<>>

Addresses(ds, f) == {<<d, f>> : d \in ds}
Members(c, st) == UNION {st.members[p] : p \in c.policies}

PolicyAccepts(c, st, f) ==
    UNION {To(Addresses(st.members[p], f), PolicyNets[p], f) \cup
           Back(c, PolicyNets[p], Addresses(st.members[p], f), f) : p \in c.policies}

\* The server, the networks of each policy, and nothing else for its members.
\* Between the two there are only rules that accept: their order is of no account.
PolicyRules(c, st, f) ==
    IF c.policies = {} THEN <<>>
    ELSE <<[from |-> Cidr(f), to |-> {<<Server, f>>}, act |-> "accept"]>> \o
         SetToSeq(PolicyAccepts(c, st, f)) \o
         Reject(Addresses(Members(c, st), f), PlacesOf(f))

\* vpn.allowedIPs with the networks behind devices; then everything else.
OpenRules(c, st, f) ==
    SetToSeq(To(Cidr(f), AllowedIPs \cup st.routed, f)) \o
    SetToSeq(Back(c, AllowedIPs \cup st.routed, Cidr(f), f)) \o
    Reject(Cidr(f), PlacesOf(f))

\* iptables has no policies, and is not configured with any.
RulesOf(c, st, f) == Isolation(c, f) \o PolicyRules(c, st, f) \o OpenRules(c, st, f)

Masquerades(c, f) == c.nat[f] /\ c.gateway

\* The table of nftables.  The rules of both families are in one chain; as those
\* of one match nothing of the other, each family has a list of its own here.
TableOf(c, st) ==
    [rules |-> [f \in Families |-> IF f \in c.families THEN RulesOf(c, st, f) ELSE <<>>],
     nat |-> [f \in Families |-> f \in c.families /\ Masquerades(c, f)]]

IPTablesCommands(c, st, f) ==
    LET rules == RulesOf(c, st, f)
    IN  IF f \notin c.families THEN <<>>
        ELSE <<[op |-> "clear", f |-> f], [op |-> "clearNat", f |-> f],
               [op |-> "hook", f |-> f]>> \o
             [i \in DOMAIN rules |-> [op |-> "append", f |-> f, rule |-> rules[i]]] \o
             (IF Masquerades(c, f) THEN <<[op |-> "masquerade", f |-> f]>> ELSE <<>>)

\* What ConfigureForwarding has to do: one transaction, or a list of commands.
Commands(c, st) ==
    IF c.firewall = "none" THEN <<>>
    ELSE IF c.firewall = "nftables" THEN <<[op |-> "ruleset", table |-> TableOf(c, st)]>>
    ELSE IPTablesCommands(c, st, "ip") \o IPTablesCommands(c, st, "ip6")

-----------------------------------------------------------------------------
VARIABLES
    conf,       \* the configuration of the running process
    now,        \* the clock: 0, then 1
    rows,       \* the devices table
    groups,     \* the policies in each owner's row of the users table
    ipt, nft,   \* the kernel: the chains of each family, and the table
    proc,       \* "down", "starting", "running"
    event,      \* a change is on its way to the process
    resync,     \* whether the one-element channel d.resync is full
    sync,       \* the synchronizations: at the start and in resyncLoop
    mu, cmds,   \* who holds firewallMu, and what is left of its commands
    applied,    \* d.firewall
    writes, fails, starts,
    behind,     \* history: the last synchronization failed or was overtaken
    half        \* history: an iptables update stopped in the middle

tables == <<now, rows, groups>>
kernel == <<ipt, nft>>
bounds == <<writes, fails, starts>>
vars == <<conf, now, rows, groups, ipt, nft, proc, event, resync, sync, mu, cmds,
          applied, writes, fails, starts, behind, half>>

Syncers == {"boot", "loop"}
AtRest(l) == [pc |-> l, seen |-> [d \in Devices |-> NoDevice], state |-> NoState,
              overtaken |-> FALSE]
Unconfigured == [firewall |-> "none", isolation |-> FALSE, families |-> {},
                 nat |-> [f \in Families |-> FALSE], gateway |-> FALSE,
                 policies |-> {}]

NoChain == [hooked |-> FALSE, chain |-> <<>>, nat |-> FALSE]
NoTable == [rules |-> [f \in Families |-> <<>>], nat |-> [f \in Families |-> FALSE]]

Init ==
    /\ conf = Unconfigured /\ now = 0
    /\ \E t \in Tables : rows = t.rows /\ groups = t.groups
    /\ ipt = [f \in Families |-> NoChain] /\ nft = NoTable
    /\ proc = "down" /\ event = FALSE /\ resync = FALSE
    /\ sync = [a \in Syncers |-> AtRest("wait")]
    /\ mu = Nobody /\ cmds = <<>> /\ applied = NoState
    /\ writes = 0 /\ fails = 0 /\ starts = 0
    /\ behind = FALSE /\ half = FALSE

AccessAllowed(row) == row # NoDevice /\ now < row.until
Stored(table) == {d \in Devices : table[d] # NoDevice}
RoutedIn(table) == UNION {table[d].routes : d \in Stored(table)}

-----------------------------------------------------------------------------
(* What writes to the tables, in this process or on another replica.       *)

Write(table, users) ==
    /\ writes < MaxWrites
    /\ writes' = writes + 1
    /\ rows' = table /\ groups' = users
    /\ event' = (proc = "running")
    /\ UNCHANGED <<conf, now, kernel, proc, resync, sync, mu, cmds, applied, fails,
                   starts, behind, half>>

Apart(d, routes) == {e \in Stored(rows) \ {d} : rows[e].routes \cap routes # {}} = {}

\* A network is behind one device at most.
AddDevice(d, routes) ==
    /\ rows[d] = NoDevice /\ Apart(d, routes)
    /\ Write([rows EXCEPT ![d] = [routes |-> routes, until |-> Never]], groups)

SetDeviceRoutes(d, routes) ==
    /\ rows[d] # NoDevice /\ Apart(d, routes)
    /\ Write([rows EXCEPT ![d].routes = routes], groups)

SetDeviceAccess(d, until) ==
    /\ rows[d] # NoDevice
    /\ Write([rows EXCEPT ![d].until = until], groups)

DeleteDevice(d) ==
    /\ rows[d] # NoDevice
    /\ Write([rows EXCEPT ![d] = NoDevice], groups)

\* A sign-in stores the policies that the provider's claims give.
SignIn(o, ps) == Write(rows, [groups EXCEPT ![o] = ps])

\* An expiry date passes: nothing is written, and nobody is told.
Tick ==
    /\ now = 0
    /\ now' = 1
    /\ UNCHANGED <<conf, rows, groups, kernel, proc, event, resync, sync, mu, cmds,
                   applied, bounds, behind, half>>

-----------------------------------------------------------------------------
(* ConfigureForwarding and its commands.                                   *)

\* Where the other backend has rules of an earlier start.
OthersRules(c) ==
    {f \in Families : \/ c.firewall = "nftables" /\ ipt[f] # NoChain
                      \/ c.firewall = "iptables" /\ nft # NoTable}

\* They are taken out first, every time; what fails stays, with a log entry.
RemoveOther(c) ==
    \E kept \in SUBSET OthersRules(c) :
        /\ kept # {} => fails < MaxFails
        /\ fails' = IF kept = {} THEN fails ELSE fails + 1
        /\ ipt' = IF c.firewall = "nftables"
                  THEN [f \in Families |-> IF f \in kept THEN ipt[f] ELSE NoChain]
                  ELSE ipt
        /\ nft' = IF c.firewall = "iptables" /\ kept = {} THEN NoTable ELSE nft

\* startWireGuard: the rules without anything of the tables, before the peers.
Start ==
    /\ proc = "down"
    /\ starts < MaxStarts
    /\ starts' = starts + 1
    /\ proc' = "starting"
    /\ \E c \in Confs :
        /\ conf' = c
        /\ RemoveOther(c)
        /\ cmds' = Commands(c, NoState)
    /\ mu' = "start"
    /\ applied' = NoState
    /\ UNCHANGED <<tables, event, resync, sync, writes, behind, half>>

\* AppendUnique leaves a rule that is there where it is.
Execute(c) ==
    \/ c.op = "ruleset" /\ nft' = c.table /\ UNCHANGED ipt
    \/ c.op = "clear" /\ ipt' = [ipt EXCEPT ![c.f].chain = <<>>] /\ UNCHANGED nft
    \/ c.op = "clearNat" /\ ipt' = [ipt EXCEPT ![c.f].nat = FALSE] /\ UNCHANGED nft
    \/ c.op = "hook" /\ ipt' = [ipt EXCEPT ![c.f].hooked = TRUE] /\ UNCHANGED nft
    \/ /\ c.op = "append"
       /\ ipt' = [ipt EXCEPT ![c.f].chain =
                        IF Contains(@, c.rule) THEN @ ELSE Append(@, c.rule)]
       /\ UNCHANGED nft
    \/ c.op = "masquerade" /\ ipt' = [ipt EXCEPT ![c.f].nat = TRUE] /\ UNCHANGED nft

RunCommand ==
    /\ cmds # <<>>
    /\ Execute(Head(cmds))
    /\ cmds' = Tail(cmds)
    /\ UNCHANGED <<conf, tables, proc, event, resync, sync, mu, applied, bounds,
                   behind, half>>

-----------------------------------------------------------------------------
(* The synchronizations.                                                   *)

\* Synchronization a ends; one that listed the devices before is overtaken.
EndSync(a) ==
    [b \in Syncers |->
        IF b = a THEN AtRest("wait")
        ELSE [sync[b] EXCEPT !.overtaken = @ \/ sync[b].pc \in {"users", "lock", "apply"}]]

\* Mutant: the synchronization starts before the rules are in place.
StartedEarly ==
    /\ mu = "start"
    /\ proc' = "running" /\ mu' = Nobody
    /\ half' = FALSE
    /\ sync' = [sync EXCEPT !.boot = AtRest("list")]
    /\ UNCHANGED <<conf, tables, kernel, event, resync, cmds, applied, bounds, behind>>

\* The start is done: the callbacks are registered and the first sync begins.
Started ==
    /\ mu = "start" /\ cmds = <<>>
    /\ proc' = "running" /\ mu' = Nobody
    /\ half' = FALSE
    /\ sync' = [sync EXCEPT !.boot = AtRest("list")]
    /\ UNCHANGED <<conf, tables, kernel, event, resync, cmds, applied, bounds, behind>>

\* A callback or a notification asks for a resynchronization.
Notified ==
    /\ event
    /\ event' = FALSE /\ resync' = TRUE
    /\ UNCHANGED <<conf, tables, kernel, proc, sync, mu, cmds, applied, bounds,
                   behind, half>>

Receive ==
    /\ resync /\ sync.loop.pc = "wait"
    /\ resync' = FALSE
    /\ sync' = [sync EXCEPT !.loop = AtRest("list")]
    /\ UNCHANGED <<conf, tables, kernel, proc, event, mu, cmds, applied, bounds,
                   behind, half>>

ListDevices(a) ==
    /\ sync[a].pc = "list"
    /\ sync' = [sync EXCEPT ![a].pc = "users", ![a].seen = rows]
    /\ UNCHANGED <<conf, tables, kernel, proc, event, resync, mu, cmds, applied,
                   bounds, behind, half>>

\* Mutant: somebody in several policies is in the first of them only.
FirewallStateOne(seen) ==
    [routed |-> RoutedIn(seen),
     members |-> [p \in Policies |->
        {d \in Devices : AccessAllowed(seen[d]) /\ groups[OwnerOf[d]] # {} /\
                         p = CHOOSE q \in groups[OwnerOf[d]] : TRUE}]]

\* The networks behind devices, and the devices in each policy that may connect.
FirewallState(seen) ==
    [routed |-> RoutedIn(seen),
     members |-> [p \in Policies |->
        {d \in Devices : AccessAllowed(seen[d]) /\ p \in groups[OwnerOf[d]]}]]

\* The users are listed after the peers were repaired.
ListUsers(a) ==
    /\ sync[a].pc = "users"
    /\ sync' = [sync EXCEPT ![a] =
            [AtRest("lock") EXCEPT !.state = FirewallState(sync[a].seen),
                                   !.overtaken = sync[a].overtaken]]
    /\ UNCHANGED <<conf, tables, kernel, proc, event, resync, mu, cmds, applied,
                   bounds, behind, half>>

\* Under firewallMu: nothing to do for the state that was handed over last.
HandOver(a) ==
    /\ sync[a].pc = "lock" /\ mu = Nobody
    /\ IF sync[a].state = applied
       THEN /\ sync' = EndSync(a)
            /\ behind' = sync[a].overtaken
            /\ UNCHANGED <<mu, cmds, kernel, fails>>
       ELSE /\ sync' = [sync EXCEPT ![a].pc = "apply"]
            /\ RemoveOther(conf)
            /\ mu' = a /\ cmds' = Commands(conf, sync[a].state)
            /\ UNCHANGED behind
    /\ UNCHANGED <<conf, tables, proc, event, resync, applied, writes, starts, half>>

\* All commands are done: this is what the firewall was built from last.
Applied(a) ==
    /\ mu = a /\ cmds = <<>>
    /\ mu' = Nobody
    /\ applied' = sync[a].state
    /\ sync' = EndSync(a)
    /\ behind' = sync[a].overtaken
    /\ half' = FALSE
    /\ UNCHANGED <<conf, tables, kernel, proc, event, resync, cmds, bounds>>

\* The process is gone, and its rules stay in the kernel.
Down ==
    /\ proc' = "down" /\ event' = FALSE /\ resync' = FALSE
    /\ sync' = [a \in Syncers |-> AtRest("wait")]
    /\ mu' = Nobody /\ cmds' = <<>>
    /\ conf' = Unconfigured /\ applied' = NoState
    /\ behind' = FALSE /\ half' = FALSE
    /\ UNCHANGED <<tables, kernel, writes, starts>>

\* A command fails: the rest is not done, and nothing is remembered.  At the
\* start that ends the process.
CommandFails ==
    /\ cmds # <<>>
    /\ fails < MaxFails
    /\ fails' = fails + 1
    /\ IF mu = "start" THEN Down
       ELSE /\ half' = (half \/ (conf.firewall = "iptables" /\
                                 cmds # Commands(conf, sync[mu].state)))
            /\ sync' = EndSync(mu)
            /\ mu' = Nobody /\ cmds' = <<>> /\ behind' = TRUE
            /\ UNCHANGED <<conf, tables, kernel, proc, event, resync, applied, writes,
                           starts>>

\* A list fails: the synchronization ends, with nothing but a log entry.  A
\* list of the devices that fails at the start ends the process.
ListFails(a) ==
    /\ sync[a].pc \in {"list", "users"}
    /\ fails < MaxFails
    /\ fails' = fails + 1
    /\ IF a = "boot" /\ sync[a].pc = "list" THEN Down
       ELSE /\ sync' = EndSync(a) /\ behind' = TRUE
            /\ UNCHANGED <<conf, tables, kernel, proc, event, resync, mu, cmds,
                           applied, writes, starts, half>>

Stop ==
    /\ proc # "down"
    /\ starts < MaxStarts
    /\ Down
    /\ UNCHANGED fails

-----------------------------------------------------------------------------
SyncStep(a) == ListDevices(a) \/ ListUsers(a) \/ HandOver(a) \/ Applied(a)

Next ==
    \/ \E d \in Devices : \/ \E rs \in SUBSET Routable :
                                AddDevice(d, rs) \/ SetDeviceRoutes(d, rs)
                           \/ \E until \in 0 .. Never : SetDeviceAccess(d, until)
                           \/ DeleteDevice(d)
    \/ \E o \in Mapped, ps \in Grants : SignIn(o, ps)
    \/ Tick \/ Start \/ Started \/ Notified \/ Receive
    \/ RunCommand \/ CommandFails \/ Stop
    \/ \E a \in Syncers : SyncStep(a) \/ ListFails(a)

Spec == Init /\ [][Next]_vars

-----------------------------------------------------------------------------
(* What the rules let through, and what they should.                       *)

\* The first rule that matches decides, and what matches none is forwarded: a
\* packet is stopped by a rule that rejects it before any accepts it.
Accepts(rules, s, t) ==
    LET hits == {i \in DOMAIN rules : s \in rules[i].from /\ t \in rules[i].to}
    IN  \A i \in hits : rules[i].act = "reject" =>
            \E j \in hits : j < i /\ rules[j].act = "accept"

\* A packet has to pass the rules that both backends have for its family.
Forwarded(s, t) ==
    LET f == s[2]
    IN  /\ Accepts(nft.rules[f], s, t)
        /\ ipt[f].hooked => Accepts(ipt[f].chain, s, t)

Open(nets) == UNION {NetPlaces(n) : n \in nets}
PoliciesOf(d) == groups[OwnerOf[d]] \cap conf.policies

\* What the configuration says device d may reach of the places of family f.
MayReach(d, f) ==
    LET nets == IF PoliciesOf(d) = {} THEN AllowedIPs \cup RoutedIn(rows)
                ELSE UNION {PolicyNets[p] : p \in PoliciesOf(d)}
        clients == IF conf.isolation THEN Cidr(f) ELSE {}
    IN  (Open(nets) \ clients) \cap PlacesOf(f)

\* Nothing is on its way and nothing is being done.
Quiet ==
    /\ proc = "running" /\ ~event /\ ~resync /\ mu = Nobody
    /\ \A a \in Syncers : sync[a].pc = "wait"

\* Rules of the other backend that could not be removed.
Leftover ==
    \/ conf.firewall = "nftables" /\ \E f \in Families : ipt[f].hooked
    \/ conf.firewall = "iptables" /\ nft # NoTable

Place == Who \X Families
Rule == [from: SUBSET Place, to: SUBSET Place, act: {"accept", "reject"}]
Chain == [hooked: BOOLEAN, chain: Seq(Rule), nat: BOOLEAN]
NftTable == [rules: [Families -> Seq(Rule)], nat: [Families -> BOOLEAN]]
Command == [op: {"clear", "clearNat", "hook", "masquerade"}, f: Families] \cup
           [op: {"append"}, f: Families, rule: Rule] \cup
           [op: {"ruleset"}, table: NftTable]
Table == [Devices -> Row \cup {NoDevice}]
Syncing == [pc: {"wait", "list", "users", "lock", "apply"}, seen: Table, state: State,
            overtaken: BOOLEAN]

\* Every variable has its type: the ground of every other invariant.
FirewallTypeOK ==
    /\ conf \in Confs \cup {Unconfigured} /\ now \in 0 .. 1
    /\ rows \in Table /\ groups \in [Owners -> SUBSET Policies]
    /\ ipt \in [Families -> Chain] /\ nft \in NftTable
    /\ proc \in {"down", "starting", "running"}
    /\ event \in BOOLEAN /\ resync \in BOOLEAN
    /\ sync \in [Syncers -> Syncing]
    /\ mu \in Syncers \cup {"start", Nobody} /\ cmds \in Seq(Command)
    /\ applied \in State
    /\ writes \in Nat /\ fails \in Nat /\ starts \in Nat
    /\ behind \in BOOLEAN /\ half \in BOOLEAN

\* The places that device d reaches, the server's own addresses aside: what is
\* sent to those is not forwarded.
Reached(d, f) == {p \in PlacesOf(f) \ {<<Server, f>>, <<d, f>>} : Forwarded(<<d, f>>, p)}

\* Between clients that are not isolated there may pass more: the rules for the
\* answers of a network do not ask who in it began.
RulesExact ==
    \A d \in Devices, f \in conf.families : AccessAllowed(rows[d]) =>
        LET own == {<<Server, f>>, <<d, f>>}
            others == IF conf.isolation THEN {} ELSE Cidr(f)
        IN  /\ MayReach(d, f) \ own \subseteq Reached(d, f)
            /\ Reached(d, f) \ others \subseteq MayReach(d, f)

\* Once everything has been worked off, each device that may connect reaches
\* exactly the networks that the configuration gives it: those of its policies, or
\* what everybody has, but never another client where clients are isolated.  The
\* exceptions are the failures that the code only logs: one in the last
\* synchronization, one that left an iptables chain half built, and rules of the
\* other backend that could not be removed.
RulesFollow ==
    Quiet /\ conf.firewall # "none" /\ ~behind /\ ~half /\ ~Leftover => RulesExact

\* No moment without rules: from the start on, what neither vpn.allowedIPs, nor a
\* policy, nor a route opens is closed to every client address.  On iptables this
\* leaves out the time of a rebuild and the chains that one left half built.
NeverOpen ==
    /\ proc = "running" /\ conf.firewall # "none"
    /\ conf.firewall = "iptables" => mu = Nobody /\ ~half
    =>  LET opened == Open(AllowedIPs \cup Routable \cup
                           UNION {PolicyNets[p] : p \in conf.policies})
        IN  \A f \in conf.families : \A p \in (Hosts \X {f}) \ opened, d \in Devices :
                ~Forwarded(<<d, f>>, p)

\* The answers of the networks that a device may reach come back to it whatever
\* the rules around ours do: by masquerading exactly where NAT is configured and
\* the gateway is known, and by a rule that accepts them where there is no NAT.
AnswersReturn ==
    Quiet /\ conf.firewall # "none" /\ ~behind /\ ~half /\ ~Leftover =>
        \A f \in conf.families :
            LET kernelNat == IF conf.firewall = "nftables" THEN nft.nat[f] ELSE ipt[f].nat
                rules == IF conf.firewall = "nftables" THEN nft.rules[f] ELSE ipt[f].chain
            IN  /\ Masquerades(conf, f) <=> kernelNat
                /\ ~conf.nat[f] => \A d \in Devices : AccessAllowed(rows[d]) =>
                    \A p \in MayReach(d, f) \ Cidr(f) :
                        \E i \in DOMAIN rules : /\ rules[i].act = "accept"
                                                /\ p \in rules[i].from
                                                /\ <<d, f>> \in rules[i].to
=============================================================================
