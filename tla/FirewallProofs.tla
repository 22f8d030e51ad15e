--------------------------- MODULE FirewallProofs ---------------------------
(***************************************************************************)
(* What Firewall guarantees for any devices, owners, policies, networks    *)
(* and configurations, and any number of changes, failures and starts.     *)
(***************************************************************************)
EXTENDS Firewall, FiniteSetTheorems, TLAPS

-----------------------------------------------------------------------------
(* What the holder of firewallMu works on, and how far it is.              *)

Target == IF mu = "start" THEN NoState ELSE sync[mu].state

\* A command that appends a rule of family f.
Adds(c, f) == c.op = "append" /\ c.f = f

\* The chain has the rules that the first k commands of work append, each where it
\* was first.
Mirrors(chain, work, k, f) ==
    /\ \A i \in 1 .. k : Adds(work[i], f) =>
        \E j \in DOMAIN chain :
            /\ chain[j] = work[i].rule
            /\ \A j2 \in 1 .. (j - 1) : \E i2 \in 1 .. (i - 1) :
                Adds(work[i2], f) /\ work[i2].rule = chain[j2]
    /\ \A j \in DOMAIN chain : \E i \in 1 .. k :
        /\ Adds(work[i], f) /\ work[i].rule = chain[j]
        /\ \A i2 \in 1 .. (i - 1) : Adds(work[i2], f) =>
            \E j2 \in 1 .. (j - 1) : chain[j2] = work[i2].rule

Did(work, k, o, f) == \E i \in 1 .. k : work[i] = [op |-> o, f |-> f]

\* The chains of family f after the first k commands of work.
FamilyAt(work, k, f) ==
    /\ Did(work, k, "clear", f) => Mirrors(ipt[f].chain, work, k, f)
    /\ Did(work, k, "clearNat", f) => (ipt[f].nat <=> Did(work, k, "masquerade", f))
    /\ Did(work, k, "hook", f) => ipt[f].hooked

FamiliesAt(c, st, k) == \A f \in c.families : FamilyAt(Commands(c, st), k, f)

\* The kernel has the rules for state st.
Installed(c, st) ==
    /\ c.firewall = "nftables" => nft = TableOf(c, st)
    /\ c.firewall = "iptables" => FamiliesAt(c, st, Len(Commands(c, st)))

\* No iptables update has stopped in the middle.
Whole == conf.firewall = "iptables" => ~half

-----------------------------------------------------------------------------
(* The invariant.                                                          *)

\* Who holds the mutex, and where everybody is.
ControlInv ==
    /\ mu = "start" <=> proc = "starting"
    /\ mu = Nobody => cmds = <<>>
    /\ \A a \in Syncers : sync[a].pc = "apply" <=> mu = a
    /\ proc # "running" => ~event /\ ~resync /\ \A a \in Syncers : sync[a].pc = "wait"
    /\ proc # "down" => conf \in Confs
    /\ proc = "starting" => applied = NoState

\* How many of the commands for state st are done.
DoneOf(c, st) == Len(Commands(c, st)) - Len(cmds)

\* The commands that are left are the end of what is to be done, and the kernel
\* has the effect of the others.  Before the first one it has its former rules.
Doing(c, st) ==
    /\ Len(cmds) <= Len(Commands(c, st))
    /\ \A i \in 1 .. Len(cmds) : cmds[i] = Commands(c, st)[DoneOf(c, st) + i]
    /\ c.firewall = "iptables" => FamiliesAt(c, st, DoneOf(c, st))
    /\ c.firewall = "nftables" /\ cmds = <<>> => nft = TableOf(c, st)
    /\ proc = "running" /\ DoneOf(c, st) = 0 /\ Whole => Installed(c, applied)

WorkInv == mu # Nobody => Doing(conf, Target)

\* Between two updates the kernel has the rules of the state handed over last.
RestInv == proc = "running" /\ mu = Nobody /\ Whole => Installed(conf, applied)

\* What state st says is what the tables say of the devices that may connect.
Agrees(st) ==
    /\ st.routed = RoutedIn(rows)
    /\ \A d \in Devices, p \in Policies : AccessAllowed(rows[d]) =>
        (d \in st.members[p] <=> p \in groups[OwnerOf[d]])

\* What a synchronization has read is still so.
Clean(y) ==
    /\ y.pc = "users" => y.seen = rows
    /\ y.pc \in {"lock", "apply"} => Agrees(y.state)

\* When no change is on its way, resyncLoop works with the tables as they are; the
\* synchronization at the start does, or resyncLoop is still to correct it, or
\* has overtaken it.
FreshInv ==
    proc = "running" /\ ~event /\ ~resync =>
        /\ Clean(sync["loop"])
        /\ Clean(sync["boot"]) \/ sync["loop"].pc # "wait" \/ sync["boot"].overtaken
        /\ (\A a \in Syncers : sync[a].pc = "wait") /\ ~behind => Agrees(applied)

FirewallInv == FirewallTypeOK /\ ControlInv /\ WorkInv /\ RestInv /\ FreshInv

-----------------------------------------------------------------------------
(* Lists of rules.                                                         *)

\* A finite set as a list: every element is in it and nothing else.
LEMMA ListOfSet ==
    ASSUME NEW S, IsFiniteSet(S)
    PROVE  /\ SetToSeq(S) \in Seq(S)
           /\ \A i \in DOMAIN SetToSeq(S) : SetToSeq(S)[i] \in S
           /\ \A x \in S : \E i \in DOMAIN SetToSeq(S) : SetToSeq(S)[i] = x
  <1> DEFINE n == Cardinality(S)
             g == SetToSeq(S)
  <1>1. n \in Nat /\ ExistsBijection(1 .. n, S)
    BY FS_CardinalityType
  <1>2. \E f \in [1 .. n -> S] : IsInjective(f)
    BY <1>1, Zenon DEF ExistsBijection, Bijection, Injection, IsInjective
  <1>3. g \in [1 .. n -> S] /\ IsInjective(g)
    BY <1>2 DEF SetToSeq
  <1>4. g \in Injection(1 .. n, S)
    BY <1>3 DEF Injection, IsInjective
  <1>5. IsFiniteSet(1 .. n) /\ Cardinality(1 .. n) = n
    BY <1>1, FS_Interval
  <1>6. g \in Surjection(1 .. n, S)
    BY <1>4, <1>5, FS_Injection
  <1>7. \A x \in S : \E i \in 1 .. n : g[i] = x
    BY <1>6 DEF Surjection
  <1> QED BY <1>1, <1>3, <1>7

\* A rule of the set matches the packet.
Hits(S, s, t) == \E r \in S : s \in r.from /\ t \in r.to

\* A rule of the list accepts the packet.
Lets(rules, s, t) ==
    \E i \in DOMAIN rules : /\ s \in rules[i].from /\ t \in rules[i].to
                            /\ rules[i].act = "accept"

\* What accepts a packet in the first list decides before the second.
LEMMA AcceptsBoth ==
    ASSUME NEW A \in Seq(Rule), NEW B \in Seq(Rule), NEW s, NEW t
    PROVE  /\ Lets(A \o B, s, t) <=> Lets(A, s, t) \/ Lets(B, s, t)
           /\ Accepts(A \o B, s, t) <=>
                Accepts(A, s, t) /\ (Lets(A, s, t) \/ Accepts(B, s, t))
           /\ A \o B \in Seq(Rule)
  <1> DEFINE C == A \o B
             m == Len(A)
             n == Len(B)
             HitA(i) == s \in A[i].from /\ t \in A[i].to
             HitB(i) == s \in B[i].from /\ t \in B[i].to
             HitC(i) == s \in C[i].from /\ t \in C[i].to
  <1>1. /\ C \in Seq(Rule) /\ m \in Nat /\ n \in Nat /\ DOMAIN C = 1 .. (m + n)
        /\ DOMAIN A = 1 .. m /\ DOMAIN B = 1 .. n
    OBVIOUS
  <1>2. /\ \A i \in 1 .. m : C[i] = A[i]
        /\ \A i \in 1 .. n : C[m + i] = B[i]
    OBVIOUS
  <1>3. \A i \in 1 .. (m + n) : i \in 1 .. m \/ \E j \in 1 .. n : i = m + j
    <2> TAKE i \in 1 .. (m + n)
    <2>1. CASE i <= m
      BY <1>1, <2>1
    <2>2. CASE i > m
      <3>1. i - m \in 1 .. n /\ i = m + (i - m)
        BY <1>1, <2>2
      <3> QED BY <3>1
    <2> QED BY <1>1, <2>1, <2>2
  <1>4. /\ \A i \in 1 .. m : /\ HitC(i) <=> HitA(i)
                             /\ C[i].act = A[i].act
        /\ \A i \in 1 .. n : /\ HitC(m + i) <=> HitB(i)
                             /\ C[m + i].act = B[i].act
    BY <1>2
  <1>5. /\ Lets(A, s, t) <=> \E i \in 1 .. m : HitA(i) /\ A[i].act = "accept"
        /\ Lets(B, s, t) <=> \E i \in 1 .. n : HitB(i) /\ B[i].act = "accept"
        /\ Lets(C, s, t) <=> \E i \in 1 .. (m + n) : HitC(i) /\ C[i].act = "accept"
    BY <1>1 DEF Lets
  <1>6. /\ Accepts(A, s, t) <=> \A i \in 1 .. m : HitA(i) /\ A[i].act = "reject" =>
                        \E j \in 1 .. m : HitA(j) /\ j < i /\ A[j].act = "accept"
        /\ Accepts(B, s, t) <=> \A i \in 1 .. n : HitB(i) /\ B[i].act = "reject" =>
                        \E j \in 1 .. n : HitB(j) /\ j < i /\ B[j].act = "accept"
        /\ Accepts(C, s, t) <=> \A i \in 1 .. (m + n) : HitC(i) /\ C[i].act = "reject" =>
                        \E j \in 1 .. (m + n) : HitC(j) /\ j < i /\ C[j].act = "accept"
    BY <1>1 DEF Accepts
  <1>7. /\ \A i \in 1 .. m : i \in 1 .. (m + n)
        /\ \A i \in 1 .. n : m + i \in 1 .. (m + n)
        /\ \A i \in 1 .. m, j \in 1 .. n : i < m + j /\ ~(m + j < i)
        /\ \A i \in 1 .. n, j \in 1 .. n : i < j <=> m + i < m + j
    BY <1>1
  <1> HIDE DEF C, m, n, HitA, HitB, HitC
  <1>8. Lets(C, s, t) <=> Lets(A, s, t) \/ Lets(B, s, t)
    BY <1>3, <1>4, <1>5, <1>7, SMTT(30)
  <1>9. ASSUME Accepts(C, s, t)
        PROVE  Accepts(A, s, t)
    <2> SUFFICES ASSUME NEW i \in 1 .. m, HitA(i), A[i].act = "reject"
                 PROVE  \E j \in 1 .. m : HitA(j) /\ j < i /\ A[j].act = "accept"
      BY <1>6
    <2>1. PICK j \in 1 .. (m + n) : HitC(j) /\ j < i /\ C[j].act = "accept"
      BY <1>4, <1>6, <1>7, <1>9
    <2>2. j \in 1 .. m
      BY <1>3, <1>7, <2>1
    <2> QED BY <1>4, <2>1, <2>2
  <1>10. ASSUME Accepts(C, s, t), ~Lets(A, s, t)
         PROVE  Accepts(B, s, t)
    <2> SUFFICES ASSUME NEW i \in 1 .. n, HitB(i), B[i].act = "reject"
                 PROVE  \E j \in 1 .. n : HitB(j) /\ j < i /\ B[j].act = "accept"
      BY <1>6
    <2> DEFINE e == m + i
    <2>0. e \in 1 .. (m + n) /\ HitC(e) /\ C[e].act = "reject"
      BY <1>4, <1>7
    <2> HIDE DEF e
    <2>1. PICK j \in 1 .. (m + n) : HitC(j) /\ j < e /\ C[j].act = "accept"
      BY <1>6, <1>10, <2>0
    <2>2. j \notin 1 .. m
      BY <1>4, <1>5, <1>10, <2>1
    <2>3. PICK l \in 1 .. n : j = m + l
      BY <1>3, <2>2
    <2> QED BY <1>4, <1>7, <2>1, <2>3 DEF e
  <1>11. ASSUME Accepts(A, s, t), Lets(A, s, t) \/ Accepts(B, s, t)
         PROVE  Accepts(C, s, t)
    <2> SUFFICES ASSUME NEW i \in 1 .. (m + n), HitC(i), C[i].act = "reject"
                 PROVE  \E j \in 1 .. (m + n) : HitC(j) /\ j < i /\ C[j].act = "accept"
      BY <1>6
    <2>1. CASE i \in 1 .. m
      <3>1. PICK j \in 1 .. m : HitA(j) /\ j < i /\ A[j].act = "accept"
        BY <1>4, <1>6, <1>11, <2>1
      <3> QED BY <1>4, <1>7, <3>1
    <2>2. ASSUME NEW l \in 1 .. n, i = m + l
          PROVE  \E j \in 1 .. (m + n) : HitC(j) /\ j < i /\ C[j].act = "accept"
      <3>1. CASE Lets(A, s, t)
        <4>1. PICK j \in 1 .. m : HitA(j) /\ A[j].act = "accept"
          BY <1>5, <3>1
        <4>2. HitC(j) /\ C[j].act = "accept" /\ j \in 1 .. (m + n) /\ j < i
          BY <1>4, <1>7, <2>2, <4>1
        <4> QED BY <4>2
      <3>2. CASE Accepts(B, s, t)
        <4>1. PICK j \in 1 .. n : HitB(j) /\ j < l /\ B[j].act = "accept"
          BY <1>4, <1>6, <2>2, <3>2
        <4>2. HitC(m + j) /\ C[m + j].act = "accept" /\ m + j \in 1 .. (m + n)
              /\ m + j < i
          BY <1>4, <1>7, <2>2, <4>1
        <4> QED BY <4>2
      <3> QED BY <1>11, <3>1, <3>2
    <2> QED BY <1>3, <2>1, <2>2
  <1>13. C \in Seq(Rule)
    BY <1>1
  <1> QED BY <1>8, <1>9, <1>10, <1>11, <1>13 DEF C

\* A list of rules that all accept stops nothing.
LEMMA AcceptsAll ==
    ASSUME NEW S \in SUBSET Rule, IsFiniteSet(S), NEW s, NEW t,
           \A r \in S : r.act = "accept"
    PROVE  /\ SetToSeq(S) \in Seq(Rule)
           /\ Accepts(SetToSeq(S), s, t)
           /\ Lets(SetToSeq(S), s, t) <=> Hits(S, s, t)
  <1> DEFINE g == SetToSeq(S)
  <1>1. /\ g \in Seq(S)
        /\ \A i \in DOMAIN g : g[i] \in S
        /\ \A x \in S : \E i \in DOMAIN g : g[i] = x
    BY ListOfSet
  <1>2. Seq(S) \subseteq Seq(Rule)
    OBVIOUS
  <1> HIDE DEF g
  <1>3. Accepts(g, s, t)
    BY <1>1 DEF Accepts
  <1>4. Lets(g, s, t) <=> Hits(S, s, t)
    BY <1>1 DEF Lets, Hits
  <1> QED BY <1>1, <1>2, <1>3, <1>4 DEF g

\* One rule.
LEMMA AcceptsOne ==
    ASSUME NEW r \in Rule, NEW s, NEW t
    PROVE  /\ <<r>> \in Seq(Rule)
           /\ Lets(<<r>>, s, t) <=> s \in r.from /\ t \in r.to /\ r.act = "accept"
           /\ Accepts(<<r>>, s, t) <=> ~(s \in r.from /\ t \in r.to /\ r.act = "reject")
  BY DEF Lets, Accepts

\* No rule.
LEMMA AcceptsNone ==
    ASSUME NEW s, NEW t
    PROVE  /\ <<>> \in Seq(Rule)
           /\ ~Lets(<<>>, s, t)
           /\ Accepts(<<>>, s, t)
  BY DEF Lets, Accepts

-----------------------------------------------------------------------------
(* The rules of one family.                                                *)

\* The place is in one of the networks, which are of family f.
Within(t, nets, f) == \E n \in NetsOf(nets, f) : t \in NetPlaces(n)

LEMMA PlacesAreThere ==
    /\ \A n \in Nets : NetPlaces(n) \in SUBSET Place
    /\ \A f \in Families : /\ PlacesOf(f) \in SUBSET Place
                           /\ Cidr(f) \in SUBSET Place
                           /\ {<<Server, f>>} \in SUBSET Place
    /\ \A f \in Families, ds \in SUBSET Devices : Addresses(ds, f) \in SUBSET Place
  <1>1. \A n \in Nets : NetFamily[n] \in Families /\ NetHosts[n] \in SUBSET Who
    BY FirewallAssumption
  <1> QED BY <1>1 DEF NetPlaces, Place, PlacesOf, Cidr, Addresses, Who

LEMMA NetsFinite ==
    ASSUME NEW nets \in SUBSET Nets, NEW f
    PROVE  IsFiniteSet(NetsOf(nets, f)) /\ NetsOf(nets, f) \in SUBSET Nets
  <1>1. NetsOf(nets, f) \in SUBSET Nets
    BY DEF NetsOf
  <1>2. IsFiniteSet(Nets)
    BY FirewallAssumption
  <1> QED BY <1>1, <1>2, FS_Subset

\* The rules towards some networks.
LEMMA ToRules ==
    ASSUME NEW from \in SUBSET Place, NEW nets \in SUBSET Nets, NEW f \in Families
    PROVE  /\ To(from, nets, f) \in SUBSET Rule
           /\ IsFiniteSet(To(from, nets, f))
           /\ \A r \in To(from, nets, f) : r.act = "accept"
  <1> DEFINE N == NetsOf(nets, f)
             rule(n) == [from |-> from, to |-> NetPlaces(n), act |-> "accept"]
             g == [n \in N |-> rule(n)]
             T == To(from, nets, f)
  <1>1. IsFiniteSet(N) /\ N \in SUBSET Nets
    BY NetsFinite
  <1>2. T = {rule(n) : n \in N}
    BY DEF To
  <1>3. \A n \in N : rule(n) \in Rule /\ rule(n).act = "accept"
    BY <1>1, PlacesAreThere DEF Rule
  <1> HIDE DEF rule, N, T
  <1>4. g \in Surjection(N, T)
    BY <1>2 DEF Surjection
  <1>5. IsFiniteSet(T)
    BY <1>1, <1>4, FS_Surjection
  <1>6. T \in SUBSET Rule /\ \A r \in T : r.act = "accept"
    BY <1>2, <1>3
  <1> QED BY <1>5, <1>6 DEF T

LEMMA ToHits ==
    ASSUME NEW from, NEW nets, NEW f, NEW s, NEW t
    PROVE  Hits(To(from, nets, f), s, t) <=>
                s \in from /\ Within(t, nets, f)
  <1> DEFINE rule(n) == [from |-> from, to |-> NetPlaces(n), act |-> "accept"]
  <1>1. To(from, nets, f) = {rule(n) : n \in NetsOf(nets, f)}
    BY DEF To
  <1>2. \A n : rule(n).from = from /\ rule(n).to = NetPlaces(n)
    OBVIOUS
  <1> HIDE DEF rule
  <1> QED BY <1>1, <1>2 DEF Hits, Within

\* The rules for the answers.
LEMMA BackRules ==
    ASSUME NEW c, NEW nets \in SUBSET Nets, NEW to \in SUBSET Place, NEW f \in Families
    PROVE  /\ Back(c, nets, to, f) \in SUBSET Rule
           /\ IsFiniteSet(Back(c, nets, to, f))
           /\ \A r \in Back(c, nets, to, f) : r.act = "accept"
  <1> DEFINE N == {m \in NetsOf(nets, f) : ~c.nat[f]}
             rule(n) == [from |-> NetPlaces(n), to |-> to, act |-> "accept"]
             g == [n \in N |-> rule(n)]
             T == Back(c, nets, to, f)
  <1>1. N \in SUBSET NetsOf(nets, f)
    OBVIOUS
  <1>2. IsFiniteSet(N) /\ N \in SUBSET Nets
    BY <1>1, NetsFinite, FS_Subset
  <1>3. T = {rule(n) : n \in N}
    BY DEF Back
  <1>4. \A n \in N : rule(n) \in Rule /\ rule(n).act = "accept"
    BY <1>2, PlacesAreThere DEF Rule
  <1> HIDE DEF rule, N, T
  <1>5. g \in Surjection(N, T)
    BY <1>3 DEF Surjection
  <1>6. IsFiniteSet(T)
    BY <1>2, <1>5, FS_Surjection
  <1>7. T \in SUBSET Rule /\ \A r \in T : r.act = "accept"
    BY <1>3, <1>4
  <1> QED BY <1>6, <1>7 DEF T

LEMMA BackHits ==
    ASSUME NEW c, NEW nets, NEW to, NEW f, NEW s, NEW t
    PROVE  Hits(Back(c, nets, to, f), s, t) <=>
                ~c.nat[f] /\ t \in to /\ Within(s, nets, f)
  <1> DEFINE rule(n) == [from |-> NetPlaces(n), to |-> to, act |-> "accept"]
             N == {m \in NetsOf(nets, f) : ~c.nat[f]}
  <1>1. Back(c, nets, to, f) = {rule(n) : n \in N}
    BY DEF Back
  <1>2. \A n : rule(n).from = NetPlaces(n) /\ rule(n).to = to
    OBVIOUS
  <1>3. \A n : n \in N <=> n \in NetsOf(nets, f) /\ ~c.nat[f]
    OBVIOUS
  <1> HIDE DEF rule, N
  <1> QED BY <1>1, <1>2, <1>3 DEF Hits, Within

\* A policy lets its members through to its networks, and the answers back.
PolicyLets(c, st, p, f, s, t) ==
    \/ /\ s \in Addresses(st.members[p], f)
       /\ Within(t, PolicyNets[p], f)
    \/ /\ ~c.nat[f] /\ t \in Addresses(st.members[p], f)
       /\ Within(s, PolicyNets[p], f)

LEMMA PolicyAcceptRules ==
    ASSUME NEW c \in Conf, NEW st \in State, NEW f \in Families, NEW s, NEW t
    PROVE  /\ PolicyAccepts(c, st, f) \in SUBSET Rule
           /\ IsFiniteSet(PolicyAccepts(c, st, f))
           /\ \A r \in PolicyAccepts(c, st, f) : r.act = "accept"
           /\ Hits(PolicyAccepts(c, st, f), s, t) <=>
                \E p \in c.policies : PolicyLets(c, st, p, f, s, t)
  <1> DEFINE P == c.policies
             A(p) == Addresses(st.members[p], f)
             block(p) == To(A(p), PolicyNets[p], f) \cup Back(c, PolicyNets[p], A(p), f)
             B == {block(p) : p \in P}
             g == [p \in P |-> block(p)]
             U == PolicyAccepts(c, st, f)
  <1>1. P \in SUBSET Policies /\ IsFiniteSet(Policies)
    BY FirewallAssumption DEF Conf
  <1>2. IsFiniteSet(P)
    BY <1>1, FS_Subset
  <1>3. U = UNION B
    BY DEF PolicyAccepts
  <1>4. ASSUME NEW p \in P
        PROVE  /\ block(p) \in SUBSET Rule /\ IsFiniteSet(block(p))
               /\ \A r \in block(p) : r.act = "accept"
               /\ Hits(block(p), s, t) <=> PolicyLets(c, st, p, f, s, t)
    <2>1. PICK N : N = PolicyNets[p]
      OBVIOUS
    <2>2. PICK X : X = A(p)
      OBVIOUS
    <2> DEFINE T == To(X, N, f)
               K == Back(c, N, X, f)
    <2>3. PolicyLets(c, st, p, f, s, t) <=>
            \/ s \in X /\ Within(t, N, f)
            \/ ~c.nat[f] /\ t \in X /\ Within(s, N, f)
      BY <2>1, <2>2 DEF PolicyLets
    <2>4. block(p) = T \cup K
      BY <2>1, <2>2
    <2>5. PolicyNets[p] \in SUBSET Nets /\ st.members[p] \in SUBSET Devices
      BY <1>1, FirewallAssumption DEF State
    <2>6. N \in SUBSET Nets /\ X \in SUBSET Place
      BY <2>1, <2>2, <2>5, PlacesAreThere
    <2> HIDE DEF A, block
    <2>7. /\ T \in SUBSET Rule /\ IsFiniteSet(T)
          /\ \A r \in T : r.act = "accept"
      BY <2>6, ToRules
    <2>8. /\ K \in SUBSET Rule /\ IsFiniteSet(K)
          /\ \A r \in K : r.act = "accept"
      BY <2>6, BackRules
    <2>9. Hits(T, s, t) <=> s \in X /\ Within(t, N, f)
      BY ToHits
    <2>10. Hits(K, s, t) <=> ~c.nat[f] /\ t \in X /\ Within(s, N, f)
      BY BackHits
    <2>11. IsFiniteSet(T \cup K)
      BY <2>7, <2>8, FS_Union
    <2> HIDE DEF T, K
    <2>12. Hits(T \cup K, s, t) <=> PolicyLets(c, st, p, f, s, t)
      BY <2>3, <2>9, <2>10 DEF Hits
    <2> QED BY <2>4, <2>7, <2>8, <2>11, <2>12
  <1> HIDE DEF block, U, P
  <1>5. g \in Surjection(P, B)
    BY DEF Surjection
  <1>6. IsFiniteSet(B)
    BY <1>2, <1>5, FS_Surjection
  <1>7. \A T \in B : IsFiniteSet(T)
    BY <1>4
  <1>8. IsFiniteSet(UNION B)
    BY <1>6, <1>7, FS_UNION
  <1>9. U \in SUBSET Rule /\ \A r \in U : r.act = "accept"
    BY <1>3, <1>4
  <1>10. Hits(U, s, t) <=> \E p \in P : PolicyLets(c, st, p, f, s, t)
    BY <1>3, <1>4 DEF Hits
  <1> QED BY <1>3, <1>8, <1>9, <1>10 DEF U, P

\* The three parts of the rules, and which packets each of them lets through.
OpenLets(c, st, f, s, t) ==
    \/ s \in Cidr(f) /\ Within(t, AllowedIPs \cup st.routed, f)
    \/ ~c.nat[f] /\ t \in Cidr(f) /\ Within(s, AllowedIPs \cup st.routed, f)

SomePolicyLets(c, st, f, s, t) ==
    \/ c.policies # {} /\ s \in Cidr(f) /\ t = <<Server, f>>
    \/ \E p \in c.policies : PolicyLets(c, st, p, f, s, t)

LEMMA RejectRule ==
    ASSUME NEW from \in SUBSET Place, NEW to \in SUBSET Place, NEW s, NEW t
    PROVE  /\ Reject(from, to) \in Seq(Rule)
           /\ ~Lets(Reject(from, to), s, t)
           /\ Accepts(Reject(from, to), s, t) <=> ~(s \in from /\ t \in to)
  <1> DEFINE r == [from |-> from, to |-> to, act |-> "reject"]
  <1>1. r \in Rule /\ r.from = from /\ r.to = to /\ r.act = "reject"
    BY DEF Rule
  <1>2. Reject(from, to) = <<r>>
    BY DEF Reject
  <1> HIDE DEF r
  <1> QED BY <1>1, <1>2, AcceptsOne

LEMMA IsolationPart ==
    ASSUME NEW c \in Conf, NEW f \in Families, NEW s, NEW t
    PROVE  /\ Isolation(c, f) \in Seq(Rule)
           /\ ~Lets(Isolation(c, f), s, t)
           /\ Accepts(Isolation(c, f), s, t) <=>
                ~(c.isolation /\ s \in Cidr(f) /\ t \in Cidr(f))
  <1>1. Cidr(f) \in SUBSET Place
    BY PlacesAreThere
  <1>2. CASE c.isolation
    <2>1. Isolation(c, f) = Reject(Cidr(f), Cidr(f))
      BY <1>2 DEF Isolation
    <2> QED BY <1>1, <1>2, <2>1, RejectRule
  <1>3. CASE ~c.isolation
    <2>1. Isolation(c, f) = <<>>
      BY <1>3 DEF Isolation
    <2> QED BY <1>3, <2>1, AcceptsNone
  <1> QED BY <1>2, <1>3

LEMMA PolicyPart ==
    ASSUME NEW c \in Conf, NEW st \in State, NEW f \in Families, NEW s, NEW t
    PROVE  /\ PolicyRules(c, st, f) \in Seq(Rule)
           /\ Lets(PolicyRules(c, st, f), s, t) <=> SomePolicyLets(c, st, f, s, t)
           /\ Accepts(PolicyRules(c, st, f), s, t) <=>
                \/ SomePolicyLets(c, st, f, s, t)
                \/ ~(s \in Addresses(Members(c, st), f) /\ t \in PlacesOf(f))
  <1>1. CASE c.policies = {}
    <2>1. PolicyRules(c, st, f) = <<>>
      BY <1>1 DEF PolicyRules
    <2>2. ~SomePolicyLets(c, st, f, s, t) /\ s \notin Addresses(Members(c, st), f)
      BY <1>1 DEF SomePolicyLets, Members, Addresses
    <2> QED BY <2>1, <2>2, AcceptsNone
  <1>2. CASE c.policies # {}
    <2> DEFINE r == [from |-> Cidr(f), to |-> {<<Server, f>>}, act |-> "accept"]
               A == <<r>>
               U == PolicyAccepts(c, st, f)
               B == SetToSeq(U)
               D == Reject(Addresses(Members(c, st), f), PlacesOf(f))
    <2>1. PolicyRules(c, st, f) = (A \o B) \o D
      BY <1>2 DEF PolicyRules
    <2>2. /\ r \in Rule /\ r.from = Cidr(f) /\ r.to = {<<Server, f>>}
          /\ r.act = "accept"
      BY PlacesAreThere DEF Rule
    <2>3. Members(c, st) \in SUBSET Devices
      BY DEF Members, State, Conf
    <2>4. /\ Addresses(Members(c, st), f) \in SUBSET Place
          /\ PlacesOf(f) \in SUBSET Place
      BY <2>3, PlacesAreThere
    <2>5. /\ U \in SUBSET Rule /\ IsFiniteSet(U) /\ \A x \in U : x.act = "accept"
          /\ Hits(U, s, t) <=> \E p \in c.policies : PolicyLets(c, st, p, f, s, t)
      BY PolicyAcceptRules
    <2> HIDE DEF r
    <2>6. /\ A \in Seq(Rule)
          /\ Lets(A, s, t) <=> s \in Cidr(f) /\ t = <<Server, f>>
          /\ Accepts(A, s, t)
      BY <2>2, AcceptsOne
    <2> HIDE DEF A, U
    <2>7. /\ B \in Seq(Rule) /\ Accepts(B, s, t)
          /\ Lets(B, s, t) <=> Hits(U, s, t)
      BY <2>5, AcceptsAll
    <2>8. /\ D \in Seq(Rule) /\ ~Lets(D, s, t)
          /\ Accepts(D, s, t) <=>
                ~(s \in Addresses(Members(c, st), f) /\ t \in PlacesOf(f))
      BY <2>4, RejectRule
    <2> HIDE DEF B, D
    <2>9. /\ A \o B \in Seq(Rule) /\ Accepts(A \o B, s, t)
          /\ Lets(A \o B, s, t) <=> Lets(A, s, t) \/ Lets(B, s, t)
      BY <2>6, <2>7, AcceptsBoth
    <2>10. PICK E : E = A \o B
      OBVIOUS
    <2>11. /\ E \o D \in Seq(Rule)
           /\ Lets(E \o D, s, t) <=> Lets(E, s, t) \/ Lets(D, s, t)
           /\ Accepts(E \o D, s, t) <=>
                Accepts(E, s, t) /\ (Lets(E, s, t) \/ Accepts(D, s, t))
      <3>1. E \in Seq(Rule) /\ D \in Seq(Rule)
        BY <2>8, <2>9, <2>10
      <3> QED BY <3>1, AcceptsBoth
    <2>12. SomePolicyLets(c, st, f, s, t) <=> Lets(A, s, t) \/ Lets(B, s, t)
      BY <1>2, <2>5, <2>6, <2>7 DEF SomePolicyLets
    <2> QED BY <2>1, <2>8, <2>9, <2>10, <2>11, <2>12
  <1> QED BY <1>1, <1>2

LEMMA OpenPart ==
    ASSUME NEW c \in Conf, NEW st \in State, NEW f \in Families, NEW s, NEW t
    PROVE  /\ OpenRules(c, st, f) \in Seq(Rule)
           /\ Lets(OpenRules(c, st, f), s, t) <=> OpenLets(c, st, f, s, t)
           /\ Accepts(OpenRules(c, st, f), s, t) <=>
                \/ OpenLets(c, st, f, s, t)
                \/ ~(s \in Cidr(f) /\ t \in PlacesOf(f))
  <1>1. PICK N : N = AllowedIPs \cup st.routed
    OBVIOUS
  <1> DEFINE T == To(Cidr(f), N, f)
             K == Back(c, N, Cidr(f), f)
             A == SetToSeq(T)
             B == SetToSeq(K)
             D == Reject(Cidr(f), PlacesOf(f))
  <1>2. OpenRules(c, st, f) = (A \o B) \o D
    BY <1>1 DEF OpenRules
  <1>3. N \in SUBSET Nets
    BY <1>1, FirewallAssumption DEF State
  <1>4. Cidr(f) \in SUBSET Place /\ PlacesOf(f) \in SUBSET Place
    BY PlacesAreThere
  <1>5. PICK X : X = Cidr(f)
    OBVIOUS
  <1>6. X \in SUBSET Place
    BY <1>4, <1>5
  <1>7. /\ To(X, N, f) \in SUBSET Rule /\ IsFiniteSet(To(X, N, f))
        /\ \A r \in To(X, N, f) : r.act = "accept"
    BY <1>3, <1>6, ToRules
  <1>8. /\ Back(c, N, X, f) \in SUBSET Rule /\ IsFiniteSet(Back(c, N, X, f))
        /\ \A r \in Back(c, N, X, f) : r.act = "accept"
    BY <1>3, <1>6, BackRules
  <1>9. Hits(To(X, N, f), s, t) <=> s \in X /\ Within(t, N, f)
    BY ToHits
  <1>10. Hits(Back(c, N, X, f), s, t) <=> ~c.nat[f] /\ t \in X /\ Within(s, N, f)
    BY BackHits
  <1>11. OpenLets(c, st, f, s, t) <=> Hits(T, s, t) \/ Hits(K, s, t)
    BY <1>1, <1>5, <1>9, <1>10 DEF OpenLets
  <1>12. /\ T \in SUBSET Rule /\ IsFiniteSet(T) /\ \A r \in T : r.act = "accept"
         /\ K \in SUBSET Rule /\ IsFiniteSet(K) /\ \A r \in K : r.act = "accept"
    BY <1>5, <1>7, <1>8
  <1> HIDE DEF T, K
  <1>13. /\ A \in Seq(Rule) /\ Accepts(A, s, t) /\ (Lets(A, s, t) <=> Hits(T, s, t))
         /\ B \in Seq(Rule) /\ Accepts(B, s, t) /\ (Lets(B, s, t) <=> Hits(K, s, t))
    BY <1>12, AcceptsAll
  <1>14. /\ D \in Seq(Rule) /\ ~Lets(D, s, t)
         /\ Accepts(D, s, t) <=> ~(s \in Cidr(f) /\ t \in PlacesOf(f))
    BY <1>4, RejectRule
  <1> HIDE DEF A, B, D
  <1>15. /\ A \o B \in Seq(Rule) /\ Accepts(A \o B, s, t)
         /\ Lets(A \o B, s, t) <=> Lets(A, s, t) \/ Lets(B, s, t)
    BY <1>13, AcceptsBoth
  <1>16. PICK E : E = A \o B
    OBVIOUS
  <1>17. /\ E \o D \in Seq(Rule)
         /\ Lets(E \o D, s, t) <=> Lets(E, s, t) \/ Lets(D, s, t)
         /\ Accepts(E \o D, s, t) <=>
                Accepts(E, s, t) /\ (Lets(E, s, t) \/ Accepts(D, s, t))
    <2>1. E \in Seq(Rule) /\ D \in Seq(Rule)
      BY <1>14, <1>15, <1>16
    <2> QED BY <2>1, AcceptsBoth
  <1> QED BY <1>2, <1>11, <1>13, <1>14, <1>15, <1>16, <1>17

\* What the rules of a family let through, in terms of the configuration.
LEMMA RulesMean ==
    ASSUME NEW c \in Conf, NEW st \in State, NEW f \in Families, NEW s, NEW t
    PROVE  /\ RulesOf(c, st, f) \in Seq(Rule)
           /\ Lets(RulesOf(c, st, f), s, t) <=>
                SomePolicyLets(c, st, f, s, t) \/ OpenLets(c, st, f, s, t)
           /\ Accepts(RulesOf(c, st, f), s, t) <=>
                /\ ~(c.isolation /\ s \in Cidr(f) /\ t \in Cidr(f))
                /\ \/ SomePolicyLets(c, st, f, s, t)
                   \/ /\ ~(s \in Addresses(Members(c, st), f) /\ t \in PlacesOf(f))
                      /\ \/ OpenLets(c, st, f, s, t)
                         \/ ~(s \in Cidr(f) /\ t \in PlacesOf(f))
  <1>1. PICK A, B, D : /\ A = Isolation(c, f)
                       /\ B = PolicyRules(c, st, f)
                       /\ D = OpenRules(c, st, f)
    OBVIOUS
  <1>2. RulesOf(c, st, f) = (A \o B) \o D
    BY <1>1 DEF RulesOf
  <1>3. /\ A \in Seq(Rule) /\ ~Lets(A, s, t)
        /\ Accepts(A, s, t) <=> ~(c.isolation /\ s \in Cidr(f) /\ t \in Cidr(f))
    BY <1>1, IsolationPart
  <1>4. /\ B \in Seq(Rule)
        /\ Lets(B, s, t) <=> SomePolicyLets(c, st, f, s, t)
        /\ Accepts(B, s, t) <=>
                \/ SomePolicyLets(c, st, f, s, t)
                \/ ~(s \in Addresses(Members(c, st), f) /\ t \in PlacesOf(f))
    BY <1>1, PolicyPart
  <1>5. /\ D \in Seq(Rule)
        /\ Lets(D, s, t) <=> OpenLets(c, st, f, s, t)
        /\ Accepts(D, s, t) <=>
                \/ OpenLets(c, st, f, s, t)
                \/ ~(s \in Cidr(f) /\ t \in PlacesOf(f))
    BY <1>1, OpenPart
  <1>6. PICK E : E = A \o B
    OBVIOUS
  <1>7. /\ E \in Seq(Rule)
        /\ Lets(E, s, t) <=> Lets(A, s, t) \/ Lets(B, s, t)
        /\ Accepts(E, s, t) <=> Accepts(A, s, t) /\ (Lets(A, s, t) \/ Accepts(B, s, t))
    BY <1>3, <1>4, <1>6, AcceptsBoth
  <1>8. /\ E \o D \in Seq(Rule)
        /\ Lets(E \o D, s, t) <=> Lets(E, s, t) \/ Lets(D, s, t)
        /\ Accepts(E \o D, s, t) <=>
                Accepts(E, s, t) /\ (Lets(E, s, t) \/ Accepts(D, s, t))
    BY <1>5, <1>7, AcceptsBoth
  <1> QED BY <1>2, <1>3, <1>4, <1>5, <1>6, <1>7, <1>8

-----------------------------------------------------------------------------
(* The commands of iptables.                                               *)

\* Where the commands of family f are: after the first b of them.
Layout(work, b, c, st, f) ==
    LET n == Len(RulesOf(c, st, f))
        last == b + 3 + n + (IF Masquerades(c, f) THEN 1 ELSE 0)
    IN  /\ b \in Nat /\ n \in Nat /\ last <= Len(work)
        /\ work[b + 1] = [op |-> "clear", f |-> f]
        /\ work[b + 2] = [op |-> "clearNat", f |-> f]
        /\ work[b + 3] = [op |-> "hook", f |-> f]
        /\ \A i \in 1 .. n :
            work[b + 3 + i] = [op |-> "append", f |-> f, rule |-> RulesOf(c, st, f)[i]]
        /\ Masquerades(c, f) => work[b + 3 + n + 1] = [op |-> "masquerade", f |-> f]
        /\ \A i \in 1 .. Len(work) : work[i].f = f => i \in (b + 1) .. last

LEMMA TwoLists ==
    ASSUME NEW S, NEW A \in Seq(S), NEW B \in Seq(S)
    PROVE  /\ A \o B \in Seq(S) /\ Len(A \o B) = Len(A) + Len(B)
           /\ \A i \in 1 .. Len(A) : (A \o B)[i] = A[i]
           /\ \A i \in 1 .. Len(B) : (A \o B)[Len(A) + i] = B[i]
  OBVIOUS

LEMMA CommandsOfOne ==
    ASSUME NEW c \in Conf, NEW st \in State, NEW f \in c.families
    PROVE  /\ IPTablesCommands(c, st, f) \in Seq(Command)
           /\ Layout(IPTablesCommands(c, st, f), 0, c, st, f)
           /\ \A i \in 1 .. Len(IPTablesCommands(c, st, f)) :
                /\ IPTablesCommands(c, st, f)[i].f = f
                /\ IPTablesCommands(c, st, f)[i].op # "ruleset"
  <1> DEFINE C == IPTablesCommands(c, st, f)
  <1>0. f \in Families
    BY DEF Conf
  <1>1. PICK R : R = RulesOf(c, st, f)
    OBVIOUS
  <1>2. R \in Seq(Rule)
    BY <1>0, <1>1, RulesMean
  <1> DEFINE n == Len(R)
             H == <<[op |-> "clear", f |-> f], [op |-> "clearNat", f |-> f],
                    [op |-> "hook", f |-> f]>>
             A == [i \in DOMAIN R |-> [op |-> "append", f |-> f, rule |-> R[i]]]
             M == IF Masquerades(c, f) THEN <<[op |-> "masquerade", f |-> f]>> ELSE <<>>
             m == IF Masquerades(c, f) THEN 1 ELSE 0
  <1>3. C = (H \o A) \o M
    BY <1>1 DEF IPTablesCommands
  <1>4. /\ H \in Seq(Command) /\ Len(H) = 3
        /\ H[1] = [op |-> "clear", f |-> f]
        /\ H[2] = [op |-> "clearNat", f |-> f]
        /\ H[3] = [op |-> "hook", f |-> f]
        /\ \A i \in 1 .. 3 : H[i].f = f /\ H[i].op # "ruleset"
    BY <1>0 DEF Command
  <1>5. n \in Nat /\ DOMAIN R = 1 .. n /\ \A i \in 1 .. n : R[i] \in Rule
    BY <1>2
  <1>6. /\ \A i \in 1 .. n : A[i] = [op |-> "append", f |-> f, rule |-> R[i]]
        /\ \A i \in 1 .. n : A[i].f = f /\ A[i].op # "ruleset"
    BY <1>5
  <1>7. A \in Seq(Command) /\ Len(A) = n
    <2>1. \A i \in 1 .. n : A[i] \in Command
      BY <1>0, <1>5, <1>6 DEF Command
    <2>2. A \in [1 .. n -> Command]
      BY <1>5, <2>1
    <2> QED BY <1>5, <2>2
  <1>8. /\ M \in Seq(Command) /\ Len(M) = m /\ m \in {0, 1}
        /\ Masquerades(c, f) => m = 1 /\ M[1] = [op |-> "masquerade", f |-> f]
        /\ \A i \in 1 .. m : M[i].f = f /\ M[i].op # "ruleset"
    <2>1. CASE Masquerades(c, f)
      <3>1. M = <<[op |-> "masquerade", f |-> f]>> /\ m = 1
        BY <2>1
      <3>2. [op |-> "masquerade", f |-> f] \in Command
        BY <1>0 DEF Command
      <3> HIDE DEF M, m
      <3> QED BY <2>1, <3>1, <3>2
    <2>2. CASE ~Masquerades(c, f)
      <3>1. M = <<>> /\ m = 0
        BY <2>2
      <3> HIDE DEF M, m
      <3> QED BY <2>2, <3>1
    <2> QED BY <2>1, <2>2
  <1> HIDE DEF H, A, M, n, m
  <1>9. PICK E : E = H \o A
    OBVIOUS
  <1>10. /\ E \in Seq(Command) /\ Len(E) = 3 + n
         /\ \A i \in 1 .. 3 : E[i] = H[i]
         /\ \A i \in 1 .. n : E[3 + i] = A[i]
    <2>1. H \in Seq(Command) /\ A \in Seq(Command)
      BY <1>4, <1>7
    <2>2. /\ H \o A \in Seq(Command) /\ Len(H \o A) = Len(H) + Len(A)
          /\ \A i \in 1 .. Len(H) : (H \o A)[i] = H[i]
          /\ \A i \in 1 .. Len(A) : (H \o A)[Len(H) + i] = A[i]
      BY <2>1, TwoLists
    <2> QED BY <1>4, <1>7, <1>9, <2>2
  <1>11. /\ C \in Seq(Command) /\ Len(C) = 3 + n + m
         /\ \A i \in 1 .. (3 + n) : C[i] = E[i]
         /\ \A i \in 1 .. m : C[3 + n + i] = M[i]
    <2>1. E \in Seq(Command) /\ M \in Seq(Command)
      BY <1>8, <1>10
    <2>2. /\ E \o M \in Seq(Command) /\ Len(E \o M) = Len(E) + Len(M)
          /\ \A i \in 1 .. Len(E) : (E \o M)[i] = E[i]
          /\ \A i \in 1 .. Len(M) : (E \o M)[Len(E) + i] = M[i]
      BY <2>1, TwoLists
    <2>3. C = E \o M
      BY <1>3, <1>9
    <2> HIDE DEF C
    <2> QED BY <1>8, <1>10, <2>2, <2>3
  <1> HIDE DEF C
  <1>12. /\ \A i \in 1 .. 3 : C[i] = H[i]
         /\ \A i \in 1 .. n : C[3 + i] = A[i]
    <2>1. ASSUME NEW i \in 1 .. n
          PROVE  C[3 + i] = A[i]
      <3>1. 3 + i \in 1 .. (3 + n)
        BY <1>5 DEF n
      <3> QED BY <1>10, <1>11, <3>1
    <2>2. \A i \in 1 .. 3 : i \in 1 .. (3 + n)
      BY <1>5 DEF n
    <2> QED BY <1>10, <1>11, <2>1, <2>2
  <1>13. ASSUME NEW i \in 1 .. Len(C)
         PROVE  C[i].f = f /\ C[i].op # "ruleset"
    <2>1. CASE i \in 1 .. 3
      BY <1>4, <1>12, <2>1
    <2>2. CASE i > 3 /\ i <= 3 + n
      <3>1. PICK j \in 1 .. n : i = 3 + j
        <4>1. i - 3 \in 1 .. n /\ i = 3 + (i - 3)
          BY <1>5, <1>11, <2>2 DEF n
        <4> QED BY <4>1
      <3> QED BY <1>6, <1>12, <3>1 DEF n
    <2>3. CASE i > 3 + n
      <3>1. PICK j \in 1 .. m : i = 3 + n + j
        <4>1. i - (3 + n) \in 1 .. m /\ i = 3 + n + (i - (3 + n))
          BY <1>5, <1>8, <1>11, <2>3 DEF n, m
        <4> QED BY <4>1
      <3> QED BY <1>8, <1>11, <3>1 DEF m
    <2> QED BY <1>5, <1>8, <1>11, <2>1, <2>2, <2>3 DEF n, m
  <1>14. Layout(C, 0, c, st, f)
    <2>1. /\ C[0 + 1] = [op |-> "clear", f |-> f]
          /\ C[0 + 2] = [op |-> "clearNat", f |-> f]
          /\ C[0 + 3] = [op |-> "hook", f |-> f]
      BY <1>4, <1>12
    <2>2. \A i \in 1 .. n : C[0 + 3 + i] = [op |-> "append", f |-> f, rule |-> R[i]]
      BY <1>6, <1>12 DEF n
    <2>3. Masquerades(c, f) => C[0 + 3 + n + 1] = [op |-> "masquerade", f |-> f]
      BY <1>5, <1>8, <1>11 DEF n, m
    <2>4. /\ n \in Nat /\ m \in Nat /\ 0 + 3 + n + m <= Len(C)
          /\ \A i \in 1 .. Len(C) : i \in (0 + 1) .. (0 + 3 + n + m)
      BY <1>5, <1>8, <1>11 DEF n, m
    <2> QED BY <1>1, <2>1, <2>2, <2>3, <2>4 DEF Layout, n, m
  <1> QED BY <1>11, <1>13, <1>14 DEF C

\* The commands of the first family stay where they are, those of the second are
\* moved behind them.
LEMMA LayoutFirst ==
    ASSUME NEW A \in Seq(Command), NEW B \in Seq(Command), NEW c, NEW st, NEW f,
           Layout(A, 0, c, st, f), \A i \in 1 .. Len(B) : B[i].f # f
    PROVE  Layout(A \o B, 0, c, st, f)
  <1>1. PICK W : W = A \o B
    OBVIOUS
  <1> DEFINE R == RulesOf(c, st, f)
             n == Len(R)
             k == IF Masquerades(c, f) THEN 1 ELSE 0
             a == Len(A)
             z == Len(B)
  <1>2. /\ Len(W) = a + z /\ a \in Nat /\ z \in Nat
        /\ \A i \in 1 .. a : W[i] = A[i]
        /\ \A i \in 1 .. z : W[a + i] = B[i]
    BY <1>1, TwoLists
  <1>3. /\ n \in Nat /\ k \in Nat /\ 3 + n + k <= a
        /\ A[1] = [op |-> "clear", f |-> f]
        /\ A[2] = [op |-> "clearNat", f |-> f]
        /\ A[3] = [op |-> "hook", f |-> f]
        /\ \A i \in 1 .. n : A[3 + i] = [op |-> "append", f |-> f, rule |-> R[i]]
        /\ Masquerades(c, f) => k = 1 /\ A[3 + n + 1] = [op |-> "masquerade", f |-> f]
        /\ \A i \in 1 .. a : A[i].f = f => i \in 1 .. (3 + n + k)
    BY DEF Layout
  <1> HIDE DEF R, n, k, a, z
  <1>4. 1 \in 1 .. a /\ 2 \in 1 .. a /\ 3 \in 1 .. a
    BY <1>2, <1>3, SMTT(30)
  <1>5. \A i \in 1 .. n : 3 + i \in 1 .. a
    BY <1>2, <1>3
  <1>6. k = 1 => 3 + n + 1 \in 1 .. a
    BY <1>2, <1>3
  <1>7. ASSUME NEW i \in 1 .. (a + z), W[i].f = f
        PROVE  i \in 1 .. (3 + n + k)
    <2>1. CASE i \in 1 .. a
      BY <1>2, <1>3, <1>7, <2>1
    <2>2. CASE i \notin 1 .. a
      <3>1. i - a \in 1 .. z /\ i = a + (i - a)
        BY <1>2, <2>2
      <3>2. W[i] = B[i - a]
        BY <1>2, <3>1
      <3> QED BY <1>7, <3>1, <3>2 DEF z
    <2> QED BY <2>1, <2>2
  <1>8. /\ W[0 + 1] = [op |-> "clear", f |-> f]
        /\ W[0 + 2] = [op |-> "clearNat", f |-> f]
        /\ W[0 + 3] = [op |-> "hook", f |-> f]
    BY <1>2, <1>3, <1>4
  <1>9. \A i \in 1 .. n : W[0 + 3 + i] = [op |-> "append", f |-> f, rule |-> R[i]]
    BY <1>2, <1>3, <1>5, SMTT(30)
  <1>10. Masquerades(c, f) => W[0 + 3 + n + 1] = [op |-> "masquerade", f |-> f]
    BY <1>2, <1>3, <1>6
  <1>11. /\ 0 \in Nat /\ n \in Nat /\ 0 + 3 + n + k <= Len(W)
         /\ \A i \in 1 .. Len(W) : W[i].f = f => i \in (0 + 1) .. (0 + 3 + n + k)
    BY <1>2, <1>3, <1>7
  <1> QED BY <1>1, <1>8, <1>9, <1>10, <1>11 DEF Layout, R, n, k

LEMMA LayoutSecond ==
    ASSUME NEW A \in Seq(Command), NEW B \in Seq(Command), NEW c, NEW st, NEW f,
           Layout(B, 0, c, st, f), \A i \in 1 .. Len(A) : A[i].f # f
    PROVE  Layout(A \o B, Len(A), c, st, f)
  <1>1. PICK W : W = A \o B
    OBVIOUS
  <1> DEFINE R == RulesOf(c, st, f)
             n == Len(R)
             k == IF Masquerades(c, f) THEN 1 ELSE 0
             a == Len(A)
             z == Len(B)
  <1>2. /\ Len(W) = a + z /\ a \in Nat /\ z \in Nat
        /\ \A i \in 1 .. a : W[i] = A[i]
        /\ \A i \in 1 .. z : W[a + i] = B[i]
    BY <1>1, TwoLists
  <1>3. /\ n \in Nat /\ k \in Nat /\ 3 + n + k <= z
        /\ B[1] = [op |-> "clear", f |-> f]
        /\ B[2] = [op |-> "clearNat", f |-> f]
        /\ B[3] = [op |-> "hook", f |-> f]
        /\ \A i \in 1 .. n : B[3 + i] = [op |-> "append", f |-> f, rule |-> R[i]]
        /\ Masquerades(c, f) => k = 1 /\ B[3 + n + 1] = [op |-> "masquerade", f |-> f]
        /\ \A i \in 1 .. z : B[i].f = f => i \in 1 .. (3 + n + k)
    BY DEF Layout
  <1> HIDE DEF R, n, k, a, z
  <1>4. 1 \in 1 .. z /\ 2 \in 1 .. z /\ 3 \in 1 .. z
    BY <1>2, <1>3, SMTT(30)
  <1>5. \A i \in 1 .. n : 3 + i \in 1 .. z /\ a + 3 + i = a + (3 + i)
    BY <1>2, <1>3
  <1>6. k = 1 => 3 + n + 1 \in 1 .. z /\ a + 3 + n + 1 = a + (3 + n + 1)
    BY <1>2, <1>3
  <1>7. ASSUME NEW i \in 1 .. (a + z), W[i].f = f
        PROVE  i \in (a + 1) .. (a + 3 + n + k)
    <2>1. i \notin 1 .. a
      BY <1>2, <1>7 DEF a
    <2>2. i - a \in 1 .. z /\ i = a + (i - a)
      BY <1>2, <2>1
    <2>3. W[i] = B[i - a]
      BY <1>2, <2>2
    <2>4. i - a \in 1 .. (3 + n + k)
      BY <1>3, <1>7, <2>2, <2>3
    <2> QED BY <1>2, <1>3, <2>4
  <1>8. /\ W[a + 1] = [op |-> "clear", f |-> f]
        /\ W[a + 2] = [op |-> "clearNat", f |-> f]
        /\ W[a + 3] = [op |-> "hook", f |-> f]
    BY <1>2, <1>3, <1>4
  <1>9. \A i \in 1 .. n : W[a + 3 + i] = [op |-> "append", f |-> f, rule |-> R[i]]
    BY <1>2, <1>3, <1>5
  <1>10. Masquerades(c, f) => W[a + 3 + n + 1] = [op |-> "masquerade", f |-> f]
    BY <1>2, <1>3, <1>6
  <1>11. /\ a \in Nat /\ n \in Nat /\ a + 3 + n + k <= Len(W)
         /\ \A i \in 1 .. Len(W) : W[i].f = f => i \in (a + 1) .. (a + 3 + n + k)
    BY <1>2, <1>3, <1>7
  <1> QED BY <1>1, <1>8, <1>9, <1>10, <1>11 DEF Layout, R, n, k, a

LEMMA CommandsLayout ==
    ASSUME NEW c \in Conf, NEW st \in State, c.firewall = "iptables"
    PROVE  /\ Commands(c, st) \in Seq(Command)
           /\ \A i \in 1 .. Len(Commands(c, st)) :
                Commands(c, st)[i].f \in c.families /\ Commands(c, st)[i].op # "ruleset"
           /\ \A f \in c.families : \E b \in Nat : Layout(Commands(c, st), b, c, st, f)
  <1>1. PICK A, B : A = IPTablesCommands(c, st, "ip") /\ B = IPTablesCommands(c, st, "ip6")
    OBVIOUS
  <1>2. PICK W : W = A \o B
    OBVIOUS
  <1>3. Commands(c, st) = W
    BY <1>1, <1>2 DEF Commands
  <1>4. ASSUME NEW f, f \notin c.families
        PROVE  IPTablesCommands(c, st, f) = <<>>
    BY <1>4 DEF IPTablesCommands
  <1>5. /\ A \in Seq(Command)
        /\ \A i \in 1 .. Len(A) : A[i].f = "ip" /\ "ip" \in c.families /\ A[i].op # "ruleset"
        /\ "ip" \in c.families => Layout(A, 0, c, st, "ip")
    <2>1. CASE "ip" \in c.families
      BY <1>1, <2>1, CommandsOfOne
    <2>2. CASE "ip" \notin c.families
      <3>1. A = <<>>
        BY <1>1, <1>4, <2>2
      <3> QED BY <2>2, <3>1
    <2> QED BY <2>1, <2>2
  <1>6. /\ B \in Seq(Command)
        /\ \A i \in 1 .. Len(B) : B[i].f = "ip6" /\ "ip6" \in c.families /\ B[i].op # "ruleset"
        /\ "ip6" \in c.families => Layout(B, 0, c, st, "ip6")
    <2>1. CASE "ip6" \in c.families
      BY <1>1, <2>1, CommandsOfOne
    <2>2. CASE "ip6" \notin c.families
      <3>1. B = <<>>
        BY <1>1, <1>4, <2>2
      <3> QED BY <2>2, <3>1
    <2> QED BY <2>1, <2>2
  <1>7. /\ W \in Seq(Command) /\ Len(W) = Len(A) + Len(B)
        /\ \A i \in 1 .. Len(A) : W[i] = A[i]
        /\ \A i \in 1 .. Len(B) : W[Len(A) + i] = B[i]
    BY <1>2, <1>5, <1>6, TwoLists
  <1>8. Len(A) \in Nat /\ Len(B) \in Nat
    BY <1>5, <1>6
  <1>9. ASSUME NEW i \in 1 .. Len(W)
        PROVE  W[i].f \in c.families /\ W[i].op # "ruleset"
    <2>1. CASE i \in 1 .. Len(A)
      BY <1>5, <1>7, <2>1
    <2>2. CASE i \notin 1 .. Len(A)
      <3>1. i - Len(A) \in 1 .. Len(B) /\ i = Len(A) + (i - Len(A))
        BY <1>7, <1>8, <2>2
      <3>2. W[i] = B[i - Len(A)]
        BY <1>7, <3>1
      <3> QED BY <1>6, <3>1, <3>2
    <2> QED BY <2>1, <2>2
  <1>10. "ip" \in c.families => Layout(W, 0, c, st, "ip")
    <2>1. \A i \in 1 .. Len(B) : B[i].f # "ip"
      BY <1>6
    <2> QED BY <1>2, <1>5, <1>6, <2>1, LayoutFirst
  <1>11. "ip6" \in c.families => Layout(W, Len(A), c, st, "ip6")
    <2>1. \A i \in 1 .. Len(A) : A[i].f # "ip6"
      BY <1>5
    <2> QED BY <1>2, <1>5, <1>6, <2>1, LayoutSecond
  <1>12. ASSUME NEW f \in c.families
         PROVE  \E b \in Nat : Layout(W, b, c, st, f)
    <2>1. f = "ip" \/ f = "ip6"
      BY DEF Conf, Families
    <2> QED BY <1>8, <1>10, <1>11, <2>1
  <1> QED BY <1>3, <1>7, <1>9, <1>12

\* The commands of a family are in their order, and none of them is there twice.
InOrder(work, b, c, st, f) ==
    \A i \in 1 .. Len(work) :
        /\ Adds(work[i], f) => /\ i - (b + 3) \in 1 .. Len(RulesOf(c, st, f))
                               /\ work[i].rule = RulesOf(c, st, f)[i - (b + 3)]
        /\ work[i] = [op |-> "clear", f |-> f] => i = b + 1
        /\ work[i] = [op |-> "clearNat", f |-> f] => i = b + 2
        /\ work[i] = [op |-> "masquerade", f |-> f] =>
                Masquerades(c, f) /\ i = b + 3 + Len(RulesOf(c, st, f)) + 1

LEMMA LayoutOrder ==
    ASSUME NEW work \in Seq(Command), NEW b, NEW c, NEW st, NEW f,
           Layout(work, b, c, st, f)
    PROVE  InOrder(work, b, c, st, f)
  <1> SUFFICES ASSUME NEW i \in 1 .. Len(work)
               PROVE  /\ Adds(work[i], f) =>
                            /\ i - (b + 3) \in 1 .. Len(RulesOf(c, st, f))
                            /\ work[i].rule = RulesOf(c, st, f)[i - (b + 3)]
                      /\ work[i] = [op |-> "clear", f |-> f] => i = b + 1
                      /\ work[i] = [op |-> "clearNat", f |-> f] => i = b + 2
                      /\ work[i] = [op |-> "masquerade", f |-> f] =>
                            /\ Masquerades(c, f)
                            /\ i = b + 3 + Len(RulesOf(c, st, f)) + 1
    BY DEF InOrder
  <1> DEFINE R == RulesOf(c, st, f)
             n == Len(R)
             k == IF Masquerades(c, f) THEN 1 ELSE 0
  <1>1. /\ b \in Nat /\ n \in Nat /\ k \in Nat
        /\ work[b + 1] = [op |-> "clear", f |-> f]
        /\ work[b + 2] = [op |-> "clearNat", f |-> f]
        /\ work[b + 3] = [op |-> "hook", f |-> f]
        /\ \A j \in 1 .. n : work[b + 3 + j] = [op |-> "append", f |-> f, rule |-> R[j]]
        /\ Masquerades(c, f) => work[b + 3 + n + 1] = [op |-> "masquerade", f |-> f]
        /\ work[i].f = f => i \in (b + 1) .. (b + 3 + n + k)
        /\ k = (IF Masquerades(c, f) THEN 1 ELSE 0)
    BY DEF Layout
  <1> HIDE DEF n, k, R
  <1> DEFINE Goal == /\ Adds(work[i], f) => /\ i - (b + 3) \in 1 .. n
                                            /\ work[i].rule = R[i - (b + 3)]
                     /\ work[i] = [op |-> "clear", f |-> f] => i = b + 1
                     /\ work[i] = [op |-> "clearNat", f |-> f] => i = b + 2
                     /\ work[i] = [op |-> "masquerade", f |-> f] =>
                            Masquerades(c, f) /\ i = b + 3 + n + 1
  <1>2. ASSUME work[i].f # f
        PROVE  Goal
    BY <1>2 DEF Adds
  <1>3. ASSUME i = b + 1
        PROVE  Goal
    BY <1>1, <1>3 DEF Adds
  <1>4. ASSUME i = b + 2
        PROVE  Goal
    BY <1>1, <1>4 DEF Adds
  <1>5. ASSUME i = b + 3
        PROVE  Goal
    BY <1>1, <1>5 DEF Adds
  <1>6. ASSUME NEW j \in 1 .. n, i = b + 3 + j
        PROVE  Goal
    <2>1. i - (b + 3) = j
      BY <1>1, <1>6
    <2>2. work[i] = [op |-> "append", f |-> f, rule |-> R[j]]
      BY <1>1, <1>6
    <2>3. work[i].op = "append" /\ work[i].rule = R[j]
      BY <2>2
    <2> QED BY <2>1, <2>3
  <1>7. ASSUME Masquerades(c, f) /\ i = b + 3 + n + 1
        PROVE  Goal
    <2>1. work[i] = [op |-> "masquerade", f |-> f]
      BY <1>1, <1>7
    <2>2. work[i].op = "masquerade"
      BY <2>1
    <2>3. /\ ~Adds(work[i], f)
          /\ work[i] # [op |-> "clear", f |-> f]
          /\ work[i] # [op |-> "clearNat", f |-> f]
      BY <2>2 DEF Adds
    <2> QED BY <1>7, <2>3
  <1>8. ASSUME i \in (b + 1) .. (b + 3 + n + k)
        PROVE  \/ i = b + 1 \/ i = b + 2 \/ i = b + 3
               \/ \E j \in 1 .. n : i = b + 3 + j
               \/ Masquerades(c, f) /\ i = b + 3 + n + 1
    <2>0. /\ b \in Nat /\ n \in Nat /\ i \in Int /\ k \in {0, 1}
          /\ b + 1 <= i /\ i <= b + 3 + n + k
          /\ k = 1 => Masquerades(c, f)
      BY <1>1, <1>8
    <2>1. ASSUME i <= b + 3
          PROVE  i = b + 1 \/ i = b + 2 \/ i = b + 3
      BY <2>0, <2>1
    <2>2. ASSUME b + 3 < i, i <= b + 3 + n
          PROVE  \E j \in 1 .. n : i = b + 3 + j
      <3>1. i - (b + 3) \in 1 .. n /\ i = b + 3 + (i - (b + 3))
        BY <2>0, <2>2
      <3> QED BY <3>1
    <2>3. ASSUME b + 3 + n < i
          PROVE  Masquerades(c, f) /\ i = b + 3 + n + 1
      BY <2>0, <2>3
    <2>4. i <= b + 3 \/ (b + 3 < i /\ i <= b + 3 + n) \/ b + 3 + n < i
      BY <2>0
    <2> QED BY <2>1, <2>2, <2>3, <2>4
  <1> HIDE DEF Goal
  <1>9. Goal
    BY <1>1, <1>2, <1>3, <1>4, <1>5, <1>6, <1>7, <1>8
  <1> QED BY <1>9 DEF Goal, n, R

\* A chain that was built from the rules lets through what they do: a rule is left
\* out of it only where an equal one comes before.
LEMMA MirrorMeans ==
    ASSUME NEW work \in Seq(Command), NEW b, NEW c, NEW st, NEW f, NEW s, NEW t,
           Layout(work, b, c, st, f), NEW chain \in Seq(Rule),
           RulesOf(c, st, f) \in Seq(Rule),
           Mirrors(chain, work, Len(work), f)
    PROVE  /\ Lets(chain, s, t) <=> Lets(RulesOf(c, st, f), s, t)
           /\ Accepts(chain, s, t) <=> Accepts(RulesOf(c, st, f), s, t)
  <1> DEFINE R == RulesOf(c, st, f)
             n == Len(R)
             L == Len(work)
  <1>1. /\ b \in Nat /\ n \in Nat /\ L \in Nat /\ b + 3 + n <= L
        /\ \A j \in 1 .. n : work[b + 3 + j] = [op |-> "append", f |-> f, rule |-> R[j]]
    BY SMTT(30) DEF Layout
  <1>2. \A i \in 1 .. L : Adds(work[i], f) =>
            i - (b + 3) \in 1 .. n /\ work[i].rule = R[i - (b + 3)]
    <2>1. InOrder(work, b, c, st, f)
      BY LayoutOrder
    <2> QED BY <2>1 DEF InOrder
  <1>3. \A j \in 1 .. n : /\ b + 3 + j \in 1 .. L /\ Adds(work[b + 3 + j], f)
                          /\ work[b + 3 + j].rule = R[j]
    <2> HIDE DEF R, n, L
    <2> TAKE j \in 1 .. n
    <2> DEFINE e == b + 3 + j
    <2>1. e \in 1 .. L /\ work[e] = [op |-> "append", f |-> f, rule |-> R[j]]
      BY <1>1
    <2> HIDE DEF e
    <2>2. work[e].op = "append" /\ work[e].f = f /\ work[e].rule = R[j]
      BY <2>1
    <2> QED BY <2>1, <2>2 DEF Adds, e
  <1>4. DOMAIN R = 1 .. n /\ DOMAIN chain = 1 .. Len(chain) /\ Len(chain) \in Nat
    OBVIOUS
  <1> HIDE DEF R, n, L
  <1>5. ASSUME NEW i \in 1 .. n
        PROVE  \E j \in 1 .. Len(chain) :
                /\ chain[j] = R[i]
                /\ \A j2 \in 1 .. (j - 1) : \E i2 \in 1 .. (i - 1) : R[i2] = chain[j2]
    <2> DEFINE e == b + 3 + i
    <2>1. e \in 1 .. L /\ Adds(work[e], f) /\ work[e].rule = R[i]
      BY <1>3
    <2> HIDE DEF e
    <2>2. PICK j \in DOMAIN chain :
            /\ chain[j] = work[e].rule
            /\ \A j2 \in 1 .. (j - 1) : \E i2 \in 1 .. (e - 1) :
                Adds(work[i2], f) /\ work[i2].rule = chain[j2]
      BY <2>1 DEF Mirrors, L
    <2>3. ASSUME NEW j2 \in 1 .. (j - 1)
          PROVE  \E i2 \in 1 .. (i - 1) : R[i2] = chain[j2]
      <3>1. PICK i2 \in 1 .. (e - 1) : Adds(work[i2], f) /\ work[i2].rule = chain[j2]
        BY <2>2
      <3>2. i2 \in 1 .. L
        BY <1>1, <2>1, <3>1
      <3>3. i2 - (b + 3) \in 1 .. n /\ work[i2].rule = R[i2 - (b + 3)]
        BY <1>2, <3>1, <3>2
      <3>4. i2 - (b + 3) \in 1 .. (i - 1)
        BY <1>1, <3>1, <3>3 DEF e
      <3> QED BY <3>1, <3>3, <3>4
    <2> QED BY <1>4, <2>1, <2>2, <2>3
  <1>6. ASSUME NEW j \in 1 .. Len(chain)
        PROVE  \E i \in 1 .. n :
                /\ R[i] = chain[j]
                /\ \A i2 \in 1 .. (i - 1) : \E j2 \in 1 .. (j - 1) : chain[j2] = R[i2]
    <2>0. j \in DOMAIN chain /\ Mirrors(chain, work, L, f)
      BY <1>4 DEF L
    <2>1. PICK e \in 1 .. L :
            /\ Adds(work[e], f) /\ work[e].rule = chain[j]
            /\ \A i2 \in 1 .. (e - 1) : Adds(work[i2], f) =>
                \E j2 \in 1 .. (j - 1) : chain[j2] = work[i2].rule
      BY <2>0, ZenonT(30) DEF Mirrors
    <2>2. PICK i : i = e - (b + 3)
      OBVIOUS
    <2>3. i \in 1 .. n /\ R[i] = chain[j] /\ e = b + 3 + i
      BY <1>1, <1>2, <2>1, <2>2
    <2>4. ASSUME NEW i2 \in 1 .. (i - 1)
          PROVE  \E j2 \in 1 .. (j - 1) : chain[j2] = R[i2]
      <3>1. i2 \in 1 .. n /\ b + 3 + i2 \in 1 .. (e - 1)
        BY <1>1, <2>3
      <3>2. Adds(work[b + 3 + i2], f) /\ work[b + 3 + i2].rule = R[i2]
        BY <1>3, <3>1
      <3> QED BY <2>1, <3>1, <3>2
    <2> QED BY <2>3, <2>4
  <1>7. Lets(chain, s, t) <=> Lets(R, s, t)
    <2>1. \A i \in 1 .. n : \E j \in 1 .. Len(chain) : chain[j] = R[i]
      BY <1>5
    <2>2. \A j \in 1 .. Len(chain) : \E i \in 1 .. n : R[i] = chain[j]
      BY <1>6
    <2> QED BY <1>4, <2>1, <2>2 DEF Lets
  <1>8. /\ Accepts(chain, s, t) <=>
            \A i \in 1 .. Len(chain) :
                s \in chain[i].from /\ t \in chain[i].to /\ chain[i].act = "reject" =>
                    \E j \in 1 .. Len(chain) :
                        /\ s \in chain[j].from /\ t \in chain[j].to
                        /\ j < i /\ chain[j].act = "accept"
        /\ Accepts(R, s, t) <=>
            \A i \in 1 .. n :
                s \in R[i].from /\ t \in R[i].to /\ R[i].act = "reject" =>
                    \E j \in 1 .. n :
                        /\ s \in R[j].from /\ t \in R[j].to
                        /\ j < i /\ R[j].act = "accept"
    BY <1>4 DEF Accepts
  <1>9. ASSUME Accepts(chain, s, t)
        PROVE  Accepts(R, s, t)
    <2> SUFFICES ASSUME NEW i \in 1 .. n, s \in R[i].from, t \in R[i].to,
                        R[i].act = "reject"
                 PROVE  \E i2 \in 1 .. n : /\ s \in R[i2].from /\ t \in R[i2].to
                                           /\ i2 < i /\ R[i2].act = "accept"
      BY <1>8
    <2>1. PICK j \in 1 .. Len(chain) :
            /\ chain[j] = R[i]
            /\ \A j2 \in 1 .. (j - 1) : \E i2 \in 1 .. (i - 1) : R[i2] = chain[j2]
      BY <1>5
    <2>2. PICK j2 \in 1 .. Len(chain) :
            /\ s \in chain[j2].from /\ t \in chain[j2].to
            /\ j2 < j /\ chain[j2].act = "accept"
      BY <1>8, <1>9, <2>1
    <2>3. j2 \in 1 .. (j - 1)
      BY <1>4, <2>1, <2>2
    <2>4. PICK i2 \in 1 .. (i - 1) : R[i2] = chain[j2]
      BY <2>1, <2>3
    <2>5. i2 \in 1 .. n /\ i2 < i
      BY <1>1, <2>4
    <2> QED BY <2>2, <2>4, <2>5
  <1>10. ASSUME Accepts(R, s, t)
         PROVE  Accepts(chain, s, t)
    <2> SUFFICES ASSUME NEW j \in 1 .. Len(chain), s \in chain[j].from,
                        t \in chain[j].to, chain[j].act = "reject"
                 PROVE  \E j2 \in 1 .. Len(chain) :
                            /\ s \in chain[j2].from /\ t \in chain[j2].to
                            /\ j2 < j /\ chain[j2].act = "accept"
      BY <1>8
    <2>1. PICK i \in 1 .. n :
            /\ R[i] = chain[j]
            /\ \A i2 \in 1 .. (i - 1) : \E j2 \in 1 .. (j - 1) : chain[j2] = R[i2]
      BY <1>6
    <2>2. PICK i2 \in 1 .. n : /\ s \in R[i2].from /\ t \in R[i2].to
                               /\ i2 < i /\ R[i2].act = "accept"
      BY <1>8, <1>10, <2>1
    <2>3. i2 \in 1 .. (i - 1)
      BY <1>1, <2>1, <2>2
    <2>4. PICK j2 \in 1 .. (j - 1) : chain[j2] = R[i2]
      BY <2>1, <2>3
    <2>5. j2 \in 1 .. Len(chain) /\ j2 < j
      BY <1>4, <2>4
    <2> QED BY <2>2, <2>4, <2>5
  <1> QED BY <1>7, <1>9, <1>10 DEF R

-----------------------------------------------------------------------------
(* What the kernel lets through when the rules are in place.               *)

KernelRules(c, f) == IF c.firewall = "nftables" THEN nft.rules[f] ELSE ipt[f].chain
KernelNat(c, f) == IF c.firewall = "nftables" THEN nft.nat[f] ELSE ipt[f].nat

LEMMA InstalledMeans ==
    ASSUME ipt \in [Families -> Chain], NEW c \in Conf, NEW st \in State,
           NEW f \in c.families, NEW s, NEW t,
           c.firewall # "none", Installed(c, st)
    PROVE  /\ Lets(KernelRules(c, f), s, t) <=> Lets(RulesOf(c, st, f), s, t)
           /\ Accepts(KernelRules(c, f), s, t) <=> Accepts(RulesOf(c, st, f), s, t)
           /\ KernelNat(c, f) <=> Masquerades(c, f)
           /\ c.firewall = "iptables" => ipt[f].hooked
  <1>1. f \in Families
    BY DEF Conf
  <1>2. CASE c.firewall = "nftables"
    <2>1. nft = TableOf(c, st)
      BY <1>2 DEF Installed
    <2>2. nft.rules[f] = RulesOf(c, st, f)
      BY <1>1, <2>1 DEF TableOf
    <2>3. nft.nat[f] <=> Masquerades(c, f)
      BY <1>1, <2>1 DEF TableOf, Masquerades
    <2> QED BY <1>2, <2>2, <2>3 DEF KernelRules, KernelNat
  <1>3. CASE c.firewall = "iptables"
    <2>1. PICK work, L : work = Commands(c, st) /\ L = Len(work)
      OBVIOUS
    <2>2. work \in Seq(Command)
      BY <1>3, <2>1, CommandsLayout
    <2>3. PICK b \in Nat : Layout(work, b, c, st, f)
      BY <1>3, <2>1, CommandsLayout
    <2>4. FamilyAt(work, L, f)
      BY <1>3, <2>1 DEF Installed, FamiliesAt
    <2>5. InOrder(work, b, c, st, f)
      BY <2>2, <2>3, LayoutOrder
    <2>6. PICK n, k : /\ n = Len(RulesOf(c, st, f))
                      /\ k = (IF Masquerades(c, f) THEN 1 ELSE 0)
      OBVIOUS
    <2>7. /\ n \in Nat /\ L \in Nat /\ b + 3 + n + k <= L
          /\ work[b + 1] = [op |-> "clear", f |-> f]
          /\ work[b + 2] = [op |-> "clearNat", f |-> f]
          /\ work[b + 3] = [op |-> "hook", f |-> f]
          /\ Masquerades(c, f) => work[b + 3 + n + 1] = [op |-> "masquerade", f |-> f]
      BY <2>1, <2>2, <2>3, <2>6 DEF Layout
    <2>8. b + 1 \in 1 .. L /\ b + 2 \in 1 .. L /\ b + 3 \in 1 .. L
      BY <2>6, <2>7
    <2>9. /\ Did(work, L, "clear", f)
          /\ Did(work, L, "clearNat", f)
          /\ Did(work, L, "hook", f)
      BY <2>7, <2>8 DEF Did
    <2>10. Did(work, L, "masquerade", f) <=> Masquerades(c, f)
      <3>1. ASSUME Did(work, L, "masquerade", f)
            PROVE  Masquerades(c, f)
        BY <2>1, <2>5, <3>1 DEF Did, InOrder
      <3>2. ASSUME Masquerades(c, f)
            PROVE  Did(work, L, "masquerade", f)
        <4>1. b + 3 + n + 1 \in 1 .. L
          BY <2>6, <2>7, <3>2
        <4> QED BY <2>7, <3>2, <4>1 DEF Did
      <3> QED BY <3>1, <3>2
    <2>11. Mirrors(ipt[f].chain, work, L, f) /\ ipt[f].hooked
           /\ (ipt[f].nat <=> Masquerades(c, f))
      BY <2>4, <2>9, <2>10 DEF FamilyAt
    <2>12. ipt[f].chain \in Seq(Rule)
      BY <1>1 DEF Chain
    <2>13. RulesOf(c, st, f) \in Seq(Rule)
      BY <1>1, RulesMean
    <2>14. PICK chain : chain = ipt[f].chain
      OBVIOUS
    <2>15. chain \in Seq(Rule) /\ Mirrors(chain, work, Len(work), f)
      <3>1. chain \in Seq(Rule) /\ Mirrors(chain, work, L, f)
        BY <2>11, <2>12, <2>14
      <3> QED BY <2>1, <3>1
    <2>16. /\ Lets(chain, s, t) <=> Lets(RulesOf(c, st, f), s, t)
           /\ Accepts(chain, s, t) <=> Accepts(RulesOf(c, st, f), s, t)
      BY <2>2, <2>3, <2>13, <2>15, MirrorMeans
    <2>17. KernelRules(c, f) = chain /\ KernelNat(c, f) = ipt[f].nat
      BY <1>3, <2>14 DEF KernelRules, KernelNat
    <2> QED BY <2>11, <2>16, <2>17
  <1> QED BY <1>2, <1>3 DEF Conf

\* What the rules let device d reach: its policies' networks, or what everybody has.
Given(c, st, d, f, t) ==
    \/ \E p \in c.policies : d \in st.members[p] /\ Within(t, PolicyNets[p], f)
    \/ d \notin Members(c, st) /\ Within(t, AllowedIPs \cup st.routed, f)

LEMMA DeviceReaches ==
    ASSUME NEW c \in Conf, NEW st \in State, NEW f \in Families,
           NEW d \in Devices, NEW w \in Who \ {Server}
    PROVE  LET s == <<d, f>>
               t == <<w, f>>
           IN  /\ c.isolation /\ w \in Devices => ~Accepts(RulesOf(c, st, f), s, t)
               /\ Given(c, st, d, f, t) /\ ~(c.isolation /\ w \in Devices) =>
                    Accepts(RulesOf(c, st, f), s, t)
               /\ w \notin Devices =>
                    (Accepts(RulesOf(c, st, f), s, t) <=> Given(c, st, d, f, t))
  <1>1. PICK s, t : s = <<d, f>> /\ t = <<w, f>>
    OBVIOUS
  <1>2. /\ s \in Cidr(f) /\ t \in PlacesOf(f) /\ t # <<Server, f>>
        /\ t \in Cidr(f) <=> w \in Devices
    BY <1>1 DEF Cidr, PlacesOf
  <1>3. \A ds : s \in Addresses(ds, f) <=> d \in ds
    BY <1>1 DEF Addresses
  <1>4. \A ds \in SUBSET Devices : t \in Addresses(ds, f) => w \in Devices
    BY <1>1 DEF Addresses
  <1>5. \A p \in c.policies : st.members[p] \in SUBSET Devices
    BY DEF State, Conf
  <1>6. /\ \A p \in c.policies : d \in st.members[p] /\ Within(t, PolicyNets[p], f) =>
                PolicyLets(c, st, p, f, s, t)
        /\ w \notin Devices => \A p \in c.policies : PolicyLets(c, st, p, f, s, t) =>
                d \in st.members[p] /\ Within(t, PolicyNets[p], f)
    BY <1>3, <1>4, <1>5 DEF PolicyLets
  <1>7. /\ (\E p \in c.policies : d \in st.members[p] /\ Within(t, PolicyNets[p], f)) =>
                SomePolicyLets(c, st, f, s, t)
        /\ w \notin Devices /\ SomePolicyLets(c, st, f, s, t) =>
                \E p \in c.policies : d \in st.members[p] /\ Within(t, PolicyNets[p], f)
    BY <1>2, <1>6 DEF SomePolicyLets
  <1>8. /\ Within(t, AllowedIPs \cup st.routed, f) => OpenLets(c, st, f, s, t)
        /\ w \notin Devices /\ OpenLets(c, st, f, s, t) =>
                Within(t, AllowedIPs \cup st.routed, f)
    BY <1>2 DEF OpenLets
  <1>9. Accepts(RulesOf(c, st, f), s, t) <=>
            /\ ~(c.isolation /\ w \in Devices)
            /\ \/ SomePolicyLets(c, st, f, s, t)
               \/ d \notin Members(c, st) /\ OpenLets(c, st, f, s, t)
    BY <1>2, <1>3, RulesMean
  <1>10. /\ c.isolation /\ w \in Devices => ~Accepts(RulesOf(c, st, f), s, t)
         /\ Given(c, st, d, f, t) /\ ~(c.isolation /\ w \in Devices) =>
                Accepts(RulesOf(c, st, f), s, t)
         /\ w \notin Devices =>
                (Accepts(RulesOf(c, st, f), s, t) <=> Given(c, st, d, f, t))
    BY <1>7, <1>8, <1>9 DEF Given
  <1> QED BY <1>1, <1>10

\* A place in a network is of the family of the network.
LEMMA WithinOpen ==
    ASSUME NEW nets \in SUBSET Nets, NEW f, NEW w
    PROVE  Within(<<w, f>>, nets, f) <=> <<w, f>> \in Open(nets)
  BY DEF Within, NetsOf, Open, NetPlaces

\* What a device does not reach by the rules, it does not reach.
LEMMA ForwardedMeans ==
    ASSUME NEW c \in Conf, c.firewall # "none", NEW f \in c.families, NEW d, NEW t,
           c.firewall = "iptables" => ipt[f].hooked
    PROVE  /\ Forwarded(<<d, f>>, t) => Accepts(KernelRules(c, f), <<d, f>>, t)
           /\ c.firewall = "nftables" /\ ~ipt[f].hooked =>
                (Accepts(KernelRules(c, f), <<d, f>>, t) => Forwarded(<<d, f>>, t))
           /\ c.firewall = "iptables" /\ nft = NoTable =>
                (Accepts(KernelRules(c, f), <<d, f>>, t) => Forwarded(<<d, f>>, t))
  <1>0. <<d, f>>[2] = f
    OBVIOUS
  <1>1. PICK s : s = <<d, f>> /\ s[2] = f
    BY <1>0, Zenon
  <1>2. Forwarded(s, t) <=> /\ Accepts(nft.rules[f], s, t)
                            /\ ipt[f].hooked => Accepts(ipt[f].chain, s, t)
    BY <1>1 DEF Forwarded
  <1>3. c.firewall \in {"iptables", "nftables"} /\ f \in Families
    BY DEF Conf
  <1>4. nft = NoTable => nft.rules[f] = <<>>
    BY <1>3 DEF NoTable
  <1>5. Accepts(<<>>, s, t)
    BY AcceptsNone
  <1> QED BY <1>1, <1>2, <1>3, <1>4, <1>5 DEF KernelRules

\* While the server runs its configuration is one that it accepts.
LEMMA RunningConf ==
    ASSUME FirewallTypeOK, ControlInv, proc = "running"
    PROVE  conf \in Conf /\ applied \in State
  BY FirewallAssumption DEF FirewallTypeOK, ControlInv

\* At any moment the kernel has the rules of one state that was handed over, but
\* for iptables during a rebuild.
LEMMA SomeRules ==
    ASSUME FirewallTypeOK, ControlInv, WorkInv, RestInv, proc = "running",
           conf.firewall # "none",
           conf.firewall = "iptables" => mu = Nobody /\ ~half
    PROVE  \E st \in State : Installed(conf, st)
  <1>1. conf \in Conf /\ applied \in State
    BY RunningConf
  <1>2. CASE mu = Nobody
    BY <1>1, <1>2 DEF RestInv, Whole
  <1>3. CASE mu # Nobody
    <2>1. conf.firewall = "nftables"
      BY <1>1, <1>3 DEF Conf
    <2>2. mu \in Syncers
      BY <1>3 DEF FirewallTypeOK, ControlInv
    <2>3. Target \in State
      BY <2>2, FirewallAssumption DEF Target, FirewallTypeOK, Syncing, Syncers
    <2>4. Len(Commands(conf, Target)) = 1
      BY <2>1 DEF Commands
    <2>5. cmds \in Seq(Command)
      BY DEF FirewallTypeOK
    <2>6. CASE cmds = <<>>
      <3>1. nft = TableOf(conf, Target)
        BY <1>3, <2>1, <2>6 DEF WorkInv, Doing
      <3> QED BY <2>1, <2>3, <3>1 DEF Installed
    <2>7. CASE cmds # <<>>
      <3>1. Len(cmds) \in Nat /\ Len(cmds) # 0
        BY <2>5, <2>7
      <3>2. Len(cmds) <= Len(Commands(conf, Target))
        BY <1>3 DEF WorkInv, Doing
      <3>3. Len(Commands(conf, Target)) - Len(cmds) = 0
        BY <2>4, <3>1, <3>2
      <3>4. Whole
        BY <2>1 DEF Whole
      <3>5. Installed(conf, applied)
        BY <1>3, <3>3, <3>4 DEF WorkInv, Doing, DoneOf
      <3> QED BY <1>1, <3>5
    <2> QED BY <2>6, <2>7
  <1> QED BY <1>2, <1>3

LEMMA InvNeverOpen ==
    ASSUME FirewallTypeOK, ControlInv, WorkInv, RestInv
    PROVE  NeverOpen
  <1> SUFFICES ASSUME proc = "running", conf.firewall # "none",
                      conf.firewall = "iptables" => mu = Nobody /\ ~half,
                      NEW f \in conf.families,
                      NEW p \in (Hosts \X {f}) \
                            Open(AllowedIPs \cup Routable \cup
                                 UNION {PolicyNets[q] : q \in conf.policies}),
                      NEW d \in Devices
               PROVE  ~Forwarded(<<d, f>>, p)
    BY DEF NeverOpen
  <1>1. conf \in Conf
    BY RunningConf
  <1>2. PICK st \in State : Installed(conf, st)
    BY SomeRules
  <1>3. PICK h \in Hosts : p = <<h, f>>
    <2>1. p \in Hosts \X {f}
      OBVIOUS
    <2>2. p[1] \in Hosts /\ p = <<p[1], f>>
      BY <2>1
    <2> QED BY <2>2
  <1>4. h \in Who \ {Server} /\ h \notin Devices /\ f \in Families
    BY <1>1, FirewallAssumption DEF Who, Conf
  <1>5. ~Given(conf, st, d, f, <<h, f>>)
    <2>1. SUFFICES ASSUME Given(conf, st, d, f, <<h, f>>)
                   PROVE  FALSE
      OBVIOUS
    <2>2. CASE Within(<<h, f>>, AllowedIPs \cup st.routed, f)
      <3>1. AllowedIPs \cup st.routed \in SUBSET Nets /\ st.routed \in SUBSET Routable
        BY FirewallAssumption DEF State
      <3>2. p \in Open(AllowedIPs \cup st.routed)
        BY <1>3, <2>2, <3>1, WithinOpen
      <3> QED BY <3>1, <3>2 DEF Open
    <2>3. ASSUME NEW q \in conf.policies, Within(<<h, f>>, PolicyNets[q], f)
          PROVE  FALSE
      <3>1. PolicyNets[q] \in SUBSET Nets
        BY <1>1, FirewallAssumption DEF Conf
      <3>2. p \in Open(PolicyNets[q])
        BY <1>3, <2>3, <3>1, WithinOpen
      <3> QED BY <3>2 DEF Open
    <2> QED BY <2>1, <2>2, <2>3 DEF Given
  <1>6. ~Accepts(RulesOf(conf, st, f), <<d, f>>, <<h, f>>)
    BY <1>1, <1>4, <1>5, DeviceReaches
  <1>7. ipt \in [Families -> Chain]
    BY DEF FirewallTypeOK
  <1>8. /\ ~Accepts(KernelRules(conf, f), <<d, f>>, <<h, f>>)
        /\ conf.firewall = "iptables" => ipt[f].hooked
    BY <1>1, <1>2, <1>6, <1>7, InstalledMeans
  <1> QED BY <1>1, <1>3, <1>8, ForwardedMeans

\* The networks that the tables give device d.
NetsFor(d) == IF PoliciesOf(d) = {} THEN AllowedIPs \cup RoutedIn(rows)
              ELSE UNION {PolicyNets[p] : p \in PoliciesOf(d)}

\* A state that agrees with the tables gives a device that may connect its policies.
LEMMA PoliciesKnown ==
    ASSUME FirewallTypeOK, conf \in Conf, NEW st \in State, Agrees(st),
           NEW d \in Devices, AccessAllowed(rows[d])
    PROVE  /\ PoliciesOf(d) \in SUBSET conf.policies
           /\ \A p \in conf.policies : d \in st.members[p] <=> p \in PoliciesOf(d)
           /\ d \in Members(conf, st) <=> PoliciesOf(d) # {}
           /\ st.routed = RoutedIn(rows)
           /\ NetsFor(d) \in SUBSET Nets
  <1>1. conf.policies \in SUBSET Policies
    BY DEF Conf
  <1>2. \A p \in conf.policies : d \in st.members[p] <=> p \in PoliciesOf(d)
    BY <1>1 DEF Agrees, PoliciesOf
  <1>3. PoliciesOf(d) \in SUBSET conf.policies
    BY DEF PoliciesOf
  <1>4. d \in Members(conf, st) <=> PoliciesOf(d) # {}
    BY <1>2, <1>3 DEF Members
  <1>5. st.routed = RoutedIn(rows)
    BY DEF Agrees
  <1>6. RoutedIn(rows) \in SUBSET Nets
    BY <1>5, FirewallAssumption DEF State
  <1>7. \A p \in PoliciesOf(d) : PolicyNets[p] \in SUBSET Nets
    BY <1>1, <1>3, FirewallAssumption
  <1>8. NetsFor(d) \in SUBSET Nets
    BY <1>6, <1>7, FirewallAssumption DEF NetsFor
  <1> QED BY <1>2, <1>3, <1>4, <1>5, <1>8

\* What the rules give a device is what the tables give it.
LEMMA GivenNets ==
    ASSUME FirewallTypeOK, conf \in Conf, NEW st \in State, Agrees(st),
           NEW d \in Devices, AccessAllowed(rows[d]), NEW f, NEW w
    PROVE  Given(conf, st, d, f, <<w, f>>) <=> <<w, f>> \in Open(NetsFor(d))
  <1>1. /\ PoliciesOf(d) \in SUBSET conf.policies
        /\ \A p \in conf.policies : d \in st.members[p] <=> p \in PoliciesOf(d)
        /\ d \in Members(conf, st) <=> PoliciesOf(d) # {}
        /\ st.routed = RoutedIn(rows)
        /\ NetsFor(d) \in SUBSET Nets
    BY PoliciesKnown
  <1>2. Within(<<w, f>>, NetsFor(d), f) <=> <<w, f>> \in Open(NetsFor(d))
    BY <1>1, WithinOpen
  <1>3. PICK t : t = <<w, f>>
    OBVIOUS
  <1>4. CASE PoliciesOf(d) = {}
    <2>1. NetsFor(d) = AllowedIPs \cup st.routed
      BY <1>1, <1>4 DEF NetsFor
    <2>2. \A p \in conf.policies : d \notin st.members[p]
      BY <1>1, <1>4
    <2> QED BY <1>1, <1>2, <1>4, <2>1, <2>2 DEF Given
  <1>5. CASE PoliciesOf(d) # {}
    <2>1. NetsFor(d) = UNION {PolicyNets[p] : p \in PoliciesOf(d)}
      BY <1>5 DEF NetsFor
    <2>2. Within(t, NetsFor(d), f) <=> \E p \in PoliciesOf(d) : Within(t, PolicyNets[p], f)
      BY <2>1 DEF Within, NetsOf
    <2>3. Given(conf, st, d, f, t) <=> \E p \in PoliciesOf(d) : Within(t, PolicyNets[p], f)
      BY <1>1, <1>5 DEF Given
    <2> QED BY <1>2, <1>3, <2>2, <2>3
  <1> QED BY <1>4, <1>5

\* The rules are in place, and they are for the tables as they are.
LEMMA AtRestInstalled ==
    ASSUME FirewallTypeOK, ControlInv, RestInv, FreshInv,
           Quiet, conf.firewall # "none", ~behind, ~half, ~Leftover
    PROVE  /\ conf \in Conf /\ applied \in State
           /\ Installed(conf, applied) /\ Agrees(applied)
           /\ ipt \in [Families -> Chain]
           /\ conf.families \in SUBSET Families
           /\ conf.firewall \in {"iptables", "nftables"}
           /\ conf.firewall = "nftables" => \A f \in Families : ~ipt[f].hooked
           /\ conf.firewall = "iptables" => nft = NoTable
  <1>1. proc = "running" /\ mu = Nobody /\ ~event /\ ~resync
        /\ \A a \in Syncers : sync[a].pc = "wait"
    BY DEF Quiet
  <1>2. conf \in Conf /\ applied \in State
    BY <1>1, RunningConf
  <1>3. Installed(conf, applied)
    BY <1>1 DEF RestInv, Whole
  <1>4. Agrees(applied)
    BY <1>1 DEF FreshInv
  <1>5. ipt \in [Families -> Chain]
    BY DEF FirewallTypeOK
  <1>6. /\ conf.families \in SUBSET Families
        /\ conf.firewall \in {"iptables", "nftables"}
    BY <1>2 DEF Conf
  <1>7. /\ conf.firewall = "nftables" => \A f \in Families : ~ipt[f].hooked
        /\ conf.firewall = "iptables" => nft = NoTable
    BY DEF Leftover
  <1> QED BY <1>2, <1>3, <1>4, <1>5, <1>6, <1>7

LEMMA InvRulesFollow ==
    ASSUME FirewallTypeOK, ControlInv, RestInv, FreshInv
    PROVE  RulesFollow
  <1> SUFFICES ASSUME Quiet, conf.firewall # "none", ~behind, ~half, ~Leftover,
                      NEW d \in Devices, NEW f \in conf.families, AccessAllowed(rows[d])
               PROVE  LET own == {<<Server, f>>, <<d, f>>}
                          others == IF conf.isolation THEN {} ELSE Cidr(f)
                      IN  /\ MayReach(d, f) \ own \subseteq Reached(d, f)
                          /\ Reached(d, f) \ others \subseteq MayReach(d, f)
    BY DEF RulesFollow, RulesExact
  <1> DEFINE st == applied
             s == <<d, f>>
  <1>1. /\ conf \in Conf /\ st \in State /\ Installed(conf, st) /\ Agrees(st)
        /\ ipt \in [Families -> Chain] /\ f \in Families
        /\ conf.firewall \in {"iptables", "nftables"}
        /\ conf.firewall = "nftables" => ~ipt[f].hooked
        /\ conf.firewall = "iptables" => nft = NoTable
    BY AtRestInstalled
  <1> DEFINE clients == IF conf.isolation THEN Cidr(f) ELSE {}
  <1>2. MayReach(d, f) = (Open(NetsFor(d)) \ clients) \cap PlacesOf(f)
    BY DEF MayReach, NetsFor
  <1>3. \A t : t \in Reached(d, f) <=>
            t \in PlacesOf(f) /\ t # <<Server, f>> /\ t # <<d, f>> /\ Forwarded(s, t)
    BY DEF Reached
  <1> HIDE DEF st
  <1>4. ASSUME NEW w \in Who \ {Server}
        PROVE  /\ Forwarded(s, <<w, f>>) <=> Accepts(RulesOf(conf, st, f), s, <<w, f>>)
               /\ Given(conf, st, d, f, <<w, f>>) <=> <<w, f>> \in Open(NetsFor(d))
               /\ conf.isolation /\ w \in Devices =>
                    ~Accepts(RulesOf(conf, st, f), s, <<w, f>>)
               /\ Given(conf, st, d, f, <<w, f>>) /\ ~(conf.isolation /\ w \in Devices) =>
                    Accepts(RulesOf(conf, st, f), s, <<w, f>>)
               /\ w \notin Devices =>
                    (Accepts(RulesOf(conf, st, f), s, <<w, f>>) <=>
                        Given(conf, st, d, f, <<w, f>>))
               /\ <<w, f>> \in Cidr(f) <=> w \in Devices
               /\ <<w, f>> \in PlacesOf(f)
    <2>1. /\ Accepts(KernelRules(conf, f), s, <<w, f>>) <=>
                Accepts(RulesOf(conf, st, f), s, <<w, f>>)
          /\ conf.firewall = "iptables" => ipt[f].hooked
      BY <1>1, InstalledMeans
    <2>2. Forwarded(s, <<w, f>>) <=> Accepts(KernelRules(conf, f), s, <<w, f>>)
      BY <1>1, <2>1, ForwardedMeans
    <2>3. Given(conf, st, d, f, <<w, f>>) <=> <<w, f>> \in Open(NetsFor(d))
      BY <1>1, GivenNets
    <2>4. /\ conf.isolation /\ w \in Devices =>
                ~Accepts(RulesOf(conf, st, f), s, <<w, f>>)
          /\ Given(conf, st, d, f, <<w, f>>) /\ ~(conf.isolation /\ w \in Devices) =>
                Accepts(RulesOf(conf, st, f), s, <<w, f>>)
          /\ w \notin Devices =>
                (Accepts(RulesOf(conf, st, f), s, <<w, f>>) <=>
                    Given(conf, st, d, f, <<w, f>>))
      BY <1>1, DeviceReaches
    <2>5. /\ <<w, f>> \in Cidr(f) <=> w \in Devices
          /\ <<w, f>> \in PlacesOf(f)
      BY DEF Cidr, PlacesOf
    <2> QED BY <2>1, <2>2, <2>3, <2>4, <2>5
  <1>5. ASSUME NEW t \in PlacesOf(f), t # <<Server, f>>
        PROVE  \E w \in Who \ {Server} : t = <<w, f>>
    BY <1>5 DEF PlacesOf
  <1> HIDE DEF s
  <1>6. ASSUME NEW t \in MayReach(d, f) \ {<<Server, f>>, <<d, f>>}
        PROVE  t \in Reached(d, f)
    <2>1. t \in PlacesOf(f) /\ t # <<Server, f>> /\ t # <<d, f>> /\ t \in Open(NetsFor(d))
      BY <1>2
    <2>2. PICK w \in Who \ {Server} : t = <<w, f>>
      BY <1>5, <2>1
    <2>3. ~(conf.isolation /\ w \in Devices)
      BY <1>2, <1>4, <2>2
    <2>4. Forwarded(s, t)
      BY <1>4, <2>1, <2>2, <2>3
    <2> QED BY <1>3, <2>1, <2>4
  <1>7. ASSUME NEW t \in Reached(d, f) \ (IF conf.isolation THEN {} ELSE Cidr(f))
        PROVE  t \in MayReach(d, f)
    <2>1. t \in PlacesOf(f) /\ t # <<Server, f>> /\ t # <<d, f>> /\ Forwarded(s, t)
      BY <1>3
    <2>2. PICK w \in Who \ {Server} : t = <<w, f>>
      BY <1>5, <2>1
    <2>3. w \notin Devices
      BY <1>4, <1>7, <2>1, <2>2
    <2>4. t \in Open(NetsFor(d)) /\ t \notin Cidr(f)
      BY <1>4, <2>1, <2>2, <2>3
    <2> QED BY <1>2, <2>1, <2>4
  <1> QED BY <1>6, <1>7

LEMMA InvAnswersReturn ==
    ASSUME FirewallTypeOK, ControlInv, RestInv, FreshInv
    PROVE  AnswersReturn
  <1> SUFFICES ASSUME Quiet, conf.firewall # "none", ~behind, ~half, ~Leftover,
                      NEW f \in conf.families
               PROVE  /\ Masquerades(conf, f) <=> KernelNat(conf, f)
                      /\ ~conf.nat[f] => \A d \in Devices : AccessAllowed(rows[d]) =>
                            \A p \in MayReach(d, f) \ Cidr(f) :
                                Lets(KernelRules(conf, f), p, <<d, f>>)
    BY DEF AnswersReturn, KernelNat, KernelRules, Lets
  <1>1. /\ conf \in Conf /\ applied \in State /\ Installed(conf, applied)
        /\ Agrees(applied) /\ ipt \in [Families -> Chain] /\ f \in Families
    BY AtRestInstalled
  <1>2. Masquerades(conf, f) <=> KernelNat(conf, f)
    BY <1>1, InstalledMeans
  <1>3. ASSUME ~conf.nat[f], NEW d \in Devices, AccessAllowed(rows[d]),
               NEW p \in MayReach(d, f) \ Cidr(f)
        PROVE  Lets(KernelRules(conf, f), p, <<d, f>>)
    <2>1. PICK st, t : st = applied /\ t = <<d, f>>
      OBVIOUS
    <2>2. p \in Open(NetsFor(d)) /\ p \in PlacesOf(f)
      BY DEF MayReach, NetsFor
    <2>3. PICK w : p = <<w, f>>
      BY <2>2 DEF PlacesOf
    <2>4. /\ PoliciesOf(d) \in SUBSET conf.policies
          /\ \A q \in conf.policies : d \in st.members[q] <=> q \in PoliciesOf(d)
          /\ d \in Members(conf, st) <=> PoliciesOf(d) # {}
          /\ st.routed = RoutedIn(rows)
          /\ NetsFor(d) \in SUBSET Nets
      BY <1>1, <1>3, <2>1, PoliciesKnown
    <2>5. Within(p, NetsFor(d), f)
      BY <2>2, <2>3, <2>4, WithinOpen
    <2>6. t \in Cidr(f) /\ \A ds : d \in ds => t \in Addresses(ds, f)
      BY <2>1 DEF Cidr, Addresses
    <2>7. SomePolicyLets(conf, st, f, p, t) \/ OpenLets(conf, st, f, p, t)
      <3>1. CASE PoliciesOf(d) = {}
        <4>1. NetsFor(d) = AllowedIPs \cup st.routed
          BY <2>4, <3>1 DEF NetsFor
        <4> QED BY <1>3, <2>5, <2>6, <4>1 DEF OpenLets
      <3>2. CASE PoliciesOf(d) # {}
        <4>1. NetsFor(d) = UNION {PolicyNets[q] : q \in PoliciesOf(d)}
          BY <3>2 DEF NetsFor
        <4>2. PICK q \in PoliciesOf(d) : Within(p, PolicyNets[q], f)
          BY <2>5, <4>1 DEF Within, NetsOf
        <4>3. q \in conf.policies /\ d \in st.members[q]
          BY <2>4, <4>2
        <4>4. PolicyLets(conf, st, q, f, p, t)
          BY <1>3, <2>6, <4>2, <4>3 DEF PolicyLets
        <4> QED BY <4>3, <4>4 DEF SomePolicyLets
      <3> QED BY <3>1, <3>2
    <2>8. Lets(RulesOf(conf, st, f), p, t)
      BY <1>1, <2>1, <2>7, RulesMean
    <2> QED BY <1>1, <2>1, <2>8, InstalledMeans
  <1> QED BY <1>2, <1>3

-----------------------------------------------------------------------------
(* Types.                                                                  *)

LEMMA CommandsTyped ==
    ASSUME NEW c \in Conf, NEW st \in State
    PROVE  Commands(c, st) \in Seq(Command)
  <1>1. CASE c.firewall = "iptables"
    BY <1>1, CommandsLayout
  <1>2. CASE c.firewall = "none"
    BY <1>2 DEF Commands
  <1>3. CASE c.firewall = "nftables"
    <2>1. PICK T : T = TableOf(c, st)
      OBVIOUS
    <2>2. \A f \in Families : RulesOf(c, st, f) \in Seq(Rule)
      BY RulesMean
    <2>3. <<>> \in Seq(Rule)
      OBVIOUS
    <2>4. T \in NftTable
      BY <2>1, <2>2, <2>3 DEF TableOf, NftTable
    <2>5. [op |-> "ruleset", table |-> T] \in Command
      BY <2>4 DEF Command
    <2>6. Commands(c, st) = <<[op |-> "ruleset", table |-> T]>>
      BY <1>3, <2>1 DEF Commands
    <2> QED BY <2>5, <2>6
  <1> QED BY <1>1, <1>2, <1>3 DEF Conf

LEMMA RestTyped ==
    /\ NoState \in State
    /\ NoChain \in Chain /\ NoTable \in NftTable
    /\ \A l \in {"wait", "list", "users", "lock", "apply"} :
        /\ AtRest(l) \in Syncing /\ AtRest(l).pc = l /\ AtRest(l).overtaken = FALSE
        /\ AtRest(l).state = NoState
  <1>1. NoState \in State
    BY DEF NoState, State
  <1>2. NoChain \in Chain
    BY DEF NoChain, Chain
  <1>3. NoTable \in NftTable
    BY DEF NoTable, NftTable
  <1>4. [d \in Devices |-> NoDevice] \in Table
    BY DEF Table
  <1> QED BY <1>1, <1>2, <1>3, <1>4 DEF AtRest, Syncing

LEMMA StateTyped ==
    ASSUME NEW seen \in Table
    PROVE  FirewallState(seen) \in State
  <1>1. \A d \in Stored(seen) : seen[d].routes \in SUBSET Routable
    BY DEF Stored, Table, Row
  <1>2. RoutedIn(seen) \in SUBSET Routable
    BY <1>1 DEF RoutedIn
  <1> QED BY <1>2 DEF FirewallState, State

\* The end of a synchronization touches the other one's flag only.
LEMMA EndSyncShape ==
    ASSUME sync \in [Syncers -> Syncing], NEW a \in Syncers
    PROVE  /\ EndSync(a) \in [Syncers -> Syncing]
           /\ EndSync(a)[a].pc = "wait"
           /\ \A b \in Syncers \ {a} :
                /\ EndSync(a)[b].pc = sync[b].pc
                /\ EndSync(a)[b].seen = sync[b].seen
                /\ EndSync(a)[b].state = sync[b].state
                /\ EndSync(a)[b].overtaken =
                    (sync[b].overtaken \/ sync[b].pc \in {"users", "lock", "apply"})
  <1>1. AtRest("wait") \in Syncing /\ AtRest("wait").pc = "wait"
    BY RestTyped
  <1>2. EndSync(a)[a] = AtRest("wait")
    BY DEF EndSync
  <1>3. ASSUME NEW b \in Syncers \ {a}
        PROVE  EndSync(a)[b] =
                [sync[b] EXCEPT !.overtaken =
                    @ \/ sync[b].pc \in {"users", "lock", "apply"}]
    BY DEF EndSync
  <1>4. ASSUME NEW b \in Syncers \ {a}
        PROVE  /\ EndSync(a)[b] \in Syncing
               /\ EndSync(a)[b].pc = sync[b].pc
               /\ EndSync(a)[b].seen = sync[b].seen
               /\ EndSync(a)[b].state = sync[b].state
               /\ EndSync(a)[b].overtaken =
                    (sync[b].overtaken \/ sync[b].pc \in {"users", "lock", "apply"})
    <2>1. sync[b] \in Syncing
      OBVIOUS
    <2> QED BY <1>3, <2>1 DEF Syncing
  <1>5. EndSync(a) = [b \in Syncers |-> EndSync(a)[b]]
    BY DEF EndSync
  <1> QED BY <1>1, <1>2, <1>4, <1>5

\* What each change of the tables writes.
LEMMA WriteShape ==
    ASSUME FirewallTypeOK,
           \/ \E d \in Devices, rs \in SUBSET Routable :
                AddDevice(d, rs) \/ SetDeviceRoutes(d, rs)
           \/ \E d \in Devices, until \in 0 .. Never : SetDeviceAccess(d, until)
           \/ \E d \in Devices : DeleteDevice(d)
           \/ \E o \in Mapped, ps \in Grants : SignIn(o, ps)
    PROVE  \E table \in Table, users \in [Owners -> SUBSET Policies] : Write(table, users)
  <1>1. rows \in Table /\ groups \in [Owners -> SUBSET Policies]
    BY DEF FirewallTypeOK
  <1>2. ASSUME NEW d \in Devices, NEW rs \in SUBSET Routable, AddDevice(d, rs)
        PROVE  \E table \in Table : Write(table, groups)
    <2>1. [routes |-> rs, until |-> Never] \in Row
      BY DEF Row, Never
    <2>2. [rows EXCEPT ![d] = [routes |-> rs, until |-> Never]] \in Table
      BY <1>1, <2>1 DEF Table
    <2> QED BY <1>2, <2>2 DEF AddDevice
  <1>3. ASSUME NEW d \in Devices, NEW rs \in SUBSET Routable, SetDeviceRoutes(d, rs)
        PROVE  \E table \in Table : Write(table, groups)
    <2>1. rows[d] \in Row
      BY <1>1, <1>3 DEF SetDeviceRoutes, Table
    <2>2. [rows[d] EXCEPT !.routes = rs] \in Row
      BY <2>1 DEF Row
    <2>3. [rows EXCEPT ![d].routes = rs] \in Table
      BY <1>1, <2>2 DEF Table
    <2> QED BY <1>3, <2>3 DEF SetDeviceRoutes
  <1>4. ASSUME NEW d \in Devices, NEW until \in 0 .. Never, SetDeviceAccess(d, until)
        PROVE  \E table \in Table : Write(table, groups)
    <2>1. rows[d] \in Row
      BY <1>1, <1>4 DEF SetDeviceAccess, Table
    <2>2. [rows[d] EXCEPT !.until = until] \in Row
      BY <2>1 DEF Row, Never
    <2>3. [rows EXCEPT ![d].until = until] \in Table
      BY <1>1, <2>2 DEF Table
    <2> QED BY <1>4, <2>3 DEF SetDeviceAccess
  <1>5. ASSUME NEW d \in Devices, DeleteDevice(d)
        PROVE  \E table \in Table : Write(table, groups)
    <2>1. [rows EXCEPT ![d] = NoDevice] \in Table
      BY <1>1 DEF Table
    <2> QED BY <1>5, <2>1 DEF DeleteDevice
  <1>6. ASSUME NEW o \in Mapped, NEW ps \in Grants, SignIn(o, ps)
        PROVE  \E users \in [Owners -> SUBSET Policies] : Write(rows, users)
    <2>1. o \in Owners /\ ps \in SUBSET Policies
      BY FirewallAssumption
    <2>2. [groups EXCEPT ![o] = ps] \in [Owners -> SUBSET Policies]
      BY <1>1, <2>1
    <2> QED BY <1>6, <2>2 DEF SignIn
  <1> QED BY <1>1, <1>2, <1>3, <1>4, <1>5, <1>6

\* The removal of the other backend's rules leaves the own ones alone.
LEMMA RemoveOtherShape ==
    ASSUME ipt \in [Families -> Chain], nft \in NftTable, fails \in Nat,
           NEW c \in Conf, RemoveOther(c)
    PROVE  /\ ipt' \in [Families -> Chain] /\ nft' \in NftTable /\ fails' \in Nat
           /\ c.firewall = "nftables" => nft' = nft
           /\ c.firewall = "iptables" => ipt' = ipt
  <1>1. PICK kept \in SUBSET OthersRules(c) :
            /\ fails' = IF kept = {} THEN fails ELSE fails + 1
            /\ ipt' = IF c.firewall = "nftables"
                      THEN [f \in Families |-> IF f \in kept THEN ipt[f] ELSE NoChain]
                      ELSE ipt
            /\ nft' = IF c.firewall = "iptables" /\ kept = {} THEN NoTable ELSE nft
    BY DEF RemoveOther
  <1>2. NoChain \in Chain /\ NoTable \in NftTable
    BY RestTyped
  <1>3. [f \in Families |-> IF f \in kept THEN ipt[f] ELSE NoChain] \in [Families -> Chain]
    BY <1>2
  <1> QED BY <1>1, <1>2, <1>3

\* One command changes one thing, in the chains of its family or the table.
LEMMA ExecuteShape ==
    ASSUME ipt \in [Families -> Chain], nft \in NftTable, NEW c \in Command, Execute(c)
    PROVE  /\ ipt' \in [Families -> Chain] /\ nft' \in NftTable
           /\ c.op = "ruleset" => nft' = c.table
           /\ c.op # "ruleset" =>
                /\ c.f \in Families
                /\ \A f \in Families \ {c.f} : ipt'[f] = ipt[f]
                /\ ipt'[c.f].chain =
                    (IF c.op = "clear" THEN <<>>
                     ELSE IF c.op = "append" /\ ~Contains(ipt[c.f].chain, c.rule)
                     THEN Append(ipt[c.f].chain, c.rule) ELSE ipt[c.f].chain)
                /\ ipt'[c.f].nat =
                    (IF c.op = "clearNat" THEN FALSE
                     ELSE IF c.op = "masquerade" THEN TRUE ELSE ipt[c.f].nat)
                /\ ipt'[c.f].hooked = (IF c.op = "hook" THEN TRUE ELSE ipt[c.f].hooked)
  <1>1. CASE c.op = "ruleset"
    BY <1>1 DEF Execute, Command
  <1>2. CASE c.op \in {"clear", "clearNat", "hook", "masquerade"}
    <2>1. c.f \in Families
      BY <1>2 DEF Command
    <2>2. ipt[c.f] \in Chain
      BY <2>1
    <2>3. <<>> \in Seq(Rule)
      OBVIOUS
    <2>4. CASE c.op = "clear"
      <3>1. nft' = nft /\ ipt' = [ipt EXCEPT ![c.f].chain = <<>>]
        BY <2>4 DEF Execute
      <3>2. /\ ipt' \in [Families -> Chain]
            /\ \A f \in Families \ {c.f} : ipt'[f] = ipt[f]
            /\ ipt'[c.f].chain = <<>>
            /\ ipt'[c.f].nat = ipt[c.f].nat
            /\ ipt'[c.f].hooked = ipt[c.f].hooked
        BY <2>1, <2>2, <2>3, <3>1 DEF Chain
      <3> QED BY <2>1, <2>4, <3>1, <3>2
    <2>5. CASE c.op = "clearNat"
      <3>1. nft' = nft /\ ipt' = [ipt EXCEPT ![c.f].nat = FALSE]
        BY <2>5 DEF Execute
      <3>2. /\ ipt' \in [Families -> Chain]
            /\ \A f \in Families \ {c.f} : ipt'[f] = ipt[f]
            /\ ipt'[c.f].nat = FALSE
            /\ ipt'[c.f].chain = ipt[c.f].chain
            /\ ipt'[c.f].hooked = ipt[c.f].hooked
        BY <2>1, <2>2, <2>3, <3>1 DEF Chain
      <3> QED BY <2>1, <2>5, <3>1, <3>2
    <2>6. CASE c.op = "hook"
      <3>1. nft' = nft /\ ipt' = [ipt EXCEPT ![c.f].hooked = TRUE]
        BY <2>6 DEF Execute
      <3>2. /\ ipt' \in [Families -> Chain]
            /\ \A f \in Families \ {c.f} : ipt'[f] = ipt[f]
            /\ ipt'[c.f].hooked = TRUE
            /\ ipt'[c.f].chain = ipt[c.f].chain
            /\ ipt'[c.f].nat = ipt[c.f].nat
        BY <2>1, <2>2, <2>3, <3>1 DEF Chain
      <3> QED BY <2>1, <2>6, <3>1, <3>2
    <2>7. CASE c.op = "masquerade"
      <3>1. nft' = nft /\ ipt' = [ipt EXCEPT ![c.f].nat = TRUE]
        BY <2>7 DEF Execute
      <3>2. /\ ipt' \in [Families -> Chain]
            /\ \A f \in Families \ {c.f} : ipt'[f] = ipt[f]
            /\ ipt'[c.f].nat = TRUE
            /\ ipt'[c.f].chain = ipt[c.f].chain
            /\ ipt'[c.f].hooked = ipt[c.f].hooked
        BY <2>1, <2>2, <2>3, <3>1 DEF Chain
      <3> QED BY <2>1, <2>7, <3>1, <3>2
    <2> QED BY <1>2, <2>4, <2>5, <2>6, <2>7
  <1>3. CASE c.op = "append"
    <2>1. c.f \in Families /\ c.rule \in Rule
      BY <1>3 DEF Command
    <2>2. ipt[c.f] \in Chain
      BY <2>1
    <2>3. PICK chain : chain = ipt[c.f].chain
      OBVIOUS
    <2>4. PICK next : next = IF Contains(chain, c.rule) THEN chain ELSE Append(chain, c.rule)
      OBVIOUS
    <2>5. chain \in Seq(Rule) /\ next \in Seq(Rule)
      BY <2>1, <2>2, <2>3, <2>4 DEF Chain
    <2>6. nft' = nft /\ ipt' = [ipt EXCEPT ![c.f].chain = next]
      BY <1>3, <2>3, <2>4 DEF Execute
    <2>7. /\ ipt' \in [Families -> Chain]
          /\ \A f \in Families \ {c.f} : ipt'[f] = ipt[f]
          /\ ipt'[c.f].chain = next
          /\ ipt'[c.f].nat = ipt[c.f].nat /\ ipt'[c.f].hooked = ipt[c.f].hooked
      BY <2>1, <2>2, <2>5, <2>6 DEF Chain
    <2> QED BY <1>3, <2>1, <2>3, <2>4, <2>6, <2>7
  <1> QED BY <1>1, <1>2, <1>3 DEF Command

\* The holder of firewallMu is at work in a server that is up.
LEMMA Holder ==
    ASSUME FirewallTypeOK, ControlInv, mu # Nobody
    PROVE  /\ conf \in Confs /\ conf \in Conf
           /\ mu = "start" \/ (mu \in Syncers /\ proc = "running")
           /\ mu \in Syncers => mu # "start" /\ sync[mu].state \in State
           /\ Target \in State /\ Commands(conf, Target) \in Seq(Command)
  <1>1. mu = "start" \/ (mu \in Syncers /\ proc = "running" /\ mu # "start")
    BY DEF FirewallTypeOK, ControlInv, Syncers
  <1>2. conf \in Confs /\ conf \in Conf
    BY <1>1, FirewallAssumption DEF ControlInv
  <1>3. mu \in Syncers => sync[mu].state \in State
    BY DEF FirewallTypeOK, Syncing
  <1>4. Target \in State
    BY <1>1, <1>3, RestTyped DEF Target
  <1>5. Commands(conf, Target) \in Seq(Command)
    BY <1>2, <1>4, CommandsTyped
  <1> QED BY <1>1, <1>2, <1>3, <1>4, <1>5 DEF Syncers

LEMMA WriteTyped ==
    ASSUME FirewallTypeOK, ControlInv, NEW table \in Table,
           NEW users \in [Owners -> SUBSET Policies], Write(table, users)
    PROVE  FirewallTypeOK' /\ ControlInv'
  BY DEF Write, kernel, FirewallTypeOK, ControlInv

LEMMA TickTyped ==
    ASSUME FirewallTypeOK, ControlInv, Tick
    PROVE  FirewallTypeOK' /\ ControlInv'
  BY DEF Tick, kernel, bounds, FirewallTypeOK, ControlInv

LEMMA StartTyped ==
    ASSUME FirewallTypeOK, ControlInv, Start
    PROVE  FirewallTypeOK' /\ ControlInv'
  <1>1. PICK c \in Confs : conf' = c /\ RemoveOther(c) /\ cmds' = Commands(c, NoState)
    BY DEF Start
  <1>2. c \in Conf /\ NoState \in State
    BY FirewallAssumption, RestTyped
  <1>3. ipt' \in [Families -> Chain] /\ nft' \in NftTable /\ fails' \in Nat
    BY <1>1, <1>2, RemoveOtherShape DEF FirewallTypeOK
  <1>4. cmds' \in Seq(Command)
    BY <1>1, <1>2, CommandsTyped
  <1>5. FirewallTypeOK'
    BY <1>1, <1>2, <1>3, <1>4 DEF Start, FirewallTypeOK, tables
  <1>6. ControlInv'
    BY <1>1, FirewallAssumption DEF Start, FirewallTypeOK, tables, ControlInv, Syncers
  <1> QED BY <1>5, <1>6

LEMMA RunTyped ==
    ASSUME FirewallTypeOK, ControlInv, RunCommand
    PROVE  FirewallTypeOK' /\ ControlInv'
  <1>1. cmds \in Seq(Command) /\ cmds # <<>>
    BY DEF FirewallTypeOK, RunCommand
  <1>2. Head(cmds) \in Command /\ Tail(cmds) \in Seq(Command)
    BY <1>1
  <1>3. ipt' \in [Families -> Chain] /\ nft' \in NftTable
    BY <1>2, ExecuteShape DEF FirewallTypeOK, RunCommand
  <1>4. FirewallTypeOK'
    BY <1>2, <1>3 DEF RunCommand, FirewallTypeOK, tables, bounds
  <1>5. ControlInv'
    BY <1>1 DEF RunCommand, ControlInv, tables, bounds
  <1> QED BY <1>4, <1>5

LEMMA StartedTyped ==
    ASSUME FirewallTypeOK, ControlInv, Started
    PROVE  FirewallTypeOK' /\ ControlInv'
  <1>1. PICK y : y = AtRest("list")
    OBVIOUS
  <1>2. y \in Syncing /\ y.pc = "list"
    BY <1>1, RestTyped
  <1>3. sync' = [sync EXCEPT !["boot"] = y]
    BY <1>1 DEF Started
  <1>4. FirewallTypeOK'
    BY <1>2, <1>3 DEF Started, FirewallTypeOK, tables, kernel, bounds
  <1>5. ControlInv'
    BY <1>2, <1>3, FirewallAssumption
    DEF Started, ControlInv, FirewallTypeOK, tables, kernel, bounds, Syncers
  <1> QED BY <1>4, <1>5

LEMMA NotifiedTyped ==
    ASSUME FirewallTypeOK, ControlInv, Notified
    PROVE  FirewallTypeOK' /\ ControlInv'
  BY DEF Notified, FirewallTypeOK, ControlInv, tables, kernel, bounds

LEMMA ReceiveTyped ==
    ASSUME FirewallTypeOK, ControlInv, Receive
    PROVE  FirewallTypeOK' /\ ControlInv'
  <1>1. PICK y : y = AtRest("list")
    OBVIOUS
  <1>2. y \in Syncing /\ y.pc = "list"
    BY <1>1, RestTyped
  <1>3. sync' = [sync EXCEPT !["loop"] = y]
    BY <1>1 DEF Receive
  <1>4. FirewallTypeOK'
    BY <1>2, <1>3 DEF Receive, FirewallTypeOK, tables, kernel, bounds
  <1>5. ControlInv'
    BY <1>2, <1>3 DEF Receive, ControlInv, FirewallTypeOK, tables, kernel, bounds, Syncers
  <1> QED BY <1>4, <1>5

LEMMA ListDevicesTyped ==
    ASSUME FirewallTypeOK, ControlInv, NEW a \in Syncers, ListDevices(a)
    PROVE  FirewallTypeOK' /\ ControlInv'
  <1>1. sync[a] \in Syncing /\ rows \in Table
    BY DEF FirewallTypeOK
  <1>2. PICK y : y = [sync[a] EXCEPT !.pc = "users", !.seen = rows]
    OBVIOUS
  <1>3. y \in Syncing /\ y.pc = "users"
    BY <1>1, <1>2 DEF Syncing
  <1>4. sync' = [sync EXCEPT ![a] = y]
    BY <1>1, <1>2 DEF ListDevices, FirewallTypeOK
  <1>5. FirewallTypeOK'
    BY <1>3, <1>4 DEF ListDevices, FirewallTypeOK, tables, kernel, bounds
  <1>6. ControlInv'
    BY <1>3, <1>4 DEF ListDevices, ControlInv, FirewallTypeOK, tables, kernel, bounds
  <1> QED BY <1>5, <1>6

LEMMA ListUsersShape ==
    ASSUME FirewallTypeOK, NEW a \in Syncers, ListUsers(a)
    PROVE  /\ sync' \in [Syncers -> Syncing]
           /\ sync'[a].pc = "lock" /\ sync'[a].state = FirewallState(sync[a].seen)
           /\ sync'[a].overtaken = sync[a].overtaken
           /\ \A b \in Syncers \ {a} : sync'[b] = sync[b]
  <1>1. sync \in [Syncers -> Syncing] /\ sync[a] \in Syncing
    BY DEF FirewallTypeOK
  <1>2. PICK st : st = FirewallState(sync[a].seen)
    OBVIOUS
  <1>3. st \in State
    BY <1>1, <1>2, StateTyped DEF Syncing
  <1>4. PICK r : r = AtRest("lock")
    OBVIOUS
  <1>5. r \in Syncing /\ r.pc = "lock"
    BY <1>4, RestTyped
  <1>6. PICK y : y = [r EXCEPT !.state = st, !.overtaken = sync[a].overtaken]
    OBVIOUS
  <1>7. /\ y \in Syncing /\ y.pc = "lock" /\ y.state = st
        /\ y.overtaken = sync[a].overtaken
    BY <1>1, <1>3, <1>5, <1>6 DEF Syncing
  <1>8. sync' = [sync EXCEPT ![a] = y]
    BY <1>2, <1>4, <1>6 DEF ListUsers
  <1> QED BY <1>1, <1>2, <1>7, <1>8

LEMMA ListUsersTyped ==
    ASSUME FirewallTypeOK, ControlInv, NEW a \in Syncers, ListUsers(a)
    PROVE  FirewallTypeOK' /\ ControlInv'
  <1>1. /\ sync' \in [Syncers -> Syncing] /\ sync'[a].pc = "lock"
        /\ \A b \in Syncers \ {a} : sync'[b] = sync[b]
    BY ListUsersShape
  <1>2. FirewallTypeOK'
    BY <1>1 DEF ListUsers, FirewallTypeOK, tables, kernel, bounds
  <1>3. ControlInv'
    BY <1>1 DEF ListUsers, ControlInv, tables, kernel, bounds
  <1> QED BY <1>2, <1>3

\* The two ways to hand a state over: it is the last one, or the work begins.
Same(a) ==
    /\ sync[a].state = applied
    /\ sync' = EndSync(a) /\ behind' = sync[a].overtaken
    /\ UNCHANGED <<mu, cmds, kernel, fails>>

Begin(a) ==
    /\ sync[a].state # applied
    /\ sync' = [sync EXCEPT ![a].pc = "apply"]
    /\ RemoveOther(conf)
    /\ mu' = a /\ cmds' = Commands(conf, sync[a].state)
    /\ UNCHANGED behind

LEMMA HandOverShape ==
    ASSUME NEW a \in Syncers, HandOver(a)
    PROVE  /\ sync[a].pc = "lock" /\ mu = Nobody
           /\ Same(a) \/ Begin(a)
           /\ UNCHANGED <<conf, tables, proc, event, resync, applied, writes, starts, half>>
  BY DEF HandOver, Same, Begin

LEMMA BeginShape ==
    ASSUME FirewallTypeOK, ControlInv, NEW a \in Syncers, sync[a].pc = "lock", Begin(a)
    PROVE  /\ conf \in Conf /\ sync[a].state \in State
           /\ sync' \in [Syncers -> Syncing]
           /\ sync'[a].pc = "apply" /\ sync'[a].state = sync[a].state
           /\ sync'[a].overtaken = sync[a].overtaken
           /\ \A b \in Syncers \ {a} : sync'[b] = sync[b]
           /\ ipt' \in [Families -> Chain] /\ nft' \in NftTable /\ fails' \in Nat
           /\ conf.firewall = "nftables" => nft' = nft
           /\ conf.firewall = "iptables" => ipt' = ipt
           /\ cmds' \in Seq(Command)
  <1>1. proc = "running"
    BY DEF ControlInv
  <1>2. conf \in Conf
    BY <1>1, RunningConf
  <1>3. sync \in [Syncers -> Syncing] /\ sync[a] \in Syncing
    BY DEF FirewallTypeOK
  <1>4. sync[a].state \in State
    BY <1>3 DEF Syncing
  <1>5. PICK y : y = [sync[a] EXCEPT !.pc = "apply"]
    OBVIOUS
  <1>6. /\ y \in Syncing /\ y.pc = "apply" /\ y.state = sync[a].state
        /\ y.overtaken = sync[a].overtaken
    BY <1>3, <1>5 DEF Syncing
  <1>7. sync' = [sync EXCEPT ![a] = y]
    BY <1>3, <1>5 DEF Begin
  <1>8. /\ ipt' \in [Families -> Chain] /\ nft' \in NftTable /\ fails' \in Nat
        /\ conf.firewall = "nftables" => nft' = nft
        /\ conf.firewall = "iptables" => ipt' = ipt
    BY <1>2, RemoveOtherShape DEF Begin, FirewallTypeOK
  <1>9. cmds' \in Seq(Command)
    BY <1>2, <1>4, CommandsTyped DEF Begin
  <1> QED BY <1>2, <1>3, <1>4, <1>6, <1>7, <1>8, <1>9

LEMMA HandOverTyped ==
    ASSUME FirewallTypeOK, ControlInv, NEW a \in Syncers, HandOver(a)
    PROVE  FirewallTypeOK' /\ ControlInv'
  <1>1. /\ sync[a].pc = "lock" /\ mu = Nobody
        /\ UNCHANGED <<conf, tables, proc, event, resync, applied, writes, starts, half>>
    BY HandOverShape
  <1>2. CASE Same(a)
    <2>1. /\ EndSync(a) \in [Syncers -> Syncing] /\ EndSync(a)[a].pc = "wait"
          /\ \A b \in Syncers \ {a} : EndSync(a)[b].pc = sync[b].pc
      BY EndSyncShape DEF FirewallTypeOK
    <2>2. sync[a].overtaken \in BOOLEAN
      BY DEF FirewallTypeOK, Syncing
    <2>3. FirewallTypeOK'
      BY <1>1, <1>2, <2>1, <2>2 DEF Same, FirewallTypeOK, tables, kernel
    <2>4. ControlInv'
      BY <1>1, <1>2, <2>1 DEF Same, ControlInv, tables, kernel
    <2> QED BY <2>3, <2>4
  <1>3. CASE Begin(a)
    <2>1. /\ sync' \in [Syncers -> Syncing] /\ sync'[a].pc = "apply"
          /\ \A b \in Syncers \ {a} : sync'[b] = sync[b]
          /\ ipt' \in [Families -> Chain] /\ nft' \in NftTable /\ fails' \in Nat
          /\ cmds' \in Seq(Command)
      BY <1>1, <1>3, BeginShape
    <2>2. mu' = a /\ behind' = behind /\ a # "start" /\ a # Nobody
      BY <1>3, FirewallAssumption DEF Begin, Syncers
    <2>3. FirewallTypeOK'
      BY <1>1, <2>1, <2>2 DEF FirewallTypeOK, tables
    <2>4. proc = "running"
      BY <1>1 DEF ControlInv
    <2>5. \A b \in Syncers \ {a} : sync[b].pc # "apply"
      BY <1>1, FirewallAssumption DEF ControlInv, Syncers
    <2>6. ControlInv'
      BY <1>1, <2>1, <2>2, <2>4, <2>5 DEF ControlInv
    <2> QED BY <2>3, <2>6
  <1> QED BY <1>2, <1>3, HandOverShape

LEMMA AppliedTyped ==
    ASSUME FirewallTypeOK, ControlInv, NEW a \in Syncers, Applied(a)
    PROVE  FirewallTypeOK' /\ ControlInv'
  <1>1. /\ EndSync(a) \in [Syncers -> Syncing] /\ EndSync(a)[a].pc = "wait"
        /\ \A b \in Syncers \ {a} : EndSync(a)[b].pc = sync[b].pc
    BY EndSyncShape DEF FirewallTypeOK
  <1>2. sync[a].overtaken \in BOOLEAN /\ sync[a].state \in State
    BY DEF FirewallTypeOK, Syncing
  <1>3. FirewallTypeOK'
    BY <1>1, <1>2 DEF Applied, FirewallTypeOK, tables, kernel, bounds
  <1>4. mu = a /\ proc = "running" /\ \A b \in Syncers \ {a} : sync[b].pc # "apply"
    BY DEF Applied, ControlInv
  <1>5. Nobody # "start" /\ Nobody \notin Syncers
    BY FirewallAssumption DEF Syncers
  <1>6. ControlInv'
    BY <1>1, <1>4, <1>5 DEF Applied, ControlInv, tables, kernel, bounds
  <1> QED BY <1>3, <1>6

LEMMA DownTyped ==
    ASSUME FirewallTypeOK, Down, fails' \in Nat
    PROVE  FirewallTypeOK' /\ ControlInv'
  <1>1. PICK y : y = AtRest("wait")
    OBVIOUS
  <1>2. y \in Syncing /\ y.pc = "wait" /\ NoState \in State
    BY <1>1, RestTyped
  <1>3. sync' = [a \in Syncers |-> y]
    BY <1>1 DEF Down
  <1>4. FirewallTypeOK'
    <2>1. sync' \in [Syncers -> Syncing] /\ cmds' \in Seq(Command)
      BY <1>2, <1>3 DEF Down
    <2>2. /\ UNCHANGED <<now, rows, groups, ipt, nft, writes, starts>>
          /\ conf' = Unconfigured /\ proc' = "down" /\ event' = FALSE /\ resync' = FALSE
          /\ mu' = Nobody /\ applied' = NoState /\ behind' = FALSE /\ half' = FALSE
      BY DEF Down, tables, kernel
    <2> QED BY <1>2, <2>1, <2>2 DEF FirewallTypeOK
  <1>5. ControlInv'
    BY <1>2, <1>3, FirewallAssumption DEF Down, ControlInv, Syncers
  <1> QED BY <1>4, <1>5

LEMMA CommandFailsShape ==
    ASSUME FirewallTypeOK, ControlInv, CommandFails
    PROVE  /\ fails' \in Nat
           /\ mu = "start" => Down
           /\ mu # "start" =>
                /\ mu \in Syncers /\ proc = "running"
                /\ half' = (half \/ (conf.firewall = "iptables" /\
                                     cmds # Commands(conf, sync[mu].state)))
                /\ sync' = EndSync(mu) /\ behind' = TRUE
                /\ mu' = Nobody /\ cmds' = <<>>
                /\ UNCHANGED <<conf, now, rows, groups, ipt, nft, proc, event, resync,
                               applied, writes, starts>>
  <1>1. fails' \in Nat /\ cmds # <<>>
    BY DEF CommandFails, FirewallTypeOK
  <1>2. mu # Nobody
    BY <1>1 DEF ControlInv
  <1>3. mu = "start" \/ (mu \in Syncers /\ proc = "running")
    BY <1>2, Holder
  <1> QED BY <1>1, <1>3 DEF CommandFails, tables, kernel

LEMMA CommandFailsTyped ==
    ASSUME FirewallTypeOK, ControlInv, CommandFails
    PROVE  FirewallTypeOK' /\ ControlInv'
  <1>1. CASE mu = "start"
    BY <1>1, CommandFailsShape, DownTyped
  <1>2. CASE mu # "start"
    <2>1. /\ mu \in Syncers /\ proc = "running" /\ fails' \in Nat
          /\ half' = (half \/ (conf.firewall = "iptables" /\
                               cmds # Commands(conf, sync[mu].state)))
          /\ sync' = EndSync(mu) /\ behind' = TRUE
          /\ mu' = Nobody /\ cmds' = <<>>
          /\ UNCHANGED <<conf, now, rows, groups, ipt, nft, proc, event, resync,
                         applied, writes, starts>>
      BY <1>2, CommandFailsShape
    <2>2. PICK a \in Syncers : a = mu
      BY <2>1
    <2>3. /\ EndSync(a) \in [Syncers -> Syncing] /\ EndSync(a)[a].pc = "wait"
          /\ \A b \in Syncers \ {a} : EndSync(a)[b].pc = sync[b].pc
      BY EndSyncShape DEF FirewallTypeOK
    <2>4. \A b \in Syncers \ {a} : sync[b].pc # "apply"
      BY <2>2 DEF ControlInv
    <2>5. Nobody # "start" /\ Nobody \notin Syncers
      BY FirewallAssumption DEF Syncers
    <2>6. half' \in BOOLEAN
      BY <2>1 DEF FirewallTypeOK
    <2>7. FirewallTypeOK'
      BY <2>1, <2>2, <2>3, <2>6 DEF FirewallTypeOK
    <2>8. ControlInv'
      BY <2>1, <2>2, <2>3, <2>4, <2>5 DEF ControlInv
    <2> QED BY <2>7, <2>8
  <1> QED BY <1>1, <1>2

LEMMA ListFailsTyped ==
    ASSUME FirewallTypeOK, ControlInv, NEW a \in Syncers, ListFails(a)
    PROVE  FirewallTypeOK' /\ ControlInv'
  <1>1. fails' \in Nat /\ sync[a].pc \in {"list", "users"}
    BY DEF ListFails, FirewallTypeOK
  <1>2. CASE Down
    BY <1>1, <1>2, DownTyped
  <1>3. CASE /\ sync' = EndSync(a) /\ behind' = TRUE
             /\ UNCHANGED <<conf, tables, kernel, proc, event, resync, mu, cmds,
                            applied, writes, starts, half>>
    <2>1. /\ EndSync(a) \in [Syncers -> Syncing] /\ EndSync(a)[a].pc = "wait"
          /\ \A b \in Syncers \ {a} : EndSync(a)[b].pc = sync[b].pc
      BY EndSyncShape DEF FirewallTypeOK
    <2>2. FirewallTypeOK'
      BY <1>1, <1>3, <2>1 DEF FirewallTypeOK, tables, kernel
    <2>3. ControlInv'
      BY <1>1, <1>3, <2>1 DEF ControlInv, tables, kernel
    <2> QED BY <2>2, <2>3
  <1> QED BY <1>2, <1>3 DEF ListFails

LEMMA StopTyped ==
    ASSUME FirewallTypeOK, ControlInv, Stop
    PROVE  FirewallTypeOK' /\ ControlInv'
  BY DownTyped DEF Stop, FirewallTypeOK

-----------------------------------------------------------------------------
(* One command of iptables.                                                *)

LEMMA MirrorsSkip ==
    ASSUME NEW chain \in Seq(Rule), NEW work, NEW k \in Nat, NEW f,
           Mirrors(chain, work, k, f), ~Adds(work[k + 1], f)
    PROVE  Mirrors(chain, work, k + 1, f)
  <1>1. \A i \in 1 .. (k + 1) : Adds(work[i], f) => i \in 1 .. k
    OBVIOUS
  <1>2. \A i \in 1 .. k : i \in 1 .. (k + 1)
    OBVIOUS
  <1> QED BY <1>1, <1>2 DEF Mirrors

LEMMA MirrorsNothing ==
    ASSUME NEW work, NEW k \in Nat, NEW f, \A i \in 1 .. k : ~Adds(work[i], f)
    PROVE  Mirrors(<<>>, work, k, f)
  BY DEF Mirrors

\* A rule that is there already.
LEMMA MirrorsAgain ==
    ASSUME NEW chain \in Seq(Rule), NEW work, NEW k \in Nat, NEW f,
           Mirrors(chain, work, k, f), Adds(work[k + 1], f),
           Contains(chain, work[k + 1].rule)
    PROVE  Mirrors(chain, work, k + 1, f)
  <1>1. PICK j \in 1 .. Len(chain) : chain[j] = work[k + 1].rule
    BY DEF Contains
  <1>2. DOMAIN chain = 1 .. Len(chain) /\ Len(chain) \in Nat
    OBVIOUS
  <1>3. ASSUME NEW j2 \in 1 .. (j - 1)
        PROVE  \E i2 \in 1 .. k : Adds(work[i2], f) /\ work[i2].rule = chain[j2]
    <2>1. j2 \in DOMAIN chain
      BY <1>2
    <2> QED BY <2>1 DEF Mirrors
  <1>4. k + 1 - 1 = k
    OBVIOUS
  <1>5. ASSUME NEW i \in 1 .. (k + 1), Adds(work[i], f)
        PROVE  \E e \in DOMAIN chain :
                /\ chain[e] = work[i].rule
                /\ \A j2 \in 1 .. (e - 1) : \E i2 \in 1 .. (i - 1) :
                    Adds(work[i2], f) /\ work[i2].rule = chain[j2]
    <2>1. CASE i \in 1 .. k
      BY <1>5, <2>1 DEF Mirrors
    <2>2. CASE i = k + 1
      <3>1. chain[j] = work[i].rule /\ i - 1 = k /\ j \in DOMAIN chain
        BY <1>1, <1>2, <1>4, <2>2
      <3> QED BY <1>3, <3>1
    <2> QED BY <2>1, <2>2
  <1>6. \A i \in 1 .. k : i \in 1 .. (k + 1)
    OBVIOUS
  <1> QED BY <1>5, <1>6 DEF Mirrors

\* A rule that is new in the chain.
LEMMA MirrorsNew ==
    ASSUME NEW chain \in Seq(Rule), NEW work, NEW k \in Nat, NEW f,
           Mirrors(chain, work, k, f), Adds(work[k + 1], f), work[k + 1].rule \in Rule
    PROVE  Mirrors(Append(chain, work[k + 1].rule), work, k + 1, f)
  <1> DEFINE r == work[k + 1].rule
             m == Len(chain)
  <1>1. PICK new : new = Append(chain, r)
    OBVIOUS
  <1>2. /\ m \in Nat /\ new \in Seq(Rule) /\ DOMAIN chain = 1 .. m
        /\ DOMAIN new = 1 .. (m + 1) /\ new[m + 1] = r
        /\ \A j \in 1 .. m : new[j] = chain[j]
    BY <1>1
  <1> HIDE DEF m
  <1>3. /\ \A i \in 1 .. (k + 1) : i \in 1 .. k \/ i = k + 1
        /\ \A i \in 1 .. k : i \in 1 .. (k + 1)
        /\ \A j \in 1 .. (m + 1) : j \in 1 .. m \/ j = m + 1
        /\ \A j \in 1 .. m : j \in 1 .. (m + 1)
        /\ k + 1 - 1 = k /\ m + 1 - 1 = m
        /\ k + 1 \in 1 .. (k + 1) /\ m + 1 \in 1 .. (m + 1)
        /\ \A j \in 1 .. m : \A j2 \in 1 .. (j - 1) : j2 \in 1 .. m
    BY <1>2
  <1>4. ASSUME NEW i \in 1 .. (k + 1), Adds(work[i], f)
        PROVE  \E j \in DOMAIN new :
                /\ new[j] = work[i].rule
                /\ \A j2 \in 1 .. (j - 1) : \E i2 \in 1 .. (i - 1) :
                    Adds(work[i2], f) /\ work[i2].rule = new[j2]
    <2>1. CASE i \in 1 .. k
      <3>1. PICK j \in DOMAIN chain :
                /\ chain[j] = work[i].rule
                /\ \A j2 \in 1 .. (j - 1) : \E i2 \in 1 .. (i - 1) :
                    Adds(work[i2], f) /\ work[i2].rule = chain[j2]
        BY <1>4, <2>1 DEF Mirrors
      <3>2. j \in DOMAIN new /\ new[j] = chain[j]
        BY <1>2, <1>3, <3>1
      <3>3. \A j2 \in 1 .. (j - 1) : new[j2] = chain[j2]
        BY <1>2, <1>3, <3>1
      <3> QED BY <3>1, <3>2, <3>3
    <2>2. CASE i = k + 1
      <3>1. m + 1 \in DOMAIN new /\ new[m + 1] = work[i].rule /\ i - 1 = k
        BY <1>2, <1>3, <2>2
      <3>2. ASSUME NEW j2 \in 1 .. m
            PROVE  \E i2 \in 1 .. k : Adds(work[i2], f) /\ work[i2].rule = new[j2]
        BY <1>2, SMTT(30) DEF Mirrors
      <3> QED BY <1>3, <3>1, <3>2
    <2> QED BY <1>3, <2>1, <2>2
  <1>5. ASSUME NEW j \in DOMAIN new
        PROVE  \E i \in 1 .. (k + 1) :
                /\ Adds(work[i], f) /\ work[i].rule = new[j]
                /\ \A i2 \in 1 .. (i - 1) : Adds(work[i2], f) =>
                    \E j2 \in 1 .. (j - 1) : new[j2] = work[i2].rule
    <2>1. CASE j \in 1 .. m
      <3>1. PICK i \in 1 .. k :
                /\ Adds(work[i], f) /\ work[i].rule = chain[j]
                /\ \A i2 \in 1 .. (i - 1) : Adds(work[i2], f) =>
                    \E j2 \in 1 .. (j - 1) : chain[j2] = work[i2].rule
        BY <1>2, <2>1 DEF Mirrors
      <3>2. i \in 1 .. (k + 1) /\ new[j] = chain[j]
        BY <1>2, <1>3, <2>1, <3>1
      <3>3. \A j2 \in 1 .. (j - 1) : new[j2] = chain[j2]
        BY <1>2, <1>3, <2>1
      <3> QED BY <3>1, <3>2, <3>3
    <2>2. CASE j = m + 1
      <3>1. new[j] = r /\ j - 1 = m
        BY <1>2, <1>3, <2>2
      <3>2. ASSUME NEW i2 \in 1 .. k, Adds(work[i2], f)
            PROVE  \E j2 \in 1 .. m : new[j2] = work[i2].rule
        BY <1>2, <3>2 DEF Mirrors
      <3> QED BY <1>3, <3>1, <3>2
    <2> QED BY <1>2, <1>3, <2>1, <2>2
  <1>6. Mirrors(new, work, k + 1, f)
    BY <1>4, <1>5 DEF Mirrors
  <1> QED BY <1>1, <1>6

LEMMA DidNext ==
    ASSUME NEW work, NEW k \in Nat, NEW o, NEW f
    PROVE  Did(work, k + 1, o, f) <=>
            Did(work, k, o, f) \/ work[k + 1] = [op |-> o, f |-> f]
  <1>1. /\ \A i \in 1 .. (k + 1) : i \in 1 .. k \/ i = k + 1
        /\ \A i \in 1 .. k : i \in 1 .. (k + 1)
        /\ k + 1 \in 1 .. (k + 1)
    OBVIOUS
  <1> QED BY <1>1 DEF Did

\* A command without a rule is known by its name and its family.
LEMMA PlainCommand ==
    ASSUME NEW x \in Command, x.op \in {"clear", "clearNat", "hook", "masquerade"}
    PROVE  x = [op |-> x.op, f |-> x.f]
  BY DEF Command

\* The next command does to the chains of a family what it is for.
LEMMA StepFamily ==
    ASSUME ipt \in [Families -> Chain], nft \in NftTable,
           NEW c \in Conf, NEW st \in State, c.firewall = "iptables", NEW f \in c.families,
           NEW work, work = Commands(c, st),
           NEW k \in Nat, k < Len(work), FamilyAt(work, k, f), Execute(work[k + 1])
    PROVE  FamilyAt(work, k + 1, f)'
  <1>1. /\ work \in Seq(Command)
        /\ \A i \in 1 .. Len(work) : work[i].f \in c.families /\ work[i].op # "ruleset"
    BY CommandsLayout
  <1>2. PICK b \in Nat : Layout(work, b, c, st, f)
    BY CommandsLayout
  <1>3. InOrder(work, b, c, st, f)
    BY <1>1, <1>2, LayoutOrder
  <1>4. Len(RulesOf(c, st, f)) \in Nat
    BY <1>2 DEF Layout
  <1>5. PICK x : x = work[k + 1]
    OBVIOUS
  <1>6. k + 1 \in 1 .. Len(work) /\ x \in Command /\ x.op # "ruleset"
    BY <1>1, <1>5
  <1>7. /\ x.f \in Families /\ f \in Families
        /\ \A g \in Families \ {x.f} : ipt'[g] = ipt[g]
        /\ ipt'[x.f].chain =
                    (IF x.op = "clear" THEN <<>>
                     ELSE IF x.op = "append" /\ ~Contains(ipt[x.f].chain, x.rule)
                     THEN Append(ipt[x.f].chain, x.rule) ELSE ipt[x.f].chain)
        /\ ipt'[x.f].nat =
                    (IF x.op = "clearNat" THEN FALSE
                     ELSE IF x.op = "masquerade" THEN TRUE ELSE ipt[x.f].nat)
        /\ ipt'[x.f].hooked = (IF x.op = "hook" THEN TRUE ELSE ipt[x.f].hooked)
    <2>1. f \in Families
      BY DEF Conf
    <2>2. Execute(x)
      BY <1>5
    <2> QED BY <1>6, <2>1, <2>2, ExecuteShape
  <1>8. \A o : Did(work, k + 1, o, f) <=> Did(work, k, o, f) \/ x = [op |-> o, f |-> f]
    BY <1>5, DidNext, SMTT(30)
  <1>9. ipt[f].chain \in Seq(Rule) /\ ipt[f].nat \in BOOLEAN
    BY <1>7 DEF Chain
  <1>10. ASSUME Mirrors(ipt[f].chain, work, k, f), ~Adds(x, f)
         PROVE  Mirrors(ipt[f].chain, work, k + 1, f)
    BY <1>5, <1>9, <1>10, MirrorsSkip
  <1> DEFINE ChainGoal == Did(work, k + 1, "clear", f) =>
                            Mirrors(ipt'[f].chain, work, k + 1, f)
             NatGoal == Did(work, k + 1, "clearNat", f) =>
                            (ipt'[f].nat <=> Did(work, k + 1, "masquerade", f))
             HookGoal == Did(work, k + 1, "hook", f) => ipt'[f].hooked
  <1>11. /\ Did(work, k, "clear", f) => Mirrors(ipt[f].chain, work, k, f)
         /\ Did(work, k, "clearNat", f) => (ipt[f].nat <=> Did(work, k, "masquerade", f))
         /\ Did(work, k, "hook", f) => ipt[f].hooked
    BY DEF FamilyAt
  <1>12. ASSUME x.f # f
         PROVE  ChainGoal /\ NatGoal /\ HookGoal
    <2>1. ipt'[f] = ipt[f] /\ ~Adds(x, f) /\ \A o : x # [op |-> o, f |-> f]
      BY <1>7, <1>12 DEF Adds
    <2> QED BY <1>8, <1>10, <1>11, <2>1
  <1>13. ASSUME x.f = f, x.op = "append"
         PROVE  ChainGoal /\ NatGoal /\ HookGoal
    <2>1. Adds(x, f) /\ x.rule \in Rule
      BY <1>6, <1>13 DEF Adds, Command
    <2>2. \A o : o \in {"clear", "clearNat", "hook", "masquerade"} =>
                    x # [op |-> o, f |-> f]
      BY <1>13
    <2>3. PICK chain : chain = ipt[f].chain
      OBVIOUS
    <2>4. chain \in Seq(Rule)
      BY <1>9, <2>3
    <2>5. ASSUME Did(work, k, "clear", f)
          PROVE  Mirrors(ipt'[f].chain, work, k + 1, f)
      <3>1. Mirrors(chain, work, k, f)
        BY <1>11, <2>3, <2>5
      <3>2. CASE Contains(chain, x.rule)
        <4>1. Mirrors(chain, work, k + 1, f)
          BY <1>5, <2>1, <2>4, <3>1, <3>2, MirrorsAgain
        <4> QED BY <1>7, <1>13, <2>3, <3>2, <4>1
      <3>3. CASE ~Contains(chain, x.rule)
        <4>1. Mirrors(Append(chain, x.rule), work, k + 1, f)
          BY <1>5, <2>1, <2>4, <3>1, MirrorsNew
        <4> QED BY <1>7, <1>13, <2>3, <3>3, <4>1
      <3> QED BY <3>2, <3>3
    <2>6. ipt'[f].nat = ipt[f].nat /\ ipt'[f].hooked = ipt[f].hooked
      BY <1>7, <1>13
    <2> QED BY <1>8, <1>11, <2>2, <2>5, <2>6
  <1>14. ASSUME x.f = f, x.op \in {"clear", "clearNat", "hook", "masquerade"}
         PROVE  ChainGoal /\ NatGoal /\ HookGoal
    <2>1. x = [op |-> x.op, f |-> f]
      BY <1>6, <1>14, PlainCommand
    <2>2. ~Adds(x, f)
      BY <1>14 DEF Adds
    <2>3. \A o : x = [op |-> o, f |-> f] <=> x.op = o
      BY <2>1
    <2>4. ChainGoal
      <3>1. ASSUME x.op = "clear"
            PROVE  Mirrors(ipt'[f].chain, work, k + 1, f)
        <4>1. k + 1 = b + 1
          BY <1>3, <1>5, <1>6, <2>1, <3>1 DEF InOrder
        <4>2. \A i \in 1 .. (k + 1) : i \in 1 .. Len(work)
          BY <1>1
        <4>3. \A i \in 1 .. (k + 1) : ~Adds(work[i], f)
          BY <1>3, <1>4, <4>1, <4>2 DEF InOrder
        <4>4. ipt'[f].chain = <<>>
          BY <1>7, <1>14, <3>1
        <4>5. k + 1 \in Nat
          OBVIOUS
        <4> QED BY <4>3, <4>4, <4>5, MirrorsNothing
      <3>2. ASSUME x.op # "clear", Did(work, k, "clear", f)
            PROVE  Mirrors(ipt'[f].chain, work, k + 1, f)
        <4>1. ipt'[f].chain = ipt[f].chain
          BY <1>7, <1>14, <3>2
        <4> QED BY <1>10, <1>11, <2>2, <3>2, <4>1
      <3> QED BY <1>8, <2>3, <3>1, <3>2
    <2>5. NatGoal
      <3>1. ASSUME x.op = "clearNat"
            PROVE  NatGoal
        <4>1. k + 1 = b + 2
          BY <1>3, <1>5, <1>6, <2>1, <3>1 DEF InOrder
        <4>2. \A i \in 1 .. (k + 1) : i \in 1 .. Len(work)
          BY <1>1
        <4>3. \A i \in 1 .. (k + 1) : work[i] # [op |-> "masquerade", f |-> f]
          BY <1>3, <1>4, <4>1, <4>2 DEF InOrder
        <4>4. ~Did(work, k + 1, "masquerade", f)
          BY <4>3 DEF Did
        <4>5. ipt'[f].nat = FALSE
          BY <1>7, <1>14, <3>1
        <4> QED BY <4>4, <4>5
      <3>2. ASSUME x.op = "masquerade"
            PROVE  NatGoal
        <4>1. ipt'[f].nat = TRUE
          BY <1>7, <1>14, <3>2
        <4> QED BY <1>8, <2>3, <3>2, <4>1
      <3>3. ASSUME x.op \in {"clear", "hook"}
            PROVE  NatGoal
        <4>1. ipt'[f].nat = ipt[f].nat
          BY <1>7, <1>14, <3>3
        <4>2. x.op # "clearNat" /\ x.op # "masquerade"
          BY <3>3
        <4> QED BY <1>8, <1>11, <2>3, <4>1, <4>2
      <3> QED BY <1>14, <3>1, <3>2, <3>3
    <2>6. HookGoal
      <3>1. CASE x.op = "hook"
        BY <1>7, <1>14, <3>1
      <3>2. CASE x.op # "hook"
        <4>1. ipt'[f].hooked = ipt[f].hooked
          BY <1>7, <1>14, <3>2
        <4> QED BY <1>8, <1>11, <2>3, <3>2, <4>1
      <3> QED BY <3>1, <3>2
    <2> QED BY <2>4, <2>5, <2>6
  <1>15. x.op \in {"append", "clear", "clearNat", "hook", "masquerade"}
    BY <1>6 DEF Command
  <1>16. ChainGoal /\ NatGoal /\ HookGoal
    <2> HIDE DEF ChainGoal, NatGoal, HookGoal
    <2> QED BY <1>12, <1>13, <1>14, <1>15
  <1> QED BY <1>16 DEF FamilyAt

-----------------------------------------------------------------------------
(* The kernel follows the work.                                            *)

\* Rules stay where they are when the backend's part of the kernel does.
LEMMA KernelKept ==
    ASSUME NEW c, NEW st, NEW k,
           c.firewall = "nftables" => nft' = nft,
           c.firewall = "iptables" => ipt' = ipt
    PROVE  /\ Installed(c, st) => Installed(c, st)'
           /\ c.firewall = "iptables" /\ FamiliesAt(c, st, k) => FamiliesAt(c, st, k)'
  <1>1. ASSUME NEW n, c.firewall = "iptables", FamiliesAt(c, st, n)
        PROVE  FamiliesAt(c, st, n)'
    <2>1. ipt' = ipt
      BY <1>1
    <2> QED BY <1>1, <2>1 DEF FamiliesAt, FamilyAt
  <1>2. Installed(c, st) => Installed(c, st)'
    BY <1>1 DEF Installed
  <1> QED BY <1>1, <1>2

\* A step that touches neither the kernel nor the work.
LEMMA NeutralKept ==
    ASSUME WorkInv, RestInv,
           UNCHANGED <<conf, ipt, nft, proc, mu, cmds, applied, half>>,
           mu # Nobody => Target' = Target
    PROVE  WorkInv' /\ RestInv'
  <1>1. PICK c, st, old, k : /\ c = conf /\ st = Target /\ old = applied
                             /\ k = DoneOf(c, st)
    OBVIOUS
  <1>2. /\ Installed(c, old) => Installed(c, old)'
        /\ c.firewall = "iptables" /\ FamiliesAt(c, st, k) => FamiliesAt(c, st, k)'
    BY KernelKept
  <1>3. c = conf' /\ old = applied' /\ (mu # Nobody => st = Target') /\ mu' = mu
    BY <1>1
  <1>4. k = DoneOf(c, st)' /\ (Whole' <=> Whole)
    BY <1>1 DEF DoneOf, Whole
  <1>5. ASSUME Doing(c, st)
        PROVE  Doing(c, st)'
    <2>1. Installed(c, applied)' <=> Installed(c, old)'
      BY <1>3
    <2> QED BY <1>1, <1>2, <1>4, <1>5, <2>1 DEF Doing
  <1>6. WorkInv'
    BY <1>1, <1>3, <1>5 DEF WorkInv
  <1>7. RestInv'
    BY <1>1, <1>2, <1>3, <1>4 DEF RestInv
  <1> QED BY <1>6, <1>7

\* Nothing is done yet.
LEMMA BeginWork ==
    ASSUME NEW c \in Conf, NEW st \in State, cmds' = Commands(c, st),
           proc' = "running" /\ Whole' => Installed(c, applied)'
    PROVE  Doing(c, st)'
  <1>1. PICK W : W = Commands(c, st)
    OBVIOUS
  <1>2. W \in Seq(Command) /\ cmds' = W
    BY <1>1, CommandsTyped
  <1>3. DoneOf(c, st)' = 0
    BY <1>1, <1>2 DEF DoneOf
  <1>4. FamiliesAt(c, st, 0)'
    <2>1. \A o, f : ~Did(W, 0, o, f)
      BY DEF Did
    <2> QED BY <1>1, <2>1 DEF FamiliesAt, FamilyAt
  <1>5. c.firewall = "nftables" => cmds' # <<>>
    <2>1. c.firewall = "nftables" => W = <<[op |-> "ruleset", table |-> TableOf(c, st)]>>
      BY <1>1 DEF Commands
    <2>2. \A x : <<x>> # <<>>
      OBVIOUS
    <2> QED BY <1>2, <2>1, <2>2
  <1>6. Len(cmds') = Len(W) /\ \A i \in 1 .. Len(cmds') : cmds'[i] = W[0 + i]
    BY <1>2
  <1>7. Len(W) \in Nat
    BY <1>2
  <1> QED BY <1>1, <1>3, <1>4, <1>5, <1>6, <1>7 DEF Doing

\* Everything is done.
LEMMA EndWork ==
    ASSUME NEW c \in Conf, NEW st \in State, Doing(c, st), cmds = <<>>
    PROVE  Installed(c, st)
  <1>1. PICK n : n = Len(Commands(c, st))
    OBVIOUS
  <1>2. n \in Nat
    BY <1>1, CommandsTyped
  <1>3. Len(cmds) = 0
    OBVIOUS
  <1>4. DoneOf(c, st) = n
    BY <1>1, <1>2, <1>3 DEF DoneOf
  <1>5. c.firewall = "iptables" => FamiliesAt(c, st, n)
    BY <1>4 DEF Doing
  <1>6. c.firewall = "nftables" => nft = TableOf(c, st)
    BY DEF Doing
  <1> QED BY <1>1, <1>5, <1>6 DEF Installed

\* One command more is done.
LEMMA StepWork ==
    ASSUME FirewallTypeOK, NEW c \in Conf, NEW st \in State, Doing(c, st), RunCommand
    PROVE  Doing(c, st)'
  <1>1. PICK W, k : W = Commands(c, st) /\ k = DoneOf(c, st)
    OBVIOUS
  <1>2. W \in Seq(Command) /\ Len(W) \in Nat
    BY <1>1, CommandsTyped
  <1>3. cmds \in Seq(Command) /\ cmds # <<>> /\ Len(cmds) \in Nat \ {0}
    BY DEF FirewallTypeOK, RunCommand
  <1>4. /\ k = Len(W) - Len(cmds) /\ Len(cmds) <= Len(W)
        /\ \A i \in 1 .. Len(cmds) : cmds[i] = W[k + i]
        /\ c.firewall = "iptables" => FamiliesAt(c, st, k)
    BY <1>1 DEF Doing, DoneOf
  <1>5. k \in Nat /\ k < Len(W)
    BY <1>2, <1>3, <1>4
  <1>6. cmds' = Tail(cmds) /\ Len(cmds') = Len(cmds) - 1
    BY <1>3 DEF RunCommand
  <1>7. DoneOf(c, st)' = k + 1
    <2>1. DoneOf(c, st)' = Len(W) - Len(cmds')
      BY <1>1 DEF DoneOf
    <2> QED BY <1>2, <1>3, <1>4, <1>6, <2>1
  <1>8. ASSUME NEW i \in 1 .. Len(cmds')
        PROVE  cmds'[i] = W[k + 1 + i]
    <2>1. i + 1 \in 1 .. Len(cmds) /\ cmds'[i] = cmds[i + 1]
      BY <1>3, <1>6
    <2>2. k + (i + 1) = k + 1 + i
      BY <1>5
    <2> QED BY <1>4, <2>1, <2>2
  <1>9. Execute(W[k + 1])
    <2>1. 1 \in 1 .. Len(cmds) /\ Head(cmds) = cmds[1]
      BY <1>3
    <2>2. cmds[1] = W[k + 1]
      BY <1>4, <2>1
    <2> QED BY <2>1, <2>2 DEF RunCommand
  <1>10. ASSUME c.firewall = "iptables"
         PROVE  FamiliesAt(c, st, k + 1)'
    <2>1. ipt \in [Families -> Chain] /\ nft \in NftTable
      BY DEF FirewallTypeOK
    <2>2. \A f \in c.families : FamilyAt(W, k, f)
      BY <1>1, <1>4, <1>10 DEF FamiliesAt
    <2>3. ASSUME NEW f \in c.families
          PROVE  FamilyAt(W, k + 1, f)'
      BY <1>1, <1>5, <1>9, <1>10, <2>1, <2>2, StepFamily
    <2> QED BY <1>1, <2>3 DEF FamiliesAt
  <1>11. ASSUME c.firewall = "nftables"
         PROVE  nft' = TableOf(c, st)
    <2>1. W = <<[op |-> "ruleset", table |-> TableOf(c, st)]>>
      BY <1>1, <1>11 DEF Commands
    <2>2. k = 0
      BY <1>5, <2>1
    <2>3. W[k + 1].op = "ruleset" /\ W[k + 1].table = TableOf(c, st)
      BY <2>1, <2>2
    <2>4. PICK x : x = W[k + 1]
      OBVIOUS
    <2>5. Execute(x) /\ x.op = "ruleset"
      BY <1>9, <2>3, <2>4
    <2>6. nft' = x.table
      BY <2>5 DEF Execute
    <2> QED BY <2>3, <2>4, <2>6
  <1>12. k + 1 # 0 /\ Len(cmds') <= Len(W)
    <2>1. PICK m, n : m = Len(cmds) /\ n = Len(W)
      OBVIOUS
    <2>2. m \in Nat \ {0} /\ n \in Nat /\ m <= n /\ Len(cmds') = m - 1
      BY <1>2, <1>3, <1>4, <1>6, <2>1
    <2> QED BY <1>5, <2>1, <2>2
  <1> QED BY <1>1, <1>7, <1>8, <1>10, <1>11, <1>12 DEF Doing

\* The work stops before anything was done: the former rules are there.
LEMMA NothingDone ==
    ASSUME NEW c \in Conf, NEW st \in State, Doing(c, st), proc = "running", Whole,
           cmds # <<>>, cmds \in Seq(Command),
           c.firewall = "iptables" => cmds = Commands(c, st)
    PROVE  Installed(c, applied)
  <1>1. PICK n : n = Len(Commands(c, st))
    OBVIOUS
  <1>2. n \in Nat /\ Len(cmds) \in Nat \ {0} /\ Len(cmds) <= n
    BY <1>1, CommandsTyped DEF Doing
  <1>3. CASE c.firewall = "none"
    BY <1>3 DEF Installed
  <1>4. CASE c.firewall = "nftables"
    <2>1. n = 1
      BY <1>1, <1>4 DEF Commands
    <2>2. Len(cmds) = 1
      <3>1. \A m \in Nat \ {0} : m <= 1 => m = 1
        OBVIOUS
      <3> QED BY <1>2, <2>1, <3>1
    <2>3. DoneOf(c, st) = n - Len(cmds)
      BY <1>1 DEF DoneOf
    <2>4. DoneOf(c, st) = 0
      BY <2>1, <2>2, <2>3
    <2> QED BY <2>4 DEF Doing
  <1>5. CASE c.firewall = "iptables"
    <2>1. DoneOf(c, st) = 0
      BY <1>1, <1>2, <1>5 DEF DoneOf
    <2> QED BY <2>1 DEF Doing
  <1> QED BY <1>3, <1>4, <1>5 DEF Conf

\* A step of the synchronizations that leaves the holder's state alone.
LEMMA TargetKept ==
    ASSUME mu' = mu, mu \in Syncers \cup {"start"},
           \A b \in Syncers : b = mu => sync'[b].state = sync[b].state
    PROVE  Target' = Target
  BY DEF Target

LEMMA QuietKept ==
    ASSUME FirewallTypeOK, ControlInv, WorkInv, RestInv,
           \/ \E table, users : Write(table, users)
           \/ Tick \/ Notified \/ Receive
           \/ \E a \in Syncers : ListDevices(a) \/ ListUsers(a)
    PROVE  WorkInv' /\ RestInv'
  <1>1. UNCHANGED <<conf, ipt, nft, proc, mu, cmds, applied, half>>
    BY DEF Write, Tick, Notified, Receive, ListDevices, ListUsers, kernel
  <1>2. sync \in [Syncers -> Syncing] /\ \A a \in Syncers : sync[a].pc = "apply" <=> mu = a
    BY DEF FirewallTypeOK, ControlInv
  <1>3. ASSUME NEW b \in Syncers, b = mu
        PROVE  sync'[b] = sync[b]
    <2>1. sync[b].pc = "apply"
      BY <1>2, <1>3
    <2>2. CASE sync' = sync
      BY <2>2
    <2>3. CASE Receive
      <3>1. b # "loop"
        BY <2>1, <2>3 DEF Receive
      <3> QED BY <1>2, <2>3, <3>1 DEF Receive
    <2>4. ASSUME NEW a \in Syncers, ListDevices(a)
          PROVE  sync'[b] = sync[b]
      <3>1. a # b
        BY <2>1, <2>4 DEF ListDevices
      <3> QED BY <1>2, <2>4, <3>1 DEF ListDevices
    <2>5. ASSUME NEW a \in Syncers, ListUsers(a)
          PROVE  sync'[b] = sync[b]
      <3>1. a # b
        BY <2>1, <2>5 DEF ListUsers
      <3> QED BY <2>5, <3>1, ListUsersShape
    <2> QED BY <2>2, <2>3, <2>4, <2>5 DEF Write, Tick, Notified
  <1>4. mu # Nobody => mu \in Syncers \cup {"start"}
    BY DEF FirewallTypeOK
  <1>5. mu # Nobody => Target' = Target
    BY <1>1, <1>3, <1>4, TargetKept
  <1> QED BY <1>1, <1>5, NeutralKept, SMTT(30)

LEMMA StartKept ==
    ASSUME FirewallTypeOK, Start
    PROVE  WorkInv' /\ RestInv'
  <1>1. PICK c \in Confs : conf' = c /\ cmds' = Commands(c, NoState)
    BY DEF Start
  <1>2. c \in Conf /\ NoState \in State /\ mu' = "start" /\ proc' = "starting"
    BY FirewallAssumption, RestTyped DEF Start
  <1>3. Doing(c, NoState)'
    BY <1>1, <1>2, BeginWork
  <1>4. Target' = NoState
    BY <1>2 DEF Target
  <1>5. WorkInv'
    BY <1>1, <1>3, <1>4 DEF WorkInv
  <1>6. RestInv'
    BY <1>2 DEF RestInv
  <1> QED BY <1>5, <1>6

LEMMA RunKept ==
    ASSUME FirewallTypeOK, ControlInv, WorkInv, RunCommand
    PROVE  WorkInv' /\ RestInv'
  <1>1. mu # Nobody /\ mu' = mu /\ conf' = conf /\ sync' = sync
    BY DEF RunCommand, ControlInv
  <1>2. PICK c, st : c = conf /\ st = Target
    OBVIOUS
  <1>3. c \in Conf /\ st \in State
    BY <1>1, <1>2, Holder
  <1>4. Doing(c, st)
    BY <1>1, <1>2 DEF WorkInv
  <1>5. Doing(c, st)'
    BY <1>3, <1>4, StepWork
  <1>6. c = conf' /\ st = Target'
    BY <1>1, <1>2 DEF Target
  <1>7. WorkInv'
    BY <1>5, <1>6 DEF WorkInv
  <1>8. RestInv'
    BY <1>1 DEF RestInv
  <1> QED BY <1>7, <1>8

\* The work of a start or a synchronization is done.
LEMMA DoneKept ==
    ASSUME FirewallTypeOK, ControlInv, WorkInv, mu # Nobody, cmds = <<>>,
           mu' = Nobody, conf' = conf, ipt' = ipt, nft' = nft, applied' = Target
    PROVE  WorkInv' /\ RestInv'
  <1>1. PICK c, st : c = conf /\ st = Target
    OBVIOUS
  <1>2. c \in Conf /\ st \in State
    BY <1>1, Holder
  <1>3. Doing(c, st)
    BY <1>1 DEF WorkInv
  <1>4. Installed(c, st)
    BY <1>2, <1>3, EndWork
  <1>5. Installed(c, st)'
    BY <1>4, KernelKept
  <1>6. c = conf' /\ st = applied'
    BY <1>1
  <1>7. RestInv'
    BY <1>5, <1>6 DEF RestInv
  <1>8. WorkInv'
    BY DEF WorkInv
  <1> QED BY <1>7, <1>8

LEMMA StartedKept ==
    ASSUME FirewallTypeOK, ControlInv, WorkInv, Started
    PROVE  WorkInv' /\ RestInv'
  <1>1. /\ mu = "start" /\ cmds = <<>> /\ mu' = Nobody /\ conf' = conf
        /\ ipt' = ipt /\ nft' = nft /\ applied' = applied
    BY DEF Started, kernel
  <1>2. mu # Nobody /\ Target = NoState /\ applied = NoState
    BY <1>1, FirewallAssumption DEF Target, ControlInv
  <1> QED BY <1>1, <1>2, DoneKept

LEMMA AppliedKept ==
    ASSUME FirewallTypeOK, ControlInv, WorkInv, NEW a \in Syncers, Applied(a)
    PROVE  WorkInv' /\ RestInv'
  <1>1. /\ mu = a /\ cmds = <<>> /\ mu' = Nobody /\ conf' = conf
        /\ ipt' = ipt /\ nft' = nft /\ applied' = sync[a].state
    BY DEF Applied, kernel
  <1>2. a # Nobody /\ a # "start"
    BY FirewallAssumption DEF Syncers
  <1>3. mu # Nobody /\ Target = sync[a].state
    BY <1>1, <1>2 DEF Target
  <1> QED BY <1>1, <1>3, DoneKept

LEMMA HandOverKept ==
    ASSUME FirewallTypeOK, ControlInv, WorkInv, RestInv, NEW a \in Syncers, HandOver(a)
    PROVE  WorkInv' /\ RestInv'
  <1>1. /\ sync[a].pc = "lock" /\ mu = Nobody
        /\ UNCHANGED <<conf, tables, proc, event, resync, applied, writes, starts, half>>
    BY HandOverShape
  <1>2. CASE Same(a)
    BY <1>1, <1>2, NeutralKept DEF Same, kernel
  <1>3. CASE Begin(a)
    <2>1. PICK c, st, old : c = conf /\ st = sync[a].state /\ old = applied
      OBVIOUS
    <2>2. /\ c \in Conf /\ st \in State /\ sync'[a].state = st
          /\ c.firewall = "nftables" => nft' = nft
          /\ c.firewall = "iptables" => ipt' = ipt
      BY <1>1, <1>3, <2>1, BeginShape
    <2>3. cmds' = Commands(c, st) /\ mu' = a /\ a # Nobody /\ a # "start"
      BY <1>3, <2>1, FirewallAssumption DEF Begin, Syncers
    <2>4. c = conf' /\ old = applied' /\ (Whole' <=> Whole) /\ proc' = proc
      BY <1>1, <2>1 DEF Whole
    <2>5. Installed(c, old) => Installed(c, old)'
      BY <2>2, KernelKept
    <2>6. proc' = "running" /\ Whole' => Installed(c, applied)'
      BY <1>1, <2>1, <2>4, <2>5 DEF RestInv
    <2>7. Doing(c, st)'
      BY <2>2, <2>3, <2>6, BeginWork
    <2>8. Target' = st
      BY <2>2, <2>3 DEF Target
    <2>9. WorkInv'
      BY <2>4, <2>7, <2>8 DEF WorkInv
    <2>10. RestInv'
      BY <2>3 DEF RestInv
    <2> QED BY <2>9, <2>10
  <1> QED BY <1>2, <1>3, HandOverShape

LEMMA DownKept ==
    ASSUME Down
    PROVE  WorkInv' /\ RestInv'
  BY DEF Down, WorkInv, RestInv

LEMMA CommandFailsKept ==
    ASSUME FirewallTypeOK, ControlInv, WorkInv, CommandFails
    PROVE  WorkInv' /\ RestInv'
  <1>1. CASE mu = "start"
    BY <1>1, CommandFailsShape, DownKept
  <1>2. CASE mu # "start"
    <2>1. /\ mu \in Syncers /\ proc = "running"
          /\ half' = (half \/ (conf.firewall = "iptables" /\
                               cmds # Commands(conf, sync[mu].state)))
          /\ mu' = Nobody
          /\ UNCHANGED <<conf, now, rows, groups, ipt, nft, proc, event, resync,
                         applied, writes, starts>>
      BY <1>2, CommandFailsShape
    <2>2. cmds # <<>> /\ cmds \in Seq(Command) /\ mu # Nobody
      BY DEF CommandFails, FirewallTypeOK, ControlInv
    <2>3. PICK c, st, old : c = conf /\ st = Target /\ old = applied
      OBVIOUS
    <2>4. c \in Conf /\ st \in State /\ st = sync[mu].state
      BY <1>2, <2>2, <2>3, Holder DEF Target
    <2>5. Doing(c, st)
      BY <2>2, <2>3 DEF WorkInv
    <2>6. ASSUME Whole'
          PROVE  Installed(conf, applied)'
      <3>1. Whole /\ (c.firewall = "iptables" => cmds = Commands(c, st))
        BY <2>1, <2>3, <2>4, <2>6 DEF Whole
      <3>2. Installed(c, applied)
        BY <2>1, <2>2, <2>4, <2>5, <3>1, NothingDone
      <3>3. Installed(c, old) => Installed(c, old)'
        BY <2>1, KernelKept
      <3>4. c = conf' /\ old = applied'
        BY <2>1, <2>3
      <3> QED BY <2>3, <3>2, <3>3, <3>4
    <2>7. RestInv'
      BY <2>6 DEF RestInv
    <2>8. WorkInv'
      BY <2>1 DEF WorkInv
    <2> QED BY <2>7, <2>8
  <1> QED BY <1>1, <1>2

LEMMA ListFailsKept ==
    ASSUME FirewallTypeOK, ControlInv, WorkInv, RestInv, NEW a \in Syncers, ListFails(a)
    PROVE  WorkInv' /\ RestInv'
  <1>1. CASE Down
    BY <1>1, DownKept
  <1>2. CASE /\ sync' = EndSync(a)
             /\ UNCHANGED <<conf, kernel, proc, mu, cmds, applied, half>>
    <2>1. UNCHANGED <<conf, ipt, nft, proc, mu, cmds, applied, half>>
      BY <1>2 DEF kernel
    <2>2. mu # a
      BY DEF ListFails, ControlInv
    <2>3. \A b \in Syncers \ {a} : EndSync(a)[b].state = sync[b].state
      BY EndSyncShape DEF FirewallTypeOK
    <2>4. mu # Nobody => mu \in Syncers \cup {"start"}
      BY DEF FirewallTypeOK
    <2>5. mu # Nobody => Target' = Target
      BY <1>2, <2>1, <2>2, <2>3, <2>4, TargetKept
    <2> QED BY <2>1, <2>5, NeutralKept
  <1> QED BY <1>1, <1>2 DEF ListFails

-----------------------------------------------------------------------------
(* What the synchronizations know.                                         *)

LEMMA AgreesAsRead ==
    Agrees(FirewallState(rows))
  <1>1. PICK st : st = FirewallState(rows)
    OBVIOUS
  <1>2. /\ st.routed = RoutedIn(rows)
        /\ \A p \in Policies : st.members[p] =
            {d \in Devices : AccessAllowed(rows[d]) /\ p \in groups[OwnerOf[d]]}
    BY <1>1 DEF FirewallState
  <1>3. Agrees(st)
    BY <1>2 DEF Agrees
  <1> QED BY <1>1, <1>3

\* The clock only takes access away.
LEMMA AgreesKept ==
    ASSUME FirewallTypeOK, NEW st, Agrees(st), rows' = rows, groups' = groups,
           now' = now \/ now' = 1
    PROVE  Agrees(st)'
  <1>1. \A d \in Devices : AccessAllowed(rows[d])' => AccessAllowed(rows[d])
    <2> SUFFICES ASSUME NEW d \in Devices, rows[d]' # NoDevice, now' < rows[d]'.until
                 PROVE  rows[d] # NoDevice /\ now < rows[d].until
      BY DEF AccessAllowed
    <2>1. rows[d] \in Row
      BY DEF FirewallTypeOK, Table
    <2>2. rows[d].until \in 0 .. 2
      BY <2>1 DEF Row
    <2>3. now \in 0 .. 1 /\ now' < rows[d].until /\ rows[d] # NoDevice
      BY DEF FirewallTypeOK
    <2> QED BY <2>2, <2>3
  <1>2. RoutedIn(rows)' = RoutedIn(rows)
    BY DEF RoutedIn, Stored
  <1> QED BY <1>1, <1>2 DEF Agrees

LEMMA CleanKept ==
    ASSUME FirewallTypeOK, NEW y, NEW z, Clean(y), rows' = rows, groups' = groups,
           now' = now \/ now' = 1,
           \/ z.pc \in {"wait", "list"}
           \/ z.pc = y.pc /\ z.seen = y.seen /\ z.state = y.state
           \/ z.pc = "apply" /\ y.pc = "lock" /\ z.state = y.state
    PROVE  Clean(z)'
  <1>1. ASSUME z.pc = "users"
        PROVE  z.seen = rows'
    BY <1>1 DEF Clean
  <1>2. ASSUME z.pc \in {"lock", "apply"}
        PROVE  Agrees(z.state)'
    <2>1. z.state = y.state /\ Agrees(y.state)
      BY <1>2 DEF Clean
    <2>2. PICK st : st = z.state
      OBVIOUS
    <2>3. Agrees(st)'
      BY <2>1, <2>2, AgreesKept
    <2> QED BY <2>2, <2>3
  <1> QED BY <1>1, <1>2 DEF Clean

\* A step that changes nothing that is known.
LEMMA KnownKept ==
    ASSUME FirewallTypeOK, FreshInv,
           UNCHANGED <<rows, groups, proc, event, resync, sync, applied, behind>>,
           now' = now \/ now' = 1
    PROVE  FreshInv'
  <1>1. PICK y, z, st : y = sync["loop"] /\ z = sync["boot"] /\ st = applied
    OBVIOUS
  <1>2. y = sync["loop"]' /\ z = sync["boot"]' /\ st = applied'
    BY <1>1
  <1>3. Clean(y) => Clean(y)'
    BY CleanKept
  <1>4. Clean(z) => Clean(z)'
    BY CleanKept
  <1>5. Agrees(st) => Agrees(st)'
    BY AgreesKept
  <1> SUFFICES ASSUME proc = "running", ~event, ~resync
               PROVE  /\ Clean(y)'
                      /\ Clean(z)' \/ y.pc # "wait" \/ z.overtaken
                      /\ (\A a \in Syncers : sync[a].pc = "wait") /\ ~behind =>
                            Agrees(st)'
    BY <1>2 DEF FreshInv
  <1> QED BY <1>1, <1>3, <1>4, <1>5 DEF FreshInv

\* A synchronization ends: by a failure, or with its state handed over.
LEMMA EndKept ==
    ASSUME FirewallTypeOK, FreshInv, NEW a \in Syncers, sync' = EndSync(a),
           UNCHANGED <<now, rows, groups, proc, event, resync>>,
           \/ behind' = TRUE
           \/ /\ behind' = sync[a].overtaken /\ applied' = sync[a].state
              /\ sync[a].pc \in {"lock", "apply"}
    PROVE  FreshInv'
  <1> SUFFICES ASSUME proc = "running", ~event, ~resync
               PROVE  /\ Clean(sync["loop"])'
                      /\ \/ Clean(sync["boot"])' \/ sync'["loop"].pc # "wait"
                         \/ sync'["boot"].overtaken
                      /\ (\A b \in Syncers : sync'[b].pc = "wait") /\ ~behind' =>
                            Agrees(applied)'
    BY DEF FreshInv
  <1>1. /\ Clean(sync["loop"])
        /\ Clean(sync["boot"]) \/ sync["loop"].pc # "wait" \/ sync["boot"].overtaken
    BY DEF FreshInv
  <1>2. /\ sync'[a].pc = "wait" /\ sync' \in [Syncers -> Syncing]
        /\ \A b \in Syncers \ {a} :
                /\ sync'[b].pc = sync[b].pc
                /\ sync'[b].seen = sync[b].seen
                /\ sync'[b].state = sync[b].state
                /\ sync'[b].overtaken =
                    (sync[b].overtaken \/ sync[b].pc \in {"users", "lock", "apply"})
    BY EndSyncShape DEF FirewallTypeOK
  <1>3. PICK l, m, b, n : /\ l = sync["loop"] /\ m = sync'["loop"]
                          /\ b = sync["boot"] /\ n = sync'["boot"]
    OBVIOUS
  <1>4. m.pc = "wait" \/ (m.pc = l.pc /\ m.seen = l.seen /\ m.state = l.state)
    BY <1>2, <1>3 DEF Syncers
  <1>5. Clean(m)'
    BY <1>1, <1>3, <1>4, CleanKept
  <1>6. ASSUME Clean(b)
        PROVE  Clean(n)'
    <2>1. n.pc = "wait" \/ (n.pc = b.pc /\ n.seen = b.seen /\ n.state = b.state)
      BY <1>2, <1>3 DEF Syncers
    <2> QED BY <1>6, <2>1, CleanKept
  <1>7. Clean(n)' \/ m.pc # "wait" \/ n.overtaken
    <2>1. CASE a = "boot"
      <3>1. n.pc = "wait"
        BY <1>2, <1>3, <2>1
      <3> QED BY <3>1 DEF Clean
    <2>2. CASE a = "loop"
      <3>1. ~Clean(b) => b.pc \in {"users", "lock", "apply"}
        BY DEF Clean
      <3>2. n.overtaken = (b.overtaken \/ b.pc \in {"users", "lock", "apply"})
        BY <1>2, <1>3, <2>2 DEF Syncers
      <3> QED BY <1>6, <3>1, <3>2
    <2> QED BY <2>1, <2>2 DEF Syncers
  <1>8. ASSUME \A e \in Syncers : sync'[e].pc = "wait", ~behind'
        PROVE  Agrees(applied)'
    <2>1. /\ ~sync[a].overtaken /\ applied' = sync[a].state
          /\ sync[a].pc \in {"lock", "apply"}
      BY <1>8
    <2>2. Clean(sync[a])
      <3>1. CASE a = "loop"
        BY <1>1, <3>1
      <3>2. CASE a = "boot"
        <4>1. sync["loop"].pc = "wait"
          BY <1>2, <1>8, <3>2 DEF Syncers
        <4> QED BY <1>1, <2>1, <3>2, <4>1
      <3> QED BY <3>1, <3>2 DEF Syncers
    <2>3. PICK st : st = sync[a].state
      OBVIOUS
    <2>4. Agrees(st)
      BY <2>1, <2>2, <2>3 DEF Clean
    <2>5. Agrees(st)'
      BY <2>4, AgreesKept
    <2>6. st = applied'
      BY <2>1, <2>3
    <2> QED BY <2>5, <2>6
  <1>9. m = sync["loop"]' /\ n = sync["boot"]'
    BY <1>3
  <1> QED BY <1>5, <1>7, <1>8, <1>9

\* A synchronization goes on: it knows no less than before.
LEMMA GoesOn ==
    ASSUME FirewallTypeOK, FreshInv, NEW a \in Syncers,
           UNCHANGED <<now, rows, groups, proc, event, resync>>,
           \A b \in Syncers \ {a} : sync'[b] = sync[b],
           sync'[a].pc # "wait", sync[a].pc # "wait",
           sync'[a].overtaken = sync[a].overtaken,
           Clean(sync[a]) => Clean(sync[a])'
    PROVE  FreshInv'
  <1> SUFFICES ASSUME proc = "running", ~event, ~resync
               PROVE  /\ Clean(sync["loop"])'
                      /\ \/ Clean(sync["boot"])' \/ sync'["loop"].pc # "wait"
                         \/ sync'["boot"].overtaken
                      /\ ~ \A b \in Syncers : sync'[b].pc = "wait"
    BY DEF FreshInv
  <1>1. /\ Clean(sync["loop"])
        /\ Clean(sync["boot"]) \/ sync["loop"].pc # "wait" \/ sync["boot"].overtaken
    BY DEF FreshInv
  <1>2. ASSUME NEW b \in Syncers \ {a}, Clean(sync[b])
        PROVE  Clean(sync[b])'
    <2>1. PICK y : y = sync[b]
      OBVIOUS
    <2>2. Clean(y)'
      BY <1>2, <2>1, CleanKept
    <2>3. y = sync'[b]
      BY <2>1
    <2> QED BY <2>2, <2>3
  <1>3. CASE a = "loop"
    BY <1>1, <1>2, <1>3 DEF Syncers
  <1>4. CASE a = "boot"
    BY <1>1, <1>2, <1>4 DEF Syncers
  <1> QED BY <1>3, <1>4 DEF Syncers

LEMMA ListDevicesFresh ==
    ASSUME FirewallTypeOK, FreshInv, NEW a \in Syncers, ListDevices(a)
    PROVE  FreshInv'
  <1>1. sync \in [Syncers -> Syncing] /\ sync[a] \in Syncing /\ sync[a].pc = "list"
    BY DEF FirewallTypeOK, ListDevices
  <1>2. PICK y : y = [sync[a] EXCEPT !.pc = "users", !.seen = rows]
    OBVIOUS
  <1>3. y.pc = "users" /\ y.seen = rows /\ y.overtaken = sync[a].overtaken
    BY <1>1, <1>2 DEF Syncing
  <1>4. sync' = [sync EXCEPT ![a] = y]
    BY <1>1, <1>2 DEF ListDevices
  <1>5. UNCHANGED <<now, rows, groups, proc, event, resync>>
    BY DEF ListDevices, tables
  <1>6. Clean(y)'
    BY <1>3, <1>5 DEF Clean
  <1>7. /\ \A b \in Syncers \ {a} : sync'[b] = sync[b]
        /\ y = sync[a]' /\ y = sync'[a]
    BY <1>1, <1>4
  <1> QED BY <1>1, <1>3, <1>5, <1>6, <1>7, GoesOn

LEMMA ListUsersFresh ==
    ASSUME FirewallTypeOK, FreshInv, NEW a \in Syncers, ListUsers(a)
    PROVE  FreshInv'
  <1>1. /\ sync'[a].pc = "lock" /\ sync'[a].state = FirewallState(sync[a].seen)
        /\ sync'[a].overtaken = sync[a].overtaken
        /\ \A b \in Syncers \ {a} : sync'[b] = sync[b]
    BY ListUsersShape
  <1>2. sync[a].pc = "users" /\ UNCHANGED <<now, rows, groups, proc, event, resync>>
    BY DEF ListUsers, tables
  <1>3. ASSUME Clean(sync[a])
        PROVE  Clean(sync[a])'
    <2>1. sync[a].seen = rows
      BY <1>2, <1>3 DEF Clean
    <2>2. PICK st : st = sync'[a].state
      OBVIOUS
    <2>3. st = FirewallState(rows)
      BY <1>1, <2>1, <2>2
    <2>4. Agrees(st)
      BY <2>3, AgreesAsRead
    <2>5. Agrees(st)'
      BY <1>2, <2>4, AgreesKept
    <2>6. PICK y : y = sync'[a]
      OBVIOUS
    <2>7. y.pc = "lock" /\ y.state = st /\ y = sync[a]'
      BY <1>1, <2>2, <2>6
    <2>8. Clean(y)'
      BY <2>5, <2>7 DEF Clean
    <2> QED BY <2>7, <2>8
  <1> QED BY <1>1, <1>2, <1>3, GoesOn

LEMMA HandOverFresh ==
    ASSUME FirewallTypeOK, ControlInv, FreshInv, NEW a \in Syncers, HandOver(a)
    PROVE  FreshInv'
  <1>1. /\ sync[a].pc = "lock"
        /\ UNCHANGED <<conf, tables, proc, event, resync, applied, writes, starts, half>>
    BY HandOverShape
  <1>2. UNCHANGED <<now, rows, groups, proc, event, resync>> /\ applied' = applied
    BY <1>1 DEF tables
  <1>3. CASE Same(a)
    BY <1>1, <1>2, <1>3, EndKept DEF Same
  <1>4. CASE Begin(a)
    <2>1. /\ sync'[a].pc = "apply" /\ sync'[a].state = sync[a].state
          /\ sync'[a].overtaken = sync[a].overtaken
          /\ \A b \in Syncers \ {a} : sync'[b] = sync[b]
      BY <1>1, <1>4, BeginShape
    <2>2. PICK y, z : y = sync[a] /\ z = sync'[a]
      OBVIOUS
    <2>3. Clean(y) => Clean(z)'
      BY <1>1, <1>2, <2>1, <2>2, CleanKept
    <2>4. z = sync[a]'
      BY <2>2
    <2> QED BY <1>1, <1>2, <2>1, <2>2, <2>3, <2>4, GoesOn
  <1> QED BY <1>3, <1>4, HandOverShape

LEMMA AppliedFresh ==
    ASSUME FirewallTypeOK, ControlInv, FreshInv, NEW a \in Syncers, Applied(a)
    PROVE  FreshInv'
  <1>1. /\ sync' = EndSync(a) /\ UNCHANGED <<now, rows, groups, proc, event, resync>>
        /\ behind' = sync[a].overtaken /\ applied' = sync[a].state /\ mu = a
    BY DEF Applied, tables
  <1>2. sync[a].pc = "apply"
    BY <1>1 DEF ControlInv
  <1> QED BY <1>1, <1>2, EndKept

\* A process that does not run knows nothing.
LEMMA NotRunningFresh ==
    ASSUME proc' # "running" \/ event' \/ resync'
    PROVE  FreshInv'
  BY DEF FreshInv

LEMMA StartedFresh ==
    ASSUME FirewallTypeOK, ControlInv, Started
    PROVE  FreshInv'
  <1>1. PICK y, l : y = AtRest("list") /\ l = sync["loop"]
    OBVIOUS
  <1>2. y.pc = "list"
    BY <1>1, RestTyped
  <1>3. sync \in [Syncers -> Syncing] /\ sync' = [sync EXCEPT !["boot"] = y]
    BY <1>1 DEF Started, FirewallTypeOK
  <1>4. y = sync["boot"]' /\ l = sync["loop"]' /\ y = sync'["boot"]
    BY <1>1, <1>3 DEF Syncers
  <1>5. l.pc = "wait"
    BY <1>1 DEF Started, ControlInv, Syncers
  <1>6. Clean(y)' /\ Clean(l)'
    BY <1>2, <1>5 DEF Clean
  <1>7. ~ \A a \in Syncers : sync'[a].pc = "wait"
    BY <1>2, <1>4 DEF Syncers
  <1> QED BY <1>4, <1>6, <1>7 DEF FreshInv

LEMMA ReceiveFresh ==
    ASSUME FirewallTypeOK, Receive
    PROVE  FreshInv'
  <1>1. PICK y : y = AtRest("list")
    OBVIOUS
  <1>2. y.pc = "list"
    BY <1>1, RestTyped
  <1>3. sync \in [Syncers -> Syncing] /\ sync' = [sync EXCEPT !["loop"] = y]
    BY <1>1 DEF Receive, FirewallTypeOK
  <1>4. y = sync["loop"]' /\ y = sync'["loop"]
    BY <1>3 DEF Syncers
  <1>5. Clean(y)' /\ y.pc # "wait"
    BY <1>2 DEF Clean
  <1>6. ~ \A a \in Syncers : sync'[a].pc = "wait"
    BY <1>2, <1>4 DEF Syncers
  <1> QED BY <1>4, <1>5, <1>6 DEF FreshInv

LEMMA CommandFailsFresh ==
    ASSUME FirewallTypeOK, ControlInv, FreshInv, CommandFails
    PROVE  FreshInv'
  <1>1. CASE mu = "start"
    <2>1. Down
      BY <1>1, CommandFailsShape
    <2> QED BY <2>1, NotRunningFresh DEF Down
  <1>2. CASE mu # "start"
    <2>1. /\ mu \in Syncers /\ sync' = EndSync(mu) /\ behind' = TRUE
          /\ UNCHANGED <<conf, now, rows, groups, ipt, nft, proc, event, resync,
                         applied, writes, starts>>
      BY <1>2, CommandFailsShape
    <2>2. PICK a \in Syncers : a = mu
      BY <2>1
    <2>3. sync' = EndSync(a)
      BY <2>1, <2>2
    <2> QED BY <2>1, <2>3, EndKept
  <1> QED BY <1>1, <1>2

LEMMA ListFailsFresh ==
    ASSUME FirewallTypeOK, FreshInv, NEW a \in Syncers, ListFails(a)
    PROVE  FreshInv'
  <1>1. CASE Down
    BY <1>1, NotRunningFresh DEF Down
  <1>2. CASE /\ sync' = EndSync(a) /\ behind' = TRUE
             /\ UNCHANGED <<tables, proc, event, resync>>
    BY <1>2, EndKept DEF tables
  <1> QED BY <1>1, <1>2 DEF ListFails

-----------------------------------------------------------------------------
(* The invariant holds.                                                    *)

LEMMA InitInv ==
    ASSUME Init
    PROVE  FirewallInv
  <1>1. PICK t \in Tables : rows = t.rows /\ groups = t.groups
    BY DEF Init
  <1>2. rows \in Table /\ groups \in [Owners -> SUBSET Policies]
    BY <1>1, TablesAssumption DEF Table
  <1>3. PICK y : y = AtRest("wait")
    OBVIOUS
  <1>4. /\ y \in Syncing /\ y.pc = "wait" /\ NoState \in State
        /\ NoChain \in Chain /\ NoTable \in NftTable
    BY <1>3, RestTyped
  <1>5. sync = [a \in Syncers |-> y]
    BY <1>3 DEF Init
  <1>6. FirewallTypeOK
    <2>1. sync \in [Syncers -> Syncing] /\ ipt \in [Families -> Chain] /\ nft \in NftTable
      BY <1>4, <1>5 DEF Init
    <2>2. cmds \in Seq(Command) /\ applied \in State
      BY <1>4 DEF Init
    <2>3. now = 0 /\ writes = 0 /\ fails = 0 /\ starts = 0
      BY DEF Init
    <2>4. now \in 0 .. 1 /\ writes \in Nat /\ fails \in Nat /\ starts \in Nat
      BY <2>3
    <2>5. event \in BOOLEAN /\ resync \in BOOLEAN /\ behind \in BOOLEAN /\ half \in BOOLEAN
      BY Zenon DEF Init
    <2>6. /\ conf \in Confs \cup {Unconfigured} /\ proc \in {"down", "starting", "running"}
          /\ mu \in Syncers \cup {"start", Nobody}
      BY DEF Init
    <2> QED BY <1>2, <2>1, <2>2, <2>4, <2>5, <2>6 DEF FirewallTypeOK
  <1>7. ControlInv
    BY <1>4, <1>5, FirewallAssumption DEF Init, ControlInv, Syncers
  <1>8. WorkInv /\ RestInv /\ FreshInv
    BY DEF Init, WorkInv, RestInv, FreshInv
  <1> QED BY <1>6, <1>7, <1>8 DEF FirewallInv

Writes ==
    \/ \E d \in Devices, rs \in SUBSET Routable :
        AddDevice(d, rs) \/ SetDeviceRoutes(d, rs)
    \/ \E d \in Devices, until \in 0 .. Never : SetDeviceAccess(d, until)
    \/ \E d \in Devices : DeleteDevice(d)
    \/ \E o \in Mapped, ps \in Grants : SignIn(o, ps)

LEMMA NextInv ==
    ASSUME FirewallInv, Next
    PROVE  FirewallInv'
  <1> USE DEF FirewallInv
  <1>1. CASE Writes
    <2>1. PICK table \in Table, users \in [Owners -> SUBSET Policies] : Write(table, users)
      BY <1>1, WriteShape DEF Writes
    <2>2. FirewallTypeOK' /\ ControlInv'
      BY <2>1, WriteTyped
    <2>3. WorkInv' /\ RestInv'
      BY <2>1, QuietKept
    <2>4. FreshInv'
      BY <2>1, NotRunningFresh DEF Write
    <2> QED BY <2>2, <2>3, <2>4
  <1>2. CASE Tick
    <2>1. UNCHANGED <<rows, groups, proc, event, resync, sync, applied, behind>> /\ now' = 1
      BY <1>2 DEF Tick
    <2>2. FreshInv'
      BY <2>1, KnownKept
    <2> QED BY <1>2, <2>2, TickTyped, QuietKept
  <1>3. CASE Start
    <2>1. FreshInv'
      BY <1>3, NotRunningFresh DEF Start
    <2> QED BY <1>3, <2>1, StartTyped, StartKept
  <1>4. CASE Started
    BY <1>4, StartedTyped, StartedKept, StartedFresh
  <1>5. CASE Notified
    <2>1. FreshInv'
      BY <1>5, NotRunningFresh DEF Notified
    <2> QED BY <1>5, <2>1, NotifiedTyped, QuietKept
  <1>6. CASE Receive
    BY <1>6, ReceiveTyped, QuietKept, ReceiveFresh
  <1>7. CASE RunCommand
    <2>1. UNCHANGED <<rows, groups, proc, event, resync, sync, applied, behind, now>>
      BY <1>7 DEF RunCommand, tables
    <2>2. FreshInv'
      BY <2>1, KnownKept
    <2> QED BY <1>7, <2>2, RunTyped, RunKept
  <1>8. CASE CommandFails
    BY <1>8, CommandFailsTyped, CommandFailsKept, CommandFailsFresh
  <1>9. CASE Stop
    <2>1. Down
      BY <1>9 DEF Stop
    <2>2. FreshInv'
      BY <2>1, NotRunningFresh DEF Down
    <2> QED BY <1>9, <2>1, <2>2, StopTyped, DownKept
  <1>10. ASSUME NEW a \in Syncers, SyncStep(a) \/ ListFails(a)
         PROVE  FirewallInv'
    <2>1. CASE ListDevices(a)
      BY <2>1, ListDevicesTyped, QuietKept, ListDevicesFresh
    <2>2. CASE ListUsers(a)
      BY <2>2, ListUsersTyped, QuietKept, ListUsersFresh
    <2>3. CASE HandOver(a)
      BY <2>3, HandOverTyped, HandOverKept, HandOverFresh
    <2>4. CASE Applied(a)
      BY <2>4, AppliedTyped, AppliedKept, AppliedFresh
    <2>5. CASE ListFails(a)
      BY <2>5, ListFailsTyped, ListFailsKept, ListFailsFresh
    <2> QED BY <1>10, <2>1, <2>2, <2>3, <2>4, <2>5 DEF SyncStep
  <1>11. \/ Writes \/ Tick \/ Start \/ Started \/ Notified \/ Receive
         \/ RunCommand \/ CommandFails \/ Stop
         \/ \E a \in Syncers : SyncStep(a) \/ ListFails(a)
    BY DEF Next, Writes
  <1> QED BY <1>1, <1>2, <1>3, <1>4, <1>5, <1>6, <1>7, <1>8, <1>9, <1>10, <1>11

LEMMA StutterInv ==
    ASSUME FirewallInv, UNCHANGED vars
    PROVE  FirewallInv'
  <1> USE DEF FirewallInv
  <1>1. UNCHANGED <<conf, now, rows, groups, ipt, nft, proc, event, resync, sync, mu,
                    cmds, applied, writes, fails, starts, behind, half>>
    BY DEF vars
  <1>2. FirewallTypeOK'
    BY <1>1 DEF FirewallTypeOK
  <1>3. ControlInv'
    BY <1>1 DEF ControlInv
  <1>4. Target' = Target
    BY <1>1 DEF Target
  <1>5. WorkInv' /\ RestInv'
    BY <1>1, <1>4, NeutralKept
  <1>6. FreshInv'
    BY <1>1, KnownKept
  <1> QED BY <1>2, <1>3, <1>5, <1>6

LEMMA Inductive == Spec => []FirewallInv
  <1>1. Init => FirewallInv
    BY InitInv
  <1>2. FirewallInv /\ [Next]_vars => FirewallInv'
    BY NextInv, StutterInv
  <1> QED BY <1>1, <1>2, PTL DEF Spec

\* Every variable keeps its type: the lists of commands that ConfigureForwarding
\* works off, what both backends leave in the kernel, and what the
\* synchronizations carry from one of their steps to the next.
THEOREM FirewallTypes == Spec => []FirewallTypeOK
  <1>1. FirewallInv => FirewallTypeOK
    BY DEF FirewallInv
  <1> QED BY <1>1, Inductive, PTL

\* No moment without rules: from the start of the server on, and through every
\* resynchronization, failure and restart, what neither vpn.allowedIPs, nor a
\* policy, nor a route opens is closed to every client address.
THEOREM NothingOpened == Spec => []NeverOpen
  <1>1. FirewallInv => NeverOpen
    BY InvNeverOpen DEF FirewallInv
  <1> QED BY <1>1, Inductive, PTL

\* Whatever syncFirewallState and resyncLoop read, in whatever order with the
\* changes of the tables: once everything is worked off, each device that may
\* connect reaches exactly the networks that the configuration gives it.
THEOREM RulesAlwaysFollow == Spec => []RulesFollow
  <1>1. FirewallInv => RulesFollow
    BY InvRulesFollow DEF FirewallInv
  <1> QED BY <1>1, Inductive, PTL

\* The answers of the networks that a device may reach come back to it: by
\* masquerading exactly where NAT is configured and the gateway is known, and by a
\* rule that accepts them where there is no NAT.
THEOREM AnswersAlwaysReturn == Spec => []AnswersReturn
  <1>1. FirewallInv => AnswersReturn
    BY InvAnswersReturn DEF FirewallInv
  <1> QED BY <1>1, Inductive, PTL
=============================================================================
