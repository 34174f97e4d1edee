------------------------------- MODULE Netpol -------------------------------
(***************************************************************************)
(* What internal/netpol adds to one node's table for the NetworkPolicies   *)
(* of the cluster, from the API objects that internal/controller converts  *)
(* for it to what the forward-hook chains of internal/nftables then do     *)
(* with a packet.  Add takes the policies one by one; when it is through,  *)
(* the table has to admit what Kubernetes says the objects admit.          *)
(*                                                                         *)
(* An nft match is the sets of source addresses, destination addresses and *)
(* destination ports it lets through, with the family it is about.  A      *)
(* prefix is the set of its addresses, which is what masking leaves of it, *)
(* and a label selector the set of labels it asks for.                     *)
(***************************************************************************)
EXTENDS Naturals, SequencesExt

CONSTANTS
  NodeName,    \* the node the table is rendered for
  Addr, V6,    \* addresses, and which of them are IPv6
  Port,        \* port numbers
  PodObject,   \* PodObject[x]: what pod x may be in the API
  NsLabels,    \* NsLabels[ns]: the labels of namespace ns
  Policies,    \* sets of NetworkPolicies the cluster may hold
  None,        \* a field that is not set
  Unreadable   \* a selector, a prefix or an address that does not parse

Protocol  == {"TCP", "UDP"}
Direction == {"Ingress", "Egress"}
Family    == {"v4", "v6"}
Of(f)     == IF f = "v6" THEN Addr \cap V6 ELSE Addr \ V6

VARIABLES
  pods,      \* the Pods of the API
  policies,  \* the NetworkPolicies of the API
  todo,      \* the policies still to render, as netpol has them
  dispatch,  \* the dispatch chain of each direction, policy chains in place
  isolating, \* builder.isolated
  isolated,  \* the table's isolated sets
  pc         \* "listed", "adding", "done" or "refused"

vars == <<pods, policies, todo, dispatch, isolating, isolated, pc>>

-----------------------------------------------------------------------------
(***************************************************************************)
(* The values of internal/netpol.  0 and "" are what is left out.          *)
(***************************************************************************)
Selector    == {None, Unreadable} \cup SUBSET STRING
NetpolPort  == [protocol : Protocol \cup {""}, number : 0 .. 65535, name : STRING,
                endPort : 0 .. 65535]
NetpolPeer  == [podSelector : Selector, namespaceSelector : Selector,
                ipBlock : {None} \cup [cidr : SUBSET Addr, except : SUBSET Addr]]
NetpolRule  == [peers : SUBSET NetpolPeer, ports : SUBSET NetpolPort]
NetpolPolicy == [name : Nat, ns : STRING, podSelector : Selector, types : SUBSET Direction,
                 rules : [Direction -> SUBSET NetpolRule]]
NetpolPod   == [ns : STRING, node : {NodeName} \cup {pods[x].node : x \in DOMAIN pods},
                labels : SUBSET STRING, hostNetwork : BOOLEAN, terminated : BOOLEAN,
                ips : SUBSET Addr,
                ports : SUBSET [name : STRING \ {""}, port : 1 .. 65535,
                                protocol : Protocol \cup {""}]]

-----------------------------------------------------------------------------
(***************************************************************************)
(* The pods a policy can name.                                             *)
(***************************************************************************)
\* The restart policy lost on the way into the cache.
KeepPorts_PortsOnly(c) == [always |-> FALSE, ports |-> c.ports]

KeepPorts(c) == [always |-> c.always, ports |-> c.ports]

\* StripPod: what the cache keeps of a pod.
StripPod(o) ==
  [ns |-> o.ns, node |-> o.node, labels |-> o.labels, hostNetwork |-> o.hostNetwork,
   phase |-> o.phase, ips |-> o.ips, containers |-> {KeepPorts(c) : c \in o.containers},
   initContainers |-> {KeepPorts(c) : c \in o.initContainers}]

ContainersThatServe(o) == o.containers \cup {c \in o.initContainers : c.always}

PortNumber(n) == 1 <= n /\ n <= 65535

\* fromPod: what does not parse is left out.
FromPod(o) ==
  [ns |-> o.ns, node |-> o.node, labels |-> o.labels, hostNetwork |-> o.hostNetwork,
   terminated |-> o.phase \in {"Succeeded", "Failed"}, ips |-> o.ips \ {Unreadable},
   ports |-> {c \in UNION {c.ports : c \in ContainersThatServe(o)} :
                c.name # "" /\ PortNumber(c.port)}]

\* usablePods: a pod on the host network has the node's address, and one that
\* finished no longer has its own.
UsablePods(ps) ==
  {o \in {FromPod(StripPod(ps[x])) : x \in DOMAIN ps} :
     ~ o.hostNetwork /\ ~ o.terminated /\ o.ips # {}}

Selects(selector, labels) == selector \subseteq labels

SelectedPods(q) ==
  {o \in UsablePods(pods) :
     o.ns = q.ns /\ o.node = NodeName /\ Selects(q.podSelector, o.labels)}

\* Numbers cut to 16 bits unseen.
Convertible_Unseen(r) ==
  \A peer \in r.peers :
    peer.ipBlock # None => Unreadable \notin {peer.ipBlock.cidr, peer.ipBlock.except}

\* fromIPBlock, and the numbers of fromRule: values netpol has no form for.
Convertible(r) ==
  /\ \A peer \in r.peers :
       peer.ipBlock # None => Unreadable \notin {peer.ipBlock.cidr, peer.ipBlock.except}
  /\ \A p \in r.ports : /\ p.name # "" \/ p.number = None \/ PortNumber(p.number)
                        /\ p.endPort = None \/ PortNumber(p.endPort)

UInt16(n) == IF n = None THEN 0 ELSE n % 65536

\* fromRule, of one that converts.
FromRule(r) ==
  [r EXCEPT !.ports = {[p EXCEPT !.protocol = IF @ = None THEN "" ELSE @,
                                 !.number = UInt16(@), !.endPort = UInt16(@)] : p \in @}]

FromNetworkPolicy(q) ==
  [q EXCEPT !.rules = [d \in Direction |-> {FromRule(r) : r \in @[d]}]]

\* governs: absent policyTypes mean ingress always, egress if it has rules.
Governs(q, d) ==
  IF q.types # {} THEN d \in q.types ELSE d = "Ingress" \/ q.rules["Egress"] # {}

-----------------------------------------------------------------------------
(***************************************************************************)
(* Matches.                                                                *)
(***************************************************************************)
Everything == [fam |-> "both", saddr |-> Addr, daddr |-> Addr, dport |-> Protocol \X Port]

PeerAddr(d) == IF d = "Ingress" THEN "saddr" ELSE "daddr"
SelfAddr(d) == IF d = "Ingress" THEN "daddr" ELSE "saddr"

Joined(m, o, fam) ==
  [fam |-> fam, saddr |-> m.saddr \cap o.saddr, daddr |-> m.daddr \cap o.daddr,
   dport |-> m.dport \cap o.dport]

And_AnyFamily(m, o) == {Joined(m, o, IF m.fam = "both" THEN o.fam ELSE m.fam)}

\* match.and: no rule where the two are about different families.
And(m, o) ==
  IF m.fam = o.fam \/ o.fam = "both" THEN {Joined(m, o, m.fam)}
  ELSE IF m.fam = "both" THEN {Joined(m, o, o.fam)} ELSE {}

\* podSets and podAddrs.matches: one match per family the pods have an
\* address of.
PodMatches(field, ps) ==
  LET addrs == UNION {o.ips : o \in ps} IN
  {[Everything EXCEPT !.fam = f, ![field] = addrs \cap Of(f)] :
     f \in {f \in Family : addrs \cap Of(f) # {}}}

PeerPods(q, peer) ==
  {o \in UsablePods(pods) :
     /\ peer.podSelector = None \/ Selects(peer.podSelector, o.labels)
     /\ IF peer.namespaceSelector = None THEN o.ns = q.ns
        ELSE o.ns \in DOMAIN NsLabels /\ Selects(peer.namespaceSelector, NsLabels[o.ns])}

IsEvery(peer) == peer.podSelector = None /\ peer.namespaceSelector = None

IPBlockMatch(d, block) ==
  [Everything EXCEPT !.fam = IF block.cidr \subseteq V6 THEN "v6" ELSE "v4",
              ![PeerAddr(d)] = block.cidr \ block.except]

\* peer: the matches, and the pods a named port of the entry may be on.
PeerMatches(q, d, peer) ==
  IF peer.ipBlock # None THEN {IPBlockMatch(d, peer.ipBlock)}
  ELSE IF IsEvery(peer) THEN {Everything}
  ELSE PodMatches(PeerAddr(d), PeerPods(q, peer))

NamedBy(q, peer) ==
  IF peer.ipBlock # None THEN {}
  ELSE IF IsEvery(peer) THEN UsablePods(pods) ELSE PeerPods(q, peer)

\* An empty protocol is TCP, in a policy's entry and in a container's port.
ProtocolOf(x) == IF x.protocol = "" THEN "TCP" ELSE x.protocol

\* A number that any receiver gives the name, opened on all of them.
NamedPort_OnAll(port, receivers) ==
  {[m EXCEPT !.dport = {<<ProtocolOf(port), c.port>>}] :
     m \in PodMatches("daddr", receivers),
     c \in {c \in UNION {o.ports : o \in receivers} :
              c.name = port.name /\ ProtocolOf(c) = ProtocolOf(port)}}

\* namedPort: each number with the addresses of the pods that gave it.
NamedPort(port, receivers) ==
  LET gives(o, n) == \E c \in o.ports :
        c.name = port.name /\ ProtocolOf(c) = ProtocolOf(port) /\ c.port = n
  IN  UNION {{[m EXCEPT !.dport = {<<ProtocolOf(port), n>>}] :
                m \in PodMatches("daddr", {o \in receivers : gives(o, n)})} : n \in Port}

\* ports, one entry: by name, every port of the protocol, a range, a number.
PortMatches(port, receivers) ==
  LET numbers == IF port.number = 0 THEN Port
                 ELSE IF port.endPort > port.number
                 THEN {n \in Port : port.number <= n /\ n <= port.endPort}
                 ELSE {port.number}
  IN  IF port.name # "" THEN NamedPort(port, receivers)
      ELSE {[Everything EXCEPT !.dport = {<<ProtocolOf(port), n>> : n \in numbers}]}

-----------------------------------------------------------------------------
(***************************************************************************)
(* Add.                                                                    *)
(***************************************************************************)
NoPeer == [podSelector |-> None, namespaceSelector |-> None, ipBlock |-> None]

\* directionRules: for each entry, each peer with each port.
DirectionRules(q, d) ==
  LET peers(r) == IF r.peers = {} THEN {NoPeer} ELSE r.peers
      receivers(peer) == IF d = "Ingress" THEN SelectedPods(q) ELSE NamedBy(q, peer)
      ports(r, peer) == IF r.ports = {} THEN {Everything}
                        ELSE UNION {PortMatches(p, receivers(peer)) : p \in r.ports}
      of(r, peer) == UNION {And(pm, qm) : pm \in PeerMatches(q, d, peer),
                                          qm \in ports(r, peer)}
  IN  UNION {UNION {of(r, peer) : peer \in peers(r)} : r \in q.rules[d]}

Drop == [verdict |-> "drop", match |-> Everything, chain |-> {}]

\* The jumps to a policy's chain, one per family of the pods it selects.
Jumps(ms, chain) ==
  SetToSeq({[verdict |-> "jump", match |-> m, chain |-> chain] : m \in ms})

InsertBeforeLast_Appended(rules, more) == rules \o more

InsertBeforeLast(rules, more) ==
  SubSeq(rules, 1, Len(rules) - 1) \o more \o <<rules[Len(rules)]>>

\* A range of one port taken for one upside down.
Faulty_OffByOne(q, d) ==
  \E r \in q.rules[d] :
    \/ \E peer \in r.peers :
         peer.ipBlock = None /\ Unreadable \in {peer.podSelector, peer.namespaceSelector}
    \/ \E p \in r.ports : p.name = "" /\ p.number # 0 /\ p.endPort # 0 /\ p.endPort <= p.number

\* directionRules fails on a selector that does not parse and a range upside down.
Faulty(q, d) ==
  \E r \in q.rules[d] :
    \/ \E peer \in r.peers :
         peer.ipBlock = None /\ Unreadable \in {peer.podSelector, peer.namespaceSelector}
    \/ \E p \in r.ports : p.name = "" /\ p.number # 0 /\ p.endPort # 0 /\ p.endPort < p.number

\* A policy that selects no pod of this node is looked into no further than
\* its selector.
Refused(q) ==
  q.podSelector # Unreadable =>
    SelectedPods(q) # {} /\ \E d \in Direction : Governs(q, d) /\ Faulty(q, d)

\* The policies are taken in the order of their names.
First(q) == q \in todo /\ \A r \in todo : q.name <= r.name

\* render: every policy listed is converted before Add, or there is no table.
Convert ==
  /\ pc = "listed"
  /\ IF \A q \in policies, d \in Direction : \A r \in q.rules[d] : Convertible(r)
     THEN pc' = "adding" /\ todo' = {FromNetworkPolicy(q) : q \in policies}
     ELSE pc' = "refused" /\ UNCHANGED todo
  /\ UNCHANGED <<pods, policies, dispatch, isolating, isolated>>

AddPolicy(q) ==
  /\ pc = "adding" /\ First(q) /\ ~ Refused(q)
  /\ todo' = todo \ {q}
  /\ LET on == {d \in Direction : SelectedPods(q) # {} /\ Governs(q, d)} IN
     /\ dispatch' = [d \in Direction |->
          IF d \notin on THEN dispatch[d]
          ELSE InsertBeforeLast(dispatch[d],
                 Jumps(PodMatches(SelfAddr(d), SelectedPods(q)), DirectionRules(q, d)))]
     /\ isolating' = [d \in Direction |->
          IF d \notin on THEN isolating[d]
          ELSE isolating[d] \cup UNION {o.ips : o \in SelectedPods(q)}]
  /\ UNCHANGED <<pods, policies, isolated, pc>>

\* The error ends Add, and the node keeps the table it has.
RefusePolicy(q) ==
  /\ pc = "adding" /\ First(q) /\ Refused(q)
  /\ pc' = "refused"
  /\ UNCHANGED <<pods, policies, todo, dispatch, isolating, isolated>>

\* fillIsolated, the end of Add: the isolated sets of both families.
FillIsolated ==
  /\ pc = "adding" /\ todo = {} /\ pc' = "done"
  /\ isolated' = isolating
  /\ UNCHANGED <<pods, policies, todo, dispatch, isolating>>

Running(o) == ~ o.hostNetwork /\ o.phase \notin {"Succeeded", "Failed"}

\* The table as nftables.Render leaves it.  Pods that run hold their addresses
\* alone.
Init ==
  /\ pods \in {f \in [DOMAIN PodObject -> UNION {PodObject[x] : x \in DOMAIN PodObject}] :
       /\ \A x \in DOMAIN f : f[x] \in PodObject[x]
       /\ \A o, p \in {f[x] : x \in DOMAIN f} :
            o # p /\ Running(o) /\ Running(p) => o.ips \cap p.ips \cap Addr = {}}
  /\ policies \in Policies /\ todo = {}
  /\ dispatch = [d \in Direction |-> <<Drop>>]
  /\ isolating = [d \in Direction |-> {}] /\ isolated = [d \in Direction |-> {}]
  /\ pc = "listed"

Next == Convert \/ FillIsolated \/ \E q \in todo : AddPolicy(q) \/ RefusePolicy(q)

Spec == Init /\ [][Next]_vars

-----------------------------------------------------------------------------
(***************************************************************************)
(* What the rendered chains do with a packet [src, dst, protocol, port,    *)
(* kind], whose kind is "new", "reply" or "nd" (neighbour discovery).      *)
(***************************************************************************)
Packet == [src : Addr, dst : Addr, protocol : Protocol, port : Port,
           kind : {"new", "reply", "nd"}]

Matches(m, p) ==
  p.src \in m.saddr /\ p.dst \in m.daddr /\ <<p.protocol, p.port>> \in m.dport

\* Evaluation stops at the first rule with a verdict: a jump whose chain
\* accepts, or the drop.
DispatchAccepts(d, p) ==
  \E i \in DOMAIN dispatch[d] :
    /\ Matches(dispatch[d][i].match, p) /\ \E m \in dispatch[d][i].chain : Matches(m, p)
    /\ \A j \in 1 .. i : dispatch[d][j].verdict # "drop"

SelfOf(d, p) == IF d = "Ingress" THEN p.dst ELSE p.src

\* podChain: replies and neighbour discovery pass, then the isolated pods are
\* dispatched; the rest falls to "policy accept".
PodChainAccepts(d, p) ==
  p.kind # "new" \/ SelfOf(d, p) \notin isolated[d] \/ DispatchAccepts(d, p)

-----------------------------------------------------------------------------
(***************************************************************************)
(* Properties.                                                             *)
(***************************************************************************)
\* What reaches netpol are values of its types, and each dispatch chain ends in
\* its one drop, whatever was put before it.
TypeOK ==
  /\ \A d \in Direction : /\ isolated[d] \subseteq Addr /\ isolating[d] \subseteq Addr
                          /\ dispatch[d] # <<>> /\ dispatch[d][Len(dispatch[d])] = Drop
  /\ todo \subseteq NetpolPolicy /\ UsablePods(pods) \subseteq NetpolPod
  /\ pc \in {"listed", "adding", "done", "refused"}

\* Kubernetes, pod by pod: what the policies admit for the running pod o at
\* one end of packet p.
At(a) == {o \in {pods[x] : x \in DOMAIN pods} : Running(o) /\ a \in o.ips}

Isolates(q, d, o) ==
  /\ o.ns = q.ns /\ q.podSelector \subseteq o.labels
  /\ d \in (IF q.types # {} THEN q.types
            ELSE {"Ingress"} \cup IF q.rules["Egress"] = {} THEN {} ELSE {"Egress"})

AdmitsPeer(q, peer, a) ==
  \/ peer.ipBlock # None /\ a \in peer.ipBlock.cidr /\ a \notin peer.ipBlock.except
  \/ peer.ipBlock = None /\ \E o \in At(a) :
       /\ peer.podSelector = None \/ peer.podSelector \subseteq o.labels
       /\ o.ns \in {ns \in DOMAIN NsLabels : IF peer.namespaceSelector = None THEN ns = q.ns
                                             ELSE peer.namespaceSelector \subseteq NsLabels[ns]}
  \/ peer = NoPeer

\* A sidecar is an init container that is always restarted.
Serving(o) == o.containers \cup {c \in o.initContainers : c.always}

\* A named port is the one the pod that receives the packet declares; it is
\* not looked for where the peer of an egress entry is a range of addresses.
AdmitsPort(port, p, byAddress) ==
  /\ port.protocol = p.protocol \/ (port.protocol = None /\ p.protocol = "TCP")
  /\ IF port.name # ""
     THEN /\ ~ byAddress
          /\ \E o \in At(p.dst) : \E c \in Serving(o) : \E e \in c.ports :
               /\ e.name = port.name /\ e.port = p.port
               /\ e.protocol = p.protocol \/ (e.protocol = "" /\ p.protocol = "TCP")
     ELSE \/ port.number \in {None, p.port}
          \/ port.endPort # None /\ port.number < p.port /\ p.port <= port.endPort

Admits(q, d, p) ==
  \E r \in q.rules[d] : \E peer \in (IF r.peers = {} THEN {NoPeer} ELSE r.peers) :
    /\ AdmitsPeer(q, peer, IF d = "Ingress" THEN p.src ELSE p.dst)
    /\ r.ports = {} \/ \E port \in r.ports :
         AdmitsPort(port, p, d = "Egress" /\ peer.ipBlock # None)

\* The finished table drops exactly the new connections that the policies of
\* the cluster deny a pod of this node, in that pod's direction: those that
\* isolate the pod and of which none admits the packet.  Everything else
\* passes: other nodes' pods, pods no policy selects, replies, neighbour
\* discovery.  It is what the five steps of ADR 0003 are for, over both
\* families, named ports, reused addresses and overlapping policies.
PolicyEnforced ==
  pc = "done" => \A p \in Packet, d \in Direction :
    (p.src \in V6) = (p.dst \in V6) /\ (p.kind = "nd" => p.src \in V6) =>
      LET denied(o) ==
            /\ o.node = NodeName /\ \E q \in policies : Isolates(q, d, o)
            /\ \A q \in policies : Isolates(q, d, o) => ~ Admits(q, d, p)
      IN  PodChainAccepts(d, p) = (p.kind # "new" \/ ~ \E o \in At(SelfOf(d, p)) : denied(o))

\* "A policy it cannot render is an error" (Add), and only such a one: while
\* every policy of the cluster says what the API lets one say, ranges of one
\* port, the last port and sidecars included, the node gets its table, whatever
\* the pods are.
ValidPoliciesRender ==
  LET number(n) == n = None \/ n \in 1 .. 65535
      readable(x) == x # Unreadable
      entry(r) ==
        /\ \A p \in r.ports : /\ number(p.number) /\ number(p.endPort)
                              /\ p.endPort = None \/ p.number <= p.endPort
        /\ \A peer \in r.peers :
             /\ readable(peer.podSelector) /\ readable(peer.namespaceSelector)
             /\ peer.ipBlock = None \/ (readable(peer.ipBlock.cidr) /\ readable(peer.ipBlock.except))
  IN  (\A q \in policies : readable(q.podSelector) /\
         \A d \in Direction : \A r \in q.rules[d] : entry(r)) => pc # "refused"

\* "Two matches about different families are not a rule" (match.and): every
\* rule in a policy's chain recognises some packet, so none is one that nft
\* refuses together with the node's whole table.
RulesMatchSomething ==
  \A d \in Direction : \A i \in DOMAIN dispatch[d] : \A m \in dispatch[d][i].chain :
    \E a \in m.saddr, b \in m.daddr : (a \in V6) = (b \in V6)

=============================================================================
