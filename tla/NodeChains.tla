----------------------------- MODULE NodeChains -----------------------------
(***************************************************************************)
(* The node's own input and output chains: the safe rules that             *)
(* internal/nftables/render.go opens them with, and what Add of            *)
(* internal/nodepol puts behind them, one policy after the other, with the *)
(* matches of match.go.  NodePolicy has the same Add as one function;      *)
(* here it is taken apart, and its result is read as nft reads it.         *)
(*                                                                         *)
(* A match is the values it lets through: of the address at the other end, *)
(* the protocol, the port, the ICMP type, the conntrack state, the         *)
(* loopback interface and the rate limit.                                  *)
(***************************************************************************)
EXTENDS NodePolicy, Integers, Sequences

CONSTANTS
  Address,   \* addresses of the other end
  V6,        \* the IPv6 ones
  NodePods,  \* the ones in this node's pod CIDRs
  Labels,    \* this node's labels
  RawSpec,   \* specs a NodeNetworkPolicy may have
  PortSeen,  \* ports of the packets that are looked at
  NoBlock,   \* a peer without ipBlock
  Absent     \* a port entry without port, or without endPort

ASSUME AddressAssumption == NodePods \cup V6 \subseteq Address

(***************************************************************************)
(* The API object.  A CIDR is [v6, covers, parses, hostBits]; peers, ports *)
(* and entries are sets, since every one of them is rendered.              *)
(***************************************************************************)
Cidr  == [v6 : BOOLEAN, covers : SUBSET Address, parses : BOOLEAN, hostBits : BOOLEAN]
IsPeer(x)  == (x.cidr = NoBlock \/ x.cidr \in Cidr) /\ x.except \subseteq Cidr
IsPort(x)  == {x.port, x.endPort} \subseteq Int \cup {Absent}
IsEntry(x) == (\A y \in x.peers : IsPeer(y)) /\ \A y \in x.ports : IsPort(y)
IsSpec(s)  == /\ s.mode \in {"", "Permissive", "Enforce"}
              /\ s.types \subseteq Direction /\ s.parses \in BOOLEAN
              /\ \A e \in s.ingress \cup s.egress : IsEntry(e)

ASSUME RawSpecAssumption == \A s \in RawSpec : IsSpec(s)

VARIABLES
  policies,  \* the listed NodeNetworkPolicies
  rs,        \* the caller's table
  next,      \* Add's copy of it
  dir,       \* the direction Add is at, "end" after the last
  left,      \* the policies it has still to render there
  jumps,     \* the jumps of the dispatch chain so far
  modes,     \* the modes to report so far
  result,    \* "new", "running", "added" or "refused"
  culprit    \* the policy the error names

vars == <<policies, rs, next, dir, left, jumps, modes, result, culprit>>

-----------------------------------------------------------------------------
(***************************************************************************)
(* Matches and rules.                                                      *)
(***************************************************************************)
Protocol == {"tcp", "udp", "sctp", "icmp", "icmpv6"}
\* The ICMP types the safe rules tell apart: those of both families, those of
\* ICMPv6, all others, and no ICMP packet.
IcmpType == {"common", "v6only", "other", "none"}
MaxPort  == 65535

Any == [addr |-> Address, proto |-> Protocol, from |-> 0, to |-> MaxPort,
        type |-> IcmpType, est |-> BOOLEAN, lo |-> BOOLEAN, over |-> BOOLEAN]

Rule(m, verdict, to) == [match |-> m, verdict |-> verdict, to |-> to]
Accept(m)            == Rule(m, "accept", 0)

PortRange(from, to) == [from |-> from, to |-> to]
Single(port)        == PortRange(port, port)

DefaultSafePorts ==
  [ssh |-> 22, kubelet |-> 10250, apiServer |-> 6443, dns |-> 53,
   etcd |-> PortRange(2379, 2380), nodePort |-> PortRange(30000, 32767)]

SafeRulesCommon ==
  << Accept([Any EXCEPT !.est = {TRUE}]),
     Accept([Any EXCEPT !.lo = {TRUE}]),
     Accept([Any EXCEPT !.proto = {"icmp"}, !.type = {"common"}]),
     Accept([Any EXCEPT !.proto = {"icmpv6"}, !.type = {"common", "v6only"}]) >>

SafePort(proto, range) ==
  Accept([Any EXCEPT !.proto = {proto}, !.from = range.from, !.to = range.to])

InputChain(ports) ==
  SafeRulesCommon \o
  << SafePort("tcp", Single(ports.ssh)), SafePort("tcp", Single(ports.kubelet)),
     SafePort("tcp", Single(ports.apiServer)), SafePort("tcp", ports.etcd),
     SafePort("tcp", ports.nodePort), SafePort("udp", ports.nodePort) >>

OutputChain(ports) ==
  SafeRulesCommon \o
  << SafePort("tcp", Single(ports.apiServer)), SafePort("tcp", ports.etcd),
     SafePort("tcp", Single(ports.kubelet)), SafePort("tcp", Single(ports.dns)),
     SafePort("udp", Single(ports.dns)),
     Accept([Any EXCEPT !.addr = NodePods \ V6]), Accept([Any EXCEPT !.addr = NodePods \cap V6]) >>

\* Render, as far as these two chains go.  Both have policy accept.
BaseTable ==
  [base     |-> [d \in Direction |-> IF d = "Ingress" THEN InputChain(DefaultSafePorts)
                                     ELSE OutputChain(DefaultSafePorts)],
   dispatch |-> [d \in Direction |-> <<>>],
   chain    |-> [d \in Direction |-> <<>>]]

-----------------------------------------------------------------------------
(***************************************************************************)
(* match.go.  Each operator comes with the condition under which the code  *)
(* returns an error in its place.                                          *)
(***************************************************************************)
PrefixFails(c) == ~ c.parses \/ c.hostBits

PeerFails(peer) ==
  \/ peer.cidr = NoBlock
  \/ PrefixFails(peer.cidr)
  \/ \E x \in peer.except : PrefixFails(x) \/ x.v6 # peer.cidr.v6

\* The exceptions without the negation.
PeerMatch_NoExcept(peer) == [Any EXCEPT !.addr = peer.cidr.covers]

PeerMatch(peer) ==
  [Any EXCEPT !.addr = peer.cidr.covers \ UNION {x.covers : x \in peer.except}]

Keyword == [x \in {"", "TCP", "UDP", "SCTP"} |->
              IF x = "UDP" THEN "udp" ELSE IF x = "SCTP" THEN "sctp" ELSE "tcp"]

PortNumberFails_Never(n) == FALSE

PortNumberFails(n) == n < 1 \/ n > MaxPort

PortFails(port) ==
  \/ port.protocol \notin DOMAIN Keyword
  \/ /\ port.port = Absent
     /\ port.endPort # Absent
  \/ /\ port.port # Absent
     /\ \/ PortNumberFails(port.port)
        \/ port.endPort # Absent /\ (PortNumberFails(port.endPort) \/ port.endPort < port.port)

\* uint16(p): what is left of a number that passed.
Uint16(n) == n % (MaxPort + 1)

\* Without a port the match is on the protocol alone.
PortMatch(port) ==
  LET proto == [Any EXCEPT !.proto = {Keyword[port.protocol]}]
      last  == IF port.endPort = Absent THEN port.port ELSE port.endPort
  IN IF port.port = Absent THEN proto
     ELSE [proto EXCEPT !.from = Uint16(port.port), !.to = Uint16(last)]

EntryFails(e) == (\E x \in e.peers : PeerFails(x)) \/ (\E x \in e.ports : PortFails(x))

\* collect: nothing to render is the one empty match.
Collect(rendered) == IF rendered = {} THEN {Any} ELSE rendered

\* matches: each peer with each port, side by side in one rule.
EntryMatches(e) ==
  { [port EXCEPT !.addr = peer.addr] :
      peer \in Collect({PeerMatch(x) : x \in e.peers}),
      port \in Collect({PortMatch(x) : x \in e.ports}) }

-----------------------------------------------------------------------------
(***************************************************************************)
(* Add.                                                                    *)
(***************************************************************************)
EntriesOf(s, d) == IF d = "Ingress" THEN s.ingress ELSE s.egress

\* A spec as NodePolicy has it.
AsSpec(s) ==
  [selector |-> s.selector, parses |-> s.parses, types |-> s.types, mode |-> s.mode,
   egress |-> s.egress # {}, rules |-> s,
   broken |-> {d \in Direction : \E e \in EntriesOf(s, d) : EntryFails(e)}]

Listed == [p \in Policy |-> IF policies[p] = NoPolicy THEN NoPolicy
                            ELSE [spec |-> AsSpec(policies[p])]]

Closing(d) == ClosedBy(d, Listed, Labels)

ChainFails(p, d) == \E e \in EntriesOf(policies[p], d) : EntryFails(e)

\* chainFor: a set, since all its rules accept.
ChainFor(p, d) == UNION {EntryMatches(e) : e \in EntriesOf(policies[p], d)}

\* One rule that logs and counts what is within the limit.
Ending_OneRule(mode) ==
  IF mode = "Enforce" THEN <<Rule(Any, "drop", 0)>>
  ELSE <<Rule([Any EXCEPT !.over = {FALSE}], "log", 0),
         Rule([Any EXCEPT !.over = {FALSE}], "continue", 0)>>

\* verdict: what a dispatch chain ends in.
Ending(mode) ==
  IF mode = "Enforce" THEN <<Rule(Any, "drop", 0)>>
  ELSE <<Rule([Any EXCEPT !.over = {FALSE}], "log", 0), Rule(Any, "continue", 0)>>

JumpFrom_First(rules) == <<Rule(Any, "jump", 0)>> \o rules

\* jumpFrom: behind the rules that are there.
JumpFrom(rules) == Append(rules, Rule(Any, "jump", 0))

Init ==
  /\ policies \in [Policy -> RawSpec \cup {NoPolicy}]
  /\ rs = BaseTable /\ next = BaseTable
  /\ dir = "Ingress" /\ left = {} /\ jumps = <<>> /\ modes = <<>>
  /\ result = "new" /\ culprit = 0

Refuse(p) ==
  /\ result' = "refused" /\ culprit' = p
  /\ UNCHANGED <<policies, rs, next, dir, left, jumps, modes>>

\* selects, which reads every selector, and the copy of the table.
Begin ==
  LET unparsed == {p \in Present(policies) : ~ policies[p].parses} IN
  /\ result = "new"
  /\ IF unparsed # {} THEN \E p \in unparsed : Refuse(p)
     ELSE /\ result' = "running" /\ next' = rs /\ left' = Closing(dir)
          /\ UNCHANGED <<policies, rs, dir, jumps, modes, culprit>>

\* The direction rendered last decides.
Reported_Last(p, mode) == mode

\* A policy that closes both directions is enforcing only where both are.
Reported(p, mode) ==
  IF p \in DOMAIN modes /\ modes[p] = "Permissive" THEN "Permissive" ELSE mode

\* The next policy in the order of the names.
AddChain ==
  /\ result = "running" /\ dir # "end" /\ left # {}
  /\ \E p \in FirstByName(left) :
       IF ChainFails(p, dir) THEN Refuse(p)
       ELSE LET mode == EffectiveMode(Closing(dir), Listed) IN
            /\ next' = [next EXCEPT !.chain[dir] = [q \in DOMAIN @ \cup {p} |->
                          IF q = p THEN ChainFor(p, dir) ELSE @[q]]]
            /\ jumps' = Append(jumps, Rule(Any, "jump", p))
            /\ modes' = [q \in DOMAIN modes \cup {p} |->
                           IF q = p THEN Reported(p, mode) ELSE modes[q]]
            /\ left' = left \ {p}
            /\ UNCHANGED <<policies, rs, dir, result, culprit>>

\* On to the direction after this one.
NextDirection ==
  LET d == IF dir = "Ingress" THEN "Egress" ELSE "end" IN
  /\ dir' = d /\ left' = (IF d = "end" THEN {} ELSE Closing(d)) /\ jumps' = <<>>

Closed(t) ==
  [t EXCEPT !.dispatch[dir] = jumps \o Ending(EffectiveMode(Closing(dir), Listed)),
            !.base[dir] = JumpFrom(@)]

\* A copy that shares the chains of the caller's table.
CloseDirection_Shared ==
  /\ result = "running" /\ dir # "end" /\ left = {} /\ jumps # <<>>
  /\ next' = Closed(next) /\ rs' = [rs EXCEPT !.base = next'.base]
  /\ NextDirection
  /\ UNCHANGED <<policies, modes, result, culprit>>

\* The dispatch chain, and the jump to it.
CloseDirection ==
  /\ result = "running" /\ dir # "end" /\ left = {} /\ jumps # <<>>
  /\ next' = Closed(next)
  /\ NextDirection
  /\ UNCHANGED <<policies, rs, modes, result, culprit>>

\* A direction nothing closes is left as Render produced it.
SkipDirection ==
  /\ result = "running" /\ dir # "end" /\ Closing(dir) = {}
  /\ NextDirection
  /\ UNCHANGED <<policies, rs, next, modes, result, culprit>>

Return ==
  /\ result = "running" /\ dir = "end"
  /\ rs' = next /\ result' = "added"
  /\ UNCHANGED <<policies, next, dir, left, jumps, modes, culprit>>

Next == Begin \/ AddChain \/ CloseDirection \/ SkipDirection \/ Return
Spec == Init /\ [][Next]_vars

-----------------------------------------------------------------------------
(***************************************************************************)
(* How nft reads a table.                                                  *)
(***************************************************************************)
Packet ==
  { k \in [addr : Address, proto : Protocol, port : PortSeen \cup {0}, type : IcmpType,
           est : BOOLEAN, lo : BOOLEAN, over : BOOLEAN] :
      /\ IF k.proto \in {"icmp", "icmpv6"} THEN k.port = 0 /\ k.type # "none"
         ELSE k.port # 0 /\ k.type = "none"
      /\ k.proto = "icmp" => k.addr \notin V6 /\ k.type # "v6only"
      /\ k.proto = "icmpv6" => k.addr \in V6 }

Matches(m, k) ==
  /\ k.addr \in m.addr /\ k.proto \in m.proto /\ m.from <= k.port /\ k.port <= m.to
  /\ k.type \in m.type /\ k.est \in m.est /\ k.lo \in m.lo /\ k.over \in m.over

\* A rule of a dispatch chain that ends the evaluation.
Decides(t, d, r, k) ==
  /\ Matches(r.match, k)
  /\ \/ r.verdict \in {"accept", "drop"}
     \/ r.verdict = "jump" /\ \E m \in t.chain[d][r.to] : Matches(m, k)

\* The packet gets as far as rule i of the dispatch chain.
Gets(t, d, i, k) == \A j \in 1 .. i - 1 : ~ Decides(t, d, t.dispatch[d][j], k)

\* The base chain sends the packet to the dispatch chain.
Dispatched(t, d, k) ==
  \E i \in DOMAIN t.base[d] :
    /\ t.base[d][i].verdict = "jump"
    /\ \A j \in 1 .. i - 1 : ~ Matches(t.base[d][j].match, k)

\* The packet meets a rule with that verdict in the dispatch chain.
Meets(t, d, verdict, k) ==
  /\ Dispatched(t, d, k)
  /\ \E i \in DOMAIN t.dispatch[d] :
       /\ t.dispatch[d][i].verdict = verdict /\ Matches(t.dispatch[d][i].match, k)
       /\ Gets(t, d, i, k)

-----------------------------------------------------------------------------
(***************************************************************************)
(* What the objects mean, without the code: ADR 0004 and the field         *)
(* comments of the API types.                                              *)
(***************************************************************************)
\* The table of safe rules in ADR 0004.
Safe(d, k) ==
  \/ k.est \/ k.lo
  \/ k.type = "common" \/ k.type = "v6only"
  \/ /\ k.proto = "tcp"
     /\ k.port \in {6443, 10250, 2379, 2380} \cup (IF d = "Ingress" THEN {22} ELSE {53})
  \/ d = "Ingress" /\ k.proto \in {"tcp", "udp"} /\ 30000 <= k.port /\ k.port <= 32767
  \/ d = "Egress" /\ ((k.proto = "udp" /\ k.port = 53) \/ k.addr \in NodePods)

Governs(s, d) ==
  /\ s.selector \subseteq Labels
  /\ \/ d \in s.types
     \/ s.types = {} /\ (d = "Ingress" \/ s.egress # {})

Governing(d) == {p \in Present(policies) : Governs(policies[p], d)}

PeerAdmits(peer, k) == k.addr \in peer.cidr.covers /\ \A x \in peer.except : k.addr \notin x.covers

PortAdmits(port, k) ==
  /\ k.proto = Keyword[port.protocol]
  /\ \/ port.port = Absent
     \/ port.endPort = Absent /\ k.port = port.port
     \/ port.endPort # Absent /\ port.port <= k.port /\ k.port <= port.endPort

Admits(s, d, k) ==
  \E e \in EntriesOf(s, d) : /\ (e.peers = {} \/ \E x \in e.peers : PeerAdmits(x, k))
                             /\ (e.ports = {} \/ \E x \in e.ports : PortAdmits(x, k))

\* A packet the policies of the direction, taken together, do not let through.
Denied(d, k) ==
  /\ Governing(d) # {} /\ ~ Safe(d, k)
  /\ \A p \in Governing(d) : ~ Admits(policies[p], d, k)

Enforcing(d) == \A p \in Governing(d) : policies[p].mode = "Enforce"

-----------------------------------------------------------------------------
(***************************************************************************)
(* Properties.                                                             *)
(***************************************************************************)
IsMatch(m) ==
  /\ m.addr \subseteq Address /\ m.proto \subseteq Protocol
  /\ m.from \in 0 .. MaxPort /\ m.to \in m.from .. MaxPort

IsTable(t) ==
  \A d \in Direction :
    /\ \A i \in DOMAIN t.base[d] : IsMatch(t.base[d][i].match)
    /\ DOMAIN t.chain[d] \subseteq Policy
    /\ \A p \in DOMAIN t.chain[d] : \A m \in t.chain[d][p] : IsMatch(m)

\* Every variable has its type; no match has a port range upside down.
TypeOK ==
  /\ policies \in [Policy -> RawSpec \cup {NoPolicy}] /\ IsTable(rs) /\ IsTable(next)
  /\ dir \in Direction \cup {"end"} /\ left \subseteq Policy
  /\ DOMAIN modes \subseteq Policy /\ \A p \in DOMAIN modes : modes[p] \in {"Permissive", "Enforce"}
  /\ result \in {"new", "running", "added", "refused"} /\ culprit \in Policy \cup {0}

\* "Before any policy is consulted ... no field turns them off" (ADR 0004): at
\* every stage of Add, and whatever the policies, safe traffic is not even
\* handed to a policy.
SafeTrafficPasses ==
  \A d \in Direction, k \in Packet : Safe(d, k) => ~ Dispatched(next, d, k)

\* ModeEnforce "drops what no rule accepted": a direction all of whose
\* policies ask for Enforce drops exactly the packets that are not safe and
\* that none of them, read on its own, lets through.
EnforceDrops ==
  result = "added" => \A d \in Direction : Enforcing(d) =>
    \A k \in Packet : Meets(rs, d, "drop", k) <=> Denied(d, k)

\* "What was observed in Permissive is exactly what Enforce will do" (ADR
\* 0004): with one policy not asking for Enforce nothing is dropped, the
\* counter has exactly the packets that would be, and the log those of them
\* that are within the rate limit.
PermissiveShows ==
  result = "added" => \A d \in Direction : ~ Enforcing(d) =>
    \A k \in Packet : /\ ~ Meets(rs, d, "drop", k)
                      /\ Meets(rs, d, "continue", k) <=> Denied(d, k)
                      /\ Meets(rs, d, "log", k) <=> (Denied(d, k) /\ ~ k.over)

\* "An error means nothing was added" (Add), also when the ingress direction
\* was closed before an egress rule was refused.
RefusedAddsNothing == result = "refused" => rs = BaseTable

\* Add, taken step by step, is the Add that Ruleset calls: the same policies
\* with the same mode in each direction, the same modes reported, and a
\* refusal exactly where NodePolicy has one, naming the same policy.
AgreesWithNodePolicy ==
  /\ result = "added" =>
       /\ Refused(Listed, Labels) = {} /\ modes = Modes(Listed, Labels)
       /\ \A d \in Direction : LET t == Dispatch(d, Listed, Labels) IN
            /\ DOMAIN rs.chain[d] = DOMAIN t.chains
            /\ rs.dispatch[d] = <<>> <=> t.mode = "none"
            /\ \A i \in DOMAIN rs.dispatch[d] :
                 rs.dispatch[d][i].verdict = "drop" => t.mode = "Enforce"
  /\ result = "refused" => culprit \in Refused(Listed, Labels)

=============================================================================
