---------------------------- MODULE MCNodeChains ----------------------------
(***************************************************************************)
(* A small instance of NodeChains: two IPv4 addresses, one of them outside *)
(* the cluster, a pod of this node, and an IPv6 address.  The specs differ *)
(* in mode, directions, peers, ports, and in everything match.go refuses.  *)
(***************************************************************************)
EXTENDS NodeChains

CONSTANTS a4, b4, pod4, a6, nopolicy, noblock, absent

MCPolicy   == {1, 2}
MCAddress  == {a4, b4, pod4, a6}
MCV6       == {a6}
MCNodePods == {pod4}
MCLabels   == {"gw"}
MCPorts    == {22, 53, 80, 81, 82, 6443, 32767, 32768}

Block(v6, covers)   == [v6 |-> v6, covers |-> covers, parses |-> TRUE, hostBits |-> FALSE]
All4                == Block(FALSE, {a4, b4, pod4})
Net6                == Block(TRUE, {a6})
From(cidr, except)  == [cidr |-> cidr, except |-> except]
On(proto, port, end) == [protocol |-> proto, port |-> port, endPort |-> end]
Entry(peers, ports) == [peers |-> peers, ports |-> ports]
Raw(mode, types, ingress, egress) ==
  [mode |-> mode, types |-> types, selector |-> {"gw"}, parses |-> TRUE,
   ingress |-> ingress, egress |-> egress]

Web      == {Entry({From(All4, {Block(FALSE, {b4})}), From(Net6, {})}, {On("TCP", 80, 81), On("UDP", 81, absent)})}
Anything == {Entry({}, {})}
Tcp      == {Entry({}, {On("", absent, absent)})}

\* What an entry may have that match.go refuses.
Faulty ==
  { Entry({From(noblock, {})}, {}),
    Entry({From([All4 EXCEPT !.hostBits = TRUE], {})}, {}),
    Entry({From([All4 EXCEPT !.parses = FALSE], {})}, {}),
    Entry({From(All4, {Net6})}, {}),
    Entry({}, {On("TCP", absent, 81)}), Entry({}, {On("TCP", 82, 81)}),
    Entry({}, {On("TCP", 65535, 65536)}), Entry({}, {On("TCP", 0, absent)}),
    Entry({}, {On("ICMP", 80, absent)}) }

MCRawSpec ==
  { Raw("Enforce", {}, Web, {}),
    Raw("Enforce", {"Ingress", "Egress"}, {}, Web),
    Raw("Enforce", {}, Anything, Tcp),
    Raw("", {"Egress"}, {}, Web),
    Raw("Permissive", {}, Web, {}),
    [Raw("Enforce", {}, {}, {}) EXCEPT !.selector = {"db"}],
    [Raw("Enforce", {}, {}, {}) EXCEPT !.selector = {"db"}, !.parses = FALSE] }
  \cup {Raw("Enforce", {}, Web, {e}) : e \in Faulty}
=============================================================================
