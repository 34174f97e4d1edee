------------------------------ MODULE MCNetpol ------------------------------
(***************************************************************************)
(* Small instances of Netpol: a dual-stack pod of this node, a pod of      *)
(* another namespace that is here or elsewhere, and a third that is        *)
(* running, or finished or on the host network with an address of another. *)
(***************************************************************************)
EXTENDS Netpol

CONSTANTS n, m, none, unreadable

MCAddr == {1, 2, 3, 9, 61, 62}
MCV6   == {61, 62}
MCPort == {80, 81, 65535}
MCNsLabels == [x |-> {"x"}, y |-> {"y"}]

PodAs(ns, node, labels, ips, containers, init, host, phase) ==
  [ns |-> ns, node |-> node, labels |-> labels, ips |-> ips, hostNetwork |-> host,
   phase |-> phase, containers |-> containers, initContainers |-> init]

Web(number, protocol, always) ==
  {[always |-> always, ports |-> {[name |-> "web", port |-> number, protocol |-> protocol]}]}

MCPodObject ==
  [ a |-> {PodAs("x", n, {"app"}, {1, 61}, Web(80, "TCP", FALSE), {}, FALSE, "Running")},
    b |-> {PodAs("y", n, {"app"}, {2, 62}, {}, Web(81, "", TRUE), FALSE, "Pending"),
           PodAs("y", m, {"app"}, {2, unreadable}, Web(81, "TCP", FALSE), {}, FALSE, "Running"),
           PodAs("y", m, {"app"}, {62}, {}, Web(81, "TCP", FALSE), FALSE, "Running")},
    c |-> {PodAs("x", n, {"db"}, {3}, Web(65535, "TCP", FALSE), {}, FALSE, "Running"),
           PodAs("x", m, {"db"}, {1}, Web(65535, "TCP", FALSE), {}, FALSE, "Succeeded"),
           PodAs("x", n, {"db"}, {2, 62}, {}, {}, FALSE, "Failed"),
           PodAs("x", n, {"db"}, {9}, {}, {}, TRUE, "Running"),
           PodAs("x", n, {"db"}, {}, {}, {}, FALSE, "Pending")} ]

Peer(pod, ns)  == [podSelector |-> pod, namespaceSelector |-> ns, ipBlock |-> none]
Block(c, e)    == [podSelector |-> none, namespaceSelector |-> none,
                   ipBlock |-> [cidr |-> c, except |-> e]]
Number(p, num, end) == [protocol |-> p, number |-> num, name |-> "", endPort |-> end]
NamedWeb       == [protocol |-> none, number |-> none, name |-> "web", endPort |-> none]
Rule(peers, ports) == [peers |-> peers, ports |-> ports]
NetworkPolicy(name, ns, sel, types, in, out) ==
  [name |-> name, ns |-> ns, podSelector |-> sel, types |-> types,
   rules |-> [Ingress |-> in, Egress |-> out]]

World == {1, 2, 3, 9}

Universe ==
  { NetworkPolicy(1, "x", {}, {}, {}, {}),
    NetworkPolicy(2, "x", {"app"}, {},
                  {Rule({Peer({"db"}, none)}, {Number(none, 80, 81)})}, {}),
    NetworkPolicy(3, "x", {}, {"Egress"}, {Rule({}, {})}, {Rule({}, {NamedWeb})}),
    NetworkPolicy(4, "x", {}, {}, {Rule({Peer(none, {"y"})}, {NamedWeb})},
                  {Rule({Peer({"app"}, {"y"})}, {NamedWeb, Number("UDP", none, none)})}),
    NetworkPolicy(5, "y", {"app"}, {"Ingress", "Egress"},
                  {Rule({Block(World, {2, 9})}, {NamedWeb})},
                  {Rule({Block(World, {3})}, {NamedWeb}),
                   Rule({Block({62}, {})}, {Number("TCP", 81, 81)})}),
    NetworkPolicy(6, "y", {}, {},
                  {Rule({Block({61}, {}), Peer({}, {})}, {Number("UDP", 80, none)})}, {}),
    NetworkPolicy(7, "x", {"app"}, {},
                  {Rule({Block(World, {})}, {NamedWeb, Number("TCP", 81, 65535)})},
                  {Rule({Peer({}, none)}, {})}),
    NetworkPolicy(8, "y", {}, {}, {Rule({}, {Number("TCP", 81, 80)})}, {}),
    NetworkPolicy(9, "x", unreadable, {}, {}, {}),
    NetworkPolicy(10, "x", {}, {}, {Rule({}, {Number("TCP", 65536, none)})}, {}),
    NetworkPolicy(11, "x", {}, {"Egress"}, {}, {Rule({Block({61}, unreadable)}, {})}) }

\* Every set of at most three of them.
MCPolicies == {{q, r, s} : q, r, s \in Universe} \cup {{}}
=============================================================================
