---------------------------- MODULE RouteCompute ----------------------------
(***************************************************************************)
(* What the daemon on node Self computes from the cluster's Node objects:  *)
(* the host-gw routes (internal/routes/routes.go), the CIDRs of the        *)
(* iptables forward chain, and the value of the IPv6 annotation            *)
(* (internal/controller/routes.go).  Everything here is a pure function of *)
(* its arguments, as it is in the code.                                    *)
(***************************************************************************)
EXTENDS Integers, Sequences

CONSTANTS
  Node,      \* node names
  Self,      \* the node this daemon runs on
  Prefix,    \* pod CIDRs as spec.podCIDRs spells them, host bits included
  Mask,      \* Mask[p] is p with its host bits cleared (netip.Prefix.Masked)
  Addr,      \* IP addresses, numbered in the order of netip.Addr.Less
  V6,        \* the IPv6 prefixes and the global unicast IPv6 addresses
  NoNode,    \* no Node object
  NoAddr     \* the zero netip.Addr, and an absent annotation

ASSUME SelfAssumption == Self \in Node
ASSUME MaskAssumption ==
  /\ Mask \in [Prefix -> Prefix]
  /\ \A p \in Prefix : Mask[Mask[p]] = Mask[p]
ASSUME AddrAssumption == Addr \subseteq Nat /\ NoAddr \notin Nat

\* The masked prefixes: the only form the kernel reports a destination in.
Dst == {Mask[p] : p \in Prefix}

\* A route the daemon wants: a peer's pod CIDR through that peer's address.
Route == [node : Node, dst : Prefix, via : Addr]

(***************************************************************************)
(* fromNode: what the computation needs off a Node object.  A pod CIDR, an *)
(* InternalIP or an annotation that does not parse is skipped and fails    *)
(* nothing.  A Node object is                                              *)
(*    [podCIDRs, addresses, annotation]                                    *)
(* with addresses a sequence of [type, address] in kubelet's order.        *)
(***************************************************************************)
IsInternalIP(a) == a.type = "InternalIP" /\ a.address \in Addr

FromNode(o) ==
  LET internal == SelectSeq(o.addresses, IsInternalIP) IN
  [ podCIDRs      |-> o.podCIDRs \cap Prefix,
    internalIPs   |-> [i \in DOMAIN internal |-> internal[i].address],
    annotatedIPv6 |-> IF o.annotation \in Addr \cap V6 THEN o.annotation ELSE NoAddr ]

\* The first listed address of the wanted family.
FirstOfFamily(ips, v6) ==
  LET of == {i \in DOMAIN ips : (ips[i] \in V6) = v6} IN
  IF of = {} THEN NoAddr ELSE ips[CHOOSE i \in of : \A j \in of : i <= j]

\* The address kubelet lists first, of whichever family.
NextHop_AnyFamily(n, v6) == IF n.internalIPs = <<>> THEN n.annotatedIPv6 ELSE Head(n.internalIPs)

\* The peer's InternalIP of the family, or for IPv6 the address it annotated.
NextHop(n, v6) ==
  LET via == FirstOfFamily(n.internalIPs, v6) IN
  IF via = NoAddr /\ v6 THEN n.annotatedIPv6 ELSE via

\* The route to one pod CIDR, masked: the kernel reports destinations so.
RouteTo(n, node, cidr) ==
  [node |-> n, dst |-> Mask[cidr], via |-> NextHop(node, cidr \in V6)]

Present(nodes) == {n \in DOMAIN nodes : nodes[n] # NoNode}

(***************************************************************************)
(* Compute: one route per peer and pod CIDR that has a next hop of its     *)
(* family.  A family without one (Missing) gets no route.  The code sorts  *)
(* the result; here it is a set, and Apply may take it in any order.       *)
(***************************************************************************)
Compute(nodes) ==
  LET of(n) == {RouteTo(n, FromNode(nodes[n]), c) : c \in FromNode(nodes[n]).podCIDRs}
  IN  {r \in UNION {of(n) : n \in Present(nodes) \ {Self}} : r.via \in Addr}

\* The CIDRs Reconcile hands to the forward chain: every node's, its own too,
\* masked as Forward.Apply masks them.
ClusterPodCIDRs(nodes) ==
  {Mask[c] : c \in UNION {FromNode(nodes[n]).podCIDRs : n \in Present(nodes)}}

\* pickGlobalIPv6: the lowest of the usable global addresses, if there is one.
PickGlobalIPv6(usable) ==
  LET lowest == {a \in usable : \A b \in usable : a <= b} IN
  IF lowest = {} THEN NoAddr ELSE CHOOSE a \in lowest : TRUE

\* publishIPv6: the annotation this node should carry.  Only a node that has
\* an IPv4 InternalIP and no IPv6 one carries any.  "usable" is what
\* GlobalIPv6 finds on the interface that holds the IPv4 one.
WantAnnotation(self, usable) ==
  IF FirstOfFamily(self.internalIPs, TRUE) # NoAddr
     \/ FirstOfFamily(self.internalIPs, FALSE) = NoAddr
  THEN NoAddr
  ELSE PickGlobalIPv6(usable)

=============================================================================
