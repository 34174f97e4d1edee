---------------------------- MODULE MCDataPlane -----------------------------
(***************************************************************************)
(* A small instance of DataPlane: this node, and a dual-stack peer with an *)
(* IPv4 CIDR spelled with host bits, which is re-addressed to one that     *)
(* routes IPv6 by its annotation.  The prefix x4 belongs to no node.       *)
(***************************************************************************)
EXTENDS DataPlane

CONSTANTS self, p, s4, p4host, p4, p6, x4, none, noaddr, notable, noinput, unrenderable

MCNode   == {self, p}
MCPrefix == {s4, p4host, p4, p6, x4}
MCMask   == [x \in MCPrefix |-> IF x = p4host THEN p4 ELSE x]
MCAddr   == {1, 2, 3, 60, 62}
MCV6     == {p6, 60, 62}

Object(cidrs, ips, ann) ==
  [podCIDRs  |-> cidrs,
   addresses |-> [i \in DOMAIN ips |-> [type |-> "InternalIP", address |-> ips[i]]],
   annotation |-> ann]

MCNodeObject ==
  [n \in MCNode |-> IF n = self THEN {Object({s4}, <<1>>, noaddr)}
                    ELSE {Object({p4host, p6}, <<2, 60>>, noaddr), Object({p4host, p6}, <<3>>, 62)}]

\* The same with one IPv4 CIDR each.
MCPrefixFew == {s4, p4host, p4, x4}
MCMaskFew   == [x \in MCPrefixFew |-> IF x = p4host THEN p4 ELSE x]
MCAddrFew   == {1, 2}
MCObjectFew == [n \in MCNode |-> IF n = self THEN {Object({s4}, <<1>>, noaddr)}
                                 ELSE {Object({p4host}, <<2>>, noaddr)}]

\* At the start this node is registered, no node is annotated, and nobody else's
\* routes are there.
QuietInit     == /\ DInit /\ table = [d \in Dst |-> NoRoute] /\ self \in Present(api)
                 /\ \A n \in Present(api) : api[n].annotation = NoAddr
QuietSpec     == QuietInit /\ [][DNext]_all
QuietFairSpec == QuietSpec /\ DFairness

MCOnLink == {2, 3, 60, 62}
=============================================================================
