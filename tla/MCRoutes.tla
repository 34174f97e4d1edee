------------------------------ MODULE MCRoutes ------------------------------
(***************************************************************************)
(* A small instance of Routes.  The peer p is dual-stack, and its IPv4     *)
(* CIDR is spelled with host bits; re-addressed, it has an IPv4 gateway    *)
(* off the segment, an IPv6 one by its annotation, and strings that do not *)
(* parse.                                                                  *)
(***************************************************************************)
EXTENDS Routes

CONSTANTS self, p,            \* nodes
          s4, p4host, p4, p6, \* prefixes
          none, noaddr, garbage

MCNode   == {self, p}
MCPrefix == {s4, p4host, p4, p6}
MCMask   == [x \in MCPrefix |-> IF x = p4host THEN p4 ELSE x]
MCAddr   == {1, 2, 4, 60, 61, 62}
MCV6     == {p6, 60, 61, 62}

Object(cidrs, ips, ann) ==
  [podCIDRs  |-> cidrs,
   addresses |-> [i \in DOMAIN ips |-> [type |-> "InternalIP", address |-> ips[i]]],
   annotation |-> ann]

SelfObjects == {Object({s4}, <<1>>, a) : a \in {noaddr, 61}}
PeerObjects == { Object({p4host, p6}, <<2, 60>>, noaddr),
                 Object({p4host, p6, garbage}, <<garbage, 4>>, 62) }

MCNodeObject == [n \in MCNode |-> IF n = self THEN SelfObjects ELSE PeerObjects]

MCOnLink == {2, 60, 62}
MCHostV6 == {61}

\* The kubelet has registered this node, and nothing is annotated yet.
NewInit     == Init /\ api[self] = Object({s4}, <<1>>, noaddr)
NewFairSpec == NewInit /\ [][Next]_vars /\ Fairness
=============================================================================
