----------------------------- MODULE MCRuleset ------------------------------
(***************************************************************************)
(* Small instances of Ruleset.  The inputs differ in the node's label, in  *)
(* a pod of the node, in the pod CIDR, and in a NetworkPolicy that cannot  *)
(* be rendered; the specs in mode, directions and what is wrong with them. *)
(***************************************************************************)
EXTENDS Ruleset

CONSTANTS m, n,                                 \* nodes
          nopolicy, notable, unrenderable, noinput, noentry, unsaid

MCNode1   == {n}
MCNode2   == {m, n}
MCPolicy1 == {1}
MCPolicy2 == {1, 2}

In(labels, cidr, rest) == [labels |-> labels, cidr |-> cidr, rest |-> rest]

MCInput  == { In({}, TRUE, "pods"), In({"gw"}, TRUE, "pods"), In({}, FALSE, "pods"),
              In({}, TRUE, unrenderable) }
Plain    == { In({}, TRUE, "pods") }
Labelled == { In({}, TRUE, "pods"), In({"gw"}, TRUE, "pods") }

SpecOf(selector, parses, types, egress, mode, broken) ==
  [selector |-> selector, parses |-> parses, types |-> types, egress |-> egress,
   mode |-> mode, rules |-> mode, broken |-> broken]

Gateways   == SpecOf({"gw"}, TRUE, {}, TRUE, "Enforce", {})
EgressOnly == SpecOf({}, TRUE, {"Egress"}, TRUE, "", {})
Broken     == SpecOf({}, TRUE, {}, TRUE, "Enforce", {"Egress"})
Unparsed   == SpecOf({}, FALSE, {}, FALSE, "Enforce", {})

MCSpecs    == {Gateways, EgressOnly, Broken, Unparsed}
MCSpecsFew == {Gateways, EgressOnly, Broken}

\* The policies are there at the start, and select every node.
SelectedInit     == Init /\ \A p \in Policy : pol[p] # NoPolicy /\ pol[p].spec # Gateways
SelectedFairSpec == SelectedInit /\ [][Next]_vars /\ Fairness
=============================================================================
