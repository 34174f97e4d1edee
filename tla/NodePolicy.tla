----------------------------- MODULE NodePolicy -----------------------------
(***************************************************************************)
(* What internal/nodepol renders for one node from the NodeNetworkPolicies *)
(* of the cluster: which of them select the node, which directions they    *)
(* close, the mode each direction and each policy takes effect in, and     *)
(* which policy is refused.                                                *)
(*                                                                         *)
(* A spec is [selector, parses, types, egress, mode, rules, broken]: the   *)
(* labels nodeSelector asks for and whether it parses, policyTypes (empty  *)
(* when absent), whether there are egress rules, the mode, the rules as    *)
(* one value, and the directions whose rules do not render.                *)
(***************************************************************************)
EXTENDS Naturals, FiniteSets

CONSTANTS
  Policy,    \* NodeNetworkPolicies, numbered in the order of their names
  NoPolicy   \* no such object

ASSUME PolicyAssumption == Policy \subseteq Nat /\ IsFiniteSet(Policy)

Direction == {"Ingress", "Egress"}

Present(policies) == {p \in DOMAIN policies : policies[p] # NoPolicy}

\* selects: the policies whose nodeSelector matches the node's labels.
Selected(policies, labels) ==
  {p \in Present(policies) : policies[p].spec.selector \subseteq labels}

\* Absent policyTypes mean ingress always, egress when there are egress rules.
Closes(s, d) ==
  IF s.types # {} THEN d \in s.types ELSE d = "Ingress" \/ s.egress

ClosedBy(d, policies, labels) ==
  {p \in Selected(policies, labels) : Closes(policies[p].spec, d)}

\* The mode of the first policy as it is spelled, empty or not.
EffectiveMode_FirstSpelled(closing, policies) ==
  policies[CHOOSE p \in closing : \A q \in closing : p <= q].spec.mode

\* Enforce only when every policy closing the direction asks for it.  An
\* empty mode is Permissive.
EffectiveMode(closing, policies) ==
  IF \A p \in closing : policies[p].spec.mode = "Enforce" THEN "Enforce" ELSE "Permissive"

\* The dispatch chain of one direction: a chain of rules per policy that
\* closes it, and the verdict on what none of them accepts.  A direction
\* nothing closes has none.
Open == [mode |-> "none", chains |-> <<>>]

Dispatch(d, policies, labels) ==
  LET closing == ClosedBy(d, policies, labels) IN
  IF closing = {} THEN Open
  ELSE [mode   |-> EffectiveMode(closing, policies),
        chains |-> [p \in closing |-> policies[p].spec.rules]]

NodeTable(policies, labels) == [d \in Direction |-> Dispatch(d, policies, labels)]

\* The mode of the first direction the policy closes.
Modes_FirstDirection(policies, labels) ==
  [p \in UNION {ClosedBy(d, policies, labels) : d \in Direction} |->
     LET d == IF p \in ClosedBy("Ingress", policies, labels) THEN "Ingress" ELSE "Egress"
     IN  EffectiveMode(ClosedBy(d, policies, labels), policies)]

\* The mode Add reports for each policy it rendered: Permissive if it is that
\* in any direction the policy closes.
Modes(policies, labels) ==
  LET closes(p) == {d \in Direction : p \in ClosedBy(d, policies, labels)} IN
  [p \in UNION {ClosedBy(d, policies, labels) : d \in Direction} |->
     IF \E d \in closes(p) :
          EffectiveMode(ClosedBy(d, policies, labels), policies) = "Permissive"
     THEN "Permissive" ELSE "Enforce"]

(***************************************************************************)
(* The policies Add may return its error for, {} if it succeeds.  Selectors *)
(* are parsed first, those of policies that do not select the node too, in *)
(* the order of the listing, which is not fixed; then the chains are       *)
(* rendered, ingress before egress, in the order of the names.             *)
(***************************************************************************)
FirstByName(ps) == {p \in ps : \A q \in ps : p <= q}

BrokenIn(d, policies, labels) ==
  {p \in ClosedBy(d, policies, labels) : d \in policies[p].spec.broken}

Refused(policies, labels) ==
  LET unparsed == {p \in Present(policies) : ~ policies[p].spec.parses} IN
  IF unparsed # {} THEN unparsed
  ELSE IF BrokenIn("Ingress", policies, labels) # {}
       THEN FirstByName(BrokenIn("Ingress", policies, labels))
       ELSE FirstByName(BrokenIn("Egress", policies, labels))

-----------------------------------------------------------------------------
(***************************************************************************)
(* What a rendered table means, read off the table itself: the mode policy *)
(* p is in on the node that runs it, or "none".                            *)
(***************************************************************************)
RunningMode(t, p) ==
  LET in == {d \in Direction : p \in DOMAIN t[d].chains} IN
  IF in = {} THEN "none"
  ELSE IF \A d \in in : t[d].mode = "Enforce" THEN "Enforce" ELSE "Permissive"

=============================================================================
