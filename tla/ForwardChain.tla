---------------------------- MODULE ForwardChain ----------------------------
(***************************************************************************)
(* The daemon's chain in iptables' filter table and the jump to it in      *)
(* FORWARD: internal/iptables/forward.go.  There are two families, and for *)
(* each two backends that do not see each other's rules.  Other programs   *)
(* rewrite FORWARD at any moment between the daemon's commands, and the    *)
(* commands fail on their own or, for one family, for good.                *)
(***************************************************************************)
EXTENDS Naturals, SequencesExt

CONSTANTS
  Cidrs,      \* values the cluster's pod CIDRs take
  Rewritten,  \* what another program may rewrite FORWARD to
  KubeCount,  \* numbers of KUBE- chains a backend may hold
  Installed,  \* the backends the image carries
  NoChain,    \* CNIDARIA-FWD is not there
  MaxChanges  \* bound: changes the environment makes in a behaviour

Family  == {"v4", "v6"}
Backend == {"nft", "legacy"}

ASSUME InstalledAssumption == Installed \subseteq Backend
ASSUME RewrittenAssumption == \A s \in Rewritten : "jump" \notin Range(s)

VARIABLES
  kube,     \* KUBE- chains per family and backend
  backend,  \* Forward.V4 and V6
  forward,  \* FORWARD per family and backend: a sequence of rules
  chain,    \* CNIDARIA-FWD per family and backend: the CIDRs it accepts
  want,     \* the cluster's pod CIDRs
  pc,       \* where Apply is
  fam,      \* the family it is at
  cidrs,    \* the CIDRs it was called with
  broken,   \* families whose commands all fail
  changes   \* environment changes so far

Rule == {"jump", "other"} \cup UNION {Range(s) : s \in Rewritten}

tables == <<forward, chain>>
run    == <<pc, fam, cidrs>>
vars   == <<kube, backend, tables, want, run, broken, changes>>

TypeOK ==
  /\ kube \in [Family -> [Backend -> KubeCount]] /\ backend \in [Family -> Backend]
  /\ forward \in [Family -> [Backend -> Seq(Rule)]]
  /\ chain \in [Family -> [Backend -> Cidrs \cup {NoChain}]]
  /\ want \in Cidrs /\ cidrs \in Cidrs
  /\ pc \in {"down", "idle", "restore", "check", "insert"} /\ fam \in Family
  /\ broken \subseteq Family /\ changes \in 0 .. MaxChanges

Init ==
  /\ kube \in [Family -> [Backend -> KubeCount]]
  /\ backend = [f \in Family |-> "nft"]
  /\ forward \in {[f \in Family |-> [b \in Backend |-> s]] : s \in Rewritten}
  /\ chain = [f \in Family |-> [b \in Backend |-> NoChain]]
  /\ want \in Cidrs /\ cidrs = want
  /\ pc = "down" /\ fam = "v4" /\ broken = {} /\ changes = 0

-----------------------------------------------------------------------------
(***************************************************************************)
(* Detect, at start-up.                                                    *)
(***************************************************************************)
\* byKubeProxy: the backend with more KUBE- chains, if either has more.
ByKubeProxy(k) ==
  {b \in Backend : \A c \in Backend \ {b} : k[b] > k[c]}

Default == IF "nft" \in Installed THEN "nft" ELSE "legacy"

\* A family without KUBE- chains decided without looking at the other.
Choose_OnItsOwn(own, other) ==
  IF ByKubeProxy(own) # {} THEN CHOOSE b \in ByKubeProxy(own) : TRUE ELSE Default

\* The zero Backend where rules 1 and 2 decide nothing.
Choose_NoDefault(own, other) ==
  IF ByKubeProxy(own) # {} THEN CHOOSE b \in ByKubeProxy(own) : TRUE
  ELSE IF ByKubeProxy(other) # {} THEN CHOOSE b \in ByKubeProxy(other) : TRUE
  ELSE ""

\* choose: rules 1 to 3 of Detect.
Choose(own, other) ==
  IF ByKubeProxy(own) # {} THEN CHOOSE b \in ByKubeProxy(own) : TRUE
  ELSE IF ByKubeProxy(other) # {} THEN CHOOSE b \in ByKubeProxy(other) : TRUE
  ELSE Default

\* probe: a backend that is not installed, or cannot be read, shows no chains.
Shows(f, unread) ==
  [b \in Backend |-> IF b \in Installed /\ <<f, b>> \notin unread THEN kube[f][b] ELSE 0]

\* The daemon refuses to start without iptables.
Start ==
  /\ pc = "down" /\ Installed # {} /\ pc' = "idle"
  /\ \E unread \in SUBSET (Family \X Backend) :
       backend' = [f \in Family |-> LET g == CHOOSE g \in Family : g # f IN
                                    Choose(Shows(f, unread), Shows(g, unread))]
  /\ UNCHANGED <<kube, tables, want, fam, cidrs, broken, changes>>

-----------------------------------------------------------------------------
(***************************************************************************)
(* Apply, called by every run of the route reconciler: v4, then v6 even if *)
(* v4 failed.                                                              *)
(***************************************************************************)
Begin ==
  /\ pc = "idle" /\ pc' = "restore"
  /\ fam' = "v4" /\ cidrs' = want
  /\ UNCHANGED <<kube, backend, tables, want, broken, changes>>

\* An error of v4 ends Apply.
NextFamily_StopAtError(error) ==
  IF fam = "v4" /\ ~ error THEN fam' = "v6" /\ pc' = "restore" ELSE UNCHANGED fam /\ pc' = "idle"

\* The family is done, or one of its commands failed.
NextFamily(error) ==
  IF fam = "v4" THEN fam' = "v6" /\ pc' = "restore" ELSE UNCHANGED fam /\ pc' = "idle"

Set(t, v) == [t EXCEPT ![fam][backend[fam]] = v]
HasJump(f, b) == "jump" \in Range(forward[f][b])

\* iptables-restore without --noflush: the chain, and FORWARD flushed with it.
Restore_Flush ==
  /\ pc = "restore" /\ fam \notin broken
  /\ chain' = Set(chain, cidrs) /\ forward' = Set(forward, <<>>) /\ pc' = "check"
  /\ UNCHANGED <<kube, backend, want, fam, cidrs, broken, changes>>

\* iptables-restore --noflush: the chain, made or replaced in one transaction.
Restore ==
  /\ pc = "restore" /\ fam \notin broken
  /\ chain' = Set(chain, cidrs) /\ pc' = "check"
  /\ UNCHANGED <<kube, backend, forward, want, fam, cidrs, broken, changes>>

\* -C finds the jump anywhere in FORWARD, or exits 1.
Check ==
  /\ pc = "check" /\ fam \notin broken
  /\ IF HasJump(fam, backend[fam]) THEN NextFamily(FALSE) ELSE pc' = "insert" /\ UNCHANGED fam
  /\ UNCHANGED <<kube, backend, tables, want, cidrs, broken, changes>>

\* -I FORWARD 1.  Without the chain there is nothing to jump to.
Insert ==
  /\ pc = "insert" /\ fam \notin broken
  /\ chain[fam][backend[fam]] # NoChain
  /\ forward' = Set(forward, <<"jump">> \o forward[fam][backend[fam]])
  /\ NextFamily(FALSE)
  /\ UNCHANGED <<kube, backend, chain, want, cidrs, broken, changes>>

\* A command of a broken family, or an insert without the chain, fails.
Fails ==
  /\ pc \in {"restore", "check", "insert"}
  /\ fam \in broken \/ (pc = "insert" /\ chain[fam][backend[fam]] = NoChain)
  /\ NextFamily(TRUE)
  /\ UNCHANGED <<kube, backend, tables, want, cidrs, broken, changes>>

Apply == Begin \/ Restore \/ Check \/ Insert \/ Fails

-----------------------------------------------------------------------------
Change == changes < MaxChanges /\ changes' = changes + 1


\* A command fails once, for instance on the xtables lock.  A -C that fails
\* other than with status 1 says nothing about the jump.
FailsOnce ==
  /\ Change
  /\ pc \in {"restore", "check", "insert"}
  /\ NextFamily(TRUE)
  /\ UNCHANGED <<kube, backend, tables, want, cidrs, broken>>

Breaks(f) ==
  /\ Change
  /\ broken' = broken \cup {f}
  /\ UNCHANGED <<kube, backend, tables, want, run>>

\* Another program rewrites FORWARD, and removes what nothing jumps to, or
\* puts a rule of its own first.
Rewrite(f, b) ==
  /\ Change
  /\ \/ \E s \in Rewritten, c \in {NoChain, chain[f][b]} :
          /\ forward' = [forward EXCEPT ![f][b] = s]
          /\ chain' = [chain EXCEPT ![f][b] = c]
     \/ /\ forward' = [forward EXCEPT ![f][b] = <<"other">> \o @]
        /\ UNCHANGED chain
  /\ UNCHANGED <<kube, backend, want, run, broken>>

CidrsChange ==
  /\ Change
  /\ want' \in Cidrs
  /\ UNCHANGED <<kube, backend, tables, run, broken>>

KubeProxyWrites(f, b) ==
  /\ Change
  /\ \E k \in KubeCount : kube' = [kube EXCEPT ![f][b] = k]
  /\ UNCHANGED <<backend, tables, want, run, broken>>

Crash ==
  /\ Change
  /\ pc # "down" /\ pc' = "down"
  /\ UNCHANGED <<kube, backend, tables, want, fam, cidrs, broken>>

Environment ==
  \/ FailsOnce \/ CidrsChange \/ Crash
  \/ \E f \in Family : Breaks(f) \/ \E b \in Backend : Rewrite(f, b) \/ KubeProxyWrites(f, b)

Next == Start \/ Apply \/ Environment
Spec == Init /\ [][Next]_vars

\* The daemon is started again, and the reconciler runs again (see Routes).
FairSpec == Spec /\ WF_vars(Start) /\ WF_vars(Apply)

-----------------------------------------------------------------------------

\* "What it does not touch: any other rule in it" (ADR 0003): a step of the
\* daemon only ever puts the jump first in a FORWARD that has none, so the
\* rules of others keep their order, and a jump keeps its place.
OthersKept ==
  [][changes' = changes => \A f \in Family, b \in Backend :
       forward'[f][b] # forward[f][b] =>
         ~ HasJump(f, b) /\ forward'[f][b] = <<"jump">> \o forward[f][b]]_vars

\* "The node uses one backend for both" (Detect): unless kube-proxy's chains
\* are in different ones, the two families get the same backend.
OneBackendForBoth ==
  [][pc = "down" /\ pc' = "idle" =>
       \/ backend'["v4"] = backend'["v6"]
       \/ \A f \in Family : kube[f][backend'[f]] > 0]_vars

\* "A chain or jump removed behind the daemon's back comes back", in each
\* family whose commands work, even if those of the other never do.
JumpComesBack ==
  <>[](\A f \in Family \ broken :
         HasJump(f, backend[f]) /\ chain[f][backend[f]] = want)

=============================================================================
