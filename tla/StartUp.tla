------------------------------ MODULE StartUp -------------------------------
(***************************************************************************)
(* run of cmd/cnidaria, up to the manager's start, with the kernel         *)
(* settings of internal/sysctl.  The settings belong to others too: the    *)
(* node's provisioning sets the bridge ones, a reboot turns forwarding     *)
(* off, and anybody may write any of them between two reads of the daemon. *)
(* What the two reconcilers do once they run is in Routes and Ruleset.     *)
(***************************************************************************)
EXTENDS Naturals, Sequences, SequencesExt

CONSTANTS MaxChanges  \* bound: changes the environment makes in a behaviour

BridgeSettings     == <<"bridge-nf-call-iptables", "bridge-nf-call-ip6tables">>
ForwardingSettings == <<"ip_forward", "ipv6.forwarding">>
Setting == Range(BridgeSettings) \cup Range(ForwardingSettings)

VARIABLES
  value,     \* "0" or "1", or "absent" while br_netfilter is not loaded
  locked,    \* settings that can be read and not written
  iptables,  \* an iptables is installed
  pc,        \* where run is
  i,         \* the setting it is at
  errs,      \* Check has an error to return
  touched,   \* history: settings others wrote since this process began
  changes

system == <<value, locked, iptables>>
vars   == <<system, pc, i, errs, touched, changes>>

\* A node after a boot: forwarding is off, and the bridge settings are what is
\* provisioned, or both absent.
Booted ==
  {v \in [Setting -> {"0", "1", "absent"}] :
     /\ \A s \in Range(ForwardingSettings) : v[s] = "0"
     /\ \A s, t \in Range(BridgeSettings) : v[s] = "absent" => v[t] = "absent"}

Init ==
  /\ value \in Booted
  /\ locked = {} /\ iptables \in BOOLEAN
  /\ pc = "down" /\ i = 1 /\ errs = FALSE /\ touched = {} /\ changes = 0

-----------------------------------------------------------------------------
\* kubelet starts the container, after every exit.
Launch ==
  /\ pc = "down" /\ pc' = "check"
  /\ i' = 1 /\ errs' = FALSE /\ touched' = {}
  /\ UNCHANGED <<system, changes>>

Exit == pc' = "down" /\ UNCHANGED i

\* On to the next setting of the list, or behind it.
Onward(settings, after) ==
  IF i < Len(settings) THEN i' = i + 1 /\ UNCHANGED pc ELSE i' = 1 /\ pc' = after

\* The last error stands for all.
Check_LastOnly ==
  /\ pc = "check"
  /\ errs' = (value[BridgeSettings[i]] # "1")
  /\ IF i = Len(BridgeSettings) /\ errs' THEN Exit ELSE Onward(BridgeSettings, "forward")
  /\ UNCHANGED <<system, touched, changes>>

\* sysctl.Check, one setting at a time; all of them, to name each.
Check ==
  /\ pc = "check"
  /\ errs' = (errs \/ value[BridgeSettings[i]] # "1")
  /\ IF i = Len(BridgeSettings) /\ errs' THEN Exit ELSE Onward(BridgeSettings, "forward")
  /\ UNCHANGED <<system, touched, changes>>

\* Forwarding checked as the bridge settings are: the first form of ADR 0002.
EnsureForwarding_Refuses ==
  LET s == ForwardingSettings[i] IN
  /\ pc = "forward"
  /\ IF value[s] = "1" THEN Onward(ForwardingSettings, "manager") ELSE Exit
  /\ UNCHANGED <<system, errs, touched, changes>>

\* EnsureForwarding, one setting at a time.  The first that cannot be set ends
\* the daemon, and one set before it stays set.
EnsureForwarding ==
  LET s == ForwardingSettings[i] IN
  /\ pc = "forward"
  /\ IF value[s] = "1" THEN Onward(ForwardingSettings, "manager") /\ UNCHANGED value
     ELSE IF s \in locked THEN Exit /\ UNCHANGED value
     ELSE value' = [value EXCEPT ![s] = "1"] /\ Onward(ForwardingSettings, "manager")
  /\ UNCHANGED <<locked, iptables, errs, touched, changes>>

\* The manager with its caches, and iptables.Detect, which refuses to go on
\* without an iptables.
NewManager ==
  /\ pc = "manager"
  /\ IF iptables THEN pc' = "reconcilers" /\ UNCHANGED i ELSE Exit
  /\ UNCHANGED <<system, errs, touched, changes>>

\* The netlink handle, both reconcilers, and mgr.Start.
StartReconcilers ==
  /\ pc = "reconcilers" /\ pc' = "running"
  /\ UNCHANGED <<system, i, errs, touched, changes>>

Run == Launch \/ Check \/ EnsureForwarding \/ NewManager \/ StartReconcilers

-----------------------------------------------------------------------------
Change == changes < MaxChanges /\ changes' = changes + 1

\* A read, the kubeconfig, the manager or the netlink handle fails, or the
\* daemon dies.
Dies ==
  /\ Change
  /\ pc # "down" /\ Exit
  /\ UNCHANGED <<system, errs, touched>>

\* Provisioning, an operator or another program.
Written(s) ==
  /\ Change
  /\ value[s] # "absent"
  /\ \E v \in {"0", "1"} : value' = [value EXCEPT ![s] = v]
  /\ touched' = touched \cup {s}
  /\ UNCHANGED <<locked, iptables, pc, i, errs>>

\* br_netfilter is loaded, with its settings at 1, or unloaded.
BridgeModule ==
  /\ Change
  /\ \E v \in {"1", "absent"} :
       value' = [s \in Setting |-> IF s \in Range(BridgeSettings) THEN v ELSE value[s]]
  /\ touched' = touched \cup Range(BridgeSettings)
  /\ UNCHANGED <<locked, iptables, pc, i, errs>>

\* /proc/sys is mounted read-only for a setting, or no longer is.
Locked(s) ==
  /\ Change
  /\ locked' = IF s \in locked THEN locked \ {s} ELSE locked \cup {s}
  /\ UNCHANGED <<value, iptables, pc, i, errs, touched>>

Reboot ==
  /\ Change
  /\ value' \in Booted
  /\ Exit
  /\ UNCHANGED <<locked, iptables, errs, touched>>

Environment ==
  \/ Dies \/ Reboot \/ BridgeModule
  \/ \E s \in Setting : Written(s) \/ (s \in Range(ForwardingSettings) /\ Locked(s))

Next == Run \/ Environment
Spec == Init /\ [][Next]_vars

\* A container that exits is started again, and run goes on.
FairSpec == Spec /\ WF_vars(Run)

-----------------------------------------------------------------------------
(***************************************************************************)
(* Properties.                                                             *)
(***************************************************************************)
\* "Refusing to start is the point" (run): the reconcilers run only with every
\* setting the data plane needs at 1, save what somebody else wrote since the
\* daemon began to look.
StartsOnlyReady ==
  pc = "running" => iptables /\ \A s \in Setting \ touched : value[s] = "1"

\* "The daemon sets forwarding every time it starts" (ADR 0002): when the
\* bridge settings stay in place and forwarding can be written, the daemon
\* comes to run, with forwarding on for both families, though it came back
\* from a reboot, or had set one of the two when the other failed.
ForwardingComesOn ==
  LET bridged == \A s \in Range(BridgeSettings) : value[s] = "1" IN
  <>[](bridged /\ iptables /\ locked = {}) =>
    <>[](pc = "running" /\ \A s \in Range(ForwardingSettings) \ touched : value[s] = "1")

=============================================================================
