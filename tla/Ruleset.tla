------------------------------ MODULE Ruleset -------------------------------
(***************************************************************************)
(* The ruleset reconcilers of the nodes: internal/controller/ruleset.go    *)
(* with the applier of internal/nftables/apply.go.  Every node renders its *)
(* own nftables table and writes its own entry into the status of the same *)
(* NodeNetworkPolicy objects.                                              *)
(*                                                                         *)
(* A status is written with Update, which the API server refuses when the  *)
(* object was written since the version the writer read.  The model keeps  *)
(* no version numbers, only which copies of an object are the latest.      *)
(***************************************************************************)
EXTENDS NodePolicy

CONSTANTS
  Node,          \* nodes, each with a daemon
  PolicySpec,    \* specs a NodeNetworkPolicy may have
  Input,         \* what the other listings may give a node, see below
  MaxGeneration, \* bound: generations of one policy
  MaxChanges,    \* bound: changes the environment makes in a behaviour
  NoTable,       \* no nftables table, and the applier's empty text
  Unrenderable,  \* listings that give no table
  NoInput,       \* what a node that runs no reconcile has listed
  NoEntry,       \* no entry of this node's in a status
  Unsaid         \* the running reconcile has nothing to say about a policy

ASSUME BoundAssumption == MaxGeneration \in Nat \ {0} /\ MaxChanges \in Nat

VARIABLES
  input,    \* input[n]: Node objects, Pods, Namespaces, NetworkPolicies for n
  known,    \* the same as n's informers last delivered it
  news,     \* nodes with such an event to deliver
  pol,      \* NodeNetworkPolicies on the API server
  view,     \* view[n]: the same in n's cache
  fresh,    \* fresh[n]: policies whose copy in n's cache is the latest version
  due,      \* due[n]: policies with an event for n that passes the predicate
  queued,   \* the key is in n's work queue and ready
  timer,    \* when not ready: "none", or waiting for "resync" / "backoff"
  table,    \* the nftables table in n's kernel
  applied,  \* Applier.applied
  elapsed,  \* time.Since(lastApply) >= Resync
  pc,       \* where n's reconcile is
  read,     \* the input the running reconcile listed
  snap,     \* the policies it listed
  current,  \* those of its copies that are still the latest version
  text,     \* the table it rendered, NoTable for ""
  say,      \* say[n][p]: the entry to write, or NoEntry, or Unsaid
  changes   \* environment changes so far

cluster == <<input, known, news, pol, view, fresh, due>>
queue   == <<queued, timer>>
kernel  == <<table, applied, elapsed>>
run     == <<pc, read, snap, current, text, say>>
vars    == <<cluster, queue, kernel, run, changes>>

(***************************************************************************)
(* An input is [labels, cidr, rest]: the labels of the node's own object,  *)
(* whether it has a pod CIDR, and everything else the table is rendered    *)
(* from.  Unrenderable stands for what nftables.Render, netpol.Add or      *)
(* fromNetworkPolicy refuses.                                              *)
(***************************************************************************)
Renderable(i) == i.cidr /\ i.rest # Unrenderable

Table(policies, i) == [node |-> NodeTable(policies, i.labels), rest |-> i.rest]

Generation == 1 .. MaxGeneration
Entry == [gen : Generation, mode : {"Enforce", "Permissive", ""}, message : BOOLEAN]
Object == [gen : Generation, spec : PolicySpec, status : [Node -> Entry \cup {NoEntry}]]
\* A policy as it is created: the first generation, and nobody's status.
Created(s) == [gen |-> 1, spec |-> s, status |-> [n \in Node |-> NoEntry]]

IsTable(t) ==
  t # NoTable => /\ \E i \in Input : t.rest = i.rest
                 /\ \A d \in Direction : /\ t.node[d].mode \in {"Enforce", "Permissive", "none"}
                                         /\ DOMAIN t.node[d].chains \subseteq Policy

NoPolicies == [p \in Policy |-> NoPolicy]
Silence    == [p \in Policy |-> Unsaid]

TypeOK ==
  /\ input \in [Node -> Input] /\ known \in [Node -> Input] /\ news \subseteq Node
  /\ \A p \in Policy : pol[p] \in Object \cup {NoPolicy}
  /\ \A n \in Node, p \in Policy : {view[n][p], snap[n][p]} \subseteq Object \cup {NoPolicy}
  /\ \A n \in Node : {fresh[n], due[n], current[n]} \subseteq SUBSET Policy
  /\ queued \in [Node -> BOOLEAN] /\ timer \in [Node -> {"none", "resync", "backoff"}]
  /\ elapsed \in [Node -> BOOLEAN]
  /\ \A n \in Node : IsTable(table[n]) /\ IsTable(applied[n]) /\ IsTable(text[n])
  /\ pc \in [Node -> {"down", "idle", "list", "apply", "status"}]
  /\ read \in [Node -> Input \cup {NoInput}]
  /\ \A n \in Node, p \in Policy : say[n][p] \in Entry \cup {NoEntry, Unsaid}
  /\ changes \in 0 .. MaxChanges

Init ==
  /\ input \in [Node -> Input] /\ known = input /\ news = {}
  /\ pol \in [Policy -> {Created(s) : s \in PolicySpec} \cup {NoPolicy}]
  /\ view = [n \in Node |-> pol]
  /\ fresh = [n \in Node |-> Policy] /\ due = [n \in Node |-> {}]
  /\ queued = [n \in Node |-> FALSE] /\ timer = [n \in Node |-> "none"]
  /\ table = [n \in Node |-> NoTable] /\ applied = [n \in Node |-> NoTable]
  /\ elapsed = [n \in Node |-> TRUE]
  /\ pc = [n \in Node |-> "down"] /\ read = [n \in Node |-> NoInput]
  /\ snap = [n \in Node |-> NoPolicies] /\ current = [n \in Node |-> {}]
  /\ text = [n \in Node |-> NoTable] /\ say = [n \in Node |-> Silence]
  /\ changes = 0

-----------------------------------------------------------------------------
\* f with the value of n, and of no other node, replaced.
With(f, n, v) == [f EXCEPT ![n] = v]

(***************************************************************************)
(* The work queue of n, as in Routes: one key, an Add makes it ready.      *)
(***************************************************************************)
Enqueue(n) == queued' = With(queued, n, TRUE) /\ timer' = With(timer, n, "none")

\* A resync was asked for after the last nft run, so Resync has passed since.
TimerFires(n) ==
  /\ timer[n] # "none"
  /\ Enqueue(n)
  /\ elapsed' = IF timer[n] = "resync" THEN With(elapsed, n, TRUE) ELSE elapsed
  /\ UNCHANGED <<cluster, table, applied, run, changes>>

TimePasses(n) ==
  /\ ~ elapsed[n] /\ elapsed' = With(elapsed, n, TRUE)
  /\ UNCHANGED <<cluster, queue, table, applied, run, changes>>

-----------------------------------------------------------------------------
(***************************************************************************)
(* The API server and the informers.                                       *)
(***************************************************************************)
Change == changes < MaxChanges /\ changes' = changes + 1

InputChanges(n) ==
  /\ Change
  /\ \E i \in Input \ {input[n]} : input' = With(input, n, i)
  /\ news' = news \cup {n}
  /\ UNCHANGED <<known, pol, view, fresh, due, queue, kernel, run>>

\* Every Pod, Namespace, NetworkPolicy and Node event maps to the one key.
InputEvent(n) ==
  /\ pc[n] # "down" /\ n \in news
  /\ known' = With(known, n, input[n]) /\ news' = news \ {n}
  /\ Enqueue(n)
  /\ UNCHANGED <<input, pol, view, fresh, due, kernel, run, changes>>

\* A write of policy p makes every copy of it an old version.
Written(p, o) ==
  /\ pol' = [pol EXCEPT ![p] = o]
  /\ fresh' = [n \in Node |-> fresh[n] \ {p}]
  /\ current' = [n \in Node |-> current[n] \ {p}]

\* Somebody creates, edits or deletes policy p.  The API server moves the
\* generation when the spec changes.
PolicyChanges(p) ==
  /\ Change
  /\ \/ /\ pol[p] = NoPolicy
        /\ \E s \in PolicySpec : Written(p, Created(s))
     \/ /\ pol[p] # NoPolicy /\ pol[p].gen < MaxGeneration
        /\ \E s \in PolicySpec \ {pol[p].spec} :
             Written(p, [pol[p] EXCEPT !.gen = @ + 1, !.spec = s])
     \/ pol[p] # NoPolicy /\ Written(p, NoPolicy)
  /\ due' = [n \in Node |-> due[n] \cup {p}]
  /\ UNCHANGED <<input, known, news, view, queue, kernel, pc, read, snap, text, say>>

\* The informer delivers p.  GenerationChangedPredicate lets creations,
\* deletions and new generations through; a status only reaches the cache.
PolicyEvent(n, p) ==
  /\ pc[n] # "down" /\ p \notin fresh[n]
  /\ view' = [view EXCEPT ![n][p] = pol[p]]
  /\ fresh' = With(fresh, n, fresh[n] \cup {p})
  /\ due' = With(due, n, due[n] \ {p})
  /\ IF p \in due[n] THEN Enqueue(n) ELSE UNCHANGED queue
  /\ UNCHANGED <<input, known, news, pol, kernel, run, changes>>

\* Somebody removes n's table; nothing tells the daemon.
TableGone(n) ==
  /\ Change
  /\ table[n] # NoTable /\ table' = With(table, n, NoTable)
  /\ UNCHANGED <<cluster, queue, applied, elapsed, run>>

\* The variables of a reconcile that is over.
Over(n) ==
  /\ read' = With(read, n, NoInput) /\ snap' = With(snap, n, NoPolicies)
  /\ text' = With(text, n, NoTable) /\ say' = With(say, n, Silence)

Crash(n) ==
  /\ Change
  /\ pc[n] # "down" /\ pc' = With(pc, n, "down")
  /\ queued' = With(queued, n, FALSE) /\ timer' = With(timer, n, "none")
  /\ Over(n) /\ current' = With(current, n, {})
  /\ UNCHANGED <<cluster, kernel>>

\* A daemon that starts lists everything, remembers no text and no lastApply.
Start(n) ==
  /\ pc[n] = "down" /\ pc' = With(pc, n, "idle")
  /\ known' = With(known, n, input[n]) /\ news' = news \ {n}
  /\ view' = With(view, n, pol) /\ fresh' = With(fresh, n, Policy)
  /\ due' = With(due, n, {})
  /\ queued' = With(queued, n, TRUE)
  /\ applied' = With(applied, n, NoTable) /\ elapsed' = With(elapsed, n, TRUE)
  /\ UNCHANGED <<input, pol, timer, table, read, snap, current, text, say, changes>>

-----------------------------------------------------------------------------
(***************************************************************************)
(* Reconcile.                                                              *)
(***************************************************************************)
\* The end of a run: backoff on an error, Resync on success, unless an event
\* arrived meanwhile.
Return(n, result) ==
  /\ pc' = With(pc, n, "idle")
  /\ timer' = With(timer, n, IF queued[n] THEN "none" ELSE result)
  /\ Over(n)

\* The worker takes the key; render lists the Nodes, Pods, Namespaces and
\* NetworkPolicies.
Begin(n) ==
  /\ pc[n] = "idle" /\ queued[n]
  /\ queued' = With(queued, n, FALSE)
  /\ pc' = With(pc, n, "list") /\ read' = With(read, n, known[n])
  /\ UNCHANGED <<cluster, timer, kernel, snap, current, text, say, changes>>

\* What addNodeNetworkPolicies has this node say about each listed policy.
EntryFor(o, mode, message) == [gen |-> o.gen, mode |-> mode, message |-> message]

Entries(policies, labels) ==
  LET modes == Modes(policies, labels) IN
  [p \in Policy |-> IF policies[p] = NoPolicy THEN Unsaid
                    ELSE IF p \in DOMAIN modes THEN EntryFor(policies[p], modes[p], FALSE)
                    ELSE NoEntry]

\* The rest of render.  A refused policy leaves no table to apply, and an
\* entry with a message for that policy alone.
Render(n) ==
  LET refused == Refused(view[n], read[n].labels) IN
  /\ pc[n] = "list"
  /\ snap' = With(snap, n, view[n]) /\ current' = With(current, n, fresh[n])
  /\ \/ /\ ~ Renderable(read[n])
        /\ pc' = With(pc, n, "status") /\ UNCHANGED <<text, say>>
     \/ /\ Renderable(read[n]) /\ refused # {}
        /\ pc' = With(pc, n, "status") /\ UNCHANGED text
        /\ \E r \in refused :
             say' = [say EXCEPT ![n][r] = EntryFor(view[n][r], "", TRUE)]
     \/ /\ Renderable(read[n]) /\ refused = {}
        /\ pc' = With(pc, n, "apply")
        /\ text' = With(text, n, Table(view[n], read[n]))
        /\ say' = With(say, n, Entries(view[n], read[n].labels))
  /\ UNCHANGED <<cluster, queue, kernel, read, changes>>

\* A listing failed.
RenderFails(n) ==
  /\ Change
  /\ pc[n] = "list"
  /\ Return(n, "backoff") /\ current' = With(current, n, {})
  /\ UNCHANGED <<cluster, queued, kernel>>

\* Applier.Apply skips the text it applied last, unless Forget came first.
Skips(n) == ~ elapsed[n] /\ text[n] = applied[n]

Apply_NeverForget(n) ==
  /\ pc[n] = "apply" /\ pc' = With(pc, n, "status")
  /\ IF text[n] = applied[n] THEN UNCHANGED kernel
     ELSE /\ table' = With(table, n, text[n]) /\ applied' = With(applied, n, text[n])
          /\ elapsed' = With(elapsed, n, FALSE)
  /\ UNCHANGED <<cluster, queue, read, snap, current, text, say, changes>>

Apply(n) ==
  /\ pc[n] = "apply" /\ pc' = With(pc, n, "status")
  /\ IF Skips(n) THEN UNCHANGED kernel
     ELSE /\ table' = With(table, n, text[n]) /\ applied' = With(applied, n, text[n])
          /\ elapsed' = With(elapsed, n, FALSE)
  /\ UNCHANGED <<cluster, queue, read, snap, current, text, say, changes>>


ApplyFails(n) ==
  /\ Change
  /\ pc[n] = "apply" /\ ~ Skips(n)
  /\ applied' = IF elapsed[n] THEN With(applied, n, NoTable) ELSE applied
  /\ Return(n, "backoff") /\ current' = With(current, n, {})
  /\ UNCHANGED <<cluster, queued, table, elapsed>>

\* withEntry: the listed status with this node's entry put in or taken out.
WithEntry_KeepsOld(s, n, e) == IF e = NoEntry THEN s ELSE [s EXCEPT ![n] = e]

WithEntry(s, n, e) == [s EXCEPT ![n] = e]

NewStatus(n, p) == WithEntry(snap[n][p].status, n, say[n][p])

Said(n, p) == say' = [say EXCEPT ![n][p] = Unsaid]

\* The copy sent without its resource version.
Update_Overwrites(n, p) ==
  /\ pol[p] # NoPolicy
  /\ Written(p, [pol[p] EXCEPT !.status = NewStatus(n, p)])

\* A write that was refused, sent again with the version it was refused for.
Update_Retried(n, p) ==
  /\ pol[p] # NoPolicy
  /\ Written(p, [pol[p] EXCEPT !.status = WithEntry(pol[p].status, n, say[n][p])])

\* Status().Update sends the whole listed object back with the new status; it
\* is refused unless the listed version is the latest one.
Update(n, p) ==
  /\ p \in current[n]
  /\ Written(p, [pol[p] EXCEPT !.status = NewStatus(n, p)])

\* writeStatus, one policy: nothing is sent where the entry is right already.
WriteStatus_Always(n, p) ==
  /\ pc[n] = "status" /\ say[n][p] # Unsaid
  /\ Update(n, p) /\ Said(n, p)
  /\ UNCHANGED <<input, known, news, view, due, queue, kernel, pc, read, snap, text, changes>>

WriteStatus(n, p) ==
  /\ pc[n] = "status" /\ say[n][p] # Unsaid
  /\ Said(n, p)
  /\ IF NewStatus(n, p) = snap[n][p].status THEN UNCHANGED <<pol, fresh, current>>
     ELSE Update(n, p)
  /\ UNCHANGED <<input, known, news, view, due, queue, kernel, pc, read, snap, text, changes>>

\* A conflict, or the policy is gone: the policies after it are not written.
WriteConflicts(n, p) ==
  /\ pc[n] = "status" /\ say[n][p] # Unsaid
  /\ NewStatus(n, p) # snap[n][p].status /\ p \notin current[n]
  /\ Return(n, "backoff") /\ current' = With(current, n, {})
  /\ UNCHANGED <<cluster, queued, kernel, changes>>

\* The write fails, or it reaches the API server and its answer is lost.
WriteFails(n, p) ==
  /\ Change
  /\ pc[n] = "status" /\ say[n][p] # Unsaid /\ NewStatus(n, p) # snap[n][p].status
  /\ Update(n, p) \/ UNCHANGED <<pol, fresh, current>>
  /\ Return(n, "backoff")
  /\ UNCHANGED <<input, known, news, view, due, queued, kernel>>

Finish(n) ==
  /\ pc[n] = "status" /\ say[n] = Silence
  /\ Return(n, "resync") /\ current' = With(current, n, {})
  /\ UNCHANGED <<cluster, queued, kernel, changes>>

Reconcile(n) ==
  \/ Begin(n) \/ Render(n) \/ Apply(n) \/ Finish(n)
  \/ \E p \in Policy : WriteStatus(n, p) \/ WriteConflicts(n, p)

Daemon(n) ==
  \/ Reconcile(n) \/ TimerFires(n) \/ InputEvent(n) \/ Start(n)
  \/ \E p \in Policy : PolicyEvent(n, p)

Environment ==
  \/ \E n \in Node : \/ InputChanges(n) \/ TableGone(n) \/ Crash(n) \/ TimePasses(n)
                      \/ RenderFails(n) \/ ApplyFails(n)
                      \/ \E p \in Policy : WriteFails(n, p)
  \/ \E p \in Policy : PolicyChanges(p)

Next == Environment \/ \E n \in Node : Daemon(n)

Spec == Init /\ [][Next]_vars

\* Workers run, timers fire, watches deliver, the DaemonSet restarts daemons.
Fairness ==
  \A n \in Node : /\ WF_vars(Reconcile(n)) /\ WF_vars(TimerFires(n)) /\ WF_vars(InputEvent(n))
                  /\ WF_vars(Start(n)) /\ \A p \in Policy : WF_vars(PolicyEvent(n, p))

FairSpec == Spec /\ Fairness

-----------------------------------------------------------------------------
(***************************************************************************)
(* Properties.                                                             *)
(***************************************************************************)
\* Something other than Resync will make n's reconciler run again.
Pending(n) == queued[n] \/ timer[n] = "backoff" \/ n \in news \/ due[n] # {}

Resting(n) == pc[n] = "idle" /\ ~ Pending(n)

\* The objects n sees can be rendered.
Accepted(n) == Renderable(input[n]) /\ Refused(pol, input[n].labels) = {}

\* "A node speaks for itself only" (withEntry): although Update sends the
\* whole status back, a step changes the entry of at most one node, and that
\* node is writing its status.
SpeaksForItself ==
  [][\A p \in Policy, n \in Node :
       /\ pol[p] # NoPolicy /\ pol'[p] # NoPolicy
       /\ pol[p].status[n] # pol'[p].status[n]
       => /\ pc[n] = "status"
          /\ \A m \in Node \ {n} : pol[p].status[m] = pol'[p].status[m]]_vars

Board == INSTANCE StatusBoard WITH
  Untold  <- NoTable,
  gen     <- [p \in Policy |-> IF pol[p] = NoPolicy THEN 0 ELSE pol[p].gen],
  running <- [n \in Node |-> [p \in Policy |-> IF applied[n] = NoTable THEN NoTable
                                               ELSE RunningMode(applied[n].node, p)]],
  board   <- [p \in Policy |-> IF pol[p] = NoPolicy THEN [n \in Node |-> NoEntry]
                               ELSE pol[p].status]

\* "Each selected node writes its own entry and leaves the others alone", with
\* "the mode that generation took effect in" (NodeNetworkPolicyStatus): whole
\* objects sent back from old caches, refused, lost and retried implement a
\* board on which every node writes its own entry in one step, about the
\* current spec and truly.
ImplementsStatusBoard == Board!Spec

\* "A needless write is a resource version every other node has to take"
\* (writeStatus): a write that makes a cached copy old changes the object.
NoNeedlessWrite ==
  [][\A n \in Node, p \in Policy : p \in fresh[n] \ fresh'[n] => pol'[p] # pol[p]]_vars

\* "The mode it carries is the mode the node is running, not the one it is
\* about to" (Reconcile), when it is written: the entry agrees with the text
\* the applier put on last, and that text is the node's table unless somebody
\* removed it since.  An entry is taken out only when the policy is not in it.
TrueWhenWritten ==
  [][\A n \in Node, p \in Policy :
       LET e == pol'[p].status[n] IN
       /\ pol[p] # NoPolicy /\ pol'[p] # NoPolicy
       /\ e # pol[p].status[n] /\ (e = NoEntry \/ ~ e.message)
       => /\ applied[n] # NoTable /\ table[n] \in {applied[n], NoTable}
          /\ RunningMode(applied[n].node, p) = IF e = NoEntry THEN "none" ELSE e.mode]_vars


\* "A table removed behind the daemon's back comes back": once the
\* environment rests, every node that can render ends up with its table.
TableComesBack ==
  <>[](\A n \in Node : Accepted(n) => table[n] = Table(pol, input[n]))

\* Once the environment rests, every node's entries end up saying what that
\* node runs, with those of unselected nodes taken out and the refused policy
\* carrying its message, through conflicts and lost answers.
StatusSettles ==
  LET refused(n) == Refused(pol, input[n].labels) IN
  <>[](\A n \in Node :
         /\ Accepted(n) => \A p \in Present(pol) :
              pol[p].status[n] = Entries(pol, input[n].labels)[p]
         /\ Renderable(input[n]) /\ refused(n) # {} => \E p \in refused(n) :
              pol[p].status[n] = EntryFor(pol[p], "", TRUE))

\* The same comment read of a node at rest with its cache up to date: the mode
\* in its entry is the mode it is running.
StatusInStep ==
  \A n \in Node, p \in Present(pol) :
    LET e == pol[p].status[n] IN
    Resting(n) /\ fresh[n] = Policy /\ table[n] # NoTable /\ e # NoEntry /\ ~ e.message
    => e.mode = RunningMode(table[n].node, p)

=============================================================================
