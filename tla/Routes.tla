------------------------------- MODULE Routes -------------------------------
(***************************************************************************)
(* The route reconciler of one node: internal/controller/routes.go, with   *)
(* the kernel table and the netlink watch of internal/routes/kernel.go.    *)
(*                                                                         *)
(* The reconciler reads Node objects from the manager's cache, which       *)
(* trails the API server, and works through one fixed work-queue key.      *)
(* Around it the model has the API server, the informer, the kernel's      *)
(* routing table and links, whoever else writes routes, the goroutine in   *)
(* Kernel.Watch, and the death and restart of the daemon at any step.      *)
(***************************************************************************)
EXTENDS RouteCompute

CONSTANTS
  NodeObject,  \* NodeObject[n]: the Node objects node n may have
  OnLink,      \* gateways that are on this node's segment
  HostV6,      \* global IPv6 addresses the uplink may hold
  MaxUnread,   \* bound: messages one netlink subscription buffers
  MaxChanges   \* bound: changes the environment makes in a behaviour

ASSUME BoundAssumption == MaxUnread \in Nat \ {0} /\ MaxChanges \in Nat
ASSUME ObjectAssumption ==
  /\ DOMAIN NodeObject = Node
  /\ \A n \in Node : NoNode \notin NodeObject[n]
  /\ \A o \in NodeObject[Self], a \in HostV6 \cup {NoAddr} :
       [o EXCEPT !.annotation = a] \in NodeObject[Self]
ASSUME HostAssumption == HostV6 \subseteq Addr

VARIABLES
  api,           \* Node objects on the API server
  cache,         \* the same as the informer last delivered them
  unseen,        \* Nodes of which the informer has an event to deliver
  table,         \* main routing table: one entry per destination
  up,            \* the uplink is up and has carrier
  up6,           \* usable global IPv6 addresses on the uplink
  chain,         \* CIDRs the iptables forward chain accepts
  conf,          \* CIDRs in the conflist on disk, {} before there is one
  watching,      \* Kernel.Watch has subscribed
  unread,        \* per subscription: unread messages that count
  trouble,       \* Watch's trouble channel, capacity 1
  overflowed,    \* a subscription's socket overflowed
  kernelEvents,  \* the channel between Watch and the controller, capacity 1
  queued,        \* the key is in the work queue and ready
  timer,         \* when not ready: "none", or waiting for "resync" / "backoff"
  pc,            \* where the reconcile is
  seen,          \* Node objects the running reconcile listed
  todo,          \* routes it has still to replace
  stale,         \* <<destination, entry>> pairs it has still to delete
  want,          \* annotation it is about to patch in
  failed,        \* a step of the running reconcile failed
  silent,        \* history: routes lost without any report since last replaced
  silent6,       \* history: an IPv6 address left since the last GlobalIPv6
  changes        \* environment changes so far

cluster == <<api, cache, unseen>>
kernel  == <<table, up, up6>>
files   == <<chain, conf>>
watch   == <<watching, unread, trouble, overflowed, kernelEvents>>
queue   == <<queued, timer>>
run     == <<pc, seen, todo, stale, want, failed>>
history == <<silent, silent6>>
vars    == <<cluster, kernel, files, watch, queue, run, history, changes>>

Subscription == {"route", "link", "addr"}
Step == {"down", "idle", "apply", "replace", "delete", "forward", "conflist",
         "annotate", "patch", "done"}

\* The Node objects of the cluster, as the API server or a listing has them.
Clusters == {f \in [Node -> (UNION {NodeObject[n] : n \in Node}) \cup {NoNode}] :
              \A n \in Node : f[n] \in NodeObject[n] \cup {NoNode}}

\* What "seen" is while no reconcile runs.
Nothing == [n \in Node |-> NoNode]

NoRoute == [owner |-> "none", via |-> NoAddr]
Foreign == [owner |-> "other", via |-> NoAddr]
Own(a)  == [owner |-> "cnidaria", via |-> a]
Entry   == {NoRoute, Foreign} \cup {Own(a) : a \in Addr}

TypeOK ==
  /\ api \in Clusters /\ cache \in Clusters /\ unseen \subseteq Node
  /\ table \in [Dst -> Entry] /\ up \in BOOLEAN /\ up6 \subseteq HostV6
  /\ chain \subseteq Dst /\ conf \subseteq Dst
  /\ watching \in BOOLEAN /\ unread \in [Subscription -> 0 .. MaxUnread]
  /\ trouble \in BOOLEAN /\ overflowed \in BOOLEAN /\ kernelEvents \in 0 .. 1
  /\ queued \in BOOLEAN /\ timer \in {"none", "resync", "backoff"}
  /\ pc \in Step
  /\ seen \in Clusters
  /\ todo \subseteq Route /\ stale \subseteq Dst \X Entry
  /\ want \in HostV6 \cup {NoAddr} /\ failed \in BOOLEAN
  /\ silent \subseteq Dst /\ silent6 \in BOOLEAN /\ changes \in 0 .. MaxChanges

Init ==
  /\ api \in Clusters
  /\ cache = api /\ unseen = {}
  /\ table \in {[d \in Dst |-> e] : e \in {NoRoute, Foreign}}
  /\ up = TRUE /\ up6 = {}
  /\ chain = {} /\ conf = {}
  /\ watching = FALSE /\ unread = [s \in Subscription |-> 0]
  /\ trouble = FALSE /\ overflowed = FALSE /\ kernelEvents = 0
  /\ queued = FALSE /\ timer = "none"
  /\ pc = "down" /\ seen = Nothing /\ todo = {} /\ stale = {}
  /\ want = NoAddr /\ failed = FALSE
  /\ silent = {} /\ silent6 = FALSE /\ changes = 0

-----------------------------------------------------------------------------
(***************************************************************************)
(* The work queue: one key, de-duplicated.  Adding it makes it ready and   *)
(* takes over the entry that waits for a timer; while a reconcile runs it  *)
(* is kept for the next one.                                               *)
(***************************************************************************)
Enqueue == queued' = TRUE /\ timer' = "none"

TimerFires ==
  /\ timer # "none"
  /\ Enqueue
  /\ UNCHANGED <<cluster, kernel, files, watch, run, history, changes>>

(***************************************************************************)
(* The kernel reports.  A message is kept when Watch has subscribed, and   *)
(* overflows its socket when too many wait.  Messages that do not count    *)
(* are read and dropped, so they are left out; the filters are here.       *)
(***************************************************************************)
ReapplyAfterRoute_AnyType(type, owner) == owner = "cnidaria"

ReapplyAfterRoute(type, owner) == type = "del" /\ owner = "cnidaria"

ReapplyAfterLink(type, flags) == type = "new" /\ {"up", "lower_up"} \subseteq flags

ReapplyAfterAddr(new, scope) == new /\ scope = "universe"

Send(s) ==
  /\ IF unread[s] < MaxUnread
     THEN unread' = [unread EXCEPT ![s] = @ + 1] /\ UNCHANGED overflowed
     ELSE overflowed' = TRUE /\ UNCHANGED unread
  /\ UNCHANGED <<watching, trouble, kernelEvents>>

Report(s, counts) == IF watching /\ counts THEN Send(s) ELSE UNCHANGED watch

\* A change of the environment, of which a behaviour has at most MaxChanges.
Change == changes < MaxChanges /\ changes' = changes + 1

\* A Node joins, changes or leaves; every write is an event for the informer.
NodeChanges(n) ==
  /\ Change
  /\ \E o \in NodeObject[n] \cup {NoNode} : o # api[n] /\ api' = [api EXCEPT ![n] = o]
  /\ unseen' = unseen \cup {n}
  /\ UNCHANGED <<cache, kernel, files, watch, queue, run, history>>

\* The informer of a daemon that runs delivers a Node event.
NodeEvent_GenerationOnly(n) ==
  /\ pc # "down" /\ n \in unseen
  /\ unseen' = unseen \ {n}
  /\ cache' = [cache EXCEPT ![n] = api[n]]
  /\ IF api[n] # NoNode /\ cache[n] # NoNode /\ api[n].podCIDRs = cache[n].podCIDRs
     THEN UNCHANGED queue ELSE Enqueue
  /\ UNCHANGED <<api, kernel, files, watch, run, history, changes>>

NodeEvent(n) ==
  /\ pc # "down" /\ n \in unseen
  /\ unseen' = unseen \ {n}
  /\ cache' = [cache EXCEPT ![n] = api[n]]
  /\ Enqueue
  /\ UNCHANGED <<api, kernel, files, watch, run, history, changes>>

\* Somebody deletes one of the daemon's routes; the kernel reports it.
RouteDeleted(d) ==
  /\ Change
  /\ table[d].owner = "cnidaria"
  /\ table' = [table EXCEPT ![d] = NoRoute]
  /\ Report("route", ReapplyAfterRoute("del", "cnidaria"))
  /\ UNCHANGED <<cluster, up, up6, files, queue, run, history>>

\* Somebody replaces one of the daemon's routes, or it is flushed while the
\* link stays up: no report that counts.
RouteLost(d) ==
  /\ Change
  /\ table[d].owner = "cnidaria"
  /\ \E e \in {NoRoute, Foreign} : table' = [table EXCEPT ![d] = e]
  /\ silent' = silent \cup {d}
  /\ UNCHANGED <<cluster, up, up6, files, watch, queue, run, silent6>>

\* The uplink goes down and its routes with it.  Only the IPv6 ones are reported.
LinkDown ==
  /\ Change
  /\ up /\ up' = FALSE
  /\ table' = [d \in Dst |-> IF table[d].owner = "cnidaria" THEN NoRoute ELSE table[d]]
  /\ Report("route", /\ \E d \in Dst \cap V6 : table[d].owner = "cnidaria"
                     /\ ReapplyAfterRoute("del", "cnidaria"))
  /\ UNCHANGED <<cluster, up6, files, queue, run, history>>

LinkUp ==
  /\ ~ up /\ up' = TRUE
  /\ Report("link", ReapplyAfterLink("new", {"up", "lower_up"}))
  /\ UNCHANGED <<cluster, table, up6, files, queue, run, history, changes>>

\* A global IPv6 address appears on the uplink, which is reported, or leaves
\* it, which is not a reason to run.
AddrAppears(a) ==
  /\ Change
  /\ a \notin up6 /\ up6' = up6 \cup {a}
  /\ Report("addr", ReapplyAfterAddr(TRUE, "universe"))
  /\ UNCHANGED <<cluster, table, up, files, queue, run, history>>

AddrLeaves(a) ==
  /\ Change
  /\ a \in up6 /\ up6' = up6 \ {a}
  /\ silent6' = TRUE
  /\ UNCHANGED <<cluster, table, up, files, watch, queue, run, silent>>

-----------------------------------------------------------------------------
(***************************************************************************)
(* Kernel.Watch and the channel to the controller.                         *)
(***************************************************************************)
\* An event dropped although nothing waits for the reconciler to run again.
Changed_DropWhileRunning ==
  kernelEvents' = IF pc \in {"down", "idle"} THEN 1 ELSE kernelEvents

\* A send without looking whether an event is waiting already.
Changed_Unbounded == kernelEvents' = kernelEvents + 1

\* changed(): a send that does not block on a channel of capacity 1.
Changed == kernelEvents' = 1

\* Watch has subscribed and asks for one run, for whatever happened before.
Subscribe ==
  /\ pc # "down" /\ ~ watching
  /\ watching' = TRUE
  /\ Changed
  /\ UNCHANGED <<cluster, kernel, files, unread, trouble, overflowed, queue, run,
                 history, changes>>

ReadMessage(s) ==
  /\ unread[s] > 0
  /\ unread' = [unread EXCEPT ![s] = @ - 1]
  /\ Changed
  /\ UNCHANGED <<cluster, kernel, files, watching, trouble, overflowed, queue, run,
                 history, changes>>

\* The library could not decode a message: it calls onError and goes on.
DecodeFails(s) ==
  /\ Change
  /\ unread[s] > 0
  /\ unread' = [unread EXCEPT ![s] = @ - 1]
  /\ trouble' = TRUE
  /\ UNCHANGED <<cluster, kernel, files, watching, overflowed, kernelEvents, queue,
                 run, history>>

ReadTrouble ==
  /\ trouble /\ trouble' = FALSE
  /\ Changed
  /\ UNCHANGED <<cluster, kernel, files, watching, unread, overflowed, queue, run,
                 history, changes>>

\* The channel source hands the event to the work queue.
KernelEvent ==
  /\ kernelEvents = 1 /\ kernelEvents' = 0
  /\ Enqueue
  /\ UNCHANGED <<cluster, kernel, files, watching, unread, trouble, overflowed, run,
                 history, changes>>

\* The variables of a reconcile that is over.
NoLocals == seen' = Nothing /\ todo' = {} /\ stale' = {} /\ want' = NoAddr /\ failed' = FALSE

(***************************************************************************)
(* The daemon dies at any step, or because its watch ended, and is started *)
(* again.  The routes, the chain and the conflist stay.  At start the      *)
(* informer lists every Node, which is an event for each.                  *)
(***************************************************************************)
Stop ==
  /\ pc' = "down"
  /\ watching' = FALSE /\ unread' = [s \in Subscription |-> 0]
  /\ trouble' = FALSE /\ overflowed' = FALSE /\ kernelEvents' = 0
  /\ queued' = FALSE /\ timer' = "none"
  /\ NoLocals
  /\ UNCHANGED <<cluster, kernel, files, history>>

Crash == Change /\ pc # "down" /\ Stop

WatchEnds == overflowed /\ Stop /\ UNCHANGED changes

Start ==
  /\ pc = "down" /\ pc' = "idle"
  /\ cache' = api /\ unseen' = {}
  /\ queued' = (Present(api) # {})
  /\ UNCHANGED <<api, kernel, files, watch, timer, seen, todo, stale, want, failed,
                 history, changes>>

-----------------------------------------------------------------------------
(***************************************************************************)
(* Reconcile.  Each step runs even if another failed.                      *)
(***************************************************************************)
\* The worker takes the key and lists the cache.
Begin ==
  /\ pc = "idle" /\ queued
  /\ pc' = "apply" /\ queued' = FALSE
  /\ seen' = cache /\ failed' = FALSE
  /\ UNCHANGED <<cluster, kernel, files, watch, timer, todo, stale, want, history,
                 changes>>

\* Kernel.Apply lists the routes with the marker; want is Compute's result.
ListKernel ==
  /\ pc = "apply" /\ pc' = "replace"
  /\ todo' = Compute(seen)
  /\ stale' = {<<d, table[d]>> : d \in {d \in Dst :
                  /\ table[d].owner = "cnidaria"
                  /\ \A r \in Compute(seen) : r.dst # d}}
  /\ UNCHANGED <<cluster, kernel, files, watch, queue, seen, want, failed, history,
                 changes>>

\* Listing failed: Apply changes nothing and returns the error.
ListKernelFails ==
  /\ Change
  /\ pc = "apply" /\ pc' = "forward"
  /\ failed' = TRUE
  /\ UNCHANGED <<cluster, kernel, files, watch, queue, seen, todo, stale, want,
                 history>>

\* RouteReplace, keyed on the destination, whoever owns what is there.  The
\* kernel refuses a gateway that is not on-link, and the loop goes on.
Replace_StopAtFailure(r) ==
  /\ pc = "replace" /\ r \in todo
  /\ IF up /\ r.via \in OnLink
     THEN /\ table' = [table EXCEPT ![Mask[r.dst]] = Own(r.via)]
          /\ silent' = silent \ {Mask[r.dst]}
          /\ Report("route", ReapplyAfterRoute("new", "cnidaria"))
          /\ todo' = todo \ {r}
          /\ UNCHANGED failed
     ELSE failed' = TRUE /\ todo' = {} /\ UNCHANGED <<table, silent, watch>>
  /\ UNCHANGED <<cluster, up, up6, files, queue, pc, seen, stale, want, silent6, changes>>

Replace(r) ==
  /\ pc = "replace" /\ r \in todo
  /\ todo' = todo \ {r}
  /\ IF up /\ r.via \in OnLink
     THEN /\ table' = [table EXCEPT ![Mask[r.dst]] = Own(r.via)]
          /\ silent' = silent \ {Mask[r.dst]}
          /\ Report("route", ReapplyAfterRoute("new", "cnidaria"))
          /\ UNCHANGED failed
     ELSE failed' = TRUE /\ UNCHANGED <<table, silent, watch>>
  /\ UNCHANGED <<cluster, up, up6, files, queue, pc, seen, stale, want, silent6, changes>>

Replaced ==
  /\ pc = "replace" /\ todo = {} /\ pc' = "delete"
  /\ UNCHANGED <<cluster, kernel, files, watch, queue, seen, todo, stale, want, failed,
                 history, changes>>

\* A deletion by destination alone, whatever is there by now.
DeleteStale_ByDestination(d, e) ==
  /\ pc = "delete" /\ <<d, e>> \in stale
  /\ stale' = stale \ {<<d, e>>}
  /\ table' = [table EXCEPT ![d] = NoRoute]
  /\ Report("route", ReapplyAfterRoute("del", table[d].owner))
  /\ UNCHANGED <<cluster, up, up6, files, queue, pc, seen, todo, want, failed, history,
                 changes>>

\* RouteDel names the listed route in full, so the kernel finds it only if it
\* is still that one; if it is gone the deletion is one more failure.
DeleteStale(d, e) ==
  /\ pc = "delete" /\ <<d, e>> \in stale
  /\ stale' = stale \ {<<d, e>>}
  /\ IF table[d] = e
     THEN /\ table' = [table EXCEPT ![d] = NoRoute]
          /\ Report("route", ReapplyAfterRoute("del", "cnidaria"))
          /\ UNCHANGED failed
     ELSE failed' = TRUE /\ UNCHANGED <<table, watch>>
  /\ UNCHANGED <<cluster, up, up6, files, queue, pc, seen, todo, want, history, changes>>

Deleted ==
  /\ pc = "delete" /\ stale = {} /\ pc' = "forward"
  /\ UNCHANGED <<cluster, kernel, files, watch, queue, seen, todo, stale, want, failed,
                 history, changes>>

\* Forward.Apply with every node's CIDRs.  A failure may leave the chain of
\* one family written and that of the other not.
Forward ==
  /\ pc = "forward" /\ chain' = ClusterPodCIDRs(seen)
  /\ pc' = IF seen[Self] = NoNode THEN "done" ELSE "conflist"
  /\ UNCHANGED <<cluster, kernel, conf, watch, queue, seen, todo, stale, want, failed,
                 history, changes>>

ForwardFails ==
  /\ Change
  /\ pc = "forward" /\ failed' = TRUE
  /\ \E written \in {{}, V6, Dst \ V6} :
       chain' = (ClusterPodCIDRs(seen) \cap written) \cup (chain \ written)
  /\ pc' = IF seen[Self] = NoNode THEN "done" ELSE "conflist"
  /\ UNCHANGED <<cluster, kernel, conf, watch, queue, seen, todo, stale, want, history>>

\* conflist.Render refuses two pod CIDRs of one family.
OnePerFamily(cidrs) == \A c, d \in cidrs : (c \in V6) = (d \in V6) => c = d

\* writeConflist: nothing to write before the node has a pod CIDR.
WriteConflist ==
  LET own == FromNode(seen[Self]).podCIDRs IN
  /\ pc = "conflist" /\ pc' = "annotate"
  /\ conf' = IF own # {} /\ OnePerFamily(own) THEN {Mask[c] : c \in own} ELSE conf
  /\ failed' = (failed \/ ~ OnePerFamily(own))
  /\ UNCHANGED <<cluster, kernel, chain, watch, queue, seen, todo, stale, want, history,
                 changes>>

\* No interface holds an InternalIP, or the file cannot be written.
WriteConflistFails ==
  /\ Change
  /\ pc = "conflist" /\ pc' = "annotate"
  /\ failed' = TRUE
  /\ UNCHANGED <<cluster, kernel, files, watch, queue, seen, todo, stale, want, history>>

\* publishIPv6 reads the uplink's addresses and patches only a difference
\* from the object it listed.
Annotate ==
  /\ pc = "annotate"
  /\ want' = WantAnnotation(FromNode(seen[Self]), up6)
  /\ silent6' = FALSE
  /\ pc' = IF seen[Self].annotation = want' THEN "done" ELSE "patch"
  /\ UNCHANGED <<cluster, kernel, files, watch, queue, seen, todo, stale, failed, silent,
                 changes>>

\* A merge patch carries the annotation alone, and no resource version.
Patch ==
  /\ pc = "patch" /\ pc' = "done"
  /\ IF api[Self] = NoNode
     THEN failed' = TRUE /\ UNCHANGED <<api, unseen>>
     ELSE /\ api' = [api EXCEPT ![Self].annotation = want]
          /\ unseen' = unseen \cup {Self}
          /\ UNCHANGED failed
  /\ UNCHANGED <<cache, kernel, files, watch, queue, seen, todo, stale, want, history,
                 changes>>

\* The addresses could not be read, or the API server refused the patch.
AnnotateFails ==
  /\ Change
  /\ pc \in {"annotate", "patch"} /\ pc' = "done"
  /\ failed' = TRUE
  /\ UNCHANGED <<cluster, kernel, files, watch, queue, seen, todo, stale, want, history>>

\* A reconcile that forgets that one of its steps failed.
Finish_SwallowError ==
  /\ pc = "done" /\ pc' = "idle"
  /\ timer' = IF queued THEN "none" ELSE "resync"
  /\ NoLocals
  /\ UNCHANGED <<cluster, kernel, files, watch, queued, history, changes>>

\* The result goes to the queue: backoff on an error, Resync on success.  An
\* event that arrived meanwhile is ready before either.
Finish ==
  /\ pc = "done" /\ pc' = "idle"
  /\ timer' = IF queued THEN "none" ELSE IF failed THEN "backoff" ELSE "resync"
  /\ NoLocals
  /\ UNCHANGED <<cluster, kernel, files, watch, queued, history, changes>>

Reconcile ==
  \/ Begin \/ ListKernel \/ Replaced \/ Deleted \/ Forward \/ WriteConflist
  \/ Annotate \/ Patch \/ Finish
  \/ \E r \in todo : Replace(r)
  \/ \E x \in stale : DeleteStale(x[1], x[2])

Daemon ==
  \/ Reconcile \/ TimerFires \/ Subscribe \/ ReadTrouble \/ KernelEvent
  \/ WatchEnds \/ Start
  \/ \E n \in Node : NodeEvent(n)
  \/ \E s \in Subscription : ReadMessage(s)

Environment ==
  \/ \E n \in Node : NodeChanges(n)
  \/ \E d \in Dst : RouteDeleted(d) \/ RouteLost(d)
  \/ \E a \in HostV6 : AddrAppears(a) \/ AddrLeaves(a)
  \/ \E s \in Subscription : DecodeFails(s)
  \/ LinkDown \/ LinkUp \/ Crash
  \/ ListKernelFails \/ ForwardFails \/ WriteConflistFails \/ AnnotateFails

Next == Daemon \/ Environment

Spec == Init /\ [][Next]_vars

(***************************************************************************)
(* Fairness: goroutines that can run do, timers fire, watches deliver, and *)
(* the DaemonSet starts the daemon again.                                  *)
(***************************************************************************)
Fairness ==
  /\ WF_vars(Reconcile) /\ WF_vars(TimerFires) /\ WF_vars(Start) /\ WF_vars(WatchEnds)
  /\ WF_vars(Subscribe) /\ WF_vars(ReadTrouble) /\ WF_vars(KernelEvent)
  /\ \A n \in Node : WF_vars(NodeEvent(n))
  /\ \A s \in Subscription : WF_vars(ReadMessage(s))

FairSpec == Spec /\ Fairness

-----------------------------------------------------------------------------
(***************************************************************************)
(* Properties.                                                             *)
(***************************************************************************)
\* Something will make the reconciler run again before Resync does.
Pending ==
  \/ queued \/ timer = "backoff" \/ kernelEvents = 1 \/ trouble \/ overflowed
  \/ ~ watching \/ \E s \in Subscription : unread[s] > 0

\* The table has at d what the routes in w say.
Right(d, w) ==
  IF \E r \in w : r.dst = d
  THEN \E r \in w : r.dst = d /\ table[d] = Own(r.via)
  ELSE table[d].owner # "cnidaria"

\* No reported loss and no Node event is forgotten: when the reconciler rests
\* and nothing is under way that will wake it, the table holds exactly the
\* routes of the cached Nodes among its own, save those lost in silence.  It
\* is what "one pending event is enough" (SetupWithManager) has to mean.
RoutesInStep ==
  pc = "idle" /\ ~ Pending /\ up =>
    \A d \in Dst : d \in silent \/ Right(d, Compute(cache))

\* Likewise for what the reconcile writes after the routes: at rest the
\* forward chain accepts the CIDRs of every cached Node, and the conflist is
\* rendered from this node's, whichever steps failed on the way.
FilesInStep ==
  pc = "idle" /\ ~ Pending =>
    /\ chain = ClusterPodCIDRs(cache)
    /\ cache[Self] # NoNode /\ FromNode(cache[Self]).podCIDRs # {} =>
         conf = {Mask[c] : c \in FromNode(cache[Self]).podCIDRs}

\* publishIPv6 compares with a cached object that may be older than its own
\* last patch, so it may skip a patch that is needed; the Node event of that
\* patch is then still to come.  With nothing to come, the annotation is the
\* address peers should route through.
AnnotationInStep ==
  pc = "idle" /\ ~ Pending /\ ~ silent6 /\ api[Self] # NoNode /\ Self \notin unseen =>
    api[Self].annotation = WantAnnotation(FromNode(api[Self]), up6)

\* A route somebody else owns is never deleted, and is replaced only where a
\* Node the reconcile listed has that destination: "only routes carrying it
\* are reclaimed" (ADR 0006), also when the route changes hands between the
\* listing and the deletion.
ForeignOnlyReplaced ==
  [][\A d \in Dst : table[d] = Foreign /\ table'[d] # Foreign =>
       \E r \in Compute(seen) : r.dst = d /\ table'[d] = Own(r.via)]_vars

\* The package comment and Kernel.Apply's take this further: "never touches
\* anyone else's", "Routes without the marker are never candidates for
\* anything".  RouteReplace does not keep it.
ForeignUntouched ==
  [][\A d \in Dst : table[d] = Foreign => table'[d] = Foreign]_vars

\* Once the environment rests with the uplink up, every peer CIDR whose
\* gateways are all on-link ends up routed as the API server has it, no
\* route is left for a CIDR no peer has, and the annotation is right: the
\* failure of one route holds up no other, and silence lasts until Resync.
Converged ==
  LET w == Compute(api) IN
  /\ \A d \in Dst : (\A r \in w : r.dst = d => r.via \in OnLink) => Right(d, w)
  /\ api[Self] # NoNode =>
       api[Self].annotation = WantAnnotation(FromNode(api[Self]), up6)

Converges == <>[]up => <>[]Converged

\* "Its own changes do not start a loop" (ADR 0010): once the environment
\* rests, the kernel in the end reports nothing more, whatever the daemon
\* goes on doing on its timer.
EventsDrain == <>[](kernelEvents = 0 /\ \A s \in Subscription : unread[s] = 0)

=============================================================================
