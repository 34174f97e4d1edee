---------------------------- MODULE RoutesProofs ----------------------------
(***************************************************************************)
(* Proofs about Routes for any set of nodes, prefixes and addresses and    *)
(* any bounds: type correctness, and that no reported loss, Node event or  *)
(* failure is forgotten.                                                   *)
(***************************************************************************)
EXTENDS Routes, TLAPS

\* A computed route is a route whose destination is masked already, so the
\* kernel stores it under the name Apply looks it up by.
LEMMA ComputedRoutes ==
  ASSUME NEW nodes \in Clusters, NEW r \in Compute(nodes)
  PROVE  r \in Route /\ r.dst \in Dst /\ Mask[r.dst] = r.dst
<1>0. PICK n \in Present(nodes) :
        r \in {RouteTo(n, FromNode(nodes[n]), c) : c \in FromNode(nodes[n]).podCIDRs}
  BY DEF Compute
<1>1. PICK c \in FromNode(nodes[n]).podCIDRs : r = RouteTo(n, FromNode(nodes[n]), c)
  BY <1>0
<1>2. r.via \in Addr
  BY DEF Compute
<1>3. c \in Prefix
  BY <1>1 DEF FromNode
<1>4. n \in Node
  BY DEF Present, Clusters
<1>5. r = [node |-> n, dst |-> Mask[c], via |-> r.via]
  BY <1>1 DEF RouteTo
<1>6. r.dst = Mask[c] /\ r.node = n
  BY <1>5
<1> QED
  BY <1>2, <1>3, <1>4, <1>5, <1>6, MaskAssumption DEF Route, Dst

LEMMA PodPrefixes ==
  ASSUME NEW o
  PROVE  FromNode(o).podCIDRs \subseteq Prefix
BY DEF FromNode

LEMMA ComputedPrefixes ==
  ASSUME NEW nodes \in Clusters
  PROVE  ClusterPodCIDRs(nodes) \subseteq Dst
BY PodPrefixes DEF ClusterPodCIDRs, Dst

LEMMA ClusterUpdate ==
  ASSUME NEW f \in Clusters, NEW n \in Node, NEW o \in NodeObject[n] \cup {NoNode}
  PROVE  [f EXCEPT ![n] = o] \in Clusters
BY DEF Clusters

LEMMA NothingCluster == Nothing \in Clusters
BY DEF Nothing, Clusters

LEMMA WantedAnnotation ==
  ASSUME NEW o, NEW usable \in SUBSET HostV6
  PROVE  WantAnnotation(o, usable) \in HostV6 \cup {NoAddr}
BY DEF WantAnnotation, PickGlobalIPv6

LEMMA TypeInit == Init => TypeOK
<1> SUFFICES ASSUME Init PROVE TypeOK
  OBVIOUS
<1>1. table \in [Dst -> Entry]
  BY DEF Init, Entry
<1>2. unread \in [Subscription -> 0 .. MaxUnread]
  BY BoundAssumption DEF Init
<1>3. seen \in Clusters
  BY NothingCluster DEF Init
<1>4. /\ up \in BOOLEAN /\ watching \in BOOLEAN /\ trouble \in BOOLEAN /\ overflowed \in BOOLEAN
      /\ queued \in BOOLEAN /\ failed \in BOOLEAN /\ silent6 \in BOOLEAN
  BY Zenon DEF Init
<1> QED
  BY <1>1, <1>2, <1>3, <1>4, BoundAssumption DEF Init, TypeOK, Step

\* Sending a message into a subscription keeps the watch's types.
WatchTyped ==
  /\ watching \in BOOLEAN /\ unread \in [Subscription -> 0 .. MaxUnread]
  /\ trouble \in BOOLEAN /\ overflowed \in BOOLEAN /\ kernelEvents \in 0 .. 1

LEMMA TypeSend ==
  ASSUME TypeOK, NEW s \in Subscription, Send(s) \/ UNCHANGED watch
  PROVE  WatchTyped'
<1>1. CASE UNCHANGED watch
  BY <1>1 DEF TypeOK, WatchTyped, watch
<1>2. CASE Send(s)
  <2>1. unread \in [Subscription -> 0 .. MaxUnread] /\ unread[s] \in 0 .. MaxUnread
    BY DEF TypeOK
  <2>2. unread' \in [Subscription -> 0 .. MaxUnread]
    BY <1>2, <2>1, BoundAssumption DEF Send
  <2>3. overflowed' \in BOOLEAN /\ watching' \in BOOLEAN /\ trouble' \in BOOLEAN
    BY <1>2, Zenon DEF Send, TypeOK
  <2>4. kernelEvents' \in 0 .. 1
    BY <1>2 DEF Send, TypeOK
  <2> QED
    BY <2>2, <2>3, <2>4 DEF WatchTyped
<1> QED
  BY <1>1, <1>2

LEMMA TypeNext == TypeOK /\ [Next]_vars => TypeOK'
<1> SUFFICES ASSUME TypeOK, [Next]_vars
             PROVE  TypeOK'
  OBVIOUS
<1> USE BoundAssumption, SelfAssumption DEF Entry, NoRoute, Foreign, Own, Step, Subscription,
        cluster, kernel, files, watch, queue, run, history
<1>1. ASSUME NEW n \in Node, NodeChanges(n) PROVE TypeOK'
  <2>1. api' \in Clusters
    <3>1. PICK o \in NodeObject[n] \cup {NoNode} : api' = [api EXCEPT ![n] = o]
      BY <1>1 DEF NodeChanges
    <3> QED
      BY <3>1, ClusterUpdate DEF TypeOK
  <2> QED
    BY <1>1, <2>1 DEF NodeChanges, Change, TypeOK
<1>2. ASSUME NEW n \in Node, NodeEvent(n) PROVE TypeOK'
  <2>1. api[n] \in NodeObject[n] \cup {NoNode}
    BY DEF TypeOK, Clusters
  <2> QED
    <3>1. cache' \in Clusters
      BY <1>2, <2>1, ClusterUpdate DEF NodeEvent, TypeOK
    <3> QED
      BY <1>2, <3>1 DEF NodeEvent, Enqueue, TypeOK
<1>3. CASE TimerFires
  BY <1>3 DEF TimerFires, Enqueue, TypeOK
<1>4. ASSUME NEW d \in Dst, RouteDeleted(d) PROVE TypeOK'
  <2>1. Send("route") \/ UNCHANGED watch
    BY <1>4 DEF RouteDeleted, Report
  <2>2. WatchTyped'
    BY <2>1, TypeSend
  <2> QED
    BY <1>4, <2>2 DEF RouteDeleted, Change, WatchTyped, TypeOK
<1>5. ASSUME NEW d \in Dst, RouteLost(d) PROVE TypeOK'
  BY <1>5 DEF RouteLost, Change, TypeOK
<1>6. CASE LinkDown
  <2>1. Send("route") \/ UNCHANGED watch
    BY <1>6 DEF LinkDown, Report
  <2>2. WatchTyped'
    BY <2>1, TypeSend
  <2> QED
    <3>1. table' \in [Dst -> Entry]
      BY <1>6 DEF LinkDown, TypeOK
    <3>2. up' \in BOOLEAN
      BY <1>6, Zenon DEF LinkDown
    <3> QED
      BY <1>6, <2>2, <3>1, <3>2 DEF LinkDown, Change, WatchTyped, TypeOK
<1>7. CASE LinkUp
  <2>1. Send("link") \/ UNCHANGED watch
    BY <1>7 DEF LinkUp, Report
  <2>2. WatchTyped'
    BY <2>1, TypeSend
  <2> QED
    BY <1>7, <2>2 DEF LinkUp, WatchTyped, TypeOK
<1>8. ASSUME NEW a \in HostV6, AddrAppears(a) PROVE TypeOK'
  <2>1. Send("addr") \/ UNCHANGED watch
    BY <1>8 DEF AddrAppears, Report
  <2>2. WatchTyped'
    BY <2>1, TypeSend
  <2> QED
    BY <1>8, <2>2 DEF AddrAppears, Change, WatchTyped, TypeOK
<1>9. ASSUME NEW a \in HostV6, AddrLeaves(a) PROVE TypeOK'
  BY <1>9 DEF AddrLeaves, Change, TypeOK
<1>10. CASE Subscribe
  BY <1>10 DEF Subscribe, Changed, TypeOK
<1>11. ASSUME NEW s \in Subscription, ReadMessage(s) PROVE TypeOK'
  BY <1>11 DEF ReadMessage, Changed, TypeOK
<1>12. ASSUME NEW s \in Subscription, DecodeFails(s) PROVE TypeOK'
  BY <1>12 DEF DecodeFails, Change, TypeOK
<1>13. CASE ReadTrouble
  <2>1. trouble' \in BOOLEAN
    BY <1>13, Zenon DEF ReadTrouble
  <2>2. UNCHANGED <<api, cache, unseen, table, up, up6, chain, conf, watching, unread,
                    overflowed, queue, run, history, changes>> /\ kernelEvents' = 1
    BY <1>13 DEF ReadTrouble, Changed
  <2> QED
    BY <2>1, <2>2 DEF TypeOK
<1>14. CASE KernelEvent
  BY <1>14 DEF KernelEvent, Enqueue, TypeOK
<1>15. CASE Crash \/ WatchEnds
  <2>1. changes' \in 0 .. MaxChanges
    BY <1>15 DEF Crash, WatchEnds, Change, TypeOK
  <2>2. Stop
    BY <1>15 DEF Crash, WatchEnds
  <2>3. seen' \in Clusters
    BY <2>2, NothingCluster DEF Stop, NoLocals
  <2> QED
    <3>1. /\ watching' \in BOOLEAN /\ trouble' \in BOOLEAN /\ overflowed' \in BOOLEAN
          /\ queued' \in BOOLEAN /\ failed' \in BOOLEAN
      BY <2>2, Zenon DEF Stop, NoLocals
    <3> QED
      BY <2>1, <2>2, <2>3, <3>1 DEF Stop, NoLocals, TypeOK
<1>16. CASE Start
  BY <1>16 DEF Start, TypeOK
<1>17. CASE Begin
  BY <1>17 DEF Begin, TypeOK
<1>18. CASE ListKernel
  <2>1. Compute(seen) \subseteq Route
    BY ComputedRoutes DEF TypeOK
  <2>2. {<<d, table[d]>> : d \in {d \in Dst :
           /\ table[d].owner = "cnidaria"
           /\ \A r \in Compute(seen) : r.dst # d}} \subseteq Dst \X Entry
    BY DEF TypeOK
  <2> QED
    BY <1>18, <2>1, <2>2 DEF ListKernel, TypeOK
<1>19. CASE ListKernelFails
  BY <1>19 DEF ListKernelFails, Change, TypeOK
<1>20. ASSUME NEW r \in todo, Replace(r) PROVE TypeOK'
  <2>1. Send("route") \/ UNCHANGED watch
    BY <1>20 DEF Replace, Report
  <2>2. WatchTyped'
    BY <2>1, TypeSend
  <2> QED
    <3>1. r.via \in Addr
      BY DEF TypeOK, Route
    <3>2. table' \in [Dst -> Entry]
      BY <1>20, <3>1 DEF Replace, TypeOK
    <3>3. failed' \in BOOLEAN
      BY <1>20, Zenon DEF Replace, TypeOK
    <3> QED
      BY <1>20, <2>2, <3>2, <3>3 DEF Replace, WatchTyped, TypeOK
<1>21. CASE Replaced \/ Deleted
  BY <1>21 DEF Replaced, Deleted, TypeOK
<1>22. ASSUME NEW x \in stale, DeleteStale(x[1], x[2]) PROVE TypeOK'
  <2>1. Send("route") \/ UNCHANGED watch
    BY <1>22 DEF DeleteStale, Report
  <2>2. WatchTyped'
    BY <2>1, TypeSend
  <2> QED
    BY <1>22, <2>2 DEF DeleteStale, WatchTyped, TypeOK
<1>23. CASE Forward \/ ForwardFails
  <2>1. ClusterPodCIDRs(seen) \subseteq Dst
    BY ComputedPrefixes DEF TypeOK
  <2>2. chain' \subseteq Dst
    BY <1>23, <2>1 DEF Forward, ForwardFails, TypeOK
  <2> QED
    <3>1. failed' \in BOOLEAN
      BY <1>23, Zenon DEF Forward, ForwardFails, TypeOK
    <3>2. pc' \in Step /\ changes' \in 0 .. MaxChanges
      BY <1>23 DEF Forward, ForwardFails, Change, TypeOK
    <3>3. UNCHANGED <<cluster, kernel, conf, watch, queue, seen, todo, stale, want, history>>
      BY <1>23 DEF Forward, ForwardFails
    <3> QED
      BY <2>2, <3>1, <3>2, <3>3 DEF TypeOK
<1>24. CASE WriteConflist \/ WriteConflistFails
  <2>1. {Mask[c] : c \in FromNode(seen[Self]).podCIDRs} \subseteq Dst
    BY PodPrefixes DEF Dst
  <2> QED
    <3>1. failed' \in BOOLEAN
      BY <1>24, Zenon DEF WriteConflist, WriteConflistFails
    <3>2. conf' \subseteq Dst
      BY <1>24, <2>1 DEF WriteConflist, WriteConflistFails, TypeOK
    <3> QED
      BY <1>24, <3>1, <3>2 DEF WriteConflist, WriteConflistFails, Change, TypeOK
<1>25. CASE Annotate
  BY <1>25, WantedAnnotation DEF Annotate, TypeOK
<1>26. CASE Patch
  <2>1. CASE api[Self] = NoNode
    BY <1>26, <2>1 DEF Patch, TypeOK
  <2>2. CASE api[Self] # NoNode
    <3>1. api[Self] \in NodeObject[Self]
      BY <2>2 DEF TypeOK, Clusters
    <3>2. [api[Self] EXCEPT !.annotation = want] \in NodeObject[Self]
      BY <3>1, ObjectAssumption DEF TypeOK
    <3>3. api' = [api EXCEPT ![Self] = [api[Self] EXCEPT !.annotation = want]]
      BY <1>26, <2>2 DEF Patch, TypeOK, Clusters
    <3>4. api' \in Clusters
      BY <3>2, <3>3, ClusterUpdate DEF TypeOK
    <3> QED
      BY <1>26, <2>2, <3>4 DEF Patch, TypeOK
  <2> QED
    BY <2>1, <2>2
<1>27. CASE AnnotateFails
  BY <1>27 DEF AnnotateFails, Change, TypeOK
<1>28. CASE Finish
  BY <1>28, NothingCluster DEF Finish, NoLocals, TypeOK
<1>29. CASE UNCHANGED vars
  BY <1>29 DEF vars, TypeOK
<1> QED
  BY <1>1, <1>2, <1>3, <1>4, <1>5, <1>6, <1>7, <1>8, <1>9, <1>10, <1>11, <1>12, <1>13,
     <1>14, <1>15, <1>16, <1>17, <1>18, <1>19, <1>20, <1>21, <1>22, <1>23, <1>24,
     <1>25, <1>26, <1>27, <1>28, <1>29 DEF Next, Daemon, Reconcile, Environment

\* Every variable of the reconciler and of what surrounds it keeps its type,
\* whatever the Nodes, the routing table and the bounds.
THEOREM TypeCorrect == Spec => []TypeOK
BY TypeInit, TypeNext, PTL DEF Spec
-----------------------------------------------------------------------------
(***************************************************************************)
(* The inductive invariant.  What a step leaves wrong is accounted for: a  *)
(* run that is owed, a step recorded as failed, work in todo or stale.     *)
(***************************************************************************)
Running == pc \notin {"down", "idle"}

QueueInv ==
  /\ queued => timer = "none"
  /\ Running => timer = "none"
  /\ pc = "down" => /\ ~ watching /\ kernelEvents = 0 /\ ~ trouble
                    /\ ~ queued /\ timer = "none"
                    /\ \A s \in Subscription : unread[s] = 0

\* A reconcile works on the cache as it is, or another one follows.
CacheInv ==
  /\ Running => seen = cache \/ queued
  /\ pc # "down" => \A n \in Node : n \in unseen \/ cache[n] = api[n]

WorkInv ==
  /\ pc # "replace" => todo = {}
  /\ pc \notin {"replace", "delete"} => stale = {}
  /\ todo \subseteq Compute(seen)
  /\ \A x \in stale : x[2].owner = "cnidaria" /\ \A r \in Compute(seen) : r.dst # x[1]

Accounted(d) == d \in silent \/ Pending \/ ~ up

Listed == pc \in {"replace", "delete", "forward", "conflist", "annotate", "patch", "done"}

TableInv ==
  /\ pc = "idle" => \A d \in Dst : Accounted(d) \/ Right(d, Compute(cache))
  /\ Listed => \/ failed
               \/ \A d \in Dst : \/ Accounted(d) \/ Right(d, Compute(seen))
                                 \/ \E r \in todo : r.dst = d
                                 \/ <<d, table[d]>> \in stale

ConfRight(nodes) ==
  nodes[Self] # NoNode /\ FromNode(nodes[Self]).podCIDRs # {} =>
    conf = {Mask[c] : c \in FromNode(nodes[Self]).podCIDRs}

FilesInv ==
  /\ pc = "idle" => Pending \/ (chain = ClusterPodCIDRs(cache) /\ ConfRight(cache))
  /\ pc \in {"conflist", "annotate", "patch", "done"} =>
       failed \/ chain = ClusterPodCIDRs(seen)
  /\ pc \in {"annotate", "patch", "done"} => failed \/ ConfRight(seen)
  /\ pc \in {"conflist", "annotate", "patch"} => seen[Self] # NoNode

AnnotationRight ==
  \/ silent6 \/ Self \in unseen \/ api[Self] = NoNode
  \/ api[Self].annotation = WantAnnotation(FromNode(api[Self]), up6)

AnnotationInv ==
  /\ pc = "idle" => Pending \/ AnnotationRight
  /\ pc = "done" => failed \/ Pending \/ AnnotationRight

IInv == QueueInv /\ CacheInv /\ WorkInv /\ TableInv /\ FilesInv /\ AnnotationInv

\* What the kernel reports wakes the reconciler, whether Watch has subscribed
\* (a message waits, or the socket overflows) or is still to subscribe.
LEMMA ReportWakes ==
  ASSUME TypeOK, NEW s \in Subscription, IF watching THEN Send(s) ELSE UNCHANGED watch
  PROVE  Pending'
<1>1. CASE ~ watching
  BY <1>1 DEF watch, Pending
<1>2. CASE watching /\ unread[s] < MaxUnread
  <2>1. unread[s] \in Nat
    BY DEF TypeOK
  <2>2. unread'[s] = unread[s] + 1
    BY <1>2 DEF Send, TypeOK
  <2> QED
    BY <2>1, <2>2 DEF Pending
<1>3. CASE watching /\ ~ (unread[s] < MaxUnread)
  BY <1>3 DEF Send, Pending
<1> QED
  BY <1>1, <1>2, <1>3

LEMMA PendingKept ==
  ASSUME UNCHANGED <<watch, queue>>
  PROVE  Pending' <=> Pending
BY DEF Pending, watch, queue

\* What the table has at d is as right as it was when it is what it was.
LEMMA RightKept ==
  ASSUME NEW d \in Dst, table'[d] = table[d]
  PROVE  /\ cache' = cache => (Right(d, Compute(cache))' <=> Right(d, Compute(cache)))
         /\ seen' = seen => (Right(d, Compute(seen))' <=> Right(d, Compute(seen)))
<1>1. cache' = cache => Compute(cache)' = Compute(cache)
  OBVIOUS
<1>2. seen' = seen => Compute(seen)' = Compute(seen)
  OBVIOUS
<1>3. ASSUME NEW w PROVE (IF \E r \in w : r.dst = d
                           THEN \E r \in w : r.dst = d /\ table'[d] = Own(r.via)
                           ELSE table'[d].owner # "cnidaria") <=> Right(d, w)
  BY DEF Right
<1> QED
  BY <1>1, <1>2, <1>3 DEF Right

LEMMA TableKept ==
  ASSUME TableInv, Pending => Pending', failed => failed',
         UNCHANGED <<cache, table, up, silent, pc, seen, todo, stale>>
  PROVE  TableInv'
<1>1. ASSUME NEW d \in Dst
      PROVE  /\ Accounted(d) => Accounted(d)'
             /\ Right(d, Compute(cache)) => Right(d, Compute(cache))'
             /\ Right(d, Compute(seen)) => Right(d, Compute(seen))'
  <2>1. Accounted(d) => Accounted(d)'
    BY DEF Accounted
  <2> QED
    BY <2>1, RightKept
<1>2. Listed' <=> Listed
  BY DEF Listed
<1> QED
  BY <1>1, <1>2 DEF TableInv

\* The steps after which a run is owed.
Waking ==
  \/ TimerFires \/ LinkUp \/ Subscribe \/ ReadTrouble \/ KernelEvent
  \/ \E n \in Node : NodeEvent(n)
  \/ \E d \in Dst : RouteDeleted(d)
  \/ \E a \in HostV6 : AddrAppears(a)
  \/ \E s \in Subscription : ReadMessage(s) \/ DecodeFails(s)

LEMMA Wakes ==
  ASSUME TypeOK, Waking
  PROVE  Pending'
<1>1. CASE TimerFires \/ KernelEvent \/ \E n \in Node : NodeEvent(n)
  BY <1>1 DEF TimerFires, KernelEvent, NodeEvent, Enqueue, Pending
<1>2. CASE Subscribe \/ ReadTrouble \/ \E s \in Subscription : ReadMessage(s)
  BY <1>2 DEF Subscribe, ReadTrouble, ReadMessage, Changed, Pending
<1>3. CASE \E s \in Subscription : DecodeFails(s)
  BY <1>3 DEF DecodeFails, Pending
<1>4. CASE LinkUp
  <2>1. IF watching THEN Send("link") ELSE UNCHANGED watch
    BY <1>4 DEF LinkUp, Report, ReapplyAfterLink
  <2> QED
    BY <2>1, ReportWakes DEF Subscription
<1>5. ASSUME NEW d \in Dst, RouteDeleted(d) PROVE Pending'
  <2>1. IF watching THEN Send("route") ELSE UNCHANGED watch
    BY <1>5 DEF RouteDeleted, Report, ReapplyAfterRoute
  <2> QED
    BY <2>1, ReportWakes DEF Subscription
<1>6. ASSUME NEW a \in HostV6, AddrAppears(a) PROVE Pending'
  <2>1. IF watching THEN Send("addr") ELSE UNCHANGED watch
    BY <1>6 DEF AddrAppears, Report, ReapplyAfterAddr
  <2> QED
    BY <2>1, ReportWakes DEF Subscription
<1> QED
  BY <1>1, <1>2, <1>3, <1>4, <1>5, <1>6 DEF Waking

\* What a step of the environment or of the watch does to the daemon's side.
LEMMA WakingKeeps ==
  ASSUME QueueInv, Waking
  PROVE  UNCHANGED run /\ UNCHANGED files /\ QueueInv'
<1>1. UNCHANGED run /\ UNCHANGED files
  BY DEF Waking, TimerFires, LinkUp, Subscribe, ReadTrouble, KernelEvent, NodeEvent,
         RouteDeleted, AddrAppears, ReadMessage, DecodeFails
<1>2. CASE TimerFires \/ KernelEvent \/ \E n \in Node : NodeEvent(n)
  <2>1. pc # "down" /\ pc' = pc
    BY <1>2, <1>1 DEF TimerFires, KernelEvent, NodeEvent, QueueInv, run
  <2> QED
    BY <1>2, <2>1 DEF TimerFires, KernelEvent, NodeEvent, Enqueue, QueueInv
<1>3. CASE LinkUp \/ (\E d \in Dst : RouteDeleted(d)) \/ \E a \in HostV6 : AddrAppears(a)
  <2>1. watching => \E s \in Subscription : Send(s) \/ UNCHANGED watch
    BY <1>3, Zenon DEF LinkUp, RouteDeleted, AddrAppears, Report, Subscription
  <2>2. ~ watching => UNCHANGED watch
    BY <1>3 DEF LinkUp, RouteDeleted, AddrAppears, Report
  <2>3. UNCHANGED queue
    BY <1>3 DEF LinkUp, RouteDeleted, AddrAppears
  <2>4. pc = "down" => UNCHANGED watch
    BY <2>2 DEF QueueInv
  <2> QED
    BY <1>1, <2>3, <2>4 DEF QueueInv, Running, queue, watch, run
<1>4. CASE Subscribe \/ ReadTrouble \/ \E s \in Subscription : ReadMessage(s) \/ DecodeFails(s)
  <2>1. pc # "down"
    BY <1>4 DEF Subscribe, ReadTrouble, ReadMessage, DecodeFails, QueueInv
  <2>2. UNCHANGED queue
    BY <1>4 DEF Subscribe, ReadTrouble, ReadMessage, DecodeFails
  <2> QED
    BY <1>1, <2>1, <2>2 DEF QueueInv, Running, queue, run
<1> QED
  BY <1>1, <1>2, <1>3, <1>4 DEF Waking

LEMMA WakingStep ==
  ASSUME TypeOK, IInv, Waking
  PROVE  IInv'
<1> USE DEF run, files, cluster
<1>1. Pending'
  BY Wakes
<1>2. UNCHANGED run /\ UNCHANGED files /\ QueueInv'
  BY WakingKeeps DEF IInv
<1>3. CacheInv'
  <2>1. CASE UNCHANGED <<cluster, queue>>
    BY <1>2, <2>1 DEF IInv, CacheInv, Running, queue
  <2>2. CASE UNCHANGED cluster /\ Enqueue
    BY <1>2, <2>2 DEF IInv, CacheInv, Running, Enqueue
  <2>3. ASSUME NEW n \in Node, NodeEvent(n) PROVE CacheInv'
    <3>1. queued'
      BY <2>3 DEF NodeEvent, Enqueue
    <3>2. ASSUME NEW m \in Node PROVE m \in unseen' \/ cache'[m] = api'[m]
      BY <2>3 DEF NodeEvent, IInv, CacheInv, TypeOK, Clusters
    <3> QED
      BY <3>1, <3>2 DEF CacheInv
  <2> QED
    BY <2>1, <2>2, <2>3 DEF Waking, TimerFires, LinkUp, Subscribe, ReadTrouble, KernelEvent,
       RouteDeleted, AddrAppears, ReadMessage, DecodeFails
<1>4. WorkInv'
  BY <1>2 DEF IInv, WorkInv
<1>5. TableInv'
  BY <1>1 DEF TableInv, Accounted
<1>6. FilesInv'
  BY <1>1, <1>2 DEF IInv, FilesInv, ConfRight
<1>7. AnnotationInv'
  BY <1>1 DEF AnnotationInv
<1> QED
  BY <1>2, <1>3, <1>4, <1>5, <1>6, <1>7 DEF IInv

\* Changes nobody reports: they are entered in unseen, silent or silent6, or
\* take the uplink down, which excuses the table.
LEMMA UnreportedStep ==
  ASSUME TypeOK, IInv,
         \/ \E n \in Node : NodeChanges(n)
         \/ \E d \in Dst : RouteLost(d)
         \/ \E a \in HostV6 : AddrLeaves(a)
  PROVE  IInv'
<1> USE DEF run, files, cluster, watch, queue
<1>1. UNCHANGED <<run, files, watch, queue, cache, up>>
  BY DEF NodeChanges, RouteLost, AddrLeaves, kernel
<1>2. Pending' <=> Pending
  BY <1>1, PendingKept
<1>3. QueueInv' /\ WorkInv' /\ FilesInv'
  BY <1>1, <1>2 DEF IInv, QueueInv, Running, WorkInv, FilesInv, ConfRight
<1>4. ASSUME NEW n \in Node, NodeChanges(n) PROVE CacheInv' /\ TableInv' /\ AnnotationInv'
  <2>1. UNCHANGED <<kernel, history>> /\ unseen' = unseen \cup {n}
    BY <1>4 DEF NodeChanges
  <2>2. \A m \in Node : m = n \/ api'[m] = api[m]
    BY <1>4 DEF NodeChanges, TypeOK, Clusters
  <2>3. CacheInv'
    BY <1>1, <2>1, <2>2 DEF IInv, CacheInv, Running
  <2>4. TableInv'
    BY <1>1, <1>2, <2>1, TableKept DEF IInv, kernel, history
  <2>5. AnnotationInv'
    BY <1>1, <1>2, <2>1, <2>2, SelfAssumption
       DEF IInv, AnnotationInv, AnnotationRight, kernel, history
  <2> QED
    BY <2>3, <2>4, <2>5
<1>5. ASSUME NEW d \in Dst, RouteLost(d) PROVE CacheInv' /\ TableInv' /\ AnnotationInv'
  <2>1. UNCHANGED <<cluster, up6, silent6>> /\ silent' = silent \cup {d}
    BY <1>5 DEF RouteLost
  <2>2. \A c \in Dst : c = d \/ table'[c] = table[c]
    BY <1>5 DEF RouteLost, TypeOK
  <2>3. CacheInv' /\ AnnotationInv'
    BY <1>1, <1>2, <2>1 DEF IInv, CacheInv, Running, AnnotationInv, AnnotationRight
  <2>4. \A c \in Dst : Accounted(c) => Accounted(c)'
    BY <1>1, <1>2, <2>1 DEF Accounted
  <2>5. Accounted(d)'
    BY <2>1 DEF Accounted
  <2>6. TableInv'
    <3>1. ASSUME NEW c \in Dst, c # d
          PROVE  /\ Right(c, Compute(cache)) => Right(c, Compute(cache))'
                 /\ Right(c, Compute(seen)) => Right(c, Compute(seen))'
                 /\ table'[c] = table[c]
      BY <1>1, <2>2, <3>1, RightKept
    <3> QED
      BY <1>1, <2>4, <2>5, <3>1 DEF IInv, TableInv, Listed
  <2> QED
    BY <2>3, <2>6
<1>6. ASSUME NEW a \in HostV6, AddrLeaves(a) PROVE CacheInv' /\ TableInv' /\ AnnotationInv'
  <2>1. UNCHANGED <<cluster, table, silent>> /\ silent6'
    BY <1>6 DEF AddrLeaves
  <2>2. TableInv'
    BY <1>1, <1>2, <2>1, TableKept DEF IInv
  <2>3. CacheInv' /\ AnnotationInv'
    BY <1>1, <1>2, <2>1 DEF IInv, CacheInv, Running, AnnotationInv, AnnotationRight
  <2> QED
    BY <2>2, <2>3
<1> QED
  BY <1>3, <1>4, <1>5, <1>6 DEF IInv

LEMMA LinkDownStep ==
  ASSUME TypeOK, IInv, LinkDown
  PROVE  IInv'
<1> USE DEF run, files, cluster, queue
<1>1. UNCHANGED <<cluster, up6, files, queue, run, history>> /\ ~ up'
  BY DEF LinkDown
<1>2. (IF watching THEN Send("route") ELSE UNCHANGED watch) \/ UNCHANGED watch
  BY DEF LinkDown, Report
<1>3. Pending => Pending'
  BY <1>1, <1>2, ReportWakes, PendingKept DEF Subscription
<1>4. pc = "down" => UNCHANGED watch
  BY <1>2 DEF IInv, QueueInv
<1>5. QueueInv'
  BY <1>1, <1>4 DEF IInv, QueueInv, Running, watch
<1>6. CacheInv' /\ WorkInv'
  BY <1>1 DEF IInv, CacheInv, Running, WorkInv
<1>7. TableInv'
  BY <1>1 DEF TableInv, Accounted
<1>8. FilesInv' /\ AnnotationInv'
  BY <1>1, <1>3 DEF IInv, FilesInv, ConfRight, AnnotationInv, AnnotationRight, history
<1> QED
  BY <1>5, <1>6, <1>7, <1>8 DEF IInv

\* The daemon stops and starts; a daemon that has just started has its watch
\* still to subscribe, which ends in a run.
LEMMA LifeStep ==
  ASSUME TypeOK, IInv, Stop \/ Start
  PROVE  IInv'
<1>1. CASE Stop
  BY <1>1 DEF Stop, NoLocals, Nothing, IInv, QueueInv, Running, CacheInv, WorkInv, TableInv,
              Listed, FilesInv, AnnotationInv
<1>2. CASE Start
  <2>1. pc' = "idle" /\ Pending'
    BY <1>2 DEF Start, IInv, QueueInv, Pending, watch
  <2>2. QueueInv'
    BY <1>2 DEF Start, IInv, QueueInv, Running
  <2>3. CacheInv'
    BY <1>2 DEF Start, CacheInv, Running
  <2>4. WorkInv'
    BY <1>2 DEF Start, IInv, WorkInv
  <2>5. TableInv' /\ FilesInv' /\ AnnotationInv'
    BY <2>1 DEF TableInv, Accounted, Listed, FilesInv, AnnotationInv
  <2> QED
    BY <2>2, <2>3, <2>4, <2>5 DEF IInv
<1> QED
  BY <1>1, <1>2

-----------------------------------------------------------------------------
(***************************************************************************)
(* The reconcile, step by step.                                            *)
(***************************************************************************)
LEMMA BeginStep ==
  ASSUME TypeOK, IInv, Begin
  PROVE  IInv'
<1>1. pc = "idle" /\ queued /\ pc' = "apply" /\ timer = "none"
  BY DEF Begin, IInv, QueueInv
<1>2. QueueInv'
  BY <1>1 DEF Begin, QueueInv, Running
<1>3. CacheInv'
  BY <1>1 DEF Begin, IInv, CacheInv, cluster
<1>4. WorkInv'
  <2>1. todo' = {} /\ stale' = {}
    BY <1>1 DEF Begin, IInv, WorkInv
  <2> QED
    BY <2>1 DEF WorkInv
<1>5. TableInv' /\ FilesInv' /\ AnnotationInv'
  BY <1>1 DEF TableInv, Listed, FilesInv, AnnotationInv
<1> QED
  BY <1>2, <1>3, <1>4, <1>5 DEF IInv

\* After the listing every destination is right, in todo or in stale.
LEMMA ListStep ==
  ASSUME TypeOK, IInv, ListKernel \/ ListKernelFails
  PROVE  IInv'
<1>1. /\ UNCHANGED <<cluster, kernel, files, watch, queue, seen, history>>
      /\ pc = "apply" /\ pc' \in {"replace", "forward"}
  BY DEF ListKernel, ListKernelFails
<1>2. QueueInv' /\ CacheInv'
  BY <1>1 DEF IInv, QueueInv, CacheInv, Running, queue, cluster, watch
<1>3. FilesInv' /\ AnnotationInv'
  BY <1>1 DEF FilesInv, AnnotationInv
<1>4. CASE ListKernel
  <2>1. WorkInv'
    BY <1>4 DEF ListKernel, WorkInv
  <2>2. ASSUME NEW d \in Dst
        PROVE  Right(d, Compute(seen))' \/ (\E r \in todo' : r.dst = d) \/ <<d, table'[d]>> \in stale'
    BY <1>4 DEF ListKernel, Right, kernel
  <2>3. TableInv'
    BY <1>4, <2>2 DEF ListKernel, TableInv
  <2> QED
    BY <1>2, <1>3, <2>1, <2>3 DEF IInv
<1>5. CASE ListKernelFails
  <2>1. WorkInv'
    BY <1>5 DEF ListKernelFails, IInv, WorkInv
  <2>2. TableInv'
    BY <1>5 DEF ListKernelFails, TableInv
  <2> QED
    BY <1>2, <1>3, <2>1, <2>2 DEF IInv
<1> QED
  BY <1>4, <1>5

LEMMA ReplaceStep ==
  ASSUME TypeOK, IInv, NEW r \in todo, Replace(r)
  PROVE  IInv'
<1>1. /\ UNCHANGED <<cluster, up, files, queue, pc, seen, stale>> /\ pc = "replace"
      /\ todo' = todo \ {r}
  BY DEF Replace
<1>2. UNCHANGED watch
  BY DEF Replace, Report, ReapplyAfterRoute
<1>3. Pending' <=> Pending
  BY <1>1, <1>2, PendingKept
<1>4. QueueInv' /\ CacheInv' /\ WorkInv'
  BY <1>1, <1>2 DEF IInv, QueueInv, CacheInv, WorkInv, Running, queue, cluster, watch
<1>5. FilesInv' /\ AnnotationInv'
  BY <1>1 DEF FilesInv, AnnotationInv
<1>6. TableInv'
  <2>1. CASE ~ (up /\ r.via \in OnLink)
    BY <1>1, <2>1 DEF Replace, TableInv
  <2>2. CASE up /\ r.via \in OnLink
    <3>1. r \in Compute(seen) /\ r.dst \in Dst /\ Mask[r.dst] = r.dst
      BY ComputedRoutes DEF IInv, WorkInv, TypeOK
    <3>2. /\ table' = [table EXCEPT ![r.dst] = Own(r.via)]
          /\ silent' = silent \ {r.dst} /\ failed' = failed
      BY <2>2, <3>1 DEF Replace
    <3>3. Right(r.dst, Compute(seen))'
      BY <1>1, <3>1, <3>2 DEF Right, TypeOK
    <3>4. ASSUME ~ failed, NEW d \in Dst, d # r.dst
          PROVE  \/ Accounted(d)' \/ Right(d, Compute(seen))'
                 \/ \E t \in todo' : t.dst = d
                 \/ <<d, table'[d]>> \in stale'
      <4>1. \/ Accounted(d) \/ Right(d, Compute(seen)) \/ \E t \in todo : t.dst = d
            \/ <<d, table[d]>> \in stale
        BY <1>1, <3>4 DEF IInv, TableInv, Listed
      <4>2. table'[d] = table[d]
        BY <3>2, <3>4 DEF TypeOK
      <4>3. Accounted(d)' <=> Accounted(d)
        BY <1>1, <1>3, <3>2, <3>4 DEF Accounted
      <4>4. Right(d, Compute(seen)) => Right(d, Compute(seen))'
        BY <1>1, <4>2, RightKept
      <4>5. (\E t \in todo : t.dst = d) => \E t \in todo' : t.dst = d
        BY <1>1, <3>4
      <4>6. <<d, table[d]>> \in stale => <<d, table'[d]>> \in stale'
        BY <1>1, <3>4, <4>2
      <4> QED
        BY <4>1, <4>3, <4>4, <4>5, <4>6
    <3> QED
      BY <1>1, <3>2, <3>3, <3>4 DEF TableInv
  <2> QED
    BY <2>1, <2>2
<1> QED
  BY <1>4, <1>5, <1>6 DEF IInv

LEMMA DeleteStep ==
  ASSUME TypeOK, IInv, NEW x \in stale, DeleteStale(x[1], x[2])
  PROVE  IInv'
<1>1. /\ UNCHANGED <<cluster, up, files, queue, pc, seen, todo, silent>> /\ pc = "delete"
      /\ stale' = stale \ {<<x[1], x[2]>>}
  BY DEF DeleteStale, history
<1>2. (IF watching THEN Send("route") ELSE UNCHANGED watch) \/ UNCHANGED watch
  BY DEF DeleteStale, Report
<1>3. Pending => Pending'
  BY <1>1, <1>2, ReportWakes, PendingKept DEF Subscription
<1>4. QueueInv' /\ CacheInv' /\ WorkInv'
  BY <1>1 DEF IInv, QueueInv, CacheInv, WorkInv, Running, queue, cluster
<1>5. FilesInv' /\ AnnotationInv'
  BY <1>1 DEF FilesInv, AnnotationInv
<1>6. TableInv'
  <2>1. CASE table[x[1]] # x[2]
    BY <1>1, <2>1 DEF DeleteStale, TableInv
  <2>2. CASE table[x[1]] = x[2]
    <3>1. table' = [table EXCEPT ![x[1]] = NoRoute] /\ failed' = failed
      BY <2>2 DEF DeleteStale
    <3>2. x[1] \in Dst /\ \A r \in Compute(seen) : r.dst # x[1]
      BY DEF IInv, WorkInv, TypeOK
    <3>3. Right(x[1], Compute(seen))'
      BY <1>1, <3>1, <3>2 DEF Right, TypeOK, NoRoute
    <3>4. ASSUME ~ failed, NEW d \in Dst, d # x[1]
          PROVE  \/ Accounted(d)' \/ Right(d, Compute(seen))'
                 \/ \E t \in todo' : t.dst = d
                 \/ <<d, table'[d]>> \in stale'
      <4>1. \/ Accounted(d) \/ Right(d, Compute(seen)) \/ \E t \in todo : t.dst = d
            \/ <<d, table[d]>> \in stale
        BY <1>1, <3>4 DEF IInv, TableInv, Listed
      <4>2. table'[d] = table[d]
        BY <3>1, <3>4 DEF TypeOK
      <4>3. Accounted(d) => Accounted(d)'
        BY <1>1, <1>3 DEF Accounted
      <4>4. Right(d, Compute(seen)) => Right(d, Compute(seen))'
        BY <1>1, <4>2, RightKept
      <4>5. (\E t \in todo : t.dst = d) => \E t \in todo' : t.dst = d
        BY <1>1, <3>4
      <4>6. <<d, table[d]>> \in stale => <<d, table'[d]>> \in stale'
        BY <1>1, <3>4, <4>2
      <4> QED
        BY <4>1, <4>3, <4>4, <4>5, <4>6
    <3> QED
      BY <1>1, <3>1, <3>3, <3>4 DEF TableInv
  <2> QED
    BY <2>1, <2>2
<1> QED
  BY <1>4, <1>5, <1>6 DEF IInv

\* The steps after Apply leave the routes, and what is owed for them, alone.
LEMMA LaterKeeps ==
  ASSUME IInv, UNCHANGED <<cache, table, up, watch, queue, seen, todo, stale, silent>>,
         Listed, pc' # "replace", pc' # "idle", pc' # "down", failed => failed',
         pc # "replace" \/ todo = {}, pc # "delete" \/ stale = {} \/ pc' = "delete",
         pc = "replace" => pc' = "delete"
  PROVE  QueueInv' /\ WorkInv' /\ TableInv' /\ (Pending' <=> Pending)
<1>1. Pending' <=> Pending
  BY PendingKept
<1>2. QueueInv'
  BY DEF IInv, QueueInv, Running, Listed, queue
<1>3. WorkInv'
  BY DEF IInv, WorkInv, Listed
<1>4. TableInv'
  <2>1. ASSUME NEW d \in Dst
        PROVE  /\ Accounted(d)' <=> Accounted(d)
               /\ Right(d, Compute(seen)) => Right(d, Compute(seen))'
    <3>1. Accounted(d)' <=> Accounted(d)
      BY <1>1 DEF Accounted
    <3> QED
      BY <3>1, RightKept
  <2> QED
    BY <2>1 DEF IInv, TableInv
<1> QED
  BY <1>1, <1>2, <1>3, <1>4

LEMMA AppliedStep ==
  ASSUME TypeOK, IInv, Replaced \/ Deleted
  PROVE  IInv'
<1>1. /\ UNCHANGED <<cluster, kernel, files, watch, queue, seen, todo, stale, failed, history>>
      /\ \/ pc = "replace" /\ pc' = "delete" /\ todo = {}
         \/ pc = "delete" /\ pc' = "forward" /\ stale = {}
  BY DEF Replaced, Deleted
<1>2. QueueInv' /\ WorkInv' /\ TableInv'
  BY <1>1, LaterKeeps DEF Listed, cluster, kernel, history
<1>3. CacheInv' /\ FilesInv' /\ AnnotationInv'
  BY <1>1 DEF IInv, CacheInv, Running, FilesInv, AnnotationInv, cluster, queue
<1> QED
  BY <1>2, <1>3 DEF IInv

LEMMA ForwardStep ==
  ASSUME TypeOK, IInv, Forward \/ ForwardFails
  PROVE  IInv'
<1>1. /\ UNCHANGED <<cluster, kernel, conf, watch, queue, seen, todo, stale, history>>
      /\ pc = "forward" /\ pc' = IF seen[Self] = NoNode THEN "done" ELSE "conflist"
      /\ failed => failed'
  BY DEF Forward, ForwardFails
<1>2. QueueInv' /\ WorkInv' /\ TableInv' /\ (Pending' <=> Pending)
  BY <1>1, LaterKeeps DEF Listed, cluster, kernel, history
<1>3. CacheInv'
  BY <1>1 DEF IInv, CacheInv, Running, cluster, queue
<1>4. failed' \/ chain' = ClusterPodCIDRs(seen)
  BY DEF Forward, ForwardFails
<1>5. FilesInv'
  BY <1>1, <1>4 DEF FilesInv, ConfRight
<1>6. AnnotationInv'
  <2>1. ASSUME pc' = "done" PROVE Pending' \/ AnnotationRight'
    <3>1. seen[Self] = NoNode
      BY <1>1, <2>1
    <3>2. seen = cache \/ queued
      BY <1>1 DEF IInv, CacheInv, Running
    <3>3. Self \in unseen \/ cache[Self] = api[Self]
      BY <1>1, SelfAssumption DEF IInv, CacheInv
    <3> QED
      BY <1>1, <1>2, <3>1, <3>2, <3>3 DEF AnnotationRight, Pending, cluster
  <2> QED
    BY <1>1, <2>1 DEF AnnotationInv
<1> QED
  BY <1>2, <1>3, <1>5, <1>6 DEF IInv

LEMMA ConflistStep ==
  ASSUME TypeOK, IInv, WriteConflist \/ WriteConflistFails
  PROVE  IInv'
<1>1. /\ UNCHANGED <<cluster, kernel, chain, watch, queue, seen, todo, stale, history>>
      /\ pc = "conflist" /\ pc' = "annotate" /\ (failed => failed')
  BY Zenon DEF WriteConflist, WriteConflistFails, files
<1>2. QueueInv' /\ WorkInv' /\ TableInv'
  BY <1>1, LaterKeeps DEF Listed, cluster, kernel, history
<1>3. CacheInv' /\ AnnotationInv'
  BY <1>1 DEF IInv, CacheInv, Running, AnnotationInv, cluster, queue
<1>4. failed' \/ ConfRight(seen)'
  BY DEF WriteConflist, WriteConflistFails, ConfRight
<1>5. FilesInv'
  BY <1>1, <1>4 DEF IInv, FilesInv
<1> QED
  BY <1>2, <1>3, <1>5 DEF IInv

\* publishIPv6.  If it skips the patch, the object it compared with is the
\* server's, or an event is to come; if it patches, its own event is.
LEMMA AnnotateStep ==
  ASSUME TypeOK, IInv, Annotate \/ Patch \/ AnnotateFails
  PROVE  IInv'
<1>1. /\ UNCHANGED <<cache, kernel, files, watch, queue, seen, todo, stale, silent>>
      /\ pc \in {"annotate", "patch"} /\ pc' \in {"patch", "done"} /\ (failed => failed')
      /\ unseen \subseteq unseen'
  BY DEF Annotate, Patch, AnnotateFails, cluster, history
<1>2. QueueInv' /\ WorkInv' /\ TableInv' /\ (Pending' <=> Pending)
  BY <1>1, LaterKeeps DEF Listed, kernel
<1>3. FilesInv'
  BY <1>1 DEF IInv, FilesInv, ConfRight, files
<1>4. \A n \in Node : n \in unseen' \/ api'[n] = api[n]
  <2>1. CASE Patch
    BY <2>1 DEF Patch, TypeOK, Clusters
  <2> QED
    BY <2>1 DEF Annotate, AnnotateFails, cluster
<1>5. CacheInv'
  BY <1>1, <1>4 DEF IInv, CacheInv, Running, queue
<1>6. AnnotationInv'
  <2>1. CASE Annotate
    <3> SUFFICES ASSUME pc' = "done" PROVE Pending' \/ AnnotationRight'
      BY <1>1 DEF AnnotationInv
    <3>1. /\ UNCHANGED <<api, unseen, up6>>
          /\ seen[Self].annotation = WantAnnotation(FromNode(seen[Self]), up6)
      BY <2>1 DEF Annotate, cluster, kernel
    <3>2. seen = cache \/ queued
      BY <1>1 DEF IInv, CacheInv, Running
    <3>3. Self \in unseen \/ cache[Self] = api[Self]
      BY <1>1, SelfAssumption DEF IInv, CacheInv
    <3>4. CASE queued
      BY <1>1, <3>4 DEF Pending, queue
    <3>5. CASE seen = cache
      BY <3>1, <3>3, <3>5 DEF AnnotationRight
    <3> QED
      BY <3>2, <3>4, <3>5
  <2>2. CASE Patch
    BY <2>2 DEF Patch, AnnotationInv, AnnotationRight
  <2>3. CASE AnnotateFails
    BY <2>3 DEF AnnotateFails, AnnotationInv
  <2> QED
    BY <2>1, <2>2, <2>3
<1> QED
  BY <1>2, <1>3, <1>5, <1>6 DEF IInv

\* A failure becomes a backoff; without one, the work is done for the cache.
LEMMA FinishStep ==
  ASSUME TypeOK, IInv, Finish
  PROVE  IInv'
<1>1. /\ UNCHANGED <<cluster, kernel, files, watch, queued, history>>
      /\ pc = "done" /\ pc' = "idle" /\ todo' = {} /\ stale' = {}
  BY DEF Finish, NoLocals
<1>2. timer = "none" /\ (seen = cache \/ queued) /\ todo = {} /\ stale = {}
  BY <1>1 DEF IInv, QueueInv, CacheInv, WorkInv, Running
<1>3. Pending' \/ (~ failed /\ seen = cache /\ ~ Pending)
  BY <1>1, <1>2 DEF Finish, Pending, watch
<1>4. QueueInv' /\ CacheInv' /\ WorkInv'
  <2>1. QueueInv'
    BY <1>1 DEF Finish, QueueInv, Running
  <2>2. CacheInv'
    BY <1>1 DEF IInv, CacheInv, Running, cluster
  <2>3. WorkInv'
    BY <1>1 DEF WorkInv
  <2> QED
    BY <2>1, <2>2, <2>3
<1>5. CASE Pending'
  BY <1>1, <1>4, <1>5 DEF IInv, TableInv, Accounted, Listed, FilesInv, AnnotationInv
<1>6. CASE ~ failed /\ seen = cache /\ ~ Pending
  <2>1. TableInv'
    <3>1. \A d \in Dst : d \in silent \/ ~ up \/ Right(d, Compute(cache))
      BY <1>1, <1>2, <1>6 DEF IInv, TableInv, Listed, Accounted
    <3> QED
      <4>1. ASSUME NEW d \in Dst PROVE Accounted(d)' \/ Right(d, Compute(cache))'
        BY <1>1, <3>1, RightKept DEF Accounted, cluster, kernel, history
      <4> QED
        BY <1>1, <4>1 DEF TableInv, Listed
  <2>2. FilesInv'
    BY <1>1, <1>6 DEF IInv, FilesInv, ConfRight, cluster, files
  <2>3. AnnotationInv'
    BY <1>1, <1>6 DEF IInv, AnnotationInv, AnnotationRight, cluster, kernel, history
  <2> QED
    BY <1>4, <2>1, <2>2, <2>3 DEF IInv
<1> QED
  BY <1>3, <1>5, <1>6

-----------------------------------------------------------------------------
LEMMA InductiveInit == Init => IInv
BY DEF Init, IInv, QueueInv, Running, CacheInv, WorkInv, TableInv, Listed, FilesInv,
       AnnotationInv

LEMMA InductiveNext == TypeOK /\ IInv /\ [Next]_vars => IInv'
<1> SUFFICES ASSUME TypeOK, IInv, [Next]_vars
             PROVE  IInv'
  OBVIOUS
<1>1. CASE Environment
  BY <1>1, WakingStep, UnreportedStep, LinkDownStep, LifeStep, ListStep, ForwardStep,
     ConflistStep, AnnotateStep DEF Environment, Waking, Crash
<1>2. CASE Reconcile
  BY <1>2, BeginStep, ListStep, ReplaceStep, DeleteStep, AppliedStep, ForwardStep,
     ConflistStep, AnnotateStep, FinishStep DEF Reconcile
<1>3. CASE Daemon /\ ~ Reconcile
  BY <1>3, WakingStep, LifeStep DEF Daemon, Waking, WatchEnds
<1>4. CASE UNCHANGED vars
  <2>1. Pending' <=> Pending
    BY <1>4, PendingKept DEF vars
  <2>2. TableInv'
    BY <1>4, <2>1, TableKept DEF vars, cluster, kernel, run, history, IInv
  <2>3. QueueInv' /\ CacheInv' /\ WorkInv'
    BY <1>4 DEF vars, cluster, watch, queue, run, IInv, QueueInv, Running, CacheInv, WorkInv
  <2>4. FilesInv'
    BY <1>4, <2>1 DEF vars, cluster, files, run, IInv, FilesInv, ConfRight
  <2>5. AnnotationInv'
    BY <1>4, <2>1 DEF vars, cluster, kernel, run, history, IInv, AnnotationInv, AnnotationRight
  <2> QED
    BY <2>2, <2>3, <2>4, <2>5 DEF IInv
<1> QED
  BY <1>1, <1>2, <1>3, <1>4 DEF Next

LEMMA Inductive == Spec => [](TypeOK /\ IInv)
BY TypeInit, TypeNext, InductiveInit, InductiveNext, PTL DEF Spec

\* At rest, with no run owed, the daemon's routes are exactly those of the
\* cached Nodes: no loss the kernel reported, no Node event and no failed
\* RouteReplace or RouteDel is forgotten by Kernel.Watch, the channel of
\* capacity 1, the work queue or Reconcile.
THEOREM RoutesStayInStep == Spec => []RoutesInStep
<1>1. TypeOK /\ IInv => RoutesInStep
  BY DEF IInv, TableInv, Accounted, RoutesInStep
<1> QED
  BY <1>1, Inductive, PTL

\* At rest the forward chain and the conflist are those of the cached Nodes,
\* although each step of Reconcile may have failed on its own.
THEOREM FilesStayInStep == Spec => []FilesInStep
<1>1. TypeOK /\ IInv => FilesInStep
  BY DEF IInv, FilesInv, ConfRight, FilesInStep
<1> QED
  BY <1>1, Inductive, PTL

\* At rest, with no Node event to come, the annotation on the API server is
\* the one publishIPv6 wants, although it compares with a cached object and
\* patches without a resource version.
THEOREM AnnotationStaysInStep == Spec => []AnnotationInStep
<1>1. TypeOK /\ IInv => AnnotationInStep
  BY DEF IInv, AnnotationInv, AnnotationRight, AnnotationInStep
<1> QED
  BY <1>1, Inductive, PTL

\* A route of somebody else's leaves the table only where RouteReplace puts
\* the route of a listed Node: Kernel.Apply deletes none, not even one that
\* took the place of a stale route after the listing.
THEOREM ForeignOnlyEverReplaced == Spec => ForeignOnlyReplaced
<1> DEFINE Kept(d) == table[d] = Foreign /\ table'[d] # Foreign =>
                        \E r \in Compute(seen) : r.dst = d /\ table'[d] = Own(r.via)
<1>1. ASSUME TypeOK, IInv, [Next]_vars, NEW d \in Dst
      PROVE  Kept(d)
  <2>1. CASE UNCHANGED table
    BY <2>1
  <2>2. ASSUME NEW c \in Dst, RouteDeleted(c) \/ RouteLost(c) PROVE Kept(d)
    <3>1. table[c].owner = "cnidaria" /\ (d # c => table'[d] = table[d])
      BY <1>1, <2>2 DEF RouteDeleted, RouteLost, TypeOK
    <3>2. table[d] = Foreign => table'[d] = Foreign
      BY <3>1 DEF Foreign
    <3> QED
      BY <3>2
  <2>3. CASE LinkDown
    <3>1. table[d] = Foreign => table'[d] = Foreign
      BY <2>3 DEF LinkDown, Foreign
    <3> QED
      BY <3>1
  <2>4. ASSUME NEW r \in todo, Replace(r) PROVE Kept(d)
    <3>1. r \in Compute(seen) /\ Mask[r.dst] = r.dst
      BY <1>1, ComputedRoutes DEF IInv, WorkInv, TypeOK
    <3>2. table'[d] = table[d] \/ (d = r.dst /\ table'[d] = Own(r.via))
      BY <1>1, <2>4, <3>1 DEF Replace, TypeOK
    <3> QED
      BY <3>1, <3>2
  <2>5. ASSUME NEW x \in stale, DeleteStale(x[1], x[2]) PROVE Kept(d)
    <3>1. x[2].owner = "cnidaria"
      BY <1>1 DEF IInv, WorkInv
    <3>2. table'[d] = table[d] \/ (d = x[1] /\ table[d] = x[2])
      BY <1>1, <2>5 DEF DeleteStale, TypeOK
    <3>3. table[d] = Foreign => table'[d] = Foreign
      BY <3>1, <3>2 DEF Foreign
    <3> QED
      BY <3>3
  <2>6. UNCHANGED table \/ LinkDown \/ (\E c \in Dst : RouteDeleted(c) \/ RouteLost(c))
        \/ (\E r \in todo : Replace(r)) \/ \E x \in stale : DeleteStale(x[1], x[2])
    BY <1>1 DEF Next, Daemon, Reconcile, Environment, vars, kernel, Begin, ListKernel, Replaced,
       Deleted, Forward, WriteConflist, Annotate, Patch, Finish, TimerFires, Subscribe,
       ReadTrouble, KernelEvent, WatchEnds, Crash, Stop, Start, NodeEvent, ReadMessage,
       NodeChanges, AddrAppears, AddrLeaves, DecodeFails, LinkUp, ListKernelFails,
       ForwardFails, WriteConflistFails, AnnotateFails
  <2> QED
    BY <2>1, <2>2, <2>3, <2>4, <2>5, <2>6
<1>2. TypeOK /\ IInv /\ [Next]_vars => [\A d \in Dst : Kept(d)]_vars
  BY <1>1
<1> QED
  BY <1>2, Inductive, PTL DEF Spec, ForeignOnlyReplaced

=============================================================================
