----------------------------- MODULE DataPlane ------------------------------
(***************************************************************************)
(* The two reconcilers of one daemon, and what a packet from one of the    *)
(* node's pods meets: the route of Routes, the forward chain, and the      *)
(* masquerade of the postrouting chain that Ruleset's table has.           *)
(*                                                                         *)
(* Both read Node objects from one informer, each with a handler, a queue  *)
(* and a worker of its own.  The daemon has no NodeNetworkPolicies here    *)
(* (see Ruleset); of the NetworkPolicies only whether they all render.     *)
(***************************************************************************)
EXTENDS Routes

CONSTANTS NoTable, NoInput, Unrenderable

VARIABLES
  renders,   \* every NetworkPolicy on the API server renders
  listed,    \* the same as the informer last delivered it
  notified,  \* the ruleset's handler has a Node event to map
  rqueued, rtimer, nft, applied, elapsed, rpc, read, text  \* see Ruleset

other   == <<renders, listed, notified>>
ruleset == <<rqueued, rtimer, nft, applied, elapsed, rpc, read, text>>
all     == <<vars, other, ruleset>>

-----------------------------------------------------------------------------
(***************************************************************************)
(* What render and nftables.Render make of the Node objects: the sets      *)
(* node_pods and cluster_pods.                                             *)
(***************************************************************************)
PodCIDRs(nodes) == IF nodes[Self] = NoNode THEN {} ELSE FromNode(nodes[Self]).podCIDRs

\* The prefixes as the Node objects spell them.
SplitFamilies_Unmasked(prefixes) == prefixes

\* splitFamilies, for both families at once: masked, without duplicates.
SplitFamilies(prefixes) == {Mask[c] : c \in prefixes}

Validates(nodes) == PodCIDRs(nodes) # {} /\ OnePerFamily(PodCIDRs(nodes))

Sets(nodes) ==
  [node    |-> SplitFamilies(PodCIDRs(nodes)),
   cluster |-> SplitFamilies(UNION {FromNode(nodes[n]).podCIDRs : n \in Present(nodes)})]

InputOf(nodes, ok) ==
  [labels |-> {}, cidr |-> PodCIDRs(nodes) # {},
   rest   |-> IF ok /\ Validates(nodes) THEN Sets(nodes) ELSE Unrenderable]

At(v) == [n \in {Self} |-> v]

RS == INSTANCE Ruleset WITH
  Node <- {Self}, Policy <- {}, NoPolicy <- NoNode, PolicySpec <- {}, NoEntry <- NoNode,
  Unsaid <- NoNode, MaxGeneration <- 1,
  Input <- {InputOf(c, ok) : c \in Clusters, ok \in BOOLEAN},
  input <- At(InputOf(api, renders)), known <- At(InputOf(cache, listed)),
  news <- IF unseen # {} \/ notified \/ renders # listed THEN {Self} ELSE {},
  pol <- <<>>, view <- At(<<>>), fresh <- At({}), due <- At({}), snap <- At(<<>>),
  current <- At({}), say <- At(<<>>),
  queued <- rqueued, timer <- rtimer, table <- nft, pc <- rpc

-----------------------------------------------------------------------------
DInit ==
  /\ Init /\ renders = TRUE /\ listed = TRUE /\ notified = FALSE
  /\ rqueued = At(FALSE) /\ rtimer = At("none") /\ nft = At(NoTable) /\ applied = At(NoTable)
  /\ elapsed = At(TRUE) /\ rpc = At("down") /\ read = At(NoInput) /\ text = At(NoTable)

\* A ruleset controller that does not watch Nodes.
SharedNodeEvent_RoutesOnly(n) == NodeEvent(n) /\ UNCHANGED <<other, ruleset>>

\* One informer delivers the Node to the cache; each of the two controllers
\* has its own handler, which runs in its own time.
SharedNodeEvent(n) == NodeEvent(n) /\ notified' = TRUE /\ UNCHANGED <<renders, listed, ruleset>>

HandlerRuns ==
  /\ notified /\ notified' = FALSE
  /\ RS!Enqueue(Self)
  /\ UNCHANGED <<vars, renders, listed, nft, applied, elapsed, rpc, read, text>>

\* A NetworkPolicy is created or edited, so that the listing renders or not.
PolicyEdited ==
  /\ Change
  /\ renders' = ~ renders
  /\ UNCHANGED <<cluster, kernel, files, watch, queue, run, history, listed, notified, ruleset>>

PolicyDelivered ==
  /\ pc # "down" /\ listed # renders /\ listed' = renders
  /\ RS!Enqueue(Self)
  /\ UNCHANGED <<vars, renders, notified, nft, applied, elapsed, rpc, read, text>>

\* One process: it starts, and stops, with both of them.
BothStart ==
  /\ Start
  /\ listed' = renders /\ notified' = FALSE /\ UNCHANGED renders
  /\ RS!Start(Self)

RulesetStops ==
  /\ rpc' = At("down") /\ rqueued' = At(FALSE) /\ rtimer' = At("none") /\ notified' = FALSE
  /\ RS!Over(Self)
  /\ UNCHANGED <<renders, listed, nft, applied, elapsed>>

BothStop == (Crash \/ WatchEnds) /\ RulesetStops

\* The route reconciler and its surroundings, alone.  Messages that cannot be
\* decoded are left to Routes.
RouteStep ==
  \/ Reconcile \/ TimerFires \/ Subscribe \/ KernelEvent
  \/ \E s \in Subscription : ReadMessage(s)

RouteEnvironment ==
  \/ \E n \in Node : NodeChanges(n)
  \/ \E d \in Dst : RouteDeleted(d) \/ RouteLost(d)
  \/ LinkDown \/ LinkUp
  \/ ListKernelFails \/ ForwardFails \/ WriteConflistFails \/ AnnotateFails

RoutesOnly == (RouteStep \/ RouteEnvironment) /\ UNCHANGED <<other, ruleset>>

\* The ruleset reconciler, alone.
RulesetStep ==
  /\ UNCHANGED <<cluster, kernel, files, watch, queue, run, history, other>>
  /\ RS!Reconcile(Self) \/ RS!TimerFires(Self)

RulesetEnvironment ==
  /\ UNCHANGED <<cluster, kernel, files, watch, queue, run, history, other>>
  /\ \/ RS!TimePasses(Self) \/ RS!TableGone(Self) \/ RS!RenderFails(Self) \/ RS!ApplyFails(Self)

DNext ==
  \/ \E n \in Node : SharedNodeEvent(n)
  \/ HandlerRuns \/ PolicyEdited \/ PolicyDelivered \/ BothStart \/ BothStop
  \/ RoutesOnly \/ RulesetStep \/ RulesetEnvironment

DSpec == DInit /\ [][DNext]_all

\* A step of Routes that leaves the ruleset reconciler alone.
Alone(A) == A /\ UNCHANGED <<other, ruleset>>

\* The fairness of Routes and of Ruleset, goroutine by goroutine: the informer,
\* the watch of the kernel, the handlers between them, and the two workers.
DFairness ==
  /\ WF_all(\E n \in Node : SharedNodeEvent(n))
  /\ WF_all(Alone(Subscribe \/ KernelEvent \/ \E s \in Subscription : ReadMessage(s)))
  /\ WF_all(HandlerRuns) /\ WF_all(PolicyDelivered)
  /\ WF_all(Alone(Reconcile)) /\ WF_all(Alone(TimerFires)) /\ WF_all(RulesetStep)
  /\ WF_all(BothStart \/ (WatchEnds /\ RulesetStops))

DFairSpec == DSpec /\ DFairness

-----------------------------------------------------------------------------
(***************************************************************************)
(* What becomes of a packet of one of this node's pods, by its destination.*)
(***************************************************************************)
\* ip saddr @node_pods ip daddr != @cluster_pods masquerade
Masqueraded(d) ==
  /\ nft[Self] # NoTable
  /\ \E c \in nft[Self].rest.node : (c \in V6) = (d \in V6)
  /\ d \notin nft[Self].rest.cluster

Forwarded(d) == table[d].owner = "cnidaria" /\ d \in chain

\* The address node n has published for the family of d: its first InternalIP
\* of it, or the IPv6 address it put in its annotation.
Published(o, d, a) ==
  LET of == {i \in DOMAIN o.addresses :
               /\ o.addresses[i].type = "InternalIP" /\ o.addresses[i].address \in Addr
               /\ (o.addresses[i].address \in V6) = (d \in V6)} IN
  \/ \E i \in of : a = o.addresses[i].address /\ \A j \in of : i <= j
  \/ of = {} /\ d \in V6 /\ a \in Addr \cap V6 /\ a = o.annotation

\* The pod CIDRs of a node, as packets know them.
CIDRsOf(n) == IF api[n] = NoNode THEN {} ELSE {Mask[c] : c \in api[n].podCIDRs \cap Prefix}

RulesetRests == RS!Resting(Self) /\ RS!Accepted(Self) /\ nft[Self] # NoTable
RoutesRest   == pc = "idle" /\ ~ Pending /\ up /\ unseen = {}

\* A packet to d goes to a peer that has d and has published an address of the
\* family, through that address, past the forward chain, and with its own
\* source address; if there is no such peer it meets no route of the daemon's.
Reached(d) ==
  LET peers == {n \in Present(api) \ {Self} :
                  d \in CIDRsOf(n) /\ \E a \in Addr : Published(api[n], d, a)} IN
  IF peers = {} THEN table[d].owner # "cnidaria"
  ELSE /\ Forwarded(d) /\ ~ Masqueraded(d)
       /\ \E n \in peers : Published(api[n], d, table[d].via)

\* A packet to d, of a family this node has pods of, leaves under the node's
\* address if d is no node's, and only then.
Translated(d) ==
  (\E c \in CIDRsOf(Self) : (c \in V6) = (d \in V6)) =>
    (Masqueraded(d) <=> \A n \in Present(api) : d \notin CIDRsOf(n))

-----------------------------------------------------------------------------
(***************************************************************************)
(* Properties.                                                             *)
(***************************************************************************)
\* A pod of this node reaches the pods of every peer, as the API server has
\* them, whenever both reconcilers rest, whichever of them saw a Node first:
\* the two lose no event between them, and what they make of the same Node
\* fits together.
PeersReached == RoutesRest /\ RulesetRests => \A d \in Dst \ silent : Reached(d)

\* ADR 0001 and 0003: "masquerade for pod traffic leaving the cluster's pod
\* CIDRs", and no other: at rest exactly what goes to no node's pods.
LeavingMasqueraded == RulesetRests => \A d \in Dst : Translated(d)

\* Once the environment rests, with the uplink up and objects that render, the
\* pods of every peer are reached, what leaves the cluster is masqueraded, and
\* both stay so: a node that joins gets its route and its place in the
\* masquerade set, whatever failed or was removed on the way.
PodTrafficComesRight ==
  <>[](up /\ renders /\ Validates(api)) => <>[](\A d \in Dst : Reached(d) /\ Translated(d))

\* ADR 0006: the route set and the masquerade set "are derived from the same
\* Node objects in the same reconcile, so the two cannot disagree about which
\* nodes exist".  Read of the moments when both reconcilers rest, with every
\* event delivered and this node's own object in order: no route of the
\* daemon's has a destination that the masquerade set of its table lacks.
CannotDisagree ==
  RoutesRest /\ RS!Resting(Self) /\ Validates(api) /\ nft[Self] # NoTable =>
    \A d \in Dst : table[d].owner = "cnidaria" => d \in nft[Self].rest.cluster

=============================================================================
