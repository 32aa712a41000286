------------------------------ MODULE HubRouting -----------------------------
(***************************************************************************)
(* Routes through the hubs: the hubs and their metrics in sled (hub.rs),    *)
(* the channel graph in memory and the depth-first search for routes        *)
(* (routing.rs), as the channel service's routing handlers use them.        *)
(* The score a route is sorted by is left out: routes are a set here.       *)
(***************************************************************************)
EXTENDS Naturals, Sequences, FiniteSets, SequencesExt, Functions

CONSTANTS
    Hubs,         \* DID hashes of hubs
    Rates,        \* fee rates in basis points
    Liquidities,  \* available liquidity of a hub
    Amount,       \* the amount routes are asked for
    MaxEdges,     \* bound on edges added by hand
    MaxUpdates,   \* bound on metrics updates
    MaxRestarts,  \* bound on restarts
    None          \* Rust's None

HubRoutingAssumption ==
    /\ IsFiniteSet(Hubs) /\ None \notin Hubs
    /\ Rates \subseteq Nat /\ Liquidities \subseteq Nat
    /\ {Amount, MaxEdges, MaxUpdates, MaxRestarts} \subseteq Nat

VARIABLES
    registered,  \* hubs with a HubLeaf in sled
    metrics,     \* per hub, its HubMetrics in sled, or None
    graph,       \* channel_graph: per hub, its neighbours in the order they were added
    added,       \* history: edges added by hand since the last start
    updated,     \* history: metrics updates
    restarts     \* history: restarts

routingVars == <<registered, metrics, graph, added, updated, restarts>>

NoEdges == [h \in Hubs |-> <<>>]

Init ==
    /\ registered = {} /\ metrics = [h \in Hubs |-> None] /\ graph = NoEdges
    /\ added = 0 /\ updated = 0 /\ restarts = 0

\* The service derives the DID hash from the hub's key.
RegisterHub(h) ==
    /\ registered' = registered \cup {h}
    /\ UNCHANGED <<metrics, graph, added, updated, restarts>>

\* Not only for a registered hub.
UpdateMetrics(h, rate, liquidity) ==
    /\ updated < MaxUpdates
    /\ updated' = updated + 1
    /\ metrics' = [metrics EXCEPT ![h] = [rate |-> rate, liquidity |-> liquidity]]
    /\ UNCHANGED <<registered, graph, added, restarts>>

AddChannelEdge(from, to) ==
    /\ added < MaxEdges
    /\ added' = added + 1
    /\ graph' = [graph EXCEPT ![from] = Append(@, to)]
    /\ UNCHANGED <<registered, metrics, updated, restarts>>

LiquidHubs == {h \in registered : metrics[h] # None /\ metrics[h].liquidity > 0}

\* Only an empty graph is filled, with every pair of hubs that have liquidity.
RefreshGraph ==
    /\ graph = NoEdges
    /\ graph' = [h \in Hubs |-> IF h \in LiquidHubs THEN SetToSeq(LiquidHubs \ {h}) ELSE <<>>]
    /\ UNCHANGED <<registered, metrics, added, updated, restarts>>

\* The graph is not kept.
Restart ==
    /\ restarts < MaxRestarts
    /\ restarts' = restarts + 1
    /\ graph' = NoEdges /\ added' = 0
    /\ UNCHANGED <<registered, metrics, updated>>

-----------------------------------------------------------------------------
(* discover_routes                                                         *)

\* build_route gives nothing when a hub of the path, its ends included, has
\* no leaf or no metrics.
Known(path) == \A i \in DOMAIN path : path[i] \in registered /\ metrics[path[i]] # None

FeeOf(h) == (Amount * metrics[h].rate) \div 10000

\* Fees are added up from the source, on the amount the destination gets.
FeesUpTo(path, i) == FoldSeq(LAMBDA h, sum : sum + FeeOf(h), 0, SubSeq(path, 1, i))

BuildRoute(path) ==
    [hops |-> path, total_fee |-> FeesUpTo(path, Len(path)),
     sufficient_liquidity |->
         \A i \in DOMAIN path : metrics[path[i]].liquidity >= Amount + FeesUpTo(path, i)]

\* The simple paths of at most n hubs: the paths dfs_routes can be at.
Paths(n) == {p \in BoundedSeq(Hubs, n) : p # <<>> /\ IsInjective(p)}

\* Fault: counts the hubs of the path, not its hops.
FewerHops(path, maxHops) == Len(path) < maxHops

MoreHops(path, maxHops) == Len(path) - 1 < maxHops

\* dfs_routes, from the path it has walked on.
DfsRoutes(to, maxHops) ==
    LET dfs[path \in Paths(maxHops + 1)] ==
            IF Last(path) = to /\ Len(path) > 1
            THEN IF Known(path) THEN {BuildRoute(path)} ELSE {}
            ELSE IF MoreHops(path, maxHops)
            THEN UNION {dfs[Append(path, n)] : n \in Range(graph[Last(path)]) \ Range(path)}
            ELSE {}
    IN  dfs

DiscoverRoutes(from, to, maxHops) == DfsRoutes(to, maxHops)[<<from>>]

-----------------------------------------------------------------------------
Next ==
    \/ \E h \in Hubs : RegisterHub(h)
    \/ \E h \in Hubs, r \in Rates, l \in Liquidities : UpdateMetrics(h, r, l)
    \/ \E f, t \in Hubs : AddChannelEdge(f, t)
    \/ RefreshGraph
    \/ Restart

Spec == Init /\ [][Next]_routingVars

-----------------------------------------------------------------------------
Edge(f, t) == t \in Range(graph[f])

Walkable(path) == \A i \in 1 .. Len(path) - 1 : Edge(path[i], path[i + 1])

(* The search finds every simple path of known hubs within the allowed      *)
(* number of hops and nothing else (routing.rs), however the graph came     *)
(* about: by hand, from the hubs' liquidity, after updates and restarts.    *)
EveryRouteIsFound ==
    \A from, to \in Hubs, maxHops \in 1 .. Cardinality(Hubs) - 1 :
        {r.hops : r \in DiscoverRoutes(from, to, maxHops)} =
            {p \in Paths(maxHops + 1) :
                /\ Len(p) > 1 /\ p[1] = from /\ Last(p) = to
                /\ Walkable(p) /\ Known(p)}

-----------------------------------------------------------------------------
(* What the code does not keep.                                            *)

(* A hub of a liquid route can carry what passes it: the amount and the     *)
(* fees of the hubs after it.                                              *)
LiquidRouteCarriesFees ==
    \A from, to \in Hubs : \A r \in DiscoverRoutes(from, to, Cardinality(Hubs) - 1) :
        r.sufficient_liquidity =>
            \A i \in DOMAIN r.hops :
                metrics[r.hops[i]].liquidity >= Amount + r.total_fee - FeesUpTo(r.hops, i)

(* After a refresh hubs without liquidity are connected to nobody.          *)
RefreshFollowsLiquidity ==
    [][RefreshGraph => \A h \in Hubs \ LiquidHubs : graph'[h] = <<>>]_routingVars

(* No two routes of an answer are the same: an edge added twice is walked   *)
(* twice.                                                                  *)
EdgesAreDistinct == \A h \in Hubs : IsInjective(graph[h])
=============================================================================
