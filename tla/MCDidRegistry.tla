---------------------------- MODULE MCDidRegistry ----------------------------
(* A shop with one key, and the platform's own shop, one of whose two keys is
   the registry's payer: the one merchant a sponsored transaction works for. *)
EXTENDS DidRegistryProperties, TLC

CONSTANTS shop, own, k1, k2, k3, v1, v2, v3, NoOne

MCMerchants == {shop, own}
MCKeys == {k1, k2, k3}
MCVcs == {v1, v2, v3}
MCIssued == (v1 :> own) @@ (v2 :> own) @@ (v3 :> NoOne)
MCKeysOf == (shop :> {k1}) @@ (own :> {k2, k3})
MCDidKey == (shop :> k1) @@ (own :> k3)

-----------------------------------------------------------------------------
(* Beside it what is known of hubs: the registry of hubs (HubRegistry) and  *)
(* the channel service's routes over them (HubRouting).  A behaviour is of  *)
(* one of the three, which share no variable.                               *)

CONSTANTS
    Hubs, Tokens, PageSize, MaxHubUpdates,           \* of HubRegistry
    Rates, Liquidities, Amount, MaxEdges, MaxMetricsUpdates, MaxHubRestarts  \* of HubRouting

VARIABLES
    part,       \* the part whose behaviour this is
    table, page, seen, present, ended, updates,
    registered, metrics, graph, added, updated, hubRestarts

hubVars == <<table, page, seen, present, ended, updates>>
routingVars == <<registered, metrics, graph, added, updated, hubRestarts>>

\* A client that asks for all hubs, whatever their status and tokens.
Hub == INSTANCE HubRegistry WITH Filter <- "all", MaxUpdates <- MaxHubUpdates

Routes == INSTANCE HubRouting
            WITH MaxUpdates <- MaxMetricsUpdates, MaxRestarts <- MaxHubRestarts,
                 restarts <- hubRestarts

ASSUME PartsAssumption == Hub!HubRegistryAssumption /\ Routes!HubRoutingAssumption

PartsInit ==
    /\ part \in {"did", "hubs", "routes"}
    /\ Init /\ Hub!Init /\ Routes!Init
    /\ part # "did" => build = "pda"

PartsNext ==
    /\ UNCHANGED part
    /\ \/ part = "did" /\ Next /\ UNCHANGED <<hubVars, routingVars>>
       \/ part = "hubs" /\ Hub!Next /\ UNCHANGED <<vars, routingVars>>
       \/ part = "routes" /\ Routes!Next /\ UNCHANGED <<vars, hubVars>>

PartsSpec == PartsInit /\ [][PartsNext]_<<part, vars, hubVars, routingVars>>

\* A client that reads the whole list of hubs misses none that was on it all
\* the time (list_hubs).
ReaderMissesNoHub == part = "hubs" => Hub!ReaderMissesNoHub

\* Every route that the hubs' liquidity allows is found (discover_routes).
EveryRouteIsFound == part = "routes" => Routes!EveryRouteIsFound
=============================================================================
