----------------------------- MODULE MCMediator -----------------------------
(* Instances of the mediator for TLC over the same variables, each with its  *)
(* own store, agents and bounds.  A behaviour is of one of them.             *)
EXTENDS Naturals

CONSTANTS
    Routers,    \* the instances
    Setup,      \* router -> its agents, stores and bounds, a record
    Conns, Requests, NoOne

VARIABLES
    router,     \* the instance whose behaviour this is
    sessions, conn, keylist, reverse, queue, seen, forward, expired, received, discarded, restarts

mediatorVars == <<sessions, conn, keylist, reverse, queue, seen, forward, expired, received,
                  discarded, restarts>>

Med(i) == INSTANCE Mediator
            WITH Dids <- Setup[i].dids, RecipientOf <- Setup[i].recipientOf,
                 IdOf <- Setup[i].idOf, Expirable <- Setup[i].expirable,
                 WebsocketUsers <- Setup[i].websocketUsers, Removers <- Setup[i].removers,
                 MaxRestarts <- Setup[i].maxRestarts, Persistent <- Setup[i].persistent,
                 MaxQueued <- Setup[i].maxQueued, None <- NoOne

ASSUME SetupAssumption == \A i \in Routers : Med(i)!MediatorAssumption

MediatorsInit == \E i \in Routers : router = i /\ Med(i)!Init

MediatorsNext ==
    /\ UNCHANGED router
    /\ \E i \in Routers : router = i /\ Med(i)!Next

MediatorsSpec == MediatorsInit /\ [][MediatorsNext]_<<router, mediatorVars>>

(* A message accepted for an agent is in a queue, on its way, processed or   *)
(* knowingly dropped (handle_forward).                                       *)
AcceptedIsAccountedFor == \A i \in Routers : router = i => Med(i)!AcceptedIsAccountedFor

(* An agent processes no forwarded message twice (handle_forward, pickup).   *)
ReceivedOnce == \A i \in Routers : router = i => Med(i)!ReceivedOnce

(* Messages are only handed to the agent they are addressed to, as long as   *)
(* the stores are in memory (list_keys, pickup).                             *)
AddressedOnly ==
    \A i \in Routers : router = i /\ ~Setup[i].persistent => Med(i)!AddressedOnly

-----------------------------------------------------------------------------
(* The instances TLC checks: with sled stores, one agent that reconnects, a  *)
(* queue of one, expiry and a restart; and in memory, two agents with a      *)
(* connection each, one on the websocket push channel and one that removes   *)
(* its key.                                                                  *)

MCSetup ==
    [i \in {"sled", "memory"} |->
        IF i = "sled"
          THEN [dids |-> {"a"}, recipientOf |-> [r \in {"r1", "r2"} |-> "a"],
                idOf |-> [r \in {"r1", "r2"} |-> r], expirable |-> {"r1"}, websocketUsers |-> {},
                removers |-> {}, maxRestarts |-> 1, persistent |-> TRUE, maxQueued |-> 1]
          ELSE [dids |-> {"a", "b"},
                recipientOf |-> [r \in {"r1", "r2"} |-> IF r = "r1" THEN "a" ELSE "b"],
                idOf |-> [r \in {"r1", "r2"} |-> r], expirable |-> {}, websocketUsers |-> {"a"},
                removers |-> {"b"}, maxRestarts |-> 0, persistent |-> FALSE, maxQueued |-> 2]]
=============================================================================
