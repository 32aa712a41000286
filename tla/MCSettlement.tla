--------------------------- MODULE MCSettlement ---------------------------
(* A small instance of the settlement between the two MCP servers for TLC,  *)
(* beside the demo shop.  A behaviour is of one of the two; they share no   *)
(* variable.                                                                *)
EXTENDS SettlementProperties, TLC

CONSTANTS t1, t2

\* A transfer of each amount.
MCReceived == t1 :> 1 @@ t2 :> 2
Symmetry == Permutations(Calls)

\* Orders are confirmed, or batches are settled, but not both in one behaviour:
\* the two meet in the vouchers the merchant has, which both stories have.
OneStory ==
    /\ Cardinality(mail) <= 1 /\ Cardinality(signed) <= 2 /\ Cardinality(batchSigs) <= 2
    /\ refused = {} /\ told = {}
    /\ \/ /\ \A c \in Calls : call[c] = None
          /\ \A n \in Nonces : ~escrow[n].open
          /\ batchSigs = {}
       \/ /\ \A o \in Orders : orders[o] = NoOrder
          /\ check = None /\ mail = {} /\ job["handler"] = None
          /\ job["tool"] # None => job["tool"].order = None
          /\ \A n \in Nonces : escrow[n].disputed => \A c \in Calls : call[c] = None

VARIABLES
    part,       \* the part whose behaviour this is
    shopOrders, asked, shopChain, restarts

shopVars == <<shopOrders, asked, shopChain, restarts>>

Demo == INSTANCE Shop
        WITH Orders <- {"o1", "o2"}, Prices <- {1, 2}, Txs <- {"t1", "t2"}, Sums <- {0, 1, 2},
             Sol <- FALSE, MaxRestarts <- 1, orders <- shopOrders, chain <- shopChain

ASSUME Demo!ShopAssumption

PartsInit == part \in {"settlement", "shop"} /\ Init /\ Demo!Init

PartsNext ==
    /\ UNCHANGED part
    /\ \/ part = "settlement" /\ Next /\ UNCHANGED shopVars
       \/ part = "shop" /\ Demo!Next /\ UNCHANGED vars

PartsSpec == PartsInit /\ [][PartsNext]_<<part, vars, shopVars>>

\* An order of the demo shop that counts as paid shows a transaction that
\* landed and moved at least its price (verify_on_chain_tx).
PaidOrdersWerePaid == Demo!PaidOrdersWerePaid
=============================================================================
