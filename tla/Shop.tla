-------------------------------- MODULE Shop ---------------------------------
(***************************************************************************)
(* The demo shop (server.py): orders in memory, answered with a 402         *)
(* challenge until a transaction signature is shown that the shop finds on  *)
(* the chain.  The status of an order is read before the body of the        *)
(* request is awaited, and written after it was verified.                  *)
(***************************************************************************)
EXTENDS Naturals, FiniteSets

CONSTANTS
    Orders,       \* order numbers, each drawn at random
    Prices,       \* prices of the products
    Txs,          \* transaction signatures
    Sums,         \* what a transaction may move
    Sol,          \* IS_SOL_PAYMENT
    MaxRestarts,  \* bound on restarts of the shop
    None          \* an order or a transaction that does not exist

ShopAssumption ==
    /\ Prices \subseteq Nat \ {0} /\ Sums \subseteq Nat
    /\ Sol \in BOOLEAN /\ MaxRestarts \in Nat

VARIABLES
    orders,    \* per order number: the price, the status and the signature shown, or None
    asked,     \* requests to verify-tx whose body is awaited: [order, tx]
    chain,     \* per signature: what it moved to the shop and to others, or None
    restarts   \* history: restarts

shopVars == <<orders, asked, chain, restarts>>

Init ==
    /\ orders = [o \in Orders |-> None] /\ asked = {}
    /\ chain = [t \in Txs |-> None] /\ restarts = 0

\* Somebody pays, the shop or somebody else.
Land(t, toShop, toOthers) ==
    /\ chain[t] = None
    /\ chain' = [chain EXCEPT ![t] = [shop |-> toShop, others |-> toOthers]]
    /\ UNCHANGED <<orders, asked, restarts>>

\* With SOL the balance of the shop's own address counts; with a token any
\* account of the mint that gained enough.
Increase(t) == IF Sol \/ chain[t].shop >= chain[t].others THEN chain[t].shop ELSE chain[t].others

\* Fault: any transaction of the chain will do.
TxExists(t, amount) == chain[t] # None

VerifyOnChainTx(t, amount) == chain[t] # None /\ Increase(t) >= amount

Order(price, status, tx) == [price |-> price, status |-> status, tx |-> tx]

\* Without X-Payment-Proof: the order waits, the answer is the challenge.
CreateOrder(o, price) ==
    /\ orders[o] = None
    /\ orders' = [orders EXCEPT ![o] = Order(price, "pending_payment", None)]
    /\ UNCHANGED <<asked, chain, restarts>>

\* With it: an order of its own, paid at once.
CreatePaidOrder(o, price, t) ==
    /\ orders[o] = None
    /\ VerifyOnChainTx(t, price)
    /\ orders' = [orders EXCEPT ![o] = Order(price, "paid", t)]
    /\ UNCHANGED <<asked, chain, restarts>>

AskVerifyTx(o, t) ==
    /\ orders[o] # None /\ orders[o].status # "paid"
    /\ asked' = asked \cup {[order |-> o, tx |-> t]}
    /\ UNCHANGED <<orders, chain, restarts>>

\* The RPC call may fail, which counts as not verified.
VerifyTx(request) ==
    LET o == request.order
    IN  /\ request \in asked
        /\ asked' = asked \ {request}
        /\ \/ /\ VerifyOnChainTx(request.tx, orders[o].price)
              /\ orders' = [orders EXCEPT ![o] = Order(@.price, "paid", request.tx)]
           \/ UNCHANGED orders
        /\ UNCHANGED <<chain, restarts>>

Restart ==
    /\ restarts < MaxRestarts
    /\ restarts' = restarts + 1
    /\ orders' = [o \in Orders |-> None] /\ asked' = {}
    /\ UNCHANGED chain

Next ==
    \/ \E t \in Txs, s, n \in Sums : Land(t, s, n)
    \/ \E o \in Orders, p \in Prices : CreateOrder(o, p)
    \/ \E o \in Orders, p \in Prices, t \in Txs : CreatePaidOrder(o, p, t)
    \/ \E o \in Orders, t \in Txs : AskVerifyTx(o, t)
    \/ \E r \in asked : VerifyTx(r)
    \/ Restart

Spec == Init /\ [][Next]_shopVars

-----------------------------------------------------------------------------
(* An order that was paid shows a transaction that landed and moved at      *)
(* least its price, whichever of two requests verified it (server.py).     *)
PaidOrdersWerePaid ==
    \A o \in Orders : orders[o] # None /\ orders[o].status = "paid" =>
        /\ chain[orders[o].tx] # None
        /\ \E sum \in {chain[orders[o].tx].shop, chain[orders[o].tx].others} :
               sum >= orders[o].price

-----------------------------------------------------------------------------
(* What the code does not keep.                                            *)

(* A transaction pays one order.                                           *)
TxPaysOneOrder ==
    \A o, p \in Orders : o # p /\ orders[o] # None /\ orders[p] # None
        /\ orders[o].status = "paid" /\ orders[p].status = "paid" => orders[o].tx # orders[p].tx

(* What was paid went to the shop (holds with SOL, not with a token).      *)
PaymentReachesTheShop ==
    \A o \in Orders : orders[o] # None /\ orders[o].status = "paid" =>
        chain[orders[o].tx].shop >= orders[o].price

(* The signature of a paid order stays.                                    *)
PaidSignatureStays ==
    [][\A o \in Orders : orders[o] # None /\ orders[o].status = "paid" /\ restarts' = restarts =>
           orders'[o] = orders[o]]_shopVars
=============================================================================
