---------------------------- MODULE MbEscrowSpec ----------------------------
(***************************************************************************)
(* What a settlement promises, without signatures, clocks, caps or vaults: *)
(* a batch is held once, may be frozen once, and ends in exactly one of a  *)
(* payment of its full amount to the merchant or a refund; the merchant    *)
(* earns nothing in any other way, and only a frozen batch is refunded.    *)
(***************************************************************************)
EXTENDS Naturals

CONSTANTS
    Merchants,      \* the parties that can earn
    Batches,        \* identities of batches
    PayeeOf         \* batch -> its merchant

VARIABLES
    phase,      \* batch -> "none", "held", "frozen", "paid" or "refunded"
    amount,     \* batch -> the amount it was settled for
    earned      \* merchant -> what it has been paid

absVars == <<phase, amount, earned>>

Init ==
    /\ phase = [b \in Batches |-> "none"]
    /\ amount = [b \in Batches |-> 0]
    /\ earned = [m \in Merchants |-> 0]

Settle(b) ==
    /\ phase[b] = "none"
    /\ phase' = [phase EXCEPT ![b] = "held"]
    /\ amount'[b] \in Nat
    /\ amount' = [amount EXCEPT ![b] = amount'[b]]
    /\ UNCHANGED earned

Freeze(b) ==
    /\ phase[b] = "held"
    /\ phase' = [phase EXCEPT ![b] = "frozen"]
    /\ UNCHANGED <<amount, earned>>

Pay(b) ==
    /\ phase[b] \in {"held", "frozen"}
    /\ phase' = [phase EXCEPT ![b] = "paid"]
    /\ earned' = [earned EXCEPT ![PayeeOf[b]] = @ + amount[b]]
    /\ UNCHANGED amount

Refund(b) ==
    /\ phase[b] = "frozen"
    /\ phase' = [phase EXCEPT ![b] = "refunded"]
    /\ UNCHANGED <<amount, earned>>

Next == \E b \in Batches : Settle(b) \/ Freeze(b) \/ Pay(b) \/ Refund(b)

Spec == Init /\ [][Next]_absVars
=============================================================================
