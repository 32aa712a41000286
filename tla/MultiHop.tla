------------------------------ MODULE MultiHop -------------------------------
(***************************************************************************)
(* A payment over several channels (multihop.rs, kept in sled alone) with   *)
(* the channel service's calls on it: resolve_hop reads and writes under    *)
(* two locks, relay_hop under one.  Payments have random identifiers and    *)
(* share nothing, so that one of them is modelled.                         *)
(***************************************************************************)
EXTENDS Naturals, Sequences, FiniteSets, Functions

CONSTANTS
    GivenAmounts,       \* amounts a caller puts down for a hop
    RequestedDurations, \* challenge periods a caller asks for
    MaxHops,            \* bound on the hops of a payment
    MaxU64,             \* the largest amount; compute_hop_amounts refuses products beyond it
    HopMargin,          \* HOP_MARGIN
    SlotStep, MaxSlot,  \* the clock's step and bound
    Callers,            \* requests of the service under way at once
    MaxRestarts,        \* bound on restarts
    None                \* Rust's None

\* MultiHopEntry and MultiHopPayment
HopRecord == [amount : Nat, timelock : Nat, resolved : BOOLEAN]
Payments ==
    [status : {"Pending", "Locked", "Resolving", "Completed", "Failed"}, created : Nat,
     hops : Seq(HopRecord)]

MultiHopAssumption ==
    /\ GivenAmounts \subseteq Nat /\ RequestedDurations \subseteq Nat
    /\ {MaxHops, MaxU64, HopMargin, SlotStep, MaxSlot} \subseteq Nat
    /\ MaxRestarts \in Nat /\ None \notin Nat \cup Payments

VARIABLES
    payment,    \* the MultiHopPayment in sled, or None
    call,       \* per caller of resolve_hop, the hop it read, or None
    slot,       \* the current slot
    restarts,   \* history: restarts
    revealed    \* history: the preimage was shown to the multi-hop manager

hopVars == <<payment, call, slot, revealed, restarts>>

Init ==
    /\ payment = None /\ call = [c \in Callers |-> None] /\ slot = 0
    /\ restarts = 0 /\ revealed = FALSE

-----------------------------------------------------------------------------
(* The manager.                                                            *)

MinTimelock(duration) == duration + 3 * HopMargin

BaseTimelock(hops, duration) == slot + MinTimelock(duration) + (hops - 1) * HopMargin

Hop(i, amounts, duration) ==
    [amount |-> amounts[i],
     timelock |-> BaseTimelock(Len(amounts), duration) - (i - 1) * HopMargin,
     resolved |-> FALSE]

\* The amounts and the challenge period are the caller's, whatever they are.
CreatePayment(amounts, duration) ==
    /\ payment = None /\ amounts # <<>>
    /\ payment' = [status |-> "Pending", created |-> slot,
                   hops |-> [i \in DOMAIN amounts |-> Hop(i, amounts, duration)]]
    /\ UNCHANGED <<call, revealed, slot, restarts>>

\* Nothing ever sets the status Locked.
RevealPreimage ==
    /\ payment # None /\ payment.status = "Pending"
    /\ payment' = [payment EXCEPT !.status = "Resolving"]
    /\ revealed' = TRUE
    /\ UNCHANGED <<call, slot, restarts>>

\* Fault: the payment is complete with its last hop.
LastResolved(hops) == hops[Len(hops)].resolved

AllResolved(hops) == \A i \in DOMAIN hops : hops[i].resolved

Resolved(i) ==
    LET hops == [payment.hops EXCEPT ![i].resolved = TRUE]
    IN  [payment EXCEPT !.hops = hops, !.status = IF AllResolved(hops) THEN "Completed" ELSE @]

\* Only a Resolving payment takes a resolved hop.
ResolveHop(i) ==
    IF payment.status = "Resolving" THEN payment' = Resolved(i) ELSE UNCHANGED payment

CheckExpiry ==
    /\ payment # None /\ payment.status # "Completed"
    /\ \E i \in DOMAIN payment.hops : ~payment.hops[i].resolved /\ slot > payment.hops[i].timelock
    /\ payment' = [payment EXCEPT !.status = "Failed"]
    /\ UNCHANGED <<call, revealed, slot, restarts>>

-----------------------------------------------------------------------------
(* The channel service's handlers on a payment.                            *)

\* resolve_hop: the first unresolved hop is found under one lock ...
ReadFirstUnresolved(c) ==
    /\ payment # None /\ call[c] = None
    /\ \E i \in DOMAIN payment.hops :
           /\ ~payment.hops[i].resolved
           /\ \A j \in 1 .. i - 1 : payment.hops[j].resolved
           /\ call' = [call EXCEPT ![c] = i]
    /\ UNCHANGED <<payment, revealed, slot, restarts>>

\* ... and resolved under another.
ResolveRead(c) ==
    /\ call[c] # None
    /\ ResolveHop(call[c])
    /\ call' = [call EXCEPT ![c] = None]
    /\ UNCHANGED <<revealed, slot, restarts>>

\* relay_hop without a preimage: any hop, in any order.
RelayHop(i) ==
    /\ payment # None /\ payment.status = "Resolving" /\ i \in DOMAIN payment.hops
    /\ ResolveHop(i)
    /\ UNCHANGED <<call, revealed, slot, restarts>>

-----------------------------------------------------------------------------
Tick ==
    /\ slot + SlotStep <= MaxSlot
    /\ slot' = slot + SlotStep
    /\ UNCHANGED <<payment, call, revealed, restarts>>

\* The requests are gone, the payment is in sled.
Restart ==
    /\ restarts < MaxRestarts
    /\ restarts' = restarts + 1
    /\ call' = [c \in Callers |-> None]
    /\ UNCHANGED <<payment, revealed, slot>>

Next ==
    \/ \E n \in 1 .. MaxHops, duration \in RequestedDurations :
           \E amounts \in [1 .. n -> GivenAmounts] : CreatePayment(amounts, duration)
    \/ RevealPreimage
    \/ \E c \in Callers : ReadFirstUnresolved(c) \/ ResolveRead(c)
    \/ \E i \in 1 .. MaxHops : RelayHop(i)
    \/ CheckExpiry
    \/ Tick
    \/ Restart

Spec == Init /\ [][Next]_hopVars

-----------------------------------------------------------------------------
(* A payment is complete exactly when every hop is resolved, no hop is      *)
(* resolved before the preimage was shown, and a hub that pays on its       *)
(* downstream hop's last slot has a whole margin left to collect upstream   *)
(* (multihop.rs, whatever the service's requests do).                       *)
HopsAreCovered ==
    payment # None =>
        LET hops == payment.hops
            n == Len(hops)
        IN  /\ payment.status = "Completed" <=> \A i \in 1 .. n : hops[i].resolved
            /\ (\E i \in 1 .. n : hops[i].resolved) => revealed
            /\ hops[n].timelock >= payment.created + 3 * HopMargin
            /\ \A i \in 1 .. n - 1 : hops[i].timelock >= hops[i + 1].timelock + HopMargin

-----------------------------------------------------------------------------
(* compute_hop_amounts: what a caller can put down so that every hub is     *)
(* paid.  Nothing in the services calls it before create_payment.           *)

\* Backwards from the destination, each hop adds its fee.
Fee(downstream, rate) == (downstream * rate) \div 10000

Backwards(destination, rates) ==
    LET amounts[k \in 0 .. Len(rates) - 1] ==
            IF k = 0 THEN destination
            ELSE amounts[k - 1] + Fee(amounts[k - 1], rates[Len(rates) - k])
    IN  amounts

HopAmounts(destination, rates) ==
    [i \in 1 .. Len(rates) |-> Backwards(destination, rates)[Len(rates) - i]]

\* checked_mul, checked_add
Computable(destination, rates) ==
    LET amounts == HopAmounts(destination, rates)
    IN  \A i \in 1 .. Len(rates) - 1 :
            amounts[i + 1] * rates[i] <= MaxU64 /\ amounts[i] <= MaxU64

\* Computed amounts fit, give the destination what it asked for, and leave
\* every hub its fee, rounded down (compute_hop_amounts).
FeesAreKept(destination, rates) ==
    LET amounts == HopAmounts(destination, rates)
        n == Len(rates)
    IN  /\ amounts[n] = destination
        /\ \A i \in 1 .. n : amounts[i] <= MaxU64
        /\ \A i \in 1 .. n - 1 :
               /\ amounts[i] >= amounts[i + 1]
               /\ 10000 * (amounts[i] - amounts[i + 1]) + 9999 >= amounts[i + 1] * rates[i]

-----------------------------------------------------------------------------
(* What a reader may expect and the code does not keep.                    *)

(* A failed payment has moved nothing: hops resolved before an expiry stay  *)
(* resolved.                                                                *)
FailedMovedNothing ==
    payment # None /\ payment.status = "Failed" =>
        \A i \in DOMAIN payment.hops : ~payment.hops[i].resolved

(* A hub hands on no more than it was given: the service stores a request's *)
(* amounts unchecked.                                                       *)
HubsLoseNothing ==
    payment # None =>
        \A i \in 1 .. Len(payment.hops) - 1 : payment.hops[i].amount >= payment.hops[i + 1].amount
=============================================================================
