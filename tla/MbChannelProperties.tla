------------------------ MODULE MbChannelProperties ------------------------
(***************************************************************************)
(* What the MagicBlock program should guarantee, stated over MbChannel.    *)
(***************************************************************************)
EXTENDS MbChannel, Functions

EscrowsOf(c)    == {e \in Escrows : e[1] = c}
ChannelsOf(t)   == {c \in Channels : MintOf(c) = t}
EscrowsOn(t)    == {e \in Escrows : MintOf(e[1]) = t}
Refunded(e)     == paid[e].to = Buyer
Outstanding(c)  == {e \in EscrowsOf(c) : ~Refunded(e)}
PaidMerchant(e) == escrow[e].claimed /\ ~Refunded(e)

AmountOf    == [e \in Escrows |-> escrow[e].amount]
HeldIn      == [e \in Escrows |-> escrow[e].lamports]
SettledOf   == [c \in Channels |-> channel[c].settled_amount]
SumAmounts(S) == SumFunctionOnSet(AmountOf, S)
Unspent(c) ==
    IF channel[c].spending_cap > channel[c].settled_amount
      THEN channel[c].spending_cap - channel[c].settled_amount ELSE 0
UnspentCaps(t) == SumFunctionOnSet([c \in Channels |-> Unspent(c)], ChannelsOf(t))

-----------------------------------------------------------------------------
(* Every account has the shape that state.rs gives it, and every field of    *)
(* an unsigned type stays in its range through additions and subtractions.   *)
TypeOK ==
    /\ global \in [Mints -> GlobalState]
    /\ vault \in [Mints -> Nat]
    /\ channel \in [Channels -> Channel]
    /\ escrow \in [Escrows -> SettlementEscrow]
    /\ wallet \in [Merchants \cup {Buyer} -> Nat]
    /\ cosigned \subseteq Messages
    /\ now \in Nat
    /\ paid \in [Escrows -> Payout]
    /\ disputed_at \in [Escrows -> Int]

(* An escrow account holds its whole amount until it is claimed and nothing  *)
(* afterwards, so a payout can neither fail for lack of lamports nor happen  *)
(* twice; a claimed escrow always has a payee, its merchant or the buyer.    *)
EscrowFunded ==
    \A e \in Escrows :
        /\ escrow[e].claimed =>
             escrow[e].lamports = 0 /\ paid[e].to \in {MerchantOf(e[1]), Buyer}
        /\ ~escrow[e].claimed =>
             escrow[e].lamports = escrow[e].amount /\ paid[e].to = Nobody

(* No instruction creates or destroys lamports: wallets, vaults and escrow   *)
(* accounts always add up to what the buyer had.                             *)
LamportsConserved ==
    SumFunction(wallet) + SumFunction(vault) + SumFunction(HeldIn) = Supply

(* total_deposited counts deposits minus withdrawals and is not lowered when *)
(* a batch leaves the vault, nor when it is refunded: the vault is short of  *)
(* it by exactly the batches ever settled.                                   *)
VaultAccounting ==
    \A t \in Mints : vault[t] + SumAmounts(EscrowsOn(t)) = global[t].total_deposited

(* settled_amount is the total of the batches not refunded, over any order   *)
(* of settlements, refunds and changes of the cap; hence the rollback of     *)
(* resolve_dispute never underflows.                                         *)
SettledIsOutstanding ==
    \A c \in Channels :
        channel[c].settled_amount = SumAmounts(Outstanding(c))

(* The buyer's withdrawals never reach the part of its deposits allocated to *)
(* merchants.                                                                *)
AllocationWithinDeposit ==
    \A t \in Mints : global[t].total_allocated <= global[t].total_deposited

(* The caps of a mint's channels never add up to more than the buyer has     *)
(* deposited for that mint.                                                  *)
CapsWithinDeposit ==
    \A t \in Mints :
        SumFunctionOnSet([c \in Channels |-> channel[c].spending_cap], ChannelsOf(t))
            <= global[t].total_deposited

(* While nothing has been refunded on a mint, the vault covers what every    *)
(* merchant may still settle together with what the buyer may still withdraw, *)
(* so that no merchant's settlement fails because another one settled first. *)
UnspentCapsBackedUntilRefund ==
    \A t \in Mints :
        (\A e \in EscrowsOn(t) : ~Refunded(e)) =>
            UnspentCaps(t) + (global[t].total_deposited - global[t].total_allocated)
                <= vault[t]

(* The escrow PDA of the next nonce is always free: `init` of the escrow     *)
(* account never collides, whatever was paid, disputed or refunded before.   *)
NextEscrowFree ==
    \A e \in Escrows : escrow[e].open <=> e[2] < channel[e[1]].nonce

(* A cooperative settlement spends one signature of the buyer, made for this *)
(* channel, root, total and nonce: a signature never pays two batches and is *)
(* never used for another amount.                                            *)
CooperativeBatchWasSigned ==
    \A e \in Escrows :
        escrow[e].open /\ ~escrow[e].optimistic =>
            SettlementMessage(e[1], escrow[e].merkle_root, escrow[e].amount, e[2])
                \in cosigned

(* A refund can only come out of a dispute raised inside the challenge       *)
(* window: once the window has closed undisputed, the batch is the merchant's. *)
RefundNeedsTimelyDispute ==
    \A e \in Escrows : Refunded(e) =>
        /\ escrow[e].created_at <= disputed_at[e]
        /\ disputed_at[e] <= paid[e].at
        /\ disputed_at[e] < escrow[e].created_at + channel[e[1]].challenge_period

(* A batch that the merchant settled alone and nobody disputed has been held *)
(* for some time before the merchant is paid: there is no instant optimistic *)
(* settlement.                                                               *)
OptimisticBatchIsHeld ==
    \A e \in Escrows :
        escrow[e].optimistic /\ ~escrow[e].disputed /\ PaidMerchant(e) =>
            escrow[e].created_at < paid[e].at

(* A payout is final: a claimed escrow never changes again, whatever the     *)
(* merchant and the buyer call afterwards and in whichever order.            *)
PayoutIsFinal ==
    [][\A e \in Escrows : escrow[e].claimed =>
            escrow'[e] = escrow[e] /\ paid'[e] = paid[e]]_vars

(* A settled batch keeps the root, the amount and the creation time that its *)
(* parties signed; a dispute is never withdrawn; its windows never move.     *)
BatchIsImmutable ==
    [][\A e \in Escrows : escrow[e].open =>
        /\ escrow'[e].open
        /\ escrow'[e].amount = escrow[e].amount
        /\ escrow'[e].merkle_root = escrow[e].merkle_root
        /\ escrow'[e].created_at = escrow[e].created_at
        /\ escrow[e].disputed => escrow'[e].disputed
        /\ channel'[e[1]].challenge_period = channel[e[1]].challenge_period
        /\ channel'[e[1]].dispute_period = channel[e[1]].dispute_period]_vars

(* Every settled batch is eventually paid to the merchant or refunded: no    *)
(* sequence of disputes locks funds in an escrow.                            *)
EscrowEventuallyPaid ==
    \A e \in Escrows : escrow[e].open ~> escrow[e].claimed

-----------------------------------------------------------------------------
(* Together with the type invariant this is inductive: every escrow account  *)
(* that was ever claimed or disputed exists, a dispute was filed inside the  *)
(* challenge window, and an optimistic batch belongs to a channel that has   *)
(* such a window.                                                            *)
EscrowHistory ==
    \A e \in Escrows :
        /\ escrow[e].claimed => escrow[e].open /\ paid[e].at <= now
        /\ escrow[e].open => channel[e[1]].open /\ escrow[e].created_at <= now
        /\ escrow[e].disputed =>
             /\ escrow[e].open
             /\ escrow[e].created_at <= disputed_at[e]
             /\ disputed_at[e] <= now
             /\ disputed_at[e]
                  < escrow[e].created_at + channel[e[1]].challenge_period
        /\ Refunded(e) => escrow[e].disputed
        /\ escrow[e].optimistic =>
             escrow[e].open /\ channel[e[1]].challenge_period > 0

(* The nonce of a channel that has not been opened is 0.                     *)
UnopenedChannel == \A c \in Channels : ~channel[c].open => channel[c].nonce = 0

IInv ==
    /\ TypeOK
    /\ EscrowFunded
    /\ AllocationWithinDeposit
    /\ NextEscrowFree
    /\ UnopenedChannel
    /\ EscrowHistory
    /\ CooperativeBatchWasSigned
    /\ RefundNeedsTimelyDispute
    /\ OptimisticBatchIsHeld

(* The books, beside IInv: nothing is settled on an account that does not    *)
(* exist, and until a refund the vault is short of the deposits by what the  *)
(* channels count as settled.                                                *)
UnopenedIsEmpty ==
    /\ \A e \in Escrows : ~escrow[e].open => escrow[e].amount = 0
    /\ \A c \in Channels : ~channel[c].open =>
            channel[c].settled_amount = 0 /\ channel[c].spending_cap = 0

SettledUntilRefund ==
    \A t \in Mints : (\A e \in EscrowsOn(t) : ~Refunded(e)) =>
        vault[t] + SumFunctionOnSet(SettledOf, ChannelsOf(t)) = global[t].total_deposited

MoneyInv ==
    /\ LamportsConserved
    /\ VaultAccounting
    /\ SettledIsOutstanding
    /\ UnopenedIsEmpty
    /\ SettledUntilRefund

(* What a channel has taken of the allocation: its cap, or what it settled   *)
(* when the cap was lowered below that.  With a single mint, where a raise   *)
(* can only be charged to the channel's own global state, all of it is       *)
(* allocated.                                                                *)
Reserved(c) ==
    IF channel[c].spending_cap > channel[c].settled_amount
      THEN channel[c].spending_cap ELSE channel[c].settled_amount
ReservedOf == [c \in Channels |-> Reserved(c)]
ReservedIsAllocated ==
    \A t \in Mints :
        SumFunctionOnSet(ReservedOf, ChannelsOf(t)) <= global[t].total_allocated

OneMint == \A s, t \in Mints : s = t

-----------------------------------------------------------------------------
(* The refinement of the settlement promise.                                 *)
Phase(e) ==
    CASE ~escrow[e].open -> "none"
      [] escrow[e].open /\ escrow[e].claimed /\ Refunded(e) -> "refunded"
      [] escrow[e].open /\ escrow[e].claimed /\ ~Refunded(e) -> "paid"
      [] escrow[e].open /\ ~escrow[e].claimed /\ escrow[e].disputed -> "frozen"
      [] escrow[e].open /\ ~escrow[e].claimed /\ ~escrow[e].disputed -> "held"

Promise == INSTANCE MbEscrowSpec WITH
    Merchants <- Merchants, Batches <- Escrows,
    PayeeOf <- [e \in Escrows |-> MerchantOf(e[1])],
    phase  <- [e \in Escrows |-> Phase(e)],
    amount <- [e \in Escrows |-> escrow[e].amount],
    earned <- [m \in Merchants |-> wallet[m]]

(* Each instruction of the program is a step of MbEscrowSpec or leaves its   *)
(* state alone: a batch is paid at most once, in full, and to its merchant.  *)
ImplementsPromise == Promise!Spec

-----------------------------------------------------------------------------
(* Statements of the design document that the program does not keep.         *)

(* A refund proves that the merchant claimed more than its vouchers add up to. *)
RefundProvesInflation ==
    \A e \in Escrows : Refunded(e) =>
        RootSum(escrow[e].merkle_root) < escrow[e].amount

(* The buyer has the whole dispute period, from its dispute on, to prove     *)
(* fraud before the merchant can force the release.                          *)
ForceReleaseWaitsForBuyer ==
    \A e \in Escrows : escrow[e].disputed /\ PaidMerchant(e) =>
        disputed_at[e] + channel[e[1]].dispute_period <= paid[e].at

(* The vault always covers what the merchants may still settle.              *)
UnspentCapsBacked == \A t \in Mints : UnspentCaps(t) <= vault[t]
=============================================================================
