----------------------------- MODULE MbChannel -----------------------------
(***************************************************************************)
(* The MagicBlock payment program (ignite-pay-mb): one buyer pre-funds a   *)
(* global vault per token mint, allocates spending caps of it to merchant  *)
(* channels, and merchants settle batches of off-chain vouchers out of the *)
(* vault into per-batch escrows.  An escrow is released to the merchant    *)
(* after a challenge window, or frozen by a dispute that ends in a forced  *)
(* release or in a refund to the buyer.                                    *)
(*                                                                         *)
(* Each instruction is one action: Solana executes an instruction          *)
(* atomically and undoes all of it when any check fails, so a rejected     *)
(* instruction is a step that is not enabled.  Instructions of different   *)
(* signers interleave freely.                                              *)
(***************************************************************************)
EXTENDS Integers, Sequences, FiniteSets, FiniteSetsExt

CONSTANTS
    Merchants,      \* merchants the buyer has channels with
    Mints,          \* the token_mint addresses a global state is made for
    Amounts,        \* lamport amounts a caller may pass
    Periods,        \* challenge and dispute periods a buyer may choose (i64)
    Roots,          \* merkle roots, each the sequence of voucher amounts it commits to
    Supply,         \* lamports in the buyer's wallet at the start
    MaxU64,         \* largest u64: checked_add fails above it
    MaxI64,         \* largest i64: the addition of a period traps above it
    MaxBatches,     \* bound: settlements per channel
    MaxSigned,      \* bound: settlement messages the buyer signs
    SettleBy,       \* bound: the last time at which a batch is settled
    MaxTime,        \* bound: the last time of the cluster clock
    Buyer, Nobody   \* the buyer's wallet; the payee of an escrow not yet paid

ASSUME ConstantsAssumption ==
    /\ IsFiniteSet(Merchants) /\ IsFiniteSet(Mints)
    /\ Amounts \subseteq Nat
    /\ Periods \subseteq Int
    /\ Roots \subseteq Seq(Nat)
    /\ Supply \in Nat /\ MaxU64 \in Nat /\ Supply <= MaxU64
    /\ MaxI64 \in Nat /\ MaxBatches \in Nat /\ MaxSigned \in Nat
    /\ SettleBy \in Nat /\ MaxTime \in Nat
    /\ Buyer \notin Merchants
    /\ Nobody \notin Merchants \cup {Buyer}

VARIABLES
    global,     \* mint -> GlobalState account
    vault,      \* mint -> lamports of the global vault PDA
    channel,    \* <<merchant, mint>> -> Channel account
    escrow,     \* <<channel, nonce>> -> SettlementEscrow account
    wallet,     \* buyer or merchant -> lamports
    cosigned,   \* settlement messages carrying the buyer's signature
    now,        \* unix_timestamp of the Clock sysvar
    paid,       \* history: escrow -> Payout
    disputed_at \* history: escrow -> time of its dispute (-1: none)

accounts == <<global, vault, channel, wallet, cosigned>>
history  == <<paid, disputed_at>>
vars     == <<accounts, escrow, now, history>>

Channels == Merchants \X Mints
Nonces   == 0 .. MaxBatches - 1
Escrows  == Channels \X Nonces
MerchantOf(c) == c[1]
MintOf(c)     == c[2]

GlobalState ==
    [open : BOOLEAN, total_deposited : Nat, total_allocated : Nat]

Channel ==
    [open : BOOLEAN, spending_cap : Nat, settled_amount : Nat, nonce : Nat,
     challenge_period : Int, dispute_period : Int]

SettlementEscrow ==
    [open : BOOLEAN, amount : Nat, merkle_root : Seq(Nat), created_at : Nat,
     claimed : BOOLEAN, disputed : BOOLEAN, optimistic : BOOLEAN, lamports : Nat]

(* Who an escrow was paid to, and when.                                      *)
Payout == [to : Merchants \cup {Buyer, Nobody}, at : Int]

(* What a settlement signature covers: SHA256(root || total || channel ||   *)
(* nonce), taken to be collision free.                                      *)
SettlementMessage(c, root, total, n) ==
    [channel |-> c, root |-> root, total |-> total, nonce |-> n]

Messages == [channel : Channels, root : Seq(Nat), total : Nat, nonce : Nat]

(* The sum a sum-merkle root commits to.                                    *)
RootSum(root) == MapThenSumSet(LAMBDA i : root[i], DOMAIN root)

(* u64::checked_add / checked_sub: the instruction fails outside the range. *)
Fits(x) == 0 <= x /\ x <= MaxU64

-----------------------------------------------------------------------------
Init ==
    /\ global = [t \in Mints |-> [open |-> FALSE, total_deposited |-> 0,
                                  total_allocated |-> 0]]
    /\ vault = [t \in Mints |-> 0]
    /\ channel = [c \in Channels |->
            [open |-> FALSE, spending_cap |-> 0, settled_amount |-> 0,
             nonce |-> 0, challenge_period |-> 0, dispute_period |-> 0]]
    /\ escrow = [e \in Escrows |->
            [open |-> FALSE, amount |-> 0, merkle_root |-> <<>>,
             created_at |-> 0, claimed |-> FALSE, disputed |-> FALSE,
             optimistic |-> FALSE, lamports |-> 0]]
    /\ wallet = [p \in Merchants \cup {Buyer} |-> IF p = Buyer THEN Supply ELSE 0]
    /\ cosigned = {}
    /\ now = 0
    /\ paid = [e \in Escrows |-> [to |-> Nobody, at |-> -1]]
    /\ disputed_at = [e \in Escrows |-> -1]

(* initialize_global: `init` fails when the account exists.                 *)
InitializeGlobal(t) ==
    /\ ~global[t].open
    /\ global' = [global EXCEPT ![t].open = TRUE]
    /\ UNCHANGED <<vault, channel, escrow, wallet, cosigned, now, history>>

(* deposit: a system transfer from the buyer, then the counter.             *)
Deposit(t, a) ==
    /\ global[t].open
    /\ a <= wallet[Buyer]
    /\ Fits(global[t].total_deposited + a)
    /\ wallet' = [wallet EXCEPT ![Buyer] = @ - a]
    /\ vault' = [vault EXCEPT ![t] = @ + a]
    /\ global' = [global EXCEPT ![t].total_deposited = @ + a]
    /\ UNCHANGED <<channel, escrow, cosigned, now, history>>

(* The allocation check shared by initialize_channel and update_spending_cap *)
CanAllocate(t, delta) ==
    /\ Fits(global[t].total_allocated + delta)
    /\ global[t].total_allocated + delta <= global[t].total_deposited

(* What the two instructions below write to a channel account.              *)
NewChannel(cap, cp, dp) ==
    [open |-> TRUE, spending_cap |-> cap, settled_amount |-> 0, nonce |-> 0,
     challenge_period |-> cp, dispute_period |-> dp]

(* Fault: `init_if_needed` where the code says `init`.                       *)
InitializeChannelAgain(c, cap, cp, dp) ==
    /\ global[MintOf(c)].open
    /\ CanAllocate(MintOf(c), cap)
    /\ global' = [global EXCEPT ![MintOf(c)].total_allocated = @ + cap]
    /\ channel' = [channel EXCEPT ![c] = NewChannel(cap, cp, dp)]
    /\ UNCHANGED <<vault, escrow, wallet, cosigned, now, history>>

(* initialize_channel: reserves the whole cap; the periods are not validated. *)
InitializeChannel(c, cap, cp, dp) ==
    /\ global[MintOf(c)].open
    /\ ~channel[c].open
    /\ CanAllocate(MintOf(c), cap)
    /\ global' = [global EXCEPT ![MintOf(c)].total_allocated = @ + cap]
    /\ channel' = [channel EXCEPT ![c] = NewChannel(cap, cp, dp)]
    /\ UNCHANGED <<vault, escrow, wallet, cosigned, now, history>>

(* Faults: a lowered cap is handed back; a raised cap is not charged.        *)
CapChange(c, cap) == cap - channel[c].spending_cap
CapFree(c, cap)   == 0

(* The allocation that a new cap is charged: lowering a cap frees nothing.   *)
CapIncrease(c, cap) ==
    IF cap > channel[c].spending_cap THEN cap - channel[c].spending_cap ELSE 0

(* update_spending_cap: a raise is charged to the global state that the      *)
(* caller passes, which no constraint ties to the channel's own mint; the    *)
(* new cap may fall below settled_amount.                                    *)
UpdateSpendingCap(t, c, cap) ==
    /\ global[t].open
    /\ channel[c].open
    /\ CanAllocate(t, CapIncrease(c, cap))
    /\ global' = [global EXCEPT ![t].total_allocated = @ + CapIncrease(c, cap)]
    /\ channel' = [channel EXCEPT ![c].spending_cap = cap]
    /\ UNCHANGED <<vault, escrow, wallet, cosigned, now, history>>

(* mb_sign_settlement of the buyer's MCP server: signs a root it rebuilt     *)
(* from its own vouchers when the total it is given is their sum, for the    *)
(* nonce it is given.                                                        *)
SignSettlement(c, root, total, n) ==
    /\ root # <<>>
    /\ total = RootSum(root)
    /\ Cardinality(cosigned) < MaxSigned
    /\ cosigned' = cosigned \cup {SettlementMessage(c, root, total, n)}
    /\ UNCHANGED <<global, vault, channel, escrow, wallet, now, history>>

(* Fault: the cap alone is trusted.                                          *)
CanSettleByCap(c, total) ==
    channel[c].settled_amount + total <= channel[c].spending_cap

(* Defenses 1 and 2 of both settlement instructions.                         *)
CanSettle(c, total) ==
    /\ Fits(channel[c].settled_amount + total)
    /\ channel[c].settled_amount + total <= channel[c].spending_cap
    /\ total <= vault[MintOf(c)]

(* What settle_batch and optimistic_settle share: the cap and vault checks,  *)
(* the transfer vault -> escrow, the new escrow account and the next nonce.  *)
MoveToEscrow(c, root, total, optimistic) ==
    LET n == channel[c].nonce
    IN /\ channel[c].open /\ global[MintOf(c)].open
       /\ n \in Nonces /\ now <= SettleBy
       /\ ~escrow[<<c, n>>].open
       /\ CanSettle(c, total)
       /\ vault' = [vault EXCEPT ![MintOf(c)] = @ - total]
       /\ channel' = [channel EXCEPT ![c].settled_amount = @ + total,
                                     ![c].nonce = @ + 1]
       /\ escrow' = [escrow EXCEPT ![<<c, n>>] =
                [open |-> TRUE, amount |-> total, merkle_root |-> root,
                 created_at |-> now, claimed |-> FALSE, disputed |-> FALSE,
                 optimistic |-> optimistic, lamports |-> total]]
       /\ UNCHANGED <<global, wallet, cosigned, now, history>>

(* Fault: the nonce is left out of the signed message.                       *)
SettleBatchAnyNonce(c, root, total) ==
    /\ \E n \in Nonces : SettlementMessage(c, root, total, n) \in cosigned
    /\ MoveToEscrow(c, root, total, FALSE)

(* settle_batch: both parties signed this root, total, channel and nonce.    *)
SettleBatch(c, root, total) ==
    /\ SettlementMessage(c, root, total, channel[c].nonce) \in cosigned
    /\ MoveToEscrow(c, root, total, FALSE)

(* Fault: the challenge_period > 0 requirement is missing.                   *)
OptimisticSettleInstant(c, root, total) == MoveToEscrow(c, root, total, TRUE)

(* optimistic_settle: the merchant alone signs, whatever total it claims,    *)
(* provided that there is a challenge window.                                *)
OptimisticSettle(c, root, total) ==
    /\ channel[c].challenge_period > 0
    /\ MoveToEscrow(c, root, total, TRUE)

(* Faults: the escrow is not marked, or not debited.                         *)
PayOutUnmarked(e, payee) ==
    /\ escrow' = [escrow EXCEPT ![e].lamports = @ - escrow[e].amount]
    /\ wallet' = [wallet EXCEPT ![payee] = @ + escrow[e].amount]
    /\ paid' = [paid EXCEPT ![e] = [to |-> payee, at |-> now]]
    /\ UNCHANGED disputed_at

PayOutUndebited(e, payee) ==
    /\ escrow' = [escrow EXCEPT ![e].claimed = TRUE]
    /\ wallet' = [wallet EXCEPT ![payee] = @ + escrow[e].amount]
    /\ paid' = [paid EXCEPT ![e] = [to |-> payee, at |-> now]]
    /\ UNCHANGED disputed_at

(* Emptying an escrow into the wallet of `payee`.                            *)
PayOut(e, payee) ==
    /\ escrow' = [escrow EXCEPT ![e].claimed = TRUE,
                                ![e].lamports = @ - escrow[e].amount]
    /\ wallet' = [wallet EXCEPT ![payee] = @ + escrow[e].amount]
    /\ paid' = [paid EXCEPT ![e] = [to |-> payee, at |-> now]]
    /\ UNCHANGED disputed_at

(* The i64 sum created_at + period is compared with the clock; the addition  *)
(* traps on overflow (overflow-checks = true), which fails the instruction.  *)
HasElapsed(e, period) ==
    escrow[e].created_at + period <= MaxI64 /\ now >= escrow[e].created_at + period

(* Fault: a deadline that is not compared with the clock.                    *)
RunsForever(e, period) == escrow[e].created_at + period <= MaxI64

StillRuns(e, period) ==
    escrow[e].created_at + period <= MaxI64 /\ now < escrow[e].created_at + period

(* release_settlement: undisputed, after the challenge window.               *)
ReleaseSettlement(e) ==
    /\ escrow[e].open /\ ~escrow[e].claimed /\ ~escrow[e].disputed
    /\ HasElapsed(e, channel[e[1]].challenge_period)
    /\ PayOut(e, MerchantOf(e[1]))
    /\ UNCHANGED <<global, vault, channel, cosigned, now>>

(* dispute: the buyer freezes an escrow inside its challenge window.         *)
Dispute(e) ==
    /\ escrow[e].open /\ ~escrow[e].claimed /\ ~escrow[e].disputed
    /\ StillRuns(e, channel[e[1]].challenge_period)
    /\ escrow' = [escrow EXCEPT ![e].disputed = TRUE]
    /\ disputed_at' = [disputed_at EXCEPT ![e] = now]
    /\ UNCHANGED <<accounts, now, paid>>

(* Faults: an escrow already paid is paid again; the deadline is reversed.   *)
ForceReleaseAgain(e) ==
    /\ escrow[e].open /\ escrow[e].disputed
    /\ HasElapsed(e, channel[e[1]].dispute_period)
    /\ PayOut(e, MerchantOf(e[1]))
    /\ UNCHANGED <<global, vault, channel, cosigned, now>>

ForceReleaseInTime(e) ==
    /\ escrow[e].open /\ ~escrow[e].claimed /\ escrow[e].disputed
    /\ StillRuns(e, channel[e[1]].dispute_period)
    /\ PayOut(e, MerchantOf(e[1]))
    /\ UNCHANGED <<global, vault, channel, cosigned, now>>

(* force_release: disputed, and dispute_period has passed since created_at.  *)
ForceRelease(e) ==
    /\ escrow[e].open /\ ~escrow[e].claimed /\ escrow[e].disputed
    /\ HasElapsed(e, channel[e[1]].dispute_period)
    /\ PayOut(e, MerchantOf(e[1]))
    /\ UNCHANGED <<global, vault, channel, cosigned, now>>

(* verify_sum_merkle_proof with an honest path: it accepts exactly the       *)
(* leaves of the root; the total it computes is not used by the caller.      *)
ProvesVoucher(root, amount) == \E i \in DOMAIN root : root[i] = amount

(* Fault: the refund does not roll settled_amount back.                      *)
ResolveDisputeNoRollback(e, voucher_amount) ==
    /\ escrow[e].open /\ ~escrow[e].claimed /\ escrow[e].disputed
    /\ ProvesVoucher(escrow[e].merkle_root, voucher_amount)
    /\ voucher_amount < escrow[e].amount
    /\ PayOut(e, Buyer)
    /\ UNCHANGED <<global, vault, channel, cosigned, now>>

(* Fault: a batch that was not disputed is refunded.                         *)
ResolveUndisputed(e, voucher_amount) ==
    /\ escrow[e].open /\ ~escrow[e].claimed
    /\ ProvesVoucher(escrow[e].merkle_root, voucher_amount)
    /\ voucher_amount < escrow[e].amount
    /\ Fits(channel[e[1]].settled_amount - escrow[e].amount)
    /\ channel' = [channel EXCEPT ![e[1]].settled_amount = @ - escrow[e].amount]
    /\ PayOut(e, Buyer)
    /\ UNCHANGED <<global, vault, cosigned, now>>

(* resolve_dispute: one voucher of the batch whose amount is below the       *)
(* escrow's refunds the whole escrow to the buyer's wallet and gives the     *)
(* amount back to the channel's cap.                                         *)
ResolveDispute(e, voucher_amount) ==
    /\ escrow[e].open /\ ~escrow[e].claimed /\ escrow[e].disputed
    /\ ProvesVoucher(escrow[e].merkle_root, voucher_amount)
    /\ voucher_amount < escrow[e].amount
    /\ Fits(channel[e[1]].settled_amount - escrow[e].amount)
    /\ channel' = [channel EXCEPT ![e[1]].settled_amount = @ - escrow[e].amount]
    /\ PayOut(e, Buyer)
    /\ UNCHANGED <<global, vault, cosigned, now>>

(* The unallocated part of the deposit.                                      *)
CanWithdraw(t, a) ==
    /\ Fits(global[t].total_deposited - global[t].total_allocated)
    /\ a <= global[t].total_deposited - global[t].total_allocated

(* Fault: the counter is not lowered.                                        *)
WithdrawUncounted(t, a) ==
    /\ global[t].open
    /\ CanWithdraw(t, a)
    /\ a <= vault[t]
    /\ vault' = [vault EXCEPT ![t] = @ - a]
    /\ wallet' = [wallet EXCEPT ![Buyer] = @ + a]
    /\ UNCHANGED <<global, channel, escrow, cosigned, now, history>>

(* withdraw: lowers the counter, then a system transfer back to the buyer.   *)
Withdraw(t, a) ==
    /\ global[t].open
    /\ CanWithdraw(t, a)
    /\ Fits(global[t].total_deposited - a)
    /\ a <= vault[t]
    /\ global' = [global EXCEPT ![t].total_deposited = @ - a]
    /\ vault' = [vault EXCEPT ![t] = @ - a]
    /\ wallet' = [wallet EXCEPT ![Buyer] = @ + a]
    /\ UNCHANGED <<channel, escrow, cosigned, now, history>>

(* The cluster clock.                                                        *)
Tick ==
    /\ now < MaxTime
    /\ now' = now + 1
    /\ UNCHANGED <<accounts, escrow, history>>

BuyerStep ==
    \/ \E t \in Mints : InitializeGlobal(t)
    \/ \E t \in Mints, a \in Amounts : Deposit(t, a) \/ Withdraw(t, a)
    \/ \E c \in Channels, cap \in Amounts, cp, dp \in Periods :
            InitializeChannel(c, cap, cp, dp)
    \/ \E t \in Mints, c \in Channels, cap \in Amounts : UpdateSpendingCap(t, c, cap)
    \/ \E c \in Channels, root \in Roots, total \in Amounts, n \in Nonces :
            SignSettlement(c, root, total, n)
    \/ \E e \in Escrows : Dispute(e) \/ \E a \in Amounts : ResolveDispute(e, a)

MerchantStep ==
    \/ \E c \in Channels, root \in Roots, total \in Amounts :
            SettleBatch(c, root, total) \/ OptimisticSettle(c, root, total)
    \/ \E e \in Escrows : ReleaseSettlement(e) \/ ForceRelease(e)

Next == BuyerStep \/ MerchantStep \/ Tick

Spec == Init /\ [][Next]_vars

(* Time passes, and a merchant that is owed an escrow keeps calling          *)
(* release_settlement and force_release (mb_release_settlement and           *)
(* mb_force_release of its MCP server) until one of them is accepted.        *)
Fairness ==
    /\ WF_vars(Tick)
    /\ \A e \in Escrows : WF_vars(ReleaseSettlement(e)) /\ WF_vars(ForceRelease(e))

FairSpec == Spec /\ Fairness
=============================================================================
