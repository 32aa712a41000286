---------------------- MODULE ChannelProgramProperties ----------------------
(***************************************************************************)
(* What the on-chain channel program guarantees.                           *)
(***************************************************************************)
EXTENDS ChannelProgram

\* Every field stays in its domain, and a channel that settles has a deadline.
TypeOK ==
    /\ escrow \in Nat /\ now \in Nat
    /\ wallet \in [Parties -> Nat] /\ vault \in [Parties -> Nat]
    /\ paid \in [Parties -> Nat] /\ times \in [Slots -> Nat]
    /\ Exists => account \in Account
    /\ Status = "Challenged" => account.challenge_slot # NoValue
    /\ Status \in {"Settling", "Closed"} => account.settle_deadline # NoValue

Paid == paid[User] + paid[Provider]

\* The escrow pays out exactly what was claimed while the channel lives and
\* exactly what was deposited once it is closed: claim, verify_htlc, htlc_refund
\* and the rounded refunds of finalize_settlement never pay more or less,
\* whatever roots were submitted in between.
ClosedPaysDeposits ==
    /\ Exists /\ Status # "Closed" => Paid = account.total_claimed
    /\ Status = "Closed" => Paid = account.total_deposited
    /\ Exists => account.total_claimed <= account.total_deposited

\* A leaf index is paid at most once, by whichever of the three instructions
\* comes first, even when a counter state puts another leaf at that index.
LeafPaidOnce == \A i \in Slots : times[i] <= 1

Rank(s) == CASE s = "None" -> 0 [] s = "Open" -> 1 [] s = "Challenged" -> 2
             [] s = "Settling" -> 3 [] s = "Closed" -> 4

\* A step never takes the channel back, never lowers its sequence, and puts
\* another root on chain only with a higher sequence: an older state cannot
\* replace a newer one once the newer one was submitted.
NewerStateWins ==
    [][Exists =>
        /\ Exists' /\ Rank(account'.status) >= Rank(account.status)
        /\ account'.sequence >= account.sequence
        /\ account'.current_root # account.current_root =>
               account'.sequence > account.sequence]_vars

\* A dispute ends: a challenged channel is closed in the end, if the escrow
\* holds what is still to be paid.
DisputeEnds ==
    (Status = "Challenged" /\ escrow + Paid >= DepositA + DepositB) ~> (Status = "Closed")
-----------------------------------------------------------------------------
(* What the documentation says and the program does not keep.              *)

\* channel.rs:1495 computes the refunds at full precision, "avoid 1_000_000
\* scaling"; the program still scales, and the user's share loses a token.
RefundsInProportion ==
    Status = "Settling" =>
        Refund(User) = (Unclaimed * account.deposit_a) \div (account.deposit_a + account.deposit_b)

\* Scenario 01 has the deposits in escrow when the channel is open; neither
\* open_channel nor fund_channel moves a token there.
EscrowCoversDeposits == Exists => escrow + Paid >= account.total_deposited

\* Scenario 07: the beneficiary of an HTLC leaf claims it with the preimage.
BeneficiaryCanClaim ==
    \A i \in Slots :
        Exists /\ HtlcOpen(i) /\ now <= account.current_root[i].timelock
        /\ i \notin account.claimed_leaves =>
            account.current_root[i].beneficiary = account.current_root[i].owner

\* An HTLC leaf paid while the dispute runs is paid from a root that a counter
\* state can still replace: what the final root gives to others is then short.
FinalRootIsCovered ==
    Status = "Settling" /\ account.claimed_leaves = {} => Paid = 0
=============================================================================
