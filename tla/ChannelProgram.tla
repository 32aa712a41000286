--------------------------- MODULE ChannelProgram ---------------------------
(***************************************************************************)
(* The on-chain state-channel program (ignite-pay-program): one channel    *)
(* account, the escrow its claims are paid from, and the instructions that *)
(* open, fund, dispute, settle and close it.  Each instruction is atomic;  *)
(* between two of them anybody's transaction may land.                     *)
(*                                                                         *)
(* A root is the tree it commits to, and a proof exists for leaf i exactly *)
(* when root[i] is that leaf.  Transactions are signed for the slot they   *)
(* land in: a message signed for an earlier slot fails and changes nothing,*)
(* so the model has no step for it.  Callers are the parties, with the     *)
(* data of their own leaves: the builders of ignite-pay-solana/channel.rs. *)
(* The index, the owner and the locks they pass beside a leaf are those of *)
(* the leaf; the program does not compare all of them with it.             *)
(* The escrow account is funded by no instruction of the program; the      *)
(* parties move tokens there with a transfer of their own.                 *)
(***************************************************************************)
EXTENDS Integers, FiniteSets

CONSTANTS
    User, Provider,      \* the two participants
    Slots,               \* leaf indices
    Roots,               \* the trees the parties sign
    InitialRoot,         \* the tree open_channel is called with
    DepositA, DepositB,  \* what open_channel and fund_channel are called with
    ChallengeDuration, MinChallengeDelay, SettleWindow,
    MaxSequence,         \* bound on sequence numbers
    MaxNow,              \* bound on the slot number, outside of a window
    NoValue              \* Rust's None

Parties == {User, Provider}
Leaf == [type : {"Standard", "HTLC"}, owner : Parties \cup {NoValue}, amount : Nat,
         timelock : Nat \cup {NoValue}, beneficiary : Parties \cup {NoValue}]

Statuses == {"Open", "Challenged", "Settling", "Closed"}
Account ==
    [status : Statuses, sequence : Nat, current_root : Roots,
     total_deposited : Nat, deposit_a : Nat \ {0}, deposit_b : Nat, open_slot : Nat,
     challenge_slot : Nat \cup {NoValue}, settle_deadline : Nat \cup {NoValue},
     total_claimed : Nat, claimed_leaves : SUBSET Slots]

ASSUME ChannelProgramAssumption ==
    /\ User # Provider
    /\ NoValue \notin Parties /\ NoValue \notin Nat /\ NoValue \notin Account
    /\ Roots \subseteq [Slots -> Leaf] /\ InitialRoot \in Roots
    /\ DepositA \in Nat \ {0} /\ DepositB \in Nat \ {0}
    /\ {ChallengeDuration, MinChallengeDelay, SettleWindow} \subseteq Nat
    /\ {MaxSequence, MaxNow} \subseteq Nat

VARIABLES
    account,  \* the ChannelAccount, NoValue before open_channel
    escrow,   \* tokens in the escrow account
    wallet,   \* tokens each party still holds
    vault,    \* tokens that reached each party's vault
    now,      \* the current slot
    paid,     \* history: what the escrow has paid out to each party
    times     \* history: how often each leaf index was paid

vars == <<account, escrow, wallet, vault, now, paid, times>>
tokens == <<escrow, wallet, vault, paid, times>>

Exists == account # NoValue
Status == IF Exists THEN account.status ELSE "None"

Init ==
    /\ account = NoValue
    /\ escrow = 0
    /\ wallet = [p \in Parties |-> IF p = User THEN DepositA ELSE 2 * DepositB]
    /\ vault = [p \in Parties |-> 0]
    /\ now = 0
    /\ paid = [p \in Parties |-> 0]
    /\ times = [i \in Slots |-> 0]

-----------------------------------------------------------------------------
(* Opening and funding.                                                    *)

\* No tokens move: the user's signature over the deposit is all it takes.
OpenChannel ==
    /\ account = NoValue
    /\ account' = [status |-> "Open", sequence |-> 0, current_root |-> InitialRoot,
                   total_deposited |-> DepositA, deposit_a |-> DepositA, deposit_b |-> 0,
                   open_slot |-> now, challenge_slot |-> NoValue, settle_deadline |-> NoValue,
                   total_claimed |-> 0, claimed_leaves |-> {}]
    /\ UNCHANGED <<tokens, now>>

\* The provider's deposit goes to the provider's vault, not to the escrow.
FundChannel ==
    /\ Status = "Open"
    /\ account.deposit_b = 0
    /\ wallet[Provider] >= DepositB
    /\ wallet' = [wallet EXCEPT ![Provider] = @ - DepositB]
    /\ vault' = [vault EXCEPT ![Provider] = @ + DepositB]
    /\ account' = [account EXCEPT !.deposit_b = DepositB, !.total_deposited = @ + DepositB]
    /\ UNCHANGED <<escrow, now, paid, times>>

\* A plain token transfer by a party, outside the program.
TransferToEscrow(p, amount) ==
    /\ amount \in 1 .. wallet[p]
    /\ wallet' = [wallet EXCEPT ![p] = @ - amount]
    /\ escrow' = escrow + amount
    /\ UNCHANGED <<account, vault, now, paid, times>>

-----------------------------------------------------------------------------
(* Closing and disputes.                                                   *)

\* Both sign [sequence, root]; the sequence is compared but not stored.
CooperativeSettle(sequence, root) ==
    /\ Status = "Open"
    /\ sequence >= account.sequence
    /\ root = account.current_root
    /\ account' = [account EXCEPT !.status = "Settling", !.settle_deadline = now + SettleWindow]
    /\ UNCHANGED <<tokens, now>>

TriggerChallenge(sequence, root) ==
    /\ Status = "Open"
    /\ now >= account.open_slot + MinChallengeDelay
    /\ sequence > account.sequence
    /\ account' = [account EXCEPT !.status = "Challenged", !.challenge_slot = now,
                                  !.current_root = root, !.sequence = sequence]
    /\ UNCHANGED <<tokens, now>>

\* Fault: a state with the sequence already on chain replaces the root.
SubmitCounterStateSameSequence(sequence, root) ==
    /\ Status = "Challenged"
    /\ sequence >= account.sequence
    /\ account' = [account EXCEPT !.sequence = sequence, !.current_root = root]
    /\ UNCHANGED <<tokens, now>>

\* No deadline: a counter state is accepted as long as nobody settles.
SubmitCounterState(sequence, root) ==
    /\ Status = "Challenged"
    /\ sequence > account.sequence
    /\ account' = [account EXCEPT !.sequence = sequence, !.current_root = root]
    /\ UNCHANGED <<tokens, now>>

\* Fault: the deadline of an earlier settlement is not renewed.
SettleWithoutDeadline ==
    /\ Status = "Challenged"
    /\ now > account.challenge_slot + ChallengeDuration
    /\ account' = [account EXCEPT !.status = "Settling"]
    /\ UNCHANGED <<tokens, now>>

\* auto_close_slot is never set, so an open channel does not get here.
SettleAfterTimeout ==
    /\ Status = "Challenged"
    /\ now > account.challenge_slot + ChallengeDuration
    /\ account' = [account EXCEPT !.status = "Settling", !.settle_deadline = now + SettleWindow]
    /\ UNCHANGED <<tokens, now>>

-----------------------------------------------------------------------------
(* Payouts.                                                                *)

\* Fault: the index is not pushed to claimed_leaves.
PayForgotten(i, p) ==
    LET amount == account.current_root[i].amount
    IN  /\ p \in Parties
        /\ i \notin account.claimed_leaves
        /\ account.total_claimed + amount <= account.total_deposited
        /\ escrow >= amount
        /\ account' = [account EXCEPT !.total_claimed = @ + amount]
        /\ escrow' = escrow - amount
        /\ vault' = [vault EXCEPT ![p] = @ + amount]
        /\ paid' = [paid EXCEPT ![p] = @ + amount]
        /\ times' = [times EXCEPT ![i] = @ + 1]
        /\ UNCHANGED <<wallet, now>>

\* What the three claiming instructions do once their checks have passed.
Pay(i, p) ==
    LET amount == account.current_root[i].amount
    IN  /\ p \in Parties
        /\ i \notin account.claimed_leaves
        /\ account.total_claimed + amount <= account.total_deposited
        /\ escrow >= amount
        /\ account' = [account EXCEPT !.total_claimed = @ + amount,
                                      !.claimed_leaves = @ \cup {i}]
        /\ escrow' = escrow - amount
        /\ vault' = [vault EXCEPT ![p] = @ + amount]
        /\ paid' = [paid EXCEPT ![p] = @ + amount]
        /\ times' = [times EXCEPT ![i] = @ + 1]
        /\ UNCHANGED <<wallet, now>>

\* The leaf's type is not looked at: the owner of an HTLC leaf may claim it.
Claim(i, p) ==
    /\ Status = "Settling"
    /\ now <= account.settle_deadline
    /\ Pay(i, p)

HtlcDeadline ==
    IF Status = "Challenged" THEN account.challenge_slot + ChallengeDuration
                             ELSE account.settle_deadline

HtlcOpen(i) ==
    /\ Status \in {"Challenged", "Settling"}
    /\ now <= HtlcDeadline
    /\ account.current_root[i].type = "HTLC"

\* Both instructions compare the claimer with the owner stored in the leaf.
VerifyHtlc(i, p) ==
    /\ HtlcOpen(i)
    /\ account.current_root[i].owner = p
    /\ now <= account.current_root[i].timelock
    /\ Pay(i, p)

HtlcRefund(i, p) ==
    /\ HtlcOpen(i)
    /\ account.current_root[i].owner = p
    /\ now > account.current_root[i].timelock
    /\ Pay(i, p)

RatioScale == 1000000
Unclaimed == account.total_deposited - account.total_claimed
Ratio(deposit) == (deposit * RatioScale) \div (account.deposit_a + account.deposit_b)
Share(deposit) == (Unclaimed * Ratio(deposit)) \div RatioScale

\* Fault: both refunds are computed from their own ratio.
RefundEachRounded(p) == Share(IF p = User THEN account.deposit_a ELSE account.deposit_b)

\* The provider gets what the user's rounded share leaves (checked_sub).
Refund(p) == IF p = User THEN Share(account.deposit_a) ELSE Unclaimed - Share(account.deposit_a)

\* Fault: the comparison with the deadline is the one of claim.
FinalizeWithinWindow ==
    /\ Status = "Settling"
    /\ now < account.settle_deadline
    /\ escrow >= Refund(User) + Refund(Provider)
    /\ account' = [account EXCEPT !.status = "Closed"]
    /\ escrow' = escrow - (Refund(User) + Refund(Provider))
    /\ vault' = [p \in Parties |-> vault[p] + Refund(p)]
    /\ paid' = [p \in Parties |-> paid[p] + Refund(p)]
    /\ UNCHANGED <<wallet, now, times>>

FinalizeSettlement ==
    /\ Status = "Settling"
    /\ now >= account.settle_deadline
    /\ Share(account.deposit_a) <= Unclaimed
    /\ escrow >= Refund(User) + Refund(Provider)
    /\ account' = [account EXCEPT !.status = "Closed"]
    /\ escrow' = escrow - (Refund(User) + Refund(Provider))
    /\ vault' = [p \in Parties |-> vault[p] + Refund(p)]
    /\ paid' = [p \in Parties |-> paid[p] + Refund(p)]
    /\ UNCHANGED <<wallet, now, times>>

-----------------------------------------------------------------------------
(* The callers.                                                            *)

\* The model's last slot does not cut a dispute or a settlement short.
WindowOpen ==
    \/ Status = "Challenged" /\ now <= account.challenge_slot + ChallengeDuration
    \/ Status = "Settling" /\ now < account.settle_deadline

Tick ==
    /\ now < MaxNow \/ WindowOpen
    /\ now' = now + 1
    /\ UNCHANGED <<account, tokens>>

Sequences == 0 .. MaxSequence

\* A party claims a leaf it owns; an HTLC leaf it also claims as beneficiary,
\* with the preimage and the leaf's own timelock as arguments.
ClaimStep(i) ==
    /\ Exists
    /\ LET leaf == account.current_root[i]
       IN  Claim(i, leaf.owner) \/ VerifyHtlc(i, leaf.beneficiary) \/ HtlcRefund(i, leaf.owner)

Next ==
    \/ OpenChannel
    \/ FundChannel
    \/ \E p \in Parties, a \in {DepositA, DepositB} : TransferToEscrow(p, a)
    \/ \E s \in Sequences, r \in Roots :
        CooperativeSettle(s, r) \/ TriggerChallenge(s, r) \/ SubmitCounterState(s, r)
    \/ SettleAfterTimeout
    \/ \E i \in Slots : ClaimStep(i)
    \/ FinalizeSettlement
    \/ Tick

Spec == Init /\ [][Next]_vars

\* Slots pass, and a party sends settle_after_timeout and finalize_settlement
\* again until a transaction lands in the slot it was signed for.
Fairness ==
    /\ WF_vars(Tick)
    /\ WF_vars(SettleAfterTimeout)
    /\ WF_vars(FinalizeSettlement)

FairSpec == Spec /\ Fairness
=============================================================================
