---------------------------- MODULE StateChannel ----------------------------
(***************************************************************************)
(* One off-chain channel of ignite-pay-state-channel: a Merkle tree of     *)
(* UTXO leaves that two parties update, dispute and settle.  Every request *)
(* loads the channel from sled (load_state), runs one operation of the     *)
(* ChannelManager and persists the result, so the state between requests   *)
(* is what is on disk: metadata, leaves and provider co-signature, written *)
(* by three inserts that a crash can separate (persist_state).             *)
(*                                                                         *)
(* A root is the leaves it commits to (the hash is injective), a signature *)
(* is what it signs.  A beneficiary may know the preimage from the start   *)
(* and chooses when to use it, so the hash lock needs no variable.         *)
(***************************************************************************)
EXTENDS Integers, Sequences, FiniteSets, FiniteSetsExt, Functions

CONSTANTS
    User, Provider,      \* the two participants
    Clients,             \* whoever signs leaf updates and has them applied
    Recipients,          \* the public keys a leaf may be given to
    Slots,               \* leaf indices of the tree (2^tree_depth of them)
    FirstSlot,           \* the leaf that open_channel fills
    DepositA, DepositB,  \* what the user opens with and the provider funds
    ChallengeDuration, MinChallengeDelay, SettleWindow, SafetyMargin,
    Timelocks,           \* the timelocks of HTLC leaves
    AutoCloseSlots,      \* the values set_auto_close_slot is called with
    MaxSequence,         \* bound on sequence numbers
    MaxNow,              \* bound on the Solana slot number
    MaxCrashes,          \* bound on writes a crash cuts short
    NoValue              \* Rust's None

StateChannelAssumption ==
    /\ User # Provider
    /\ NoValue \notin Recipients \cup {User, Provider}
    /\ Timelocks \subseteq Nat /\ AutoCloseSlots \subseteq Nat
    /\ FirstSlot \in Slots /\ IsFiniteSet(Slots)
    /\ DepositA \in Nat \ {0} /\ DepositB \in Nat \ {0}
    /\ {ChallengeDuration, MinChallengeDelay, SettleWindow, SafetyMargin} \subseteq Nat
    /\ {MaxSequence, MaxNow, MaxCrashes} \subseteq Nat
    /\ NoValue \notin Nat

VARIABLES
    meta,      \* the persisted ChannelMetadata
    leaves,    \* the persisted leaves of the tree
    cosign,    \* the persisted provider_cosign: the state it signs
    pipeline,  \* per client, the updates its Pipeline signed and the tree it built
    now,       \* the current slot
    crashes,   \* history: writes cut short so far
    claims,    \* history: the leaf that was paid, per claimed index
    paid,      \* history: what the claims paid to each party
    refund     \* history: the refunds finalize_settlement returned

vars == <<meta, leaves, cosign, pipeline, now, crashes, claims, paid, refund>>
disk == <<meta, leaves, cosign>>
payouts == <<claims, paid, refund>>

Parties == {User, Provider}
Owners == Parties \cup Recipients

-----------------------------------------------------------------------------
(* Leaves and trees.                                                       *)

Standard(o, a) ==
    [type |-> "Standard", owner |-> o, amount |-> a, timelock |-> NoValue, beneficiary |-> NoValue]
Htlc(o, a, t, b) ==
    [type |-> "HTLC", owner |-> o, amount |-> a, timelock |-> t, beneficiary |-> b]
Empty == Standard(NoValue, 0)
IsEmpty(leaf) == leaf.amount = 0

Worth(tree, slots) == SumFunctionOnSet([i \in Slots |-> tree[i].amount], slots)
Total(tree) == Worth(tree, Slots)
OwnedBy(tree, p) == Worth(tree, {i \in Slots : tree[i].owner = p})

\* The trees construct_split_tree accepts: each party owns what it deposited.
Splits ==
    {tree \in [Slots -> {Standard(p, a) : p \in Parties, a \in 1 .. (DepositA + DepositB)} \cup {Empty}] :
        /\ Total(tree) = meta.total_deposited
        /\ OwnedBy(tree, User) = meta.deposit_a
        /\ OwnedBy(tree, Provider) = meta.deposit_b}

\* The updates applied in turn: of those of one leaf, the last one stands.
Applied(tree, updates) ==
    [i \in Slots |->
        LET touching == {k \in DOMAIN updates : updates[k].index = i}
        IN  IF touching = {} THEN tree[i] ELSE updates[Max(touching)].new]

\* validate_leaf_update, for each update of a batch in turn.
Valid(updates) ==
    \A k \in DOMAIN updates :
        /\ updates[k].sequence = meta.sequence + k
        /\ updates[k].prev = Applied(leaves, SubSeq(updates, 1, k - 1))[updates[k].index]

NoPipeline == [updates |-> <<>>, result |-> NoValue]

-----------------------------------------------------------------------------
(* persist_state: metadata, leaves and co-signature, in this order; a      *)
(* crash may leave the first only, or the first two.                       *)

Persist(m, l, c) ==
    \/ /\ meta' = m /\ leaves' = l /\ cosign' = c
       /\ UNCHANGED crashes
    \/ /\ crashes < MaxCrashes
       /\ crashes' = crashes + 1
       /\ meta' = m
       /\ leaves' \in {leaves, l}
       /\ UNCHANGED cosign

Open == meta.status = "Open"
Challenged == meta.status = "Challenged"
Settling == meta.status = "Settling"

NextSequence == meta.sequence + 1
CanAdvance(n) == meta.sequence + n <= MaxSequence

\* The deadline, capped by the model's last slot.
Deadline == IF now + SettleWindow <= MaxNow THEN now + SettleWindow ELSE MaxNow

Init ==
    /\ leaves = [i \in Slots |-> IF i = FirstSlot THEN Standard(User, DepositA) ELSE Empty]
    /\ meta = [status |-> "Open", sequence |-> 0, current_root |-> leaves,
               total_deposited |-> DepositA, deposit_a |-> DepositA, deposit_b |-> 0,
               challenge_slot |-> NoValue, auto_close_slot |-> NoValue,
               total_claimed |-> 0, settle_deadline |-> NoValue, claimed_leaves |-> {}]
    /\ cosign = NoValue
    /\ pipeline = [p \in Clients |-> NoPipeline]
    /\ now = 0
    /\ crashes = 0
    /\ claims = <<>> /\ paid = [p \in Parties |-> 0] /\ refund = NoValue

-----------------------------------------------------------------------------
(* Pipeline: a client signs updates against a copy of the tree.  Nothing    *)
(* checks that the signer owns the leaf.                                   *)

Update(n, i, prev, new) == [sequence |-> meta.sequence + n, index |-> i, prev |-> prev, new |-> new]

Build(p, updates) ==
    /\ pipeline[p] = NoPipeline
    /\ CanAdvance(Len(updates))
    /\ pipeline' = [pipeline EXCEPT ![p] =
           [updates |-> updates, result |-> Applied(leaves, updates)]]
    /\ UNCHANGED <<disk, now, crashes, payouts>>

Replace(p, i, new) == Build(p, <<Update(1, i, leaves[i], new)>>)

TransferLeaf(p, i, to) ==
    /\ ~IsEmpty(leaves[i])
    /\ Replace(p, i, Standard(to, leaves[i].amount))

\* Fault: deduct from the source first (BUG-4 of the source's history).
PartialTransferSourceFirst(p, src, dest, a, to) ==
    /\ a <= leaves[src].amount
    /\ IsEmpty(leaves[dest])
    /\ Build(p, <<Update(1, src, leaves[src],
                         Standard(leaves[src].owner, leaves[src].amount - a)),
                  Update(2, dest, leaves[dest], Standard(to, a))>>)

PartialTransfer(p, src, dest, a, to) ==
    /\ a <= leaves[src].amount
    /\ IsEmpty(leaves[dest])
    /\ Build(p, <<Update(1, dest, leaves[dest], Standard(to, a)),
                  Update(2, src, leaves[src],
                         Standard(leaves[src].owner, leaves[src].amount - a))>>)

CreateHtlc(p, i, timelock, b) ==
    /\ ~IsEmpty(leaves[i])
    /\ timelock > now + ChallengeDuration + SafetyMargin
    /\ Replace(p, i, Htlc(leaves[i].owner, leaves[i].amount, timelock, b))

ResolveHtlc(p, i) ==
    /\ leaves[i].type = "HTLC"
    /\ Replace(p, i, Standard(leaves[i].beneficiary, leaves[i].amount))

RefundHtlc(p, i) ==
    /\ leaves[i].type = "HTLC"
    /\ now > leaves[i].timelock
    /\ Replace(p, i, Standard(leaves[i].owner, leaves[i].amount))

\* abort, or a drop of the pipeline: the signed updates are thrown away.
Abort(p) ==
    /\ pipeline[p] # NoPipeline
    /\ pipeline' = [pipeline EXCEPT ![p] = NoPipeline]
    /\ UNCHANGED <<disk, now, crashes, payouts>>

-----------------------------------------------------------------------------
(* ChannelManager, while the channel is open.                              *)

NewTree(l) == [meta EXCEPT !.sequence = NextSequence, !.current_root = l]

FundChannel(i) ==
    /\ Open /\ CanAdvance(1)
    /\ meta.deposit_b = 0
    /\ IsEmpty(leaves[i])
    /\ LET l == [leaves EXCEPT ![i] = Standard(Provider, DepositB)]
       IN  Persist([NewTree(l) EXCEPT !.deposit_b = DepositB,
                                      !.total_deposited = @ + DepositB], l, NoValue)
    /\ UNCHANGED <<pipeline, now, payouts>>

\* No status check in the code: a split is accepted in every status.
ConstructSplitTree(tree) ==
    /\ CanAdvance(1)
    /\ tree \in Splits
    /\ Persist(NewTree(tree), tree, [sequence |-> NextSequence, root |-> tree])
    /\ UNCHANGED <<pipeline, now, payouts>>

ApplyLeafUpdate(p) ==
    LET updates == pipeline[p].updates
        l == Applied(leaves, <<Head(updates)>>)
        rest == Tail(updates)
    IN  /\ pipeline[p] # NoPipeline
        /\ Open /\ Valid(<<Head(updates)>>)
        /\ Persist(NewTree(l), l, NoValue)
        /\ pipeline' = [pipeline EXCEPT ![p] =
               IF rest = <<>> THEN NoPipeline ELSE [@ EXCEPT !.updates = rest]]
        /\ UNCHANGED <<now, payouts>>

\* apply_leaf_update_batch keeps the provider co-signature of the old root.
ApplyLeafUpdateBatch(p) ==
    LET updates == pipeline[p].updates
        l == Applied(leaves, updates)
    IN  /\ pipeline[p] # NoPipeline
        /\ Open /\ Valid(updates)
        /\ Persist([meta EXCEPT !.sequence = @ + Len(updates), !.current_root = l], l, cosign)
        /\ pipeline' = [pipeline EXCEPT ![p] = NoPipeline]
        /\ UNCHANGED <<now, payouts>>

\* No status check in the code.
ProviderCosignState ==
    /\ Persist(meta, leaves, [sequence |-> meta.sequence, root |-> meta.current_root])
    /\ UNCHANGED <<pipeline, now, payouts>>

SetAutoCloseSlot(s) ==
    /\ Open
    /\ Persist([meta EXCEPT !.auto_close_slot = s], leaves, cosign)
    /\ UNCHANGED <<pipeline, now, payouts>>

-----------------------------------------------------------------------------
(* Closing, disputes and settlement.                                       *)

\* Fault: the status moves without a deadline (BUG-2).
SettleWithoutDeadline == [meta EXCEPT !.status = "Settling"]

Settle == [meta EXCEPT !.status = "Settling", !.settle_deadline = Deadline]

\* The service signs for the user and takes the stored co-signature.
CloseChannel ==
    /\ Open
    /\ \A i \in Slots : leaves[i].type # "HTLC"
    /\ cosign = [sequence |-> meta.sequence, root |-> meta.current_root]
    /\ Persist(Settle, leaves, NoValue)
    /\ UNCHANGED <<pipeline, now, payouts>>

\* Fault: auto_settle does not look at the status.
AutoSettleAnyStatus ==
    /\ meta.auto_close_slot # NoValue
    /\ now >= meta.auto_close_slot
    /\ Persist(Settle, leaves, NoValue)
    /\ UNCHANGED <<pipeline, now, payouts>>

AutoSettle ==
    /\ meta.auto_close_slot # NoValue
    /\ now >= meta.auto_close_slot
    /\ Open
    /\ Persist(Settle, leaves, NoValue)
    /\ UNCHANGED <<pipeline, now, payouts>>

\* The roots a party can put its signature to.
RootsAtHand ==
    {meta.current_root, leaves} \cup
    {pipeline[p].result : p \in {q \in Clients : pipeline[q] # NoPipeline}}

\* One signature suffices; the tree and the co-signature stay as they are.
TriggerChallenge(s, root) ==
    /\ Open
    /\ now >= MinChallengeDelay
    /\ now + ChallengeDuration < MaxNow
    /\ s > meta.sequence
    /\ root \in RootsAtHand
    /\ Persist([meta EXCEPT !.status = "Challenged", !.challenge_slot = now,
                            !.current_root = root, !.sequence = s], leaves, cosign)
    /\ UNCHANGED <<pipeline, now, payouts>>

SettleAfterTimeout ==
    /\ Challenged
    /\ now > meta.challenge_slot + ChallengeDuration
    /\ Persist(Settle, leaves, NoValue)
    /\ UNCHANGED <<pipeline, now, payouts>>

\* Fault: a counter state with the sequence already reached is accepted.
SubmitCounterStateSameSequence(s, root, withLeaves) ==
    /\ Challenged
    /\ s >= meta.sequence
    /\ root \in RootsAtHand
    /\ Total(root) >= meta.total_deposited
    /\ Persist([meta EXCEPT !.sequence = s, !.current_root = root],
               IF withLeaves THEN root ELSE leaves, [sequence |-> s, root |-> root])
    /\ UNCHANGED <<pipeline, now, payouts>>

\* Both parties sign; they sign no root that drops part of the deposits.
SubmitCounterState(s, root, withLeaves) ==
    /\ Challenged
    /\ s > meta.sequence
    /\ root \in RootsAtHand
    /\ Total(root) >= meta.total_deposited
    /\ Persist([meta EXCEPT !.sequence = s, !.current_root = root],
               IF withLeaves THEN root ELSE leaves, [sequence |-> s, root |-> root])
    /\ UNCHANGED <<pipeline, now, payouts>>

\* Fault: a leaf already claimed is paid again.
PayAgain(i, to) ==
    /\ to \in Parties
    /\ meta.total_claimed + leaves[i].amount <= meta.total_deposited
    /\ Persist([meta EXCEPT !.total_claimed = @ + leaves[i].amount,
                            !.claimed_leaves = @ \cup {i}], leaves, cosign)
    /\ claims' = [k \in DOMAIN claims \cup {i} |-> IF k = i THEN leaves[i] ELSE claims[k]]
    /\ paid' = [paid EXCEPT ![to] = @ + leaves[i].amount]
    /\ UNCHANGED <<pipeline, now, refund>>

\* What every claim does once its own checks have passed.
Pay(i, to) ==
    /\ i \notin meta.claimed_leaves
    /\ to \in Parties
    /\ meta.total_claimed + leaves[i].amount <= meta.total_deposited
    /\ Persist([meta EXCEPT !.total_claimed = @ + leaves[i].amount,
                            !.claimed_leaves = @ \cup {i}], leaves, cosign)
    /\ claims' = [k \in DOMAIN claims \cup {i} |-> IF k = i THEN leaves[i] ELSE claims[k]]
    /\ paid' = [paid EXCEPT ![to] = @ + leaves[i].amount]
    /\ UNCHANGED <<pipeline, now, refund>>

\* The proof is computed from the tree, so it verifies only if the tree's
\* root is the current root.
ProofFromTree == leaves = meta.current_root

ClaimLeaf(i) ==
    /\ Settling /\ now <= meta.settle_deadline
    /\ ~IsEmpty(leaves[i])
    /\ leaves[i].type = "Standard"
    /\ ProofFromTree
    /\ Pay(i, leaves[i].owner)

\* The caller brings the proof; the leaf's type is not looked at.
ClaimLeafWithProof(i) ==
    /\ Settling /\ now <= meta.settle_deadline
    /\ ~IsEmpty(leaves[i])
    /\ meta.current_root[i] = leaves[i]
    /\ Pay(i, leaves[i].owner)

HtlcClaimable(i) ==
    /\ Challenged \/ Settling
    /\ meta.settle_deadline # NoValue => now <= meta.settle_deadline
    /\ leaves[i].type = "HTLC"
    /\ ProofFromTree

ClaimHtlcVerify(i) ==
    /\ HtlcClaimable(i)
    /\ now <= leaves[i].timelock
    /\ Pay(i, leaves[i].beneficiary)

ClaimHtlcRefund(i) ==
    /\ HtlcClaimable(i)
    /\ now > leaves[i].timelock
    /\ Pay(i, leaves[i].owner)

\* Fault: each refund rounds down on its own.
RefundsRoundedDown ==
    LET unclaimed == meta.total_deposited - meta.total_claimed
        share(d) == (unclaimed * d) \div (meta.deposit_a + meta.deposit_b)
    IN  [p \in Parties |-> share(IF p = User THEN meta.deposit_a ELSE meta.deposit_b)]

Refunds ==
    LET unclaimed == meta.total_deposited - meta.total_claimed
        a == (unclaimed * meta.deposit_a) \div (meta.deposit_a + meta.deposit_b)
    IN  [p \in Parties |-> IF p = User THEN a ELSE unclaimed - a]

\* The refunds are returned only if the write ends.
FinalizeSettlement ==
    /\ Settling
    /\ now >= meta.settle_deadline
    /\ Persist([meta EXCEPT !.status = "Closed"], leaves, cosign)
    /\ refund' = IF crashes' = crashes THEN Refunds ELSE refund
    /\ UNCHANGED <<pipeline, now, claims, paid>>

-----------------------------------------------------------------------------
(* The environment.                                                        *)

Tick ==
    /\ now < MaxNow
    /\ now' = now + 1
    /\ UNCHANGED <<disk, pipeline, crashes, payouts>>

-----------------------------------------------------------------------------
Amounts == 1 .. (DepositA + DepositB)
Sequences == 1 .. MaxSequence

PipelineStep(p) ==
    \/ \E i \in Slots :
        \/ \E to \in Recipients : TransferLeaf(p, i, to)
        \/ \E dest \in Slots, a \in Amounts, to \in Recipients : PartialTransfer(p, i, dest, a, to)
        \/ \E t \in Timelocks, b \in Recipients : CreateHtlc(p, i, t, b)
        \/ ResolveHtlc(p, i)
        \/ RefundHtlc(p, i)
    \/ Abort(p)

OpenStep ==
    \/ \E i \in Slots : FundChannel(i)
    \/ \E tree \in Splits : ConstructSplitTree(tree)
    \/ \E p \in Clients : ApplyLeafUpdate(p) \/ ApplyLeafUpdateBatch(p)
    \/ ProviderCosignState
    \/ \E s \in AutoCloseSlots : SetAutoCloseSlot(s)

CloseStep ==
    \/ CloseChannel
    \/ AutoSettle
    \/ \E s \in Sequences, root \in RootsAtHand : TriggerChallenge(s, root)
    \/ SettleAfterTimeout
    \/ \E s \in Sequences, root \in RootsAtHand, b \in BOOLEAN : SubmitCounterState(s, root, b)
    \/ FinalizeSettlement

ClaimStep ==
    \E i \in Slots :
        ClaimLeaf(i) \/ ClaimLeafWithProof(i) \/ ClaimHtlcVerify(i) \/ ClaimHtlcRefund(i)

Next ==
    \/ \E p \in Clients : PipelineStep(p)
    \/ OpenStep
    \/ CloseStep
    \/ ClaimStep
    \/ Tick

Spec == Init /\ [][Next]_vars

\* Slots pass, and somebody (a relayer, a watchtower or a party) ends a
\* dispute and a settlement once the code allows it.
Fairness ==
    /\ WF_vars(Tick)
    /\ WF_vars(SettleAfterTimeout)
    /\ WF_vars(FinalizeSettlement)

FairSpec == Spec /\ Fairness

-----------------------------------------------------------------------------
(* What the engine must keep true.                                          *)

Leaf ==
    [type : {"Standard", "HTLC"}, owner : Owners \cup {NoValue}, amount : Nat,
     timelock : Nat \cup {NoValue}, beneficiary : Recipients \cup {NoValue}]
Tree == [Slots -> Leaf]

\* The persisted channel, the pipelines and the histories have their types;
\* a channel that settles has a deadline, a challenged one a challenge slot.
TypeOK ==
    /\ leaves \in Tree
    /\ meta.status \in {"Open", "Challenged", "Settling", "Closed"}
    /\ meta.sequence \in 0 .. MaxSequence
    /\ meta.current_root \in Tree
    /\ {meta.total_deposited, meta.deposit_a, meta.deposit_b, meta.total_claimed} \subseteq Nat
    /\ {meta.challenge_slot, meta.auto_close_slot, meta.settle_deadline}
           \subseteq (0 .. MaxNow) \cup {NoValue}
    /\ Challenged => meta.challenge_slot # NoValue
    /\ meta.status \in {"Settling", "Closed"} <=> meta.settle_deadline # NoValue
    /\ meta.claimed_leaves \subseteq Slots
    /\ cosign = NoValue \/ (cosign.sequence \in 0 .. MaxSequence /\ cosign.root \in Tree)
    /\ \A p \in Clients : pipeline[p] # NoPipeline => pipeline[p].updates # <<>>
    /\ now \in 0 .. MaxNow /\ crashes \in 0 .. MaxCrashes
    /\ DOMAIN claims \subseteq Slots /\ paid \in [Parties -> Nat]

PaidOut == paid[User] + paid[Provider]

\* A leaf is paid once in the life of the channel, whatever claim operation
\* pays it, whether the tree is replaced in between and wherever a crash cuts
\* a write: the claims add up to the leaves paid and to total_claimed, which
\* the deposits cover.
EveryLeafPaidOnce ==
    /\ meta.claimed_leaves = DOMAIN claims
    /\ PaidOut = meta.total_claimed
    /\ PaidOut = SumFunctionOnSet([i \in DOMAIN claims |-> claims[i].amount], DOMAIN claims)
    /\ PaidOut <= meta.total_deposited

Unclaimed == Worth(leaves, Slots \ meta.claimed_leaves)
PaidLeavesStand == \A i \in DOMAIN claims : leaves[i].amount = claims[i].amount

\* No deposit drops out of the tree: in every tree the current root commits
\* to, the leaves not yet claimed are worth at least what is left of the
\* deposits ("sum(leaves) >= total_deposited", pipeline.rs).  A write cut
\* short and a leaf replaced after it was paid are the two ways out.
LeavesCoverDeposit ==
    (crashes = 0 /\ ProofFromTree /\ PaidLeavesStand)
        => Unclaimed >= meta.total_deposited - meta.total_claimed

\* A closed channel has paid out exactly the deposits, in claims and refunds.
NothingLeftAtClose ==
    (crashes = 0 /\ meta.status = "Closed")
        => PaidOut + refund[User] + refund[Provider] = meta.total_deposited

Rank(status) == CASE status = "Open" -> 0 [] status = "Challenged" -> 1
                  [] status = "Settling" -> 2 [] status = "Closed" -> 3

\* A channel never goes back: neither its status nor its sequence, a leaf
\* once claimed stays claimed and nothing is paid from a closed channel, even
\* by the operations that do not look at the status.
ForwardOnly ==
    [][/\ Rank(meta'.status) >= Rank(meta.status)
       /\ meta'.sequence >= meta.sequence
       /\ meta.claimed_leaves \subseteq meta'.claimed_leaves
       /\ meta.status = "Closed" => UNCHANGED payouts]_vars

\* Two different roots never carry one sequence number on disk, so that a
\* signature over (sequence, root) names one state of the channel.
RootChangeAdvancesSequence ==
    [][meta'.current_root # meta.current_root => meta'.sequence > meta.sequence]_vars

\* Once a close or a dispute has begun, the channel closes.
ClosesOnceStarted == meta.status \in {"Challenged", "Settling"} ~> meta.status = "Closed"

-----------------------------------------------------------------------------
(* What the source says, or leads one to expect, and the code does not     *)
(* keep.                                                                   *)

\* channel.rs:1071 "HTLC/Compliance leaves use dedicated claim methods": the
\* owner of a locked leaf is paid only once the timelock has passed.
HtlcOwnerWaits ==
    [][\A i \in DOMAIN claims' \ DOMAIN claims :
        (leaves[i].type = "HTLC" /\ leaves[i].owner # leaves[i].beneficiary
            /\ paid'[leaves[i].owner] > paid[leaves[i].owner])
                => now > leaves[i].timelock]_vars

\* channel.rs:50 "Pending provider co-signature on the current root (if any)".
CosignIsOnCurrentRoot ==
    (crashes = 0 /\ cosign # NoValue)
        => cosign = [sequence |-> meta.sequence, root |-> meta.current_root]

\* LeavesCoverDeposit across a crash between the metadata and the leaves: the
\* next update rebuilds the root from the old leaves, and what the lost leaf
\* held (a payment, a provider's deposit) is in no leaf.
LeavesCoverDepositAcrossCrashes ==
    (ProofFromTree /\ PaidLeavesStand)
        => Unclaimed >= meta.total_deposited - meta.total_claimed

\* channel.rs:1456 "Finalize settlement after the settle_deadline has passed":
\* no claim is still in time when the channel is closed.
FinalizedAfterWindow ==
    [][(meta.status # "Closed" /\ meta'.status = "Closed") => now > meta.settle_deadline]_vars
=============================================================================
