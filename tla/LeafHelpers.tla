----------------------------- MODULE LeafHelpers -----------------------------
(***************************************************************************)
(* helpers.rs of the state channel library: the leaves a deposit is split  *)
(* into, and the batches of signed leaf updates that cut an amount off the *)
(* change leaf or gather spent leaves into one.  Each call returns a list  *)
(* of updates with consecutive sequence numbers; the channel may close on  *)
(* any of them, so what matters is the tree after every single update.     *)
(***************************************************************************)
EXTENDS Integers, Sequences, FiniteSets, SequencesExt, Functions

CONSTANTS
    Signers,      \* the two participants, each signing for itself
    Deposit,      \* what the first signer opened the channel with
    Counts,       \* how many leaves a tier of a denomination strategy has
    TierAmounts,  \* the amount of each leaf of a tier
    MaxTiers,     \* bound on the tiers of a mixed strategy
    SplitAmounts, \* amounts split_from_rest is called with
    MaxSources,   \* bound on the source leaves of one merge
    Repeats,      \* a merge may name a source leaf twice
    TreeSize,     \* leaves of the tree
    MaxCalls,     \* bound on calls of the helpers
    Nobody        \* Pubkey::default(), the owner of an empty leaf

LeafHelpersAssumption ==
    /\ Nobody \notin Signers
    /\ Repeats \in BOOLEAN
    /\ {Deposit, MaxTiers, MaxSources, TreeSize, MaxCalls} \subseteq Nat
    /\ Counts \subseteq Nat /\ TierAmounts \subseteq Nat /\ SplitAmounts \subseteq Nat \ {0}

VARIABLES
    tree,     \* the leaves, padded with empty ones
    updates,  \* the updates the last call signed and the channel has not yet applied
    given,    \* history: per signer, what it was given and not given on
    calls     \* history: calls of the helpers

helperVars == <<tree, updates, given, calls>>

Standard(owner, amount) == [owner |-> owner, amount |-> amount]
Empty == Standard(Nobody, 0)
IsEmpty(leaf) == leaf.amount = 0

SumOf(t) == SumFunction([i \in DOMAIN t |-> t[i].amount])
OwnedBy(t, o) == SumFunction([i \in DOMAIN t |-> IF t[i].owner = o THEN t[i].amount ELSE 0])

-----------------------------------------------------------------------------
(* DenominationStrategy::generate_leaves: Uniform and RestFirst have one    *)
(* tier, Mixed has any number; the change leaf comes last.                 *)

Strategies == BoundedSeq([count : Counts, amount : TierAmounts], MaxTiers)

TierTotal(tiers) == SumFunction([k \in DOMAIN tiers |-> tiers[k].count * tiers[k].amount])

TierLeaves(owner, tiers) ==
    FlattenSeq([k \in DOMAIN tiers |->
                   [i \in 1 .. tiers[k].count |-> Standard(owner, tiers[k].amount)]])

\* None when the tiers exceed the deposit.
GenerateLeaves(tiers, owner, deposit) ==
    IF TierTotal(tiers) > deposit THEN <<>>
    ELSE Append(TierLeaves(owner, tiers), Standard(owner, deposit - TierTotal(tiers)))

Padded(leaves) ==
    [i \in 1 .. TreeSize |-> IF i \in DOMAIN leaves THEN leaves[i] ELSE Empty]

Init ==
    /\ tree = Padded(<<>>) /\ given = [s \in Signers |-> 0]
    /\ updates = <<>> /\ calls = 0

Open(owner, tiers) ==
    LET leaves == GenerateLeaves(tiers, owner, Deposit)
    IN  /\ tree = Padded(<<>>) /\ updates = <<>>
        /\ leaves # <<>> /\ Len(leaves) <= TreeSize
        /\ tree' = Padded(leaves)
        /\ given' = [given EXCEPT ![owner] = Deposit]
        /\ UNCHANGED <<updates, calls>>

-----------------------------------------------------------------------------
(* The helpers: each reads the tree and returns updates, in this order.    *)

Update(index, leaf) == [index |-> index, leaf |-> leaf]

\* Fault: the target is created before the change is deducted.
SplitTargetFirst(rest, target, amount, signer) ==
    << Update(target, Standard(signer, amount)),
       Update(rest, Standard(signer, tree[rest].amount - amount)) >>

\* Deduct from the change leaf first, then create the target.
SplitUpdates(rest, target, amount, signer) ==
    << Update(rest, Standard(signer, tree[rest].amount - amount)),
       Update(target, Standard(signer, amount)) >>

Moved(sources) == SumFunction([k \in DOMAIN sources |-> tree[sources[k]].amount])

\* Set the target first, then clear the sources.  A target that is not
\* empty keeps its owner; a source named twice is counted twice.
MergeUpdates(sources, target, signer) ==
    LET owner == IF IsEmpty(tree[target]) THEN signer ELSE tree[target].owner
    IN  << Update(target, Standard(owner, tree[target].amount + Moved(sources))) >>
        \o [k \in DOMAIN sources |-> Update(sources[k], Empty)]

Call(us) ==
    /\ updates = <<>> /\ calls < MaxCalls
    /\ updates' = us
    /\ calls' = calls + 1

SplitFromRest(rest, target, amount, signer) ==
    /\ tree[rest].amount >= amount
    /\ tree[rest].owner = signer
    /\ IsEmpty(tree[target])
    /\ Call(SplitUpdates(rest, target, amount, signer))
    /\ UNCHANGED <<tree, given>>

MergeSpentLeaves(sources, target, signer) ==
    /\ \A k \in DOMAIN sources : tree[sources[k]].owner = signer
    /\ target \notin Range(sources)
    /\ Call(MergeUpdates(sources, target, signer))
    \* what the merge adds to a leaf of the other participant is given away
    /\ LET taker == tree[target].owner
       IN  given' = IF IsEmpty(tree[target]) \/ taker = signer THEN given
                    ELSE [given EXCEPT ![taker] = @ + Moved(sources), ![signer] = @ - Moved(sources)]
    /\ UNCHANGED tree

\* The payer hands a leaf to the other participant (Pipeline::transfer_leaf).
Transfer(i, signer, to) ==
    /\ tree[i].owner = signer /\ ~IsEmpty(tree[i]) /\ to # signer
    /\ Call(<<>>)
    /\ tree' = [tree EXCEPT ![i].owner = to]
    /\ given' = [given EXCEPT ![signer] = @ - tree[i].amount, ![to] = @ + tree[i].amount]

\* The channel applies the signed updates one by one.
UpdateLeaf ==
    /\ updates # <<>>
    /\ tree' = [tree EXCEPT ![Head(updates).index] = Head(updates).leaf]
    /\ updates' = Tail(updates)
    /\ UNCHANGED <<given, calls>>

\* merge_spent_leaves takes any list of indices; its callers name each once
\* unless Repeats.
SourceLists == {s \in BoundedSeq(1 .. TreeSize, MaxSources) : s # <<>> /\ (Repeats \/ IsInjective(s))}

Next ==
    \/ \E signer \in Signers, tiers \in Strategies : Open(signer, tiers)
    \/ \E signer \in Signers, r, t \in 1 .. TreeSize, a \in SplitAmounts : SplitFromRest(r, t, a, signer)
    \/ \E signer \in Signers, s \in SourceLists, t \in 1 .. TreeSize : MergeSpentLeaves(s, t, signer)
    \/ \E signer, to \in Signers, i \in 1 .. TreeSize : Transfer(i, signer, to)
    \/ UpdateLeaf

Spec == Init /\ [][Next]_helperVars

-----------------------------------------------------------------------------
(* Between calls each participant's leaves are worth what it was given:     *)
(* splitting, merging and the strategy of the deposit create and lose       *)
(* nothing.  While a split is applied no intermediate state is worth more   *)
(* than the deposit; while a merge is, none is worth less (helpers.rs).     *)
HelpersKeepTheMoney ==
    LET splitting == Len(updates) = 1 /\ ~IsEmpty(updates[1].leaf)
        merging == updates # <<>> /\ IsEmpty(updates[Len(updates)].leaf)
    IN  /\ updates = <<>> => \A s \in Signers : OwnedBy(tree, s) = given[s]
        /\ splitting => SumOf(tree) <= Deposit
        /\ merging => SumOf(tree) >= Deposit

(* helpers.rs on the split: "at every intermediate sequence sum(leaves) <=  *)
(* total_deposited"; a merge passes through states worth more.              *)
NeverAboveDeposit == SumOf(tree) <= Deposit
=============================================================================
