-------------------------- MODULE MCChannelProgram --------------------------
(* Small instances of the state channel for TLC: the on-chain program, the  *)
(* off-chain engine, and the parts that the engine, its tests and the       *)
(* channel service use beside it.  A behaviour is of one of the parts; they *)
(* share no variable.                                                       *)
EXTENDS ChannelProgramProperties, TLC

Std(o, a) == [type |-> "Standard", owner |-> o, amount |-> a,
              timelock |-> NoValue, beneficiary |-> NoValue]
Lock(o, a, t, b) == [type |-> "HTLC", owner |-> o, amount |-> a,
                     timelock |-> t, beneficiary |-> b]
NoLeaf == Std(NoValue, 0)

\* Opened; funded; the user locks its leaf for the provider; the provider
\* locks a leaf to itself; paid to the provider.
Opened == 1 :> Std(User, 2) @@ 2 :> NoLeaf
Trees == {Opened,
          1 :> Std(User, 2) @@ 2 :> Std(Provider, 1),
          1 :> Lock(User, 2, 2, Provider) @@ 2 :> Std(Provider, 1),
          1 :> Lock(Provider, 1, 3, Provider) @@ 2 :> Std(User, 2),
          1 :> Std(Provider, 2) @@ 2 :> Std(Provider, 1)}

-----------------------------------------------------------------------------
(* The parts off the chain.                                                 *)

CONSTANTS
    Signers, Deposit, Counts, TierAmounts, MaxTiers, SplitAmounts, MaxSources, Repeats,
    TreeSize, MaxCalls, Nobody,                   \* of LeafHelpers
    Clients, Recipients, FirstSlot, SafetyMargin, Timelocks, AutoCloseSlots,
    MaxEngineSequence, MaxEngineNow, MaxCrashes,  \* of StateChannel
    Locks, Durations, MaxHtlcSlot, MaxFailedSaves, MaxHtlcRestarts,  \* of HtlcRecords
    GivenAmounts, RequestedDurations, MaxHops, MaxU64, HopMargin,
    SlotStep, MaxHopSlot, Callers, MaxHopRestarts,  \* of MultiHop
    PaymentAmounts, MaxBatch, Threshold, PerChannel, WindowSlots, MaxLimitSlot, MaxClears,
    MaxPayments, MaxAudits, MaxAuditCrashes         \* of Compliance

VARIABLES
    part,       \* the part whose behaviour this is
    meta, leaves, cosign, pipeline, engineNow, engineCrashes, claims, enginePaid, refund,
    tree, updates, given, calls,
    records, saved, htlcSlot, fulfilled, refunded, used, remade, unsaved, htlcRestarts,
    payment, call, hopSlot, revealed, hopRestarts,
    state, limitSlot, trail, nextSeq, applied, spent, clears, audited, auditCrashes

engineVars == <<meta, leaves, cosign, pipeline, engineNow, engineCrashes, claims, enginePaid, refund>>
helperVars == <<tree, updates, given, calls>>
htlcVars == <<records, saved, htlcSlot, fulfilled, refunded, used, remade, unsaved, htlcRestarts>>
hopVars == <<payment, call, hopSlot, revealed, hopRestarts>>
complianceVars == <<state, limitSlot, trail, nextSeq, applied, spent, clears, audited, auditCrashes>>

Engine == INSTANCE StateChannel
            WITH MaxSequence <- MaxEngineSequence, MaxNow <- MaxEngineNow,
                 now <- engineNow, crashes <- engineCrashes, paid <- enginePaid

Helpers == INSTANCE LeafHelpers

Htlcs == INSTANCE HtlcRecords
            WITH MaxSlot <- MaxHtlcSlot, MaxRestarts <- MaxHtlcRestarts, None <- NoValue,
                 slot <- htlcSlot, restarts <- htlcRestarts

Hops == INSTANCE MultiHop
            WITH MaxSlot <- MaxHopSlot, MaxRestarts <- MaxHopRestarts, None <- NoValue,
                 slot <- hopSlot, restarts <- hopRestarts

Limits == INSTANCE Compliance
            WITH Amounts <- PaymentAmounts, MaxSlot <- MaxLimitSlot, MaxCrashes <- MaxAuditCrashes,
                 slot <- limitSlot, crashes <- auditCrashes

ASSUME PartsAssumption ==
    /\ Engine!StateChannelAssumption
    /\ Helpers!LeafHelpersAssumption /\ Htlcs!HtlcRecordsAssumption /\ Hops!MultiHopAssumption
    /\ Limits!ComplianceAssumption

PartsInit ==
    /\ part \in {"program", "engine", "helpers", "htlcs", "hops", "limits"}
    /\ Init /\ Engine!Init /\ Helpers!Init /\ Htlcs!Init /\ Hops!Init /\ Limits!Init

PartsNext ==
    /\ UNCHANGED part
    /\ \/ part = "program" /\ Next
       \/ part # "program" /\ UNCHANGED vars
    /\ \/ part = "engine" /\ Engine!Next
       \/ part # "engine" /\ UNCHANGED engineVars
    /\ \/ part = "helpers" /\ Helpers!Next
       \/ part # "helpers" /\ UNCHANGED helperVars
    /\ \/ part = "htlcs" /\ Htlcs!Next
       \/ part # "htlcs" /\ UNCHANGED htlcVars
    /\ \/ part = "hops" /\ Hops!Next
       \/ part # "hops" /\ UNCHANGED hopVars
    /\ \/ part = "limits" /\ Limits!Next
       \/ part # "limits" /\ UNCHANGED complianceVars

\* With the fairness of the program: slots pass, and somebody ends a dispute
\* and a settlement once the program allows it.
PartsSpec ==
    /\ PartsInit
    /\ [][PartsNext]_<<part, vars, engineVars, helperVars, htlcVars, hopVars, complianceVars>>
    /\ WF_vars(part = "program" /\ Tick)
    /\ WF_vars(part = "program" /\ SettleAfterTimeout)
    /\ WF_vars(part = "program" /\ FinalizeSettlement)

\* A leaf is paid once off the chain, whatever claim pays it and wherever a
\* crash cuts a write (claim_leaf and its siblings, persist_state).
EveryLeafPaidOnce == part = "engine" => Engine!EveryLeafPaidOnce

\* No deposit drops out of the tree (Pipeline, apply_leaf_update_batch).
LeavesCoverDeposit == part = "engine" => Engine!LeavesCoverDeposit

\* Splitting, merging and opening with denominations move no money from one
\* signer to the other and lose none (helpers.rs).
HelpersKeepTheMoney == part = "helpers" => Helpers!HelpersKeepTheMoney

\* An HTLC is fulfilled or refunded, never both (HtlcManager).
HtlcPaysOneWay == part = "htlcs" => Htlcs!HtlcPaysOneWay

\* A payment over several channels is complete exactly when all its hops are,
\* none is before the preimage was shown, and earlier hops wait a margin longer
\* (multihop.rs).
HopsAreCovered == part = "hops" => Hops!HopsAreCovered

\* Spending over the limits puts the channel on hold (ComplianceManager).
SpendingIsHeld == part = "limits" => Limits!SpendingIsHeld
=============================================================================
