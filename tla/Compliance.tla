----------------------------- MODULE Compliance ------------------------------
(***************************************************************************)
(* compliance.rs: the spending limits of one channel, kept in sled, and     *)
(* how the channel engine uses them: every signed update that leaves money  *)
(* in a Standard leaf is recorded as a payment at slot 0 before it is       *)
(* applied, and a refused one rolls the whole batch back, but not what was  *)
(* recorded.  Other callers record payments at the current slot, against a  *)
(* rolling window.                                                         *)
(***************************************************************************)
EXTENDS Naturals, FiniteSets, SequencesExt

CONSTANTS
    Amounts,       \* amounts of payments
    MaxBatch,      \* bound on the updates of a batch
    Threshold, PerChannel, WindowSlots,  \* the SpendingLimit
    MaxSlot,       \* bound on the clock
    MaxClears,     \* bound on holds lifted
    MaxPayments,   \* bound on payments recorded
    MaxAudits,     \* bound on audit records
    MaxCrashes     \* bound on crashes between the two writes of an audit record

ComplianceAssumption ==
    /\ Amounts \subseteq Nat \ {0}
    /\ {MaxBatch, Threshold, PerChannel, WindowSlots, MaxSlot} \subseteq Nat
    /\ {MaxClears, MaxPayments, MaxAudits, MaxCrashes} \subseteq Nat

VARIABLES
    state,    \* the ChannelComplianceState
    slot,     \* the current slot
    trail,    \* the audit trail: entries by their number
    nextSeq,  \* the number the next audit record takes
    applied,  \* history: what the engine's batches have applied
    spent,    \* history: the payments accepted at a slot, [number, slot, amount]
    clears,   \* history: holds lifted
    audited,  \* history: updates recorded in the audit trail
    crashes   \* history: crashes

limitVars == <<state, applied, spent>>
auditVars == <<trail, nextSeq, audited, crashes>>
complianceVars == <<limitVars, auditVars, slot, clears>>

Init ==
    /\ state = [cumulative |-> 0, hold |-> FALSE, window |-> {}]
    /\ slot = 1
    /\ trail = [n \in {} |-> 0] /\ nextSeq = 0
    /\ applied = 0 /\ spent = {} /\ clears = 0 /\ audited = 0 /\ crashes = 0

\* A set of payments; the number tells apart two that are alike otherwise.
AmountOf(payments) == SumFunctionOnSet([p \in payments |-> p.amount], payments)

-----------------------------------------------------------------------------
(* record_payment                                                          *)

Accepts(s, amount) == ~s.hold /\ amount <= PerChannel

\* The window takes and drops payments only when a slot is given.
Window(s, p) ==
    IF p.slot = 0 THEN s.window
    ELSE {r \in s.window \cup {p} :
             WindowSlots > 0 /\ p.slot >= WindowSlots => r.slot >= p.slot - WindowSlots}

\* Fault: only the window counts, which a payment without a slot is not in.
WindowSpend(s, p) == AmountOf(Window(s, p))

\* Without a slot all the channel ever spent counts against the threshold.
EffectiveSpend(s, p) == IF p.slot = 0 THEN s.cumulative + p.amount ELSE AmountOf(Window(s, p))

Recorded(s, p) ==
    [cumulative |-> s.cumulative + p.amount,
     hold |-> EffectiveSpend(s, p) >= Threshold,
     window |-> Window(s, p)]

Payment(number, at, amount) == [number |-> number, slot |-> at, amount |-> amount]

RecordPayment(amount) ==
    LET p == Payment(Cardinality(spent) + 1, slot, amount)
    IN  /\ Cardinality(spent) < MaxPayments
        /\ Accepts(state, amount)
        /\ state' = Recorded(state, p)
        /\ spent' = spent \cup {p}
        /\ UNCHANGED <<auditVars, slot, clears, applied>>

ClearHold ==
    /\ state.hold /\ clears < MaxClears
    /\ state' = [state EXCEPT !.hold = FALSE]
    /\ clears' = clears + 1
    /\ UNCHANGED <<auditVars, slot, applied, spent>>

\* init_channel_compliance, for the channel's first and any later time.
InitChannelCompliance ==
    /\ state' = [cumulative |-> 0, hold |-> FALSE, window |-> {}]
    /\ applied' = 0 /\ spent' = {} /\ clears' = 0
    /\ UNCHANGED <<auditVars, slot>>

-----------------------------------------------------------------------------
(* apply_leaf_update_batch with a ComplianceManager: amounts are those of   *)
(* the batch's Standard leaves, change included.                           *)

\* A payment of the batch, none after the first that is refused
RecordNext(r, amount) ==
    IF r.ok /\ Accepts(r.state, amount)
    THEN [state |-> Recorded(r.state, Payment(0, 0, amount)), total |-> r.total + amount, ok |-> TRUE]
    ELSE [r EXCEPT !.ok = FALSE]

RecordAll(amounts) ==
    LET after[k \in 0 .. Len(amounts)] ==
            IF k = 0 THEN [state |-> state, total |-> 0, ok |-> TRUE]
            ELSE RecordNext(after[k - 1], amounts[k])
    IN  after[Len(amounts)]

\* A batch that cannot be saved is rolled back as well.
ApplyLeafUpdateBatch(amounts) ==
    LET result == RecordAll(amounts)
    IN  /\ state.cumulative < MaxPayments
        /\ state' = result.state
        /\ \/ result.ok /\ applied' = applied + result.total
           \/ UNCHANGED applied
        /\ UNCHANGED <<auditVars, slot, clears, spent>>

-----------------------------------------------------------------------------
(* record_audit: the entry is written before the counter.                  *)

Entry(n) == [m \in DOMAIN trail \cup {n} |-> IF m = n THEN audited + 1 ELSE trail[m]]

RecordAudit ==
    /\ audited < MaxAudits
    /\ trail' = Entry(nextSeq)
    /\ nextSeq' = nextSeq + 1
    /\ audited' = audited + 1
    /\ UNCHANGED <<limitVars, slot, clears, crashes>>

CrashInAudit ==
    /\ audited < MaxAudits /\ crashes < MaxCrashes
    /\ trail' = Entry(nextSeq)
    /\ audited' = audited + 1
    /\ crashes' = crashes + 1
    /\ UNCHANGED <<limitVars, nextSeq, slot, clears>>

\* get_audit_trail sorts by the updates' sequence numbers, not the entries'.
GetAuditTrail == {trail[n] : n \in DOMAIN trail}

-----------------------------------------------------------------------------
Tick ==
    /\ slot < MaxSlot
    /\ slot' = slot + 1
    /\ UNCHANGED <<limitVars, auditVars, clears>>

Next ==
    \/ \E a \in Amounts : RecordPayment(a)
    \/ ClearHold
    \/ InitChannelCompliance
    \/ \E b \in BoundedSeq(Amounts, MaxBatch) : b # <<>> /\ ApplyLeafUpdateBatch(b)
    \/ RecordAudit
    \/ CrashInAudit
    \/ Tick

Spec == Init /\ [][Next]_complianceVars

-----------------------------------------------------------------------------
(* However batches, rollbacks, other callers and lifted holds interleave:   *)
(* what the engine applied stays below the threshold but for one payment    *)
(* that reaches it and one more after each hold that was lifted; and so     *)
(* does what other callers recorded within any one window.                 *)
SpendingIsHeld ==
    LET slack == (clears + 1) * PerChannel
        inWindow(from) == {p \in spent : p.slot >= from /\ p.slot <= from + WindowSlots}
    IN  /\ applied < Threshold + slack
        /\ \A from \in 1 .. MaxSlot : AmountOf(inWindow(from)) < Threshold + slack

-----------------------------------------------------------------------------
(* What the code does not keep.                                            *)

(* A channel is held for payments that were made: a batch that was rolled   *)
(* back still counts.                                                      *)
HoldHasPayments == state.hold => applied + AmountOf(spent) >= Threshold

(* The audit trail has every update that was recorded in it.               *)
AuditKeepsEveryUpdate == Cardinality(GetAuditTrail) = audited
=============================================================================
