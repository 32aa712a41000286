----------------------------- MODULE HtlcRecords -----------------------------
(***************************************************************************)
(* The HTLC records of one channel (htlc.rs): a map in memory, saved to     *)
(* sled after every change; a save that fails is only logged.              *)
(*                                                                         *)
(* A preimage is identified with the hash lock it opens.                   *)
(***************************************************************************)
EXTENDS Naturals, FiniteSets

CONSTANTS
    Locks,           \* hash locks, and the preimages that open them
    Durations,       \* slots an HTLC is created for
    MaxSlot,         \* bound on the clock
    MaxFailedSaves,  \* bound on saves that fail
    MaxRestarts,     \* bound on restarts
    None             \* Rust's None

HtlcRecordsAssumption ==
    /\ Durations \subseteq Nat
    /\ {MaxSlot, MaxFailedSaves, MaxRestarts} \subseteq Nat

VARIABLES
    records,    \* HtlcManager.records: per hash lock, the HtlcRecord or None
    saved,      \* the records in sled
    slot,       \* the current slot
    fulfilled, refunded,  \* history: hash locks marked so
    used,       \* history: hash locks created
    remade,     \* history: hash locks created more than once
    unsaved,    \* history: saves that failed
    restarts    \* history: restarts

htlcVars == <<records, saved, slot, fulfilled, refunded, used, remade, unsaved, restarts>>

Init ==
    /\ records = [l \in Locks |-> None] /\ saved = records /\ slot = 0
    /\ fulfilled = {} /\ refunded = {} /\ used = {} /\ remade = {}
    /\ unsaved = 0 /\ restarts = 0

-----------------------------------------------------------------------------
\* persist_to_db: an error is logged and the call goes on.
PersistToDb ==
    \/ saved' = records' /\ UNCHANGED unsaved
    \/ unsaved < MaxFailedSaves /\ unsaved' = unsaved + 1 /\ UNCHANGED saved

Record(duration) == [state |-> "Pending", timelock |-> slot + duration]

Insert(lock, duration) ==
    /\ records' = [records EXCEPT ![lock] = Record(duration)]
    /\ PersistToDb
    /\ used' = used \cup {lock} /\ remade' = remade \cup (used \cap {lock})
    /\ UNCHANGED <<slot, restarts, fulfilled, refunded>>

\* A fresh random preimage: its hash lock was never used.
CreateHtlc(lock, duration) ==
    /\ lock \notin used
    /\ Insert(lock, duration)

\* A preimage the caller brings replaces whatever record its lock has.
CreateHtlcWithPreimage(lock, duration) ==
    /\ Insert(lock, duration)

Mark(lock, from, to) ==
    /\ records[lock] # None /\ records[lock].state = from
    /\ records' = [records EXCEPT ![lock].state = to]
    /\ PersistToDb
    /\ UNCHANGED <<slot, restarts, used, remade>>

RevealPreimage(lock, preimage) ==
    /\ preimage = lock
    /\ Mark(lock, "Pending", "Revealed")
    /\ UNCHANGED <<fulfilled, refunded>>

Overdue(lock) == records[lock] # None /\ slot > records[lock].timelock

\* Fault: the state of the record is not looked at.
AnyOverdue(lock) == Overdue(lock)

Expires(lock) == Overdue(lock) /\ records[lock].state = "Pending"

CheckExpiry ==
    /\ \E lock \in Locks : Expires(lock)
    /\ records' = [lock \in Locks |-> IF Expires(lock) THEN [records[lock] EXCEPT !.state = "Expired"]
                                                       ELSE records[lock]]
    /\ PersistToDb
    /\ UNCHANGED <<slot, restarts, used, remade, fulfilled, refunded>>

MarkFulfilled(lock) ==
    /\ Mark(lock, "Revealed", "Fulfilled")
    /\ fulfilled' = fulfilled \cup {lock}
    /\ UNCHANGED refunded

MarkRefunded(lock) ==
    /\ Mark(lock, "Expired", "Refunded")
    /\ refunded' = refunded \cup {lock}
    /\ UNCHANGED fulfilled

\* Drops expired records too, which can then not be refunded any more.
Cleanup ==
    /\ records' = [lock \in Locks |->
                      IF records[lock] # None /\ records[lock].state \in {"Pending", "Revealed"}
                      THEN records[lock] ELSE None]
    /\ PersistToDb
    /\ UNCHANGED <<slot, restarts, used, remade, fulfilled, refunded>>

-----------------------------------------------------------------------------
Tick ==
    /\ slot < MaxSlot
    /\ slot' = slot + 1
    /\ UNCHANGED <<records, saved, fulfilled, refunded, used, remade, unsaved, restarts>>

\* with_db loads what was last saved.
Restart ==
    /\ restarts < MaxRestarts
    /\ restarts' = restarts + 1
    /\ records' = saved
    /\ UNCHANGED <<saved, slot, fulfilled, refunded, used, remade, unsaved>>

Next ==
    \/ \E l \in Locks, d \in Durations : CreateHtlc(l, d) \/ CreateHtlcWithPreimage(l, d)
    \/ \E l, p \in Locks : RevealPreimage(l, p)
    \/ CheckExpiry
    \/ \E l \in Locks : MarkFulfilled(l) \/ MarkRefunded(l)
    \/ Cleanup
    \/ Tick
    \/ Restart

Spec == Init /\ [][Next]_htlcVars

-----------------------------------------------------------------------------
(* An HTLC pays one way, the beneficiary or back to its owner, across       *)
(* restarts: except one whose lock was created again, or when a restart      *)
(* brought back records that a failed save had left old (htlc.rs).         *)
HtlcPaysOneWay ==
    fulfilled \cap refunded \subseteq IF unsaved > 0 /\ restarts > 0 THEN Locks ELSE remade

(* What a reader may expect and the code does not keep.                    *)

(* An HTLC pays one way, without exception.                                 *)
HtlcPaysOneWayAlways == fulfilled \cap refunded = {}

(* An expired HTLC can be refunded until it is: cleanup drops it.           *)
ExpiredStaysRefundable ==
    [][\A l \in Locks : records[l] # None /\ records[l].state = "Expired" =>
           records'[l] # None]_htlcVars
=============================================================================
