----------------------- MODULE SettlementProperties -----------------------
(***************************************************************************)
(* What the buyer can be made to pay, and what a confirmed order is worth. *)
(***************************************************************************)
EXTENDS Settlement

\* Nothing gets into an escrow that the buyer did not sign, voucher by voucher,
\* and a batch that was not optimistic was signed as a whole for its own nonce:
\* whichever way the voucher reached the merchant, and with tools that read the
\* nonce at the same time.
SettledWasSigned ==
    \A n \in Nonces : escrow[n].open =>
        /\ \A s \in Held(escrow[n].root) : [seq |-> s, amount |-> escrow[n].root[s]] \in signed
        /\ escrow[n].kind = "batch" => [root |-> escrow[n].root, nonce |-> n] \in batchSigs

\* The merchant's record of a settlement is that of the escrow with its nonce,
\* though two tools may have read the same nonce and the record comes last.
RecordsMatchEscrows ==
    \A n \in Nonces : records[n] # None =>
        /\ escrow[n].open /\ escrow[n].kind = "batch"
        /\ records[n].root = escrow[n].root /\ records[n].amount = escrow[n].amount

\* An order that a received voucher confirmed names a voucher the merchant has,
\* after a restart at any point too: otherwise the goods are gone and the
\* voucher is in no batch.
ConfirmedIsCollected ==
    \A o \in Orders : orders[o].status = "confirmed" /\ orders[o].proof.how = "voucher"
        => collected[orders[o].seq] # 0

\* An order that a handed-in proof confirmed is worth no more than the proof,
\* though the amount is read before the transaction is looked up, the status is
\* written after, and the order may be confirmed otherwise or its QR code be
\* generated again, for another amount, in between or at any other time.  The one
\* exception is a QR code generated during the look-up itself (ProofIsCurrent).
ProofCoversOrder ==
    \A o \in Orders :
        orders[o].status = "confirmed" /\ orders[o].proof.how \in {"transfer", "printed"}
            => orders[o].proof.amount >= orders[o].amount

\* The proof that a payment prints is not refused for its hash: "Message hash:
\* <base58 SHA256(channel_id || seq || amount)>", docs/agent-payment-flow_en.md:184.
PrintedProofIsAccepted == \A p \in refused : p.hash # PrintedHash(p.voucher)

\* By hand: no voucher is settled in two batches.  Broken by the second batch,
\* which has the vouchers of the first.
SettledOnce ==
    \A m, n \in Nonces : escrow[m].open /\ escrow[n].open /\ m # n
        => Held(escrow[m].root) \cap Held(escrow[n].root) = {}

\* By hand: a confirmed order was paid in full.  Broken by a voucher for less.
VoucherCoversOrder ==
    \A o \in Orders : orders[o].status = "confirmed" => orders[o].proof.amount >= orders[o].amount

\* By hand: a transfer covers the order it confirms.  Broken by a QR code for more
\* that is generated while the transfer is looked up.
ProofIsCurrent ==
    \A o \in Orders : orders[o].status = "confirmed" /\ orders[o].proof.how = "overtaken"
        => orders[o].proof.amount >= orders[o].amount

\* By hand: the app is told of confirmed orders only.  Broken by qr-payment-notify.
ToldOfConfirmed == \A o \in told : orders[o].status = "confirmed"

\* By hand: a confirmed order stays confirmed.  Broken by generate_payment_qr.
ConfirmedStays ==
    [][\A o \in Orders : orders[o].status = "confirmed" => orders'[o].status = "confirmed"]_vars

\* By hand: the buyer can answer for a batch it signed.  Broken by the next
\* voucher, which changes the tree that mb_resolve_dispute proves against.
DisputeCanBeResolved ==
    \A n \in Nonces : escrow[n].disputed /\ escrow[n].kind = "batch"
        => buyerStore = escrow[n].root
=============================================================================
