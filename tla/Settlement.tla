---------------------------- MODULE Settlement ----------------------------
(***************************************************************************)
(* Vouchers between the buyer's and the merchant's MCP servers, for one    *)
(* channel of the MagicBlock program: the buyer signs vouchers, the        *)
(* merchant collects them, confirms orders by them or by a transfer that   *)
(* is looked up on chain, and settles what it has collected in batches.    *)
(*                                                                         *)
(* A voucher carries the buyer's signature, so the only vouchers there are *)
(* are those of the history variable `signed`; a Merkle root stands for    *)
(* the vouchers it was built from.  Of the program there is what decides   *)
(* whether a batch is taken (module MbChannel has the rest: deposits,      *)
(* windows, payouts).  The phone that is told of confirmed orders is the   *)
(* merchant's own.                                                         *)
(***************************************************************************)
EXTENDS Naturals, FiniteSets, Functions

CONSTANTS
    Orders,        \* order ids
    Seqs,          \* voucher numbers
    Amounts,       \* amounts of vouchers and of orders, and prices
    Transfers,     \* transfers to the merchant's wallet, by signature
    Received,      \* what each transfer added to the wallet's balance
    Nonces,        \* the batches a run follows: 0 .. n
    Cap,           \* the channel's spending cap
    Calls,         \* settlement tools that may run at once
    None

ASSUME SettlementAssumption ==
    /\ IsFiniteSet(Seqs) /\ Seqs \subseteq Nat \ {0}
    /\ Amounts \subseteq Nat \ {0}
    /\ Received \in [Transfers -> Nat]
    /\ Nonces \subseteq Nat /\ Cap \in Nat
    /\ None \notin Orders

Voucher == [seq : Seqs, amount : Amounts]
Store == [Seqs -> Amounts \cup {0}]     \* sled, keyed channel || seq; 0: no entry
Workers == {"handler", "tool"}          \* who may be receiving a voucher

VARIABLES
    signed,      \* history: every voucher the buyer put its signature to
    buyerStore,  \* the buyer's VoucherStore
    batchSigs,   \* the settlement messages the buyer signed
    mail,        \* mb-voucher messages on their way to the merchant
    collected,   \* the merchant's MerchantVoucherStore
    orders,      \* PaymentOrderStore
    job,         \* per worker, the voucher it is receiving
    check,       \* the verify_payment call that waits for the Solana node
    call,        \* per settlement tool, the batch it is submitting
    records,     \* SettlementStore, by nonce
    channel,     \* the channel account: nonce and settled amount
    escrow,      \* the settlement escrows, by nonce
    told,        \* the orders the merchant's app was told are paid
    refused      \* history: voucher proofs refused for their hash

buyer == <<signed, buyerStore, batchSigs>>
receiving == <<mail, collected, job, told>>
verifying == <<check, refused>>
settling == <<call, records>>
chain == <<channel, escrow>>
vars == <<buyer, receiving, orders, verifying, settling, chain>>

NoOrder == [status |-> "none", amount |-> 0, seq |-> 0, proof |-> None]
NoEscrow == [open |-> FALSE, root |-> [s \in Seqs |-> 0], amount |-> 0,
             kind |-> "batch", disputed |-> FALSE]

Init ==
    /\ signed = {} /\ buyerStore = [s \in Seqs |-> 0] /\ batchSigs = {}
    /\ mail = {} /\ collected = [s \in Seqs |-> 0]
    /\ job = [w \in Workers |-> None] /\ told = {}
    /\ orders = [o \in Orders |-> NoOrder]
    /\ check = None /\ refused = {}
    /\ call = [c \in Calls |-> None] /\ records = [n \in Nonces |-> None]
    /\ channel = [nonce |-> 0, settled |-> 0]
    /\ escrow = [n \in Nonces |-> NoEscrow]

Held(store) == {s \in Seqs : store[s] # 0}

(* The sum of a tree's root (build_sum_merkle_tree).                         *)
Total(store) == FoldFunction(+, 0, store)

-----------------------------------------------------------------------------
(* The buyer.                                                              *)

(* mb_sign_voucher: whatever number the agent gives, over what is there.     *)
SignVoucher(s, a) ==
    /\ signed' = signed \cup {[seq |-> s, amount |-> a]}
    /\ buyerStore' = [buyerStore EXCEPT ![s] = a]
    /\ UNCHANGED <<batchSigs, receiving, orders, verifying, settling, chain>>

(* A payment signs the number after the last one it has.                     *)
IsNextSeq(s) ==
    IF Held(buyerStore) = {} THEN s = 1
    ELSE s - 1 \in Held(buyerStore) /\ \A t \in Held(buyerStore) : t < s

Pay(s, a) == IsNextSeq(s) /\ SignVoucher(s, a)

(* mb_sign_settlement: the root and the total must be those of the buyer's   *)
(* own vouchers; the nonce is the one it is given.                           *)
SignSettlement(n) ==
    /\ Held(buyerStore) # {}
    /\ batchSigs' = batchSigs \cup {[root |-> buyerStore, nonce |-> n]}
    /\ UNCHANGED <<signed, buyerStore, receiving, orders, verifying, settling, chain>>

(* The phone's bridge sends a signed voucher, for an order or for none.      *)
SendVoucher(o, v) ==
    /\ v \in signed
    /\ mail' = mail \cup {[order |-> o, voucher |-> v]}
    /\ UNCHANGED <<buyer, collected, job, told, orders, verifying, settling, chain>>

-----------------------------------------------------------------------------
(* Orders.                                                                 *)
Pending(a) == [status |-> "pending", amount |-> a, seq |-> 0, proof |-> None]

(* create_order: a fresh id.                                                 *)
CreateOrder(o, a) ==
    /\ orders[o].status = "none"
    /\ orders' = [orders EXCEPT ![o] = Pending(a)]
    /\ UNCHANGED <<buyer, receiving, verifying, settling, chain>>

(* generate_payment_qr: a fresh id, or one that the agent gives: whatever    *)
(* order has that id is replaced by a pending one, a confirmed one too.      *)
GeneratePaymentQr(o, a) ==
    /\ orders' = [orders EXCEPT ![o] = Pending(a)]
    /\ check' = IF check # None /\ check.order = o THEN [check EXCEPT !.how = "overtaken"]
                ELSE check
    /\ UNCHANGED <<buyer, receiving, refused, settling, chain>>

(* confirm_order and update_status write into the order as it is now, and    *)
(* not at all if there is none; its amount and its status are not looked at. *)
(* `proof` is what the confirmation rests on, for the properties.            *)
By(how, amount) == [how |-> how, amount |-> amount]

Confirmed(o, seq, proof) ==
    IF orders[o].status = "none" THEN orders
    ELSE [orders EXCEPT ![o] = [status |-> "confirmed", amount |-> orders[o].amount,
                                seq |-> seq, proof |-> proof]]

-----------------------------------------------------------------------------
(* The merchant receives a voucher: the task that handles mb-voucher         *)
(* messages and the tool mb_receive_voucher do the same, at the same time.   *)

(* Fault: the buyer's signature is not verified.                             *)
TakeUnverified(w, o, v) ==
    /\ job[w] = None
    /\ IF w = "handler" THEN /\ [order |-> o, voucher |-> v] \in mail
                             /\ mail' = mail \ {[order |-> o, voucher |-> v]}
                        ELSE mail' = mail
    /\ job' = [job EXCEPT ![w] = [step |-> "store", order |-> o, voucher |-> v]]
    /\ UNCHANGED <<buyer, collected, told, orders, verifying, settling, chain>>

(* The signature is that of the buyer over this number and amount.           *)
TakeVoucher(w, o, v) ==
    /\ v \in signed
    /\ job[w] = None
    /\ IF w = "handler" THEN /\ [order |-> o, voucher |-> v] \in mail
                             /\ mail' = mail \ {[order |-> o, voucher |-> v]}
                        ELSE mail' = mail
    /\ job' = [job EXCEPT ![w] = [step |-> "store", order |-> o, voucher |-> v]]
    /\ UNCHANGED <<buyer, collected, told, orders, verifying, settling, chain>>

AfterStore(w) ==
    IF job[w].order = None THEN None ELSE [job[w] EXCEPT !.step = "confirm"]

(* Fault: the order is confirmed before the voucher is on disk.              *)
ConfirmFirst(w) ==
    /\ job[w] # None /\ job[w].step = "store"
    /\ IF job[w].order = None THEN orders' = orders
       ELSE orders' = Confirmed(job[w].order, job[w].voucher.seq, By("voucher", job[w].voucher.amount))
    /\ job' = [job EXCEPT ![w] = AfterStore(w)]
    /\ UNCHANGED <<buyer, mail, collected, told, verifying, settling, chain>>

StoreVoucher(w) ==
    /\ job[w] # None /\ job[w].step = "store"
    /\ collected' = [collected EXCEPT ![job[w].voucher.seq] = job[w].voucher.amount]
    /\ job' = [job EXCEPT ![w] = AfterStore(w)]
    /\ UNCHANGED <<buyer, mail, told, orders, verifying, settling, chain>>

(* The voucher's amount is not compared with the order's.                    *)
ConfirmByVoucher(w) ==
    /\ job[w] # None /\ job[w].step = "confirm"
    /\ orders' = Confirmed(job[w].order, job[w].voucher.seq, By("voucher", job[w].voucher.amount))
    /\ job' = [job EXCEPT ![w] = IF w = "tool" THEN None
                                 ELSE [job[w] EXCEPT !.step = "tell"]]
    /\ UNCHANGED <<buyer, mail, collected, told, verifying, settling, chain>>

(* send_to_phone_mediator; the app may be unpaired or out of reach.          *)
Tell(o) == told' \in {told, told \cup {o}}

(* send_payment_confirmation, once the order is confirmed.                   *)
TellApp ==
    /\ job["handler"] # None /\ job["handler"].step = "tell"
    /\ Tell(job["handler"].order)
    /\ job' = [job EXCEPT !["handler"] = None]
    /\ UNCHANGED <<buyer, mail, collected, orders, verifying, settling, chain>>

(* qr-payment-notify: the app is told of whatever order the message names.   *)
QrPaymentNotify(o) ==
    /\ told' = told \cup {o}
    /\ UNCHANGED <<buyer, mail, collected, job, orders, verifying, settling, chain>>

-----------------------------------------------------------------------------
(* verify_payment: the agent hands in the proof it got for paying.           *)

(* Fault: it is enough that the transaction succeeded.                       *)
ConfirmByAnyTransfer ==
    /\ check # None
    /\ orders' = Confirmed(check.order, orders[check.order].seq,
                           By(check.how, Received[check.tx]))
    /\ check' = None
    /\ UNCHANGED <<buyer, receiving, refused, settling, chain>>

(* The order is read; the transaction is looked up while others run.  `how`  *)
(* is for the properties: has a QR code for this id been generated since?    *)
LookUpTransfer(o, tx) ==
    /\ check = None /\ orders[o].status = "pending"
    /\ check' = [order |-> o, tx |-> tx, amount |-> orders[o].amount, how |-> "transfer"]
    /\ UNCHANGED <<buyer, receiving, orders, refused, settling, chain>>

(* update_status leaves the sequence alone; nothing keeps the transaction    *)
(* from being shown again.                                                   *)
ConfirmByTransfer ==
    /\ check # None /\ Received[check.tx] >= check.amount
    /\ orders' = Confirmed(check.order, orders[check.order].seq,
                           By(check.how, Received[check.tx]))
    /\ check' = None
    /\ UNCHANGED <<buyer, receiving, refused, settling, chain>>

RefuseTransfer ==
    /\ check # None
    /\ check' = None
    /\ UNCHANGED <<buyer, receiving, orders, refused, settling, chain>>

(* The hash of a voucher as text: PaymentProof prints it in base58, the      *)
(* merchant computes it in hex.                                              *)
HashText(v, alphabet) == [of |-> v, alphabet |-> alphabet]
PrintedHash(v) == HashText(v, "base58")
ComputedHash(v) == HashText(v, "hex")

(* The lines an agent may hand in: those of a voucher the buyer signed, as   *)
(* they were printed or without the line of the hash.                        *)
Proof == [voucher : Voucher, hash : {None} \cup {PrintedHash(v) : v \in Voucher}]

PrintedProof(p) == p.voucher \in signed /\ p.hash \in {None, PrintedHash(p.voucher)}

HashAccepted(p) == p.hash \in {None, ComputedHash(p.voucher)}

(* verify_voucher_proof: the amount covers the order, the hash agrees if it  *)
(* is given; of the signature only the form is looked at.                    *)
VerifyVoucher(o, p) ==
    /\ PrintedProof(p)
    /\ orders[o].status = "pending" /\ p.voucher.amount >= orders[o].amount
    /\ IF HashAccepted(p)
       THEN /\ orders' = Confirmed(o, p.voucher.seq, By("printed", p.voucher.amount))
            /\ refused' = refused
       ELSE /\ refused' = refused \cup {p}
            /\ orders' = orders
    /\ UNCHANGED <<buyer, receiving, check, settling, chain>>

-----------------------------------------------------------------------------
(* Settling.  Both tools put every voucher they ever collected for the       *)
(* channel into the tree.  A batch needs the buyer's signature, which the    *)
(* agent brings along.                                                       *)
Batch(sig) == [step |-> "built", kind |-> "batch", root |-> collected, sig |-> sig,
               nonce |-> None]
Optimistic == [step |-> "built", kind |-> "optimistic", root |-> collected,
               sig |-> None, nonce |-> None]

SettleBatch(c, sig) ==
    /\ call[c] = None /\ Held(collected) # {} /\ sig \in batchSigs
    /\ call' = [call EXCEPT ![c] = Batch(sig)]
    /\ UNCHANGED <<buyer, receiving, orders, verifying, records, chain>>

OptimisticSettle(c) ==
    /\ call[c] = None /\ Held(collected) # {}
    /\ call' = [call EXCEPT ![c] = Optimistic]
    /\ UNCHANGED <<buyer, receiving, orders, verifying, records, chain>>

ReadNonce(c) ==
    /\ call[c] # None /\ call[c].step = "built"
    /\ call' = [call EXCEPT ![c] =
                   [call[c] EXCEPT !.step = "signed", !.nonce = channel.nonce]]
    /\ UNCHANGED <<buyer, receiving, orders, verifying, records, chain>>

(* What the program asks of a batch: the message that was signed names this  *)
(* root and the nonce the channel has now, and the total fits the cap.       *)
Accepts(c) ==
    /\ call[c] # None /\ call[c].step = "signed"
    /\ call[c].nonce = channel.nonce /\ channel.nonce \in Nonces
    /\ call[c].kind = "batch" => call[c].sig = [root |-> call[c].root, nonce |-> channel.nonce]
    /\ channel.settled + Total(call[c].root) <= Cap

(* The transaction lands.  The merchant is told so, or the confirmation is   *)
(* lost and the tool reports an error; only a batch leaves a record.         *)
Submit(c) ==
    /\ Accepts(c)
    /\ escrow' = [escrow EXCEPT ![channel.nonce] =
            [open |-> TRUE, root |-> call[c].root, amount |-> Total(call[c].root),
             kind |-> call[c].kind, disputed |-> FALSE]]
    /\ channel' = [nonce |-> channel.nonce + 1,
                   settled |-> channel.settled + Total(call[c].root)]
    /\ \/ /\ call[c].kind = "batch"
          /\ call' = [call EXCEPT ![c] = [call[c] EXCEPT !.step = "landed"]]
       \/ call' = [call EXCEPT ![c] = None]
    /\ UNCHANGED <<buyer, receiving, orders, verifying, records>>

(* The node refuses, or cannot be reached.                                   *)
SubmitFails(c) ==
    /\ call[c] # None /\ call[c].step = "signed"
    /\ call' = [call EXCEPT ![c] = None]
    /\ UNCHANGED <<buyer, receiving, orders, verifying, records, chain>>

(* Fault: the record takes the nonce the channel has by now.                 *)
RecordCurrentNonce(c) ==
    /\ call[c] # None /\ call[c].step = "landed"
    /\ records' = [n \in Nonces |->
           IF n = channel.nonce THEN [root |-> call[c].root, amount |-> Total(call[c].root)]
           ELSE records[n]]
    /\ call' = [call EXCEPT ![c] = None]
    /\ UNCHANGED <<buyer, receiving, orders, verifying, chain>>

RecordSettlement(c) ==
    /\ call[c] # None /\ call[c].step = "landed"
    /\ records' = [records EXCEPT ![call[c].nonce] =
                      [root |-> call[c].root, amount |-> Total(call[c].root)]]
    /\ call' = [call EXCEPT ![c] = None]
    /\ UNCHANGED <<buyer, receiving, orders, verifying, chain>>

-----------------------------------------------------------------------------
(* mb_dispute.                                                               *)
Dispute(n) ==
    /\ escrow[n].open /\ ~escrow[n].disputed
    /\ escrow' = [escrow EXCEPT ![n] = [escrow[n] EXCEPT !.disputed = TRUE]]
    /\ UNCHANGED <<buyer, receiving, orders, verifying, settling, channel>>

(* mb_resolve_dispute rebuilds the tree from every voucher the buyer has,    *)
(* so the proof is good for the escrow's root only as long as they agree.    *)
ResolveDispute(n, s) ==
    /\ escrow[n].disputed
    /\ s \in Held(buyerStore) /\ buyerStore = escrow[n].root
    /\ escrow' = [escrow EXCEPT ![n] = [escrow[n] EXCEPT !.disputed = FALSE]]
    /\ UNCHANGED <<buyer, receiving, orders, verifying, settling, channel>>

(* The merchant's MCP stops and starts again: what is in sled stays.         *)
Restart ==
    /\ job' = [w \in Workers |-> None] /\ check' = None
    /\ call' = [c \in Calls |-> None]
    /\ UNCHANGED <<buyer, mail, collected, told, orders, refused, records, chain>>

(* A message is lost on its way, or with the queue of the handler.           *)
LoseMail ==
    /\ \E m \in mail : mail' = mail \ {m}
    /\ UNCHANGED <<buyer, collected, job, told, orders, verifying, settling, chain>>

BuyerStep ==
    \/ \E s \in Seqs, a \in Amounts : SignVoucher(s, a) \/ Pay(s, a)
    \/ \E n \in Nonces : SignSettlement(n) \/ Dispute(n)
    \/ \E n \in Nonces, s \in Seqs : ResolveDispute(n, s)
    \/ \E o \in Orders \cup {None}, v \in Voucher : SendVoucher(o, v)

OrderStep ==
    \/ \E o \in Orders, a \in Amounts : CreateOrder(o, a) \/ GeneratePaymentQr(o, a)
    \/ \E o \in Orders : QrPaymentNotify(o)
    \/ \E o \in Orders, tx \in Transfers : LookUpTransfer(o, tx)
    \/ ConfirmByTransfer \/ RefuseTransfer
    \/ \E o \in Orders, p \in Proof : VerifyVoucher(o, p)

ReceiveStep ==
    \/ \E w \in Workers, o \in Orders \cup {None}, v \in Voucher : TakeVoucher(w, o, v)
    \/ \E w \in Workers : StoreVoucher(w) \/ ConfirmByVoucher(w)
    \/ TellApp

SettleStep ==
    \E c \in Calls :
        \/ \E sig \in batchSigs : SettleBatch(c, sig)
        \/ OptimisticSettle(c) \/ ReadNonce(c)
        \/ Submit(c) \/ SubmitFails(c) \/ RecordSettlement(c)

Next == BuyerStep \/ OrderStep \/ ReceiveStep \/ SettleStep \/ Restart \/ LoseMail

Spec == Init /\ [][Next]_vars
=============================================================================
