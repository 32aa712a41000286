------------------------ MODULE PaymentFlowProperties ------------------------
(***************************************************************************)
(* What a buyer expects of the MCP server, stated over PaymentFlow.        *)
(***************************************************************************)
EXTENDS PaymentFlow

TypeOK ==
    /\ status \in [Payments -> {"none", "pending_auth", "executed", "rejected", "expired"}]
    /\ sessions \in [Keys -> [state : {"unused", "stored", "closed"}, limit : Nat, spent : Nat]]
    /\ whitelist \in [Merchants -> Nat \cup {None}] /\ blacklist \subseteq Merchants
    /\ merchantSpent \in [Merchants -> Nat]
    /\ vouchers \subseteq [merchant : Merchants, seq : Nat, amount : Nat]
    /\ task \in [Payments ->
          [stage : {"idle", "check", "decide", "ask", "wait", "lock", "fund", "pay",
                    "sign", "voucher", "landed", "paid", "failed", "done"},
           how : {"none", "whitelist", "threshold", "session", "phone"},
           snap : [key : Keys \cup {None}, remaining : Nat], method : Methods,
           key : Keys \cup {None}, reply : Answer \cup {None}, topUp : {"none", "yes", "no"},
           seq : Nat]]
    /\ pending \subseteq Payments /\ pendingFund \in [Keys -> Payments \cup {None}]
    /\ holder \in Payments \cup {None}
    /\ answer \in [Payments -> Answer \cup {None}]
    /\ asked \subseteq Challenges /\ fundAsked \subseteq Keys /\ offered \subseteq Keys
    /\ chain \in [Keys -> [limit : Nat, drawn : Nat]] /\ expired \subseteq Keys
    /\ paid \in [Payments -> Nat]

(* The vouchers that are out never exceed the vault: whichever tasks pay at  *)
(* once, each sums up the store and adds to it under payment_mutex           *)
(* (try_mb_voucher_payment checks total_outstanding and stores later).       *)
VouchersWithinVault == Outstanding <= Vault

(* A voucher that was handed out stays in the store under its number, where  *)
(* mb_sign_settlement will look for it, and pays for one payment only: no    *)
(* two payments read the same last number.                                   *)
VouchersAreKept ==
    \A g, h \in given :
        /\ g.voucher \in vouchers
        /\ g.payment # h.payment => g.voucher # h.voucher

(* A payment is made at most once, and never after the caller was told that  *)
(* it was rejected or had expired: not by an answer of the phone that comes  *)
(* late or twice, nor after a restart.                                       *)
ClosedIsFinal ==
    [][\A p \in Payments : paid'[p] # paid[p] =>
          status[p] = "pending_auth" /\ paid[p] = 0]_vars

(* The recorded outcome is the truth: an executed payment was paid, and one  *)
(* that is rejected or expired was not, unless its confirmation was lost.    *)
OutcomeIsTrue ==
    \A p \in Payments :
        /\ status[p] = "executed" => paid[p] = 1
        /\ status[p] \in {"rejected", "expired"} => paid[p] = 0 \/ p \in lost

(* When the phone was asked, nothing is paid that the user did not agree to, *)
(* however the answers to several requests are delayed and reordered.        *)
PhoneDecides ==
    \A p \in Challenges : (task[p].how = "phone" /\ paid[p] > 0) =>
        answer[p] # None /\ answer[p].yes

(* Every challenge is answered: the mutex, the wait for the phone and the    *)
(* top-up that is awaited while holding the mutex all come to an end.        *)
EveryChallengeAnswered ==
    \A p \in Payments : (task[p].stage # "idle") ~> (task[p].stage = "done")

-----------------------------------------------------------------------------
(* What the documents promise and the code does not keep.                  *)

(* A payment that no list and no threshold approves is put to the user, or   *)
(* drawn on a session the user approved (registered): a key that was only    *)
(* offered to the phone lets nothing through.                                *)
PaidIsApproved ==
    \A p \in Challenges : paid[p] > 0 =>
        \/ task[p].how \in {"whitelist", "threshold", "phone"}
        \/ chain[task[p].snap.key].limit > 0

(* After a successful top-up the payment goes on.                            *)
TopUpContinues ==
    [][\A p \in Payments : (task[p].stage = "fund" /\ task[p].topUp = "yes") =>
          task'[p].stage # "failed"]_vars

(* What the store says a session has spent is what was paid with it.         *)
SpentIsDrawn ==
    \A k \in Keys : sessions[k].state = "stored" => sessions[k].spent <= chain[k].drawn

(* What is paid without asking stays within the merchant's max_amount.       *)
WhitelistWithinMax ==
    \A p \in Payments :
        (task[p].how = "whitelist" /\ paid[p] > 0 /\ whitelist[MerchantOf[p]] # None)
            => merchantSpent[MerchantOf[p]] <= whitelist[MerchantOf[p]]

(* A rejected payment was not made.                                          *)
RejectedIsUnpaid ==
    \A p \in Payments : status[p] = "rejected" => paid[p] = 0
=============================================================================
