----------------------------- MODULE PaymentFlow -----------------------------
(***************************************************************************)
(* The buyer's MCP server (ignite-pay-mcp) paying x402 challenges and QR   *)
(* orders.  Every challenge is a task of its own: it checks the merchant   *)
(* lists, the auto-approval threshold and the session in the local store,  *)
(* asks the phone if none of them allows the payment, waits for the answer *)
(* or a timeout, and then pays under payment_mutex, by a MagicBlock        *)
(* voucher or by the on-chain session program.                             *)
(*                                                                         *)
(* What is local to a task (its snapshot of the session, the answer it was *)
(* woken with) is in task; what the tasks share is in sled (status,        *)
(* sessions, lists, vouchers) or in memory (pending, pendingFund, holder), *)
(* and only the former survives a restart.                                 *)
(*                                                                         *)
(* Time is abstract: a key may expire, and a wait may time out, at any     *)
(* moment.  Per-transaction and daily limits are zero (none), as in the    *)
(* sessions this server creates.                                           *)
(***************************************************************************)
EXTENDS Integers, FiniteSets, FiniteSetsExt, Functions

CONSTANTS
    Challenges,      \* calls of process_x402_challenge, by payment id
    QrPayments,      \* qr-payment-requests of the phone, by payment id
    Merchants,
    MerchantOf,      \* the merchant of each payment
    AmountOf,        \* the amount of each payment
    Keys,            \* the session keys, in the byte order of their names in sled
    AutoApproveMax,  \* policy.auto_approve_max; 0 disables it
    Vault,           \* total_deposited - total_allocated of the MagicBlock vault
    LimitFactor,     \* a request's session may spend this many times its payment
    ListMaxima,      \* the max_amounts of whitelist entries
    Answers,         \* the payment-auth-responses the phone may give
    ChainLimits,     \* the spending limits the phone registers keys with
    LostReplies,     \* whether a transaction may land and its confirmation be lost
    MaxPayments,     \* bound on the payments that are asked for
    MaxCrashes,      \* bound on restarts of the server
    None

Payments == Challenges \cup QrPayments
Methods == {"auto", "session_key", "magicblock"}
ListActions == {"none", "add_whitelist", "add_blacklist", "remove_whitelist", "remove_blacklist"}

\* A payment-auth-response: the decision, what to do with the merchant, the
\* method to pay by, and whether it carries the secret of a key of the phone.
Answer == [yes : BOOLEAN, action : ListActions, max : ListMaxima, method : Methods, secret : BOOLEAN]

PaymentFlowAssumption ==
    /\ IsFiniteSet(Payments) /\ Challenges \cap QrPayments = {}
    /\ None \notin Payments \cup Keys
    /\ MerchantOf \in [Payments -> Merchants]
    /\ AmountOf \in [Payments -> Nat \ {0}]
    /\ Keys \subseteq Nat /\ IsFiniteSet(Keys)
    /\ {AutoApproveMax, Vault, LimitFactor, MaxPayments, MaxCrashes} \subseteq Nat
    /\ ListMaxima \subseteq Nat /\ ChainLimits \subseteq Nat \ {0}
    /\ Answers \subseteq Answer
    /\ LostReplies \in BOOLEAN

VARIABLES
    status,         \* PaymentStore: the status of each payment
    sessions,       \* SessionManager: what the local store says of each key
    whitelist,      \* ListStore: the max_amount of a whitelisted merchant, or None
    blacklist,      \* ListStore: the blacklisted merchants
    merchantSpent,  \* ListStore: what was recorded as paid to each merchant
    vouchers,       \* VoucherStore: the vouchers, one per merchant and number
    task,           \* what each task is doing
    pending,        \* PendingAuthStore: the payments whose answer is awaited
    pendingFund,    \* PendingFundStore: per key, the payment that awaits a top-up
    holder,         \* the payment whose task holds payment_mutex
    answer,         \* the phone's answer to each request
    asked,          \* the challenges put to the phone
    fundAsked,      \* the keys with a top-up request the phone has not answered
    offered,        \* the keys the phone was asked to register
    chain,          \* the session program: limit (0: not registered) and drawn, per key
    expired,        \* the keys that have expired
    paid,           \* history: how often each payment was paid
    given,          \* history: the voucher that each payment was made with
    lost,           \* history: the payments whose confirmation was lost
    crashes         \* history: restarts so far

lists == <<whitelist, blacklist>>
disk == <<status, sessions, lists, merchantSpent, vouchers>>
memory == <<pending, pendingFund, holder>>
phone == <<answer, asked, fundAsked, offered>>
world == <<chain, expired>>
history == <<paid, given, lost, crashes>>
vars == <<disk, task, memory, phone, world, history>>

-----------------------------------------------------------------------------
(* The stores.                                                             *)

NoSession == [state |-> "unused", limit |-> 0, spent |-> 0]

\* Fault: the subtraction does not saturate.
RemainingUnsaturated(k) == sessions[k].limit - sessions[k].spent

Remaining(k) == Max({0, sessions[k].limit - sessions[k].spent})

\* get_active_session returns the first key of the store that has not expired.
ActiveKeys == {k \in Keys \ expired : sessions[k].state = "stored"}

\* A task works on the copy of the session it read.
Snapshot ==
    IF ActiveKeys = {} THEN [key |-> None, remaining |-> 0]
    ELSE [key |-> Min(ActiveKeys), remaining |-> Remaining(Min(ActiveKeys))]

Store(k, limit) == [sessions EXCEPT ![k] = [state |-> "stored", limit |-> limit, spent |-> 0]]
CloseKey(k) == IF k = None THEN sessions ELSE [sessions EXCEPT ![k] = [NoSession EXCEPT !.state = "closed"]]
Unused == {k \in Keys : sessions[k].state = "unused"}

\* record_spent does nothing for a key that was closed meanwhile.
Spend(k, a) ==
    IF k # None /\ sessions[k].state = "stored"
    THEN [sessions EXCEPT ![k].spent = @ + a] ELSE sessions

Outstanding == SumFunctionOnSet([v \in vouchers |-> v.amount], vouchers)
NextSeq(m) == 1 + Max({0} \cup {v.seq : v \in {w \in vouchers : w.merchant = m}})

\* A voucher is stored under its channel and number, over what was there.
StoreVoucher(v) ==
    {w \in vouchers : w.merchant # v.merchant \/ w.seq # v.seq} \cup {v}

\* risk_check, once the blacklist has been consulted.
Whitelisted(p) ==
    LET max == whitelist[MerchantOf[p]]
    IN  /\ max # None
        /\ AmountOf[p] <= max
        /\ merchantSpent[MerchantOf[p]] + AmountOf[p] <= max

-----------------------------------------------------------------------------
(* Steps of a task.                                                        *)

Idle == [stage |-> "idle", how |-> "none", snap |-> [key |-> None, remaining |-> 0],
         method |-> "auto", key |-> None, reply |-> None, topUp |-> "none", seq |-> 0]

Goto(p, stage) == task' = [task EXCEPT ![p].stage = stage]
Close(p, s) == status' = [status EXCEPT ![p] = s] /\ Goto(p, "done")

\* The task has decided to pay with this copy of the session.
Execute(p, how, method, snap) ==
    task' = [task EXCEPT ![p].stage = "lock", ![p].how = how,
                         ![p].method = method, ![p].snap = snap]

Init ==
    /\ status = [p \in Payments |-> "none"]
    /\ sessions = [k \in Keys |-> NoSession]
    /\ whitelist \in [Merchants -> ListMaxima \cup {None}]
    /\ blacklist = {}
    /\ merchantSpent = [m \in Merchants |-> 0]
    /\ vouchers = {}
    /\ task = [p \in Payments |-> Idle]
    /\ pending = {} /\ pendingFund = [k \in Keys |-> None] /\ holder = None
    /\ answer = [p \in Payments |-> None] /\ asked = {} /\ fundAsked = {} /\ offered = {}
    /\ chain = [k \in Keys |-> [limit |-> 0, drawn |-> 0]] /\ expired = {}
    /\ paid = [p \in Payments |-> 0] /\ given = {} /\ lost = {} /\ crashes = 0

\* A payment nobody has asked for yet, within the bound.
MayArrive(p) ==
    /\ task[p].stage = "idle"
    /\ Cardinality({q \in Payments : task[q].stage # "idle"}) < MaxPayments

\* The challenge is parsed and saved.
Receive(p) ==
    /\ p \in Challenges /\ MayArrive(p)
    /\ status' = [status EXCEPT ![p] = "pending_auth"]
    /\ Goto(p, "check")
    /\ UNCHANGED <<sessions, lists, merchantSpent, vouchers, memory, phone, world, history>>

\* The credential does not verify, or the merchant's DID is not on chain.
VerificationFails(p) ==
    /\ task[p].stage = "check"
    /\ Close(p, "rejected")
    /\ UNCHANGED <<sessions, lists, merchantSpent, vouchers, memory, phone, world, history>>

RiskCheck(p) ==
    /\ task[p].stage = "check"
    /\ \/ /\ MerchantOf[p] \in blacklist
          /\ Close(p, "rejected")
       \/ /\ MerchantOf[p] \notin blacklist /\ Whitelisted(p)
          /\ Execute(p, "whitelist", "auto", Snapshot)
          /\ UNCHANGED status
       \/ /\ MerchantOf[p] \notin blacklist /\ ~Whitelisted(p)
          /\ Goto(p, "decide")
          /\ UNCHANGED status
    /\ UNCHANGED <<sessions, lists, merchantSpent, vouchers, memory, phone, world, history>>

\* The global threshold, then the session in the local store.
Decide(p) ==
    /\ task[p].stage = "decide"
    /\ \/ /\ AmountOf[p] <= AutoApproveMax
          /\ Execute(p, "threshold", "auto", Snapshot)
       \/ /\ AmountOf[p] > AutoApproveMax
          /\ Snapshot.key # None /\ Snapshot.remaining >= AmountOf[p]
          /\ Execute(p, "session", "auto", Snapshot)
       \/ /\ AmountOf[p] > AutoApproveMax
          /\ Snapshot.key = None \/ Snapshot.remaining < AmountOf[p]
          /\ Goto(p, "ask")
    /\ UNCHANGED <<disk, memory, phone, world, history>>

\* send_auth_request: the payment is put to the phone.
SendAuthRequest(p) == asked' = asked \cup {p}

\* The request to the phone.  Without an active session a new key is put into
\* the store first, for the phone to register.
Ask(p) ==
    /\ task[p].stage = "ask"
    /\ pending' = pending \cup {p}
    /\ \E k \in (IF Snapshot.key = None THEN Unused ELSE {None}) :
          /\ sessions' = IF k = None THEN sessions ELSE Store(k, LimitFactor * AmountOf[p])
          /\ offered' = offered \cup ({k} \ {None})
          /\ SendAuthRequest(p)
          /\ task' = [task EXCEPT ![p].stage = "wait", ![p].key = k]
    /\ UNCHANGED <<status, lists, merchantSpent, vouchers, pendingFund, holder,
                   answer, fundAsked, world, history>>

\* No phone is paired (the entry stays in pending), or the request cannot be
\* sent (the entry is resolved): an error to the caller, and nothing else.
AskFails(p) ==
    /\ task[p].stage = "ask"
    /\ \/ /\ pending' = pending \cup {p}
          /\ UNCHANGED sessions
       \/ /\ \E k \in (IF Snapshot.key = None THEN Unused ELSE {None}) :
                sessions' = IF k = None THEN sessions ELSE Store(k, LimitFactor * AmountOf[p])
          /\ UNCHANGED pending
    /\ Goto(p, "done")
    /\ UNCHANGED <<status, lists, merchantSpent, vouchers, pendingFund, holder,
                   phone, world, history>>

\* payment-auth-response: an answer nobody waits for is ignored.
Deliver(p) ==
    /\ answer[p] # None
    /\ p \in pending
    /\ pending' = pending \ {p}
    /\ task' = IF task[p].stage = "wait" THEN [task EXCEPT ![p].reply = answer[p]] ELSE task
    /\ UNCHANGED <<disk, pendingFund, holder, phone, world, history>>

\* Fault: every answer is taken for an approval.
AuthorizedUnread(p) ==
    /\ task[p].stage = "wait" /\ task[p].reply # None
    /\ Execute(p, "phone", task[p].reply.method, Snapshot)
    /\ UNCHANGED <<disk, memory, phone, world, history>>

\* The user agreed: the key comes with the answer, or is the active one.
Authorized(p) ==
    /\ task[p].stage = "wait" /\ task[p].reply # None
    /\ task[p].reply.yes
    /\ \/ /\ task[p].reply.secret
          /\ \E k \in Unused, limit \in ChainLimits :
                /\ sessions' = Store(k, limit)
                /\ chain' = [chain EXCEPT ![k].limit = limit]
                /\ Execute(p, "phone", task[p].reply.method, [key |-> k, remaining |-> limit])
       \/ /\ ~task[p].reply.secret
          /\ Execute(p, "phone", task[p].reply.method, Snapshot)
          /\ UNCHANGED <<sessions, chain>>
    /\ UNCHANGED <<status, lists, merchantSpent, vouchers, memory, phone, expired, history>>

\* The user refused, or the wait timed out: the key of the request is dropped.
Refused(p) ==
    /\ task[p].stage = "wait" /\ task[p].reply # None
    /\ ~task[p].reply.yes
    /\ sessions' = CloseKey(task[p].key)
    /\ Close(p, "rejected")
    /\ UNCHANGED <<lists, merchantSpent, vouchers, memory, phone, world, history>>

AuthTimeout(p) ==
    /\ task[p].stage = "wait" /\ task[p].reply = None
    /\ sessions' = CloseKey(task[p].key)
    /\ pending' = pending \ {p}
    /\ Close(p, "expired")
    /\ UNCHANGED <<lists, merchantSpent, vouchers, pendingFund, holder, phone, world, history>>

-----------------------------------------------------------------------------
(* execute_payment_atomic: between Lock and the end of Record or a failure *)
(* the task holds payment_mutex.                                           *)

\* Fault: an error leaves payment_mutex locked.
FailLocked(p) == Goto(p, "failed") /\ UNCHANGED holder

Fail(p) == holder' = None /\ Goto(p, "failed")

\* ensure_session_funded looks at the copy of the session.
Covered(p) == task[p].snap.key = None \/ task[p].snap.remaining >= AmountOf[p]

\* Fault: payment_mutex is not taken.
LockShared(p) ==
    /\ task[p].stage = "lock"
    /\ Goto(p, "pay")
    /\ UNCHANGED <<disk, memory, phone, world, history>>

\* If it does not cover the payment, the phone is asked to top it up: none is
\* paired, or the request is registered and sent, or the sending fails.
Lock(p) ==
    /\ task[p].stage = "lock" /\ holder = None
    /\ \/ /\ Covered(p)
          /\ holder' = p
          /\ Goto(p, "pay")
          /\ UNCHANGED <<pendingFund, fundAsked>>
       \/ /\ ~Covered(p)
          /\ Fail(p)
          /\ UNCHANGED <<pendingFund, fundAsked>>
       \/ /\ ~Covered(p)
          /\ holder' = p
          /\ Goto(p, "fund")
          /\ pendingFund' = [pendingFund EXCEPT ![task[p].snap.key] = p]
          /\ fundAsked' \in {fundAsked, fundAsked \cup {task[p].snap.key}}
    /\ UNCHANGED <<disk, pending, answer, asked, offered, world, history>>

\* The phone topped the session up: check_session_balance looks at the copy.
ToppedUp(p) ==
    /\ task[p].stage = "fund" /\ task[p].topUp = "yes"
    /\ IF Covered(p) THEN Goto(p, "pay") /\ UNCHANGED holder ELSE Fail(p)
    /\ UNCHANGED <<disk, pending, pendingFund, phone, world, history>>

\* It declined, did not answer in time, or could not be reached.
NotToppedUp(p) ==
    /\ task[p].stage = "fund" /\ task[p].topUp # "yes"
    /\ Fail(p)
    /\ UNCHANGED <<disk, pending, pendingFund, phone, world, history>>

\* try_mb_voucher_payment sums the vouchers up and looks for the last number;
\* then it signs and stores the next one.  Only payment_mutex keeps other tasks
\* from doing the same in between.
ReadVouchers(p) ==
    /\ task[p].stage = "pay" /\ task[p].method # "session_key"
    /\ Outstanding + AmountOf[p] <= Vault
    /\ task' = [task EXCEPT ![p].stage = "sign", ![p].seq = NextSeq(MerchantOf[p])]
    /\ UNCHANGED <<disk, memory, phone, world, history>>

SignVoucher(p) ==
    /\ task[p].stage = "sign"
    /\ LET v == [merchant |-> MerchantOf[p], seq |-> task[p].seq, amount |-> AmountOf[p]]
       IN  vouchers' = StoreVoucher(v) /\ given' = given \cup {[payment |-> p, voucher |-> v]}
    /\ paid' = [paid EXCEPT ![p] = @ + 1]
    /\ Goto(p, "voucher")
    /\ UNCHANGED <<status, sessions, lists, merchantSpent, memory, phone, world, lost, crashes>>

\* Fault: the voucher does not end the payment.
PayOnChainToo(p) ==
    /\ task[p].stage = "voucher" /\ task[p].snap.key # None
    /\ paid' = [paid EXCEPT ![p] = @ + 1]
    /\ Goto(p, "landed")
    /\ UNCHANGED <<disk, memory, phone, world, given, lost, crashes>>

\* The session program pays, unless the key has expired, the copy's limit is
\* used up, or the program refuses.  The recipient of a QR payment is empty
\* and does not parse.
PayOnChain(p) ==
    LET k == task[p].snap.key
    IN  /\ task[p].stage = "pay" /\ task[p].method # "magicblock"
        /\ p \in Challenges
        /\ k # None /\ k \notin expired /\ task[p].snap.remaining >= AmountOf[p]
        /\ chain[k].drawn + AmountOf[p] <= chain[k].limit
        /\ chain' = [chain EXCEPT ![k].drawn = @ + AmountOf[p]]
        /\ paid' = [paid EXCEPT ![p] = @ + 1]
        /\ \/ /\ Goto(p, "landed")
              /\ UNCHANGED <<holder, lost>>
           \/ /\ LostReplies
              /\ Fail(p)
              /\ lost' = lost \cup {p}
        /\ UNCHANGED <<disk, pending, pendingFund, phone, expired, given, crashes>>

\* Fault: the error is swallowed.
PayFailsUnnoticed(p) ==
    /\ task[p].stage = "pay"
    /\ Goto(p, "landed")
    /\ UNCHANGED <<disk, memory, phone, world, history>>

\* No session, no room in the vault, an error of the RPC node or the program.
PayFails(p) ==
    /\ task[p].stage = "pay"
    /\ Fail(p)
    /\ UNCHANGED <<disk, pending, pendingFund, phone, world, history>>

\* The client recorded what the session paid; the caller records it once more,
\* for a voucher too, then adds to the merchant's sum and unlocks.
Record(p) ==
    /\ task[p].stage \in {"voucher", "landed"}
    /\ sessions' = Spend(task[p].snap.key,
                         IF task[p].stage = "landed" THEN 2 * AmountOf[p] ELSE AmountOf[p])
    /\ merchantSpent' = [merchantSpent EXCEPT ![MerchantOf[p]] = @ + AmountOf[p]]
    /\ holder' = None
    /\ Goto(p, "paid")
    /\ UNCHANGED <<status, lists, vouchers, pending, pendingFund, phone, world, history>>

\* handle_list_action.
UpdateLists(m, a) ==
    /\ whitelist' = CASE a.action = "add_whitelist"    -> [whitelist EXCEPT ![m] = a.max]
                      [] a.action = "remove_whitelist" -> [whitelist EXCEPT ![m] = None]
                      [] OTHER                         -> whitelist
    /\ blacklist' = CASE a.action = "add_blacklist"    -> blacklist \cup {m}
                      [] a.action = "remove_blacklist" -> blacklist \ {m}
                      [] OTHER                         -> blacklist

\* The caller of execute_payment_atomic writes the outcome down.
Finish(p) ==
    /\ \/ /\ task[p].stage = "failed"
          /\ Close(p, "rejected")
          /\ UNCHANGED lists
       \/ /\ task[p].stage = "paid"
          /\ Close(p, "executed")
          /\ IF task[p].reply = None THEN UNCHANGED lists
             ELSE UpdateLists(MerchantOf[p], task[p].reply)
    /\ UNCHANGED <<sessions, merchantSpent, vouchers, memory, phone, world, history>>

\* A payment the phone asks for after scanning a QR code: one at a time, with
\* the method the user chose and no further questions.
QrPay(p) ==
    /\ p \in QrPayments /\ MayArrive(p)
    /\ \A q \in QrPayments : task[q].stage \in {"idle", "done"}
    /\ status' = [status EXCEPT ![p] = "pending_auth"]
    /\ \E method \in {"session_key", "magicblock"} : Execute(p, "phone", method, Snapshot)
    /\ UNCHANGED <<sessions, lists, merchantSpent, vouchers, memory, phone, world, history>>

-----------------------------------------------------------------------------
(* The background task, the phone and the world.                           *)

\* check_and_renew_session: shortly before the active key expires a new one is
\* put into the store and offered to the phone.
Renew(k) ==
    /\ Snapshot.key # None /\ k \in Unused
    /\ sessions' = Store(k, LimitFactor * sessions[Snapshot.key].limit)
    /\ offered' = offered \cup {k}
    /\ UNCHANGED <<status, lists, merchantSpent, vouchers, task, memory,
                   answer, asked, fundAsked, world, history>>

PhoneRegisters(k, limit) ==
    /\ k \in offered /\ chain[k].limit = 0
    /\ chain' = [chain EXCEPT ![k].limit = limit]
    /\ UNCHANGED <<disk, task, memory, phone, expired, history>>

\* The user decides; a new key has to be registered before agreeing.
PhoneAnswers(p, a) ==
    /\ p \in asked /\ answer[p] = None
    /\ (a.yes /\ task[p].key # None) => chain[task[p].key].limit > 0
    /\ answer' = [answer EXCEPT ![p] = a]
    /\ UNCHANGED <<disk, task, memory, asked, fundAsked, offered, world, history>>

\* send_session_fund_response: each request is answered once.
AnswerTopUp(k) == k \in fundAsked /\ fundAsked' = fundAsked \ {k}

\* session-fund-response, keyed by the session key.
PhoneTopsUp(k, funded) ==
    /\ AnswerTopUp(k)
    /\ pendingFund' = [pendingFund EXCEPT ![k] = None]
    /\ LET p == pendingFund[k]
       IN  task' = IF p = None THEN task
                   ELSE IF task[p].stage # "fund" THEN task
                   ELSE [task EXCEPT ![p].topUp = IF funded THEN "yes" ELSE "no"]
    /\ UNCHANGED <<disk, pending, holder, answer, asked, offered, world, history>>

Expire(k) ==
    /\ k \notin expired /\ sessions[k].state = "stored"
    /\ expired' = expired \cup {k}
    /\ UNCHANGED <<disk, task, memory, phone, chain, history>>

\* The server restarts: its tasks and what it kept in memory are gone.
Crash ==
    /\ crashes < MaxCrashes
    /\ crashes' = crashes + 1
    /\ task' = [p \in Payments |-> IF task[p].stage = "idle" THEN task[p]
                                   ELSE [task[p] EXCEPT !.stage = "done"]]
    /\ pending' = {} /\ pendingFund' = [k \in Keys |-> None] /\ holder' = None
    /\ UNCHANGED <<disk, phone, world, paid, given, lost>>

Step(p) ==
    \/ Receive(p) \/ VerificationFails(p) \/ RiskCheck(p) \/ Decide(p)
    \/ Ask(p) \/ AskFails(p) \/ Authorized(p) \/ Refused(p) \/ AuthTimeout(p)
    \/ Lock(p) \/ ToppedUp(p) \/ NotToppedUp(p)
    \/ ReadVouchers(p) \/ SignVoucher(p) \/ PayOnChain(p) \/ PayFails(p) \/ Record(p) \/ Finish(p)

Next ==
    \/ \E p \in Payments : Step(p) \/ Deliver(p) \/ QrPay(p)
    \/ \E k \in Keys : Renew(k) \/ Expire(k)
    \/ \E k \in Keys, limit \in ChainLimits : PhoneRegisters(k, limit)
    \/ \E p \in Payments, a \in Answers : PhoneAnswers(p, a)
    \/ \E k \in Keys, funded \in BOOLEAN : PhoneTopsUp(k, funded)
    \/ Crash

Spec == Init /\ [][Next]_vars

(* The runtime runs every task that can move, and its timers fire; nothing  *)
(* is assumed of the phone, the other tasks' luck or the chain.             *)
FairSpec == Spec /\ \A p \in Payments : WF_vars(Step(p))
=============================================================================
