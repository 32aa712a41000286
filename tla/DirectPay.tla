----------------------------- MODULE DirectPay ------------------------------
(***************************************************************************)
(* Paying a merchant's QR code from the phone (qr_payment_screen.dart,     *)
(* direct_payment_service.dart): with a wallet app that signs and sends,   *)
(* with a wallet that signs and a relayer that pays the fee, through the   *)
(* MCP server, or with a voucher.                                          *)
(*                                                                         *)
(* A wallet answers with a deep link that names the kind of request and    *)
(* nothing else, and the service is a singleton with one completer per     *)
(* kind, so an answer goes to whichever payment waits when it arrives.     *)
(* A screen can be left with the system's back gesture while a payment is  *)
(* under way; its dispose resets the service and the futures it abandons   *)
(* run on.                                                                 *)
(***************************************************************************)
EXTENDS Naturals, FiniteSets

CONSTANTS
    Orders,         \* the merchants' QR codes
    TokenAccounts,  \* the orders whose merchant has a token account
    Tokens,         \* the tokens that pay: "SOL" and "SPL"
    MaxVisits,      \* bound on payment screens opened
    MaxAttempts,    \* bound on payments confirmed
    MaxHash,        \* bound on blockhashes
    MaxRelayers,    \* bound on relayer keys (a restart without a configured key)
    MaxLost,        \* bound on wallet requests and answers that get lost
    None            \* Dart's null

\* The states of a payment screen, and Dart's completers of a signature.
Screens ==
    [order : Orders, visit : Nat, busy : BOOLEAN, paid : BOOLEAN, failed : BOOLEAN,
     method : {"local_wallet", "sponsored", "session_key", None}]
Completers == [done : BOOLEAN, value : Nat \cup {None}]

DirectPayAssumption ==
    /\ TokenAccounts \subseteq Orders
    /\ Tokens \subseteq {"SOL", "SPL"}
    /\ {MaxVisits, MaxAttempts, MaxHash, MaxRelayers, MaxLost} \subseteq Nat
    /\ None \notin Nat \cup Screens \cup Completers

VARIABLES
    screen,      \* the QrPaymentScreen that is open, if any
    visits,      \* screens opened so far
    wallet,      \* the service's _walletPubkey is set
    connecting,  \* the service's _isConnecting
    payC,        \* the service's _paymentCompleter
    signC,       \* the service's _sponsoredSignCompleter
    attempts,    \* the executions of a confirm handler that have not returned
    confirmed,   \* payments confirmed so far
    prompts,     \* requests the wallet app shows
    links,       \* deep links on their way back
    mcp,         \* qr-payment-requests and qr-payment-responses under way
    landed,      \* the payments that took the money
    hash,        \* the latest blockhash
    relayer,     \* the relayer's key
    shown,       \* history: the proofs shown, with the visit that showed them
    left, timedOut, lost   \* history: a payment left alone, landed unseen, a link lost

vars == <<screen, visits, wallet, connecting, payC, signC, attempts, confirmed, prompts, links,
          mcp, landed, hash, relayer, shown, left, timedOut, lost>>
service == <<wallet, connecting, payC, signC>>
outside == <<landed, hash, relayer>>
history == <<left, timedOut, lost>>

Pending == [done |-> FALSE, value |-> None]
Completed(v) == [done |-> TRUE, value |-> v]

Init ==
    /\ screen = None /\ visits = 0
    /\ wallet = FALSE /\ connecting = FALSE /\ payC = None /\ signC = None
    /\ attempts = {} /\ confirmed = 0
    /\ prompts = {} /\ links = {} /\ mcp = {}
    /\ landed = {} /\ hash = 0 /\ relayer = 0
    /\ shown = {} /\ left = FALSE /\ timedOut = FALSE /\ lost = 0

-----------------------------------------------------------------------------
(* The screen.                                                             *)

OpenScreen(o) ==
    /\ screen = None /\ visits < MaxVisits
    /\ visits' = visits + 1
    /\ screen' = [order |-> o, visit |-> visits + 1, busy |-> FALSE, paid |-> FALSE,
                  failed |-> FALSE, method |-> None]
    /\ UNCHANGED <<service, attempts, confirmed, prompts, links, mcp, outside, shown, history>>

\* dispose; the handlers that wait are completed with an error nobody sees.
Leave ==
    /\ screen # None
    /\ screen' = None
    /\ left' = (left \/ screen.busy)
    /\ wallet' = FALSE /\ connecting' = FALSE /\ payC' = None /\ signC' = None
    /\ attempts' = {a \in attempts : a.phase # "waiting"}
    /\ UNCHANGED <<visits, confirmed, prompts, links, mcp, outside, shown, timedOut, lost>>

\* Fault: the button stays enabled while a payment is under way.
NotPaid == screen # None /\ ~screen.paid

Idle == screen # None /\ ~screen.busy /\ ~screen.paid

\* What the handler's last setState does, if its screen is still mounted.
Show(visit, proof) ==
    IF screen = None \/ screen.visit # visit THEN UNCHANGED <<screen, shown>>
    ELSE IF proof = None
         THEN /\ screen' = [screen EXCEPT !.busy = FALSE, !.failed = TRUE]
              /\ UNCHANGED shown
         ELSE /\ screen' = [screen EXCEPT !.busy = FALSE, !.paid = TRUE]
              /\ shown' = shown \cup {[visit |-> visit, proof |-> proof]}

ConnectWallet ==
    /\ screen # None /\ ~screen.paid
    /\ ~wallet /\ ~connecting
    /\ connecting' = TRUE
    /\ prompts' = prompts \cup {[kind |-> "connect"]}
    /\ UNCHANGED <<screen, visits, wallet, payC, signC, attempts, confirmed, links, mcp,
                   outside, shown, history>>

Attempt(method, token) ==
    [id |-> confirmed + 1, visit |-> screen.visit, order |-> screen.order,
     method |-> method, token |-> token, phase |-> "building", tx |-> None]

\* _onConfirm: the button is disabled from here on.
Confirm(method) ==
    /\ Idle /\ confirmed < MaxAttempts
    /\ confirmed' = confirmed + 1
    /\ UNCHANGED <<visits, wallet, connecting, prompts, links, outside, history>>

\* Starting a payment replaces the completer: an earlier one of the same kind
\* that waits is never completed.
Begin(method, token) ==
    /\ screen' = [screen EXCEPT !.busy = TRUE, !.failed = FALSE, !.method = method]
    /\ attempts' = {a \in attempts : ~(a.phase = "waiting" /\ a.method = method)}
                       \cup {Attempt(method, token)}
    /\ UNCHANGED <<mcp, shown>>

NotConnected ==
    /\ screen' = [screen EXCEPT !.failed = TRUE]
    /\ UNCHANGED <<payC, signC, attempts, mcp, shown>>

ExecutePayment(token) ==
    /\ Confirm("local_wallet")
    /\ IF wallet
       THEN Begin("local_wallet", token) /\ payC' = Pending /\ UNCHANGED signC
       ELSE NotConnected

ExecuteSponsoredPayment(token) ==
    /\ Confirm("sponsored")
    /\ IF wallet
       THEN Begin("sponsored", token) /\ signC' = Pending /\ UNCHANGED payC
       ELSE NotConnected

\* The qr-payment-request to the MCP server; its answer names the order only.
QrPaymentRequest ==
    [id |-> confirmed + 1, order |-> screen.order, visit |-> screen.visit, result |-> "asked"]
QrPaymentResponse(r, result) == [r EXCEPT !.result = result]

SendQrPaymentRequest ==
    /\ Confirm("session_key")
    /\ screen' = [screen EXCEPT !.busy = TRUE, !.failed = FALSE, !.method = "session_key"]
    /\ mcp' = mcp \cup {QrPaymentRequest}
    /\ UNCHANGED <<payC, signC, attempts, shown>>

\* The voucher is signed and sent, or a step of it throws.
ConfirmMbPayment ==
    /\ Idle /\ confirmed < MaxAttempts
    /\ confirmed' = confirmed + 1
    /\ LET voucher == [id |-> confirmed + 1, order |-> screen.order, visit |-> screen.visit]
       IN  \/ landed' = landed \cup {voucher} /\ Show(screen.visit, voucher.id)
           \/ Show(screen.visit, None) /\ UNCHANGED landed
    /\ UNCHANGED <<visits, service, attempts, prompts, links, mcp, hash, relayer, history>>

-----------------------------------------------------------------------------
(* The service: building the transaction, opening the wallet, waiting.     *)

Without(a) == attempts \ {a}
Moved(a, phase, tx) == Without(a) \cup {[a EXCEPT !.phase = phase, !.tx = tx]}

\* The four builders of session.rs: who signs, and whether the merchant's
\* token account is created on the way.
TransferTx(a) ==
    [id |-> a.id, order |-> a.order, visit |-> a.visit, payer |-> None, hash |-> hash, valid |-> TRUE]
SplTransferTx(a) == TransferTx(a)
SponsoredTransferTx(a) == [TransferTx(a) EXCEPT !.payer = relayer]
SponsoredSplTransferTx(a) ==
    [SponsoredTransferTx(a) EXCEPT !.valid = a.order \in TokenAccounts]

Tx(a) ==
    CASE a.method = "local_wallet" /\ a.token = "SOL" -> TransferTx(a)
      [] a.method = "local_wallet" /\ a.token = "SPL" -> SplTransferTx(a)
      [] a.method = "sponsored" /\ a.token = "SOL" -> SponsoredTransferTx(a)
      [] a.method = "sponsored" /\ a.token = "SPL" -> SponsoredSplTransferTx(a)

Building(a) == a.phase = "building"

BuildFails(a) ==
    /\ Building(a)
    /\ attempts' = Without(a)
    /\ Show(a.visit, None)
    /\ UNCHANGED <<visits, service, confirmed, prompts, links, mcp, outside, history>>

\* The links of the wallet apps carry the transaction and where to return to.
SignUrl(kind, a) == [kind |-> kind, tx |-> Tx(a)]

\* openWalletUrl's result is ignored: with no wallet to open nothing is asked.
Ask(kind, a) ==
    \/ prompts' = prompts \cup {SignUrl(kind, a)} /\ UNCHANGED lost
    \/ lost < MaxLost /\ lost' = lost + 1 /\ UNCHANGED prompts

\* A completer that a reset took away makes the handler throw.
OpenSignUrl(a) ==
    /\ Building(a) /\ a.method = "local_wallet"
    /\ Ask("pay", a)
    /\ IF payC = Pending
       THEN attempts' = Moved(a, "waiting", None) /\ UNCHANGED <<screen, shown>>
       ELSE /\ attempts' = Without(a)
            /\ Show(a.visit, IF payC = None THEN None ELSE payC.value)
    /\ UNCHANGED <<visits, service, confirmed, links, mcp, outside, left, timedOut>>

OpenSignTransactionUrl(a) ==
    /\ Building(a) /\ a.method = "sponsored"
    /\ wallet
    /\ Ask("sign", a)
    /\ IF signC = None
       THEN attempts' = Without(a) /\ Show(a.visit, None)
       ELSE /\ attempts' = IF signC.done THEN Moved(a, "relaying", signC.value)
                                         ELSE Moved(a, "waiting", None)
            /\ UNCHANGED <<screen, shown>>
    /\ UNCHANGED <<visits, service, confirmed, links, mcp, outside, left, timedOut>>

-----------------------------------------------------------------------------
(* The wallet app and the deep links.                                      *)

Answer(p, link) ==
    /\ p \in prompts
    /\ prompts' = prompts \ {p}
    /\ links' = links \cup {link}

WalletConnects(p) ==
    /\ p.kind = "connect"
    /\ Answer(p, [host |-> "wallet_connect"])
    /\ UNCHANGED <<screen, visits, service, attempts, confirmed, mcp, outside, shown, history>>

WalletPays(p) ==
    /\ p.kind = "pay"
    /\ landed' = landed \cup {[id |-> p.tx.id, order |-> p.tx.order, visit |-> p.tx.visit]}
    /\ Answer(p, [host |-> "direct_pay", value |-> p.tx.id])
    /\ UNCHANGED <<screen, visits, service, attempts, confirmed, mcp, hash, relayer, shown, history>>

WalletSigns(p) ==
    /\ p.kind = "sign"
    /\ Answer(p, [host |-> "sponsored_sign", value |-> p.tx.id, tx |-> p.tx])
    /\ UNCHANGED <<screen, visits, service, attempts, confirmed, mcp, outside, shown, history>>

\* A refused connection comes back without a key, which the app ignores.
WalletRefuses(p) ==
    /\ p \in prompts
    /\ prompts' = prompts \ {p}
    /\ links' = IF p.kind = "connect" THEN links
                ELSE links \cup {[host |-> IF p.kind = "pay" THEN "direct_pay" ELSE "sponsored_sign",
                                  value |-> None]}
    /\ UNCHANGED <<screen, visits, service, attempts, confirmed, mcp, outside, shown, history>>

LoseLink(l) ==
    /\ lost < MaxLost
    /\ lost' = lost + 1
    /\ links' = links \ {l}
    /\ UNCHANGED <<screen, visits, service, attempts, confirmed, prompts, mcp, outside, shown,
                   left, timedOut>>

\* The app's router: a refused signTransaction is handed to the handler of the
\* other kind of payment.
HandlerOf(l) ==
    IF l.host = "sponsored_sign" /\ l.value = None THEN "direct_pay" ELSE l.host

HandleConnectCallback(l) ==
    /\ HandlerOf(l) = "wallet_connect"
    /\ links' = links \ {l}
    /\ wallet' = TRUE /\ connecting' = FALSE
    /\ UNCHANGED <<screen, visits, payC, signC, attempts, confirmed, prompts, mcp, outside,
                   shown, history>>

Waiting(method) == {a \in attempts : a.phase = "waiting" /\ a.method = method}

\* handlePaymentCallback; every handler that waits on the completer returns.
CompletePayment(value) ==
    IF payC = Pending
    THEN /\ payC' = Completed(value)
         /\ attempts' = attempts \ Waiting("local_wallet")
         /\ IF \E a \in Waiting("local_wallet") : screen # None /\ a.visit = screen.visit
            THEN Show(screen.visit, value) ELSE UNCHANGED <<screen, shown>>
    ELSE UNCHANGED <<payC, attempts, screen, shown>>

\* Fault: only a signature completes the payment, an error is dropped.
HandlePaymentSignature(l) ==
    /\ HandlerOf(l) = "direct_pay"
    /\ links' = links \ {l}
    /\ IF l.value = None THEN UNCHANGED <<payC, attempts, screen, shown>> ELSE CompletePayment(l.value)
    /\ UNCHANGED <<visits, wallet, connecting, signC, confirmed, prompts, mcp, outside, history>>

HandlePaymentCallback(l) ==
    /\ HandlerOf(l) = "direct_pay"
    /\ links' = links \ {l}
    /\ CompletePayment(l.value)
    /\ UNCHANGED <<visits, wallet, connecting, signC, confirmed, prompts, mcp, outside, history>>

HandleSponsoredSignCallback(l) ==
    /\ HandlerOf(l) = "sponsored_sign"
    /\ links' = links \ {l}
    /\ IF signC = Pending
       THEN /\ signC' = Completed(l.tx)
            /\ attempts' = (attempts \ Waiting("sponsored")) \cup
                   {[a EXCEPT !.phase = "relaying", !.tx = l.tx] : a \in Waiting("sponsored")}
       ELSE UNCHANGED <<signC, attempts>>
    /\ UNCHANGED <<screen, visits, wallet, connecting, payC, confirmed, prompts, mcp, outside,
                   shown, history>>

-----------------------------------------------------------------------------
(* The relayer and the chain.                                              *)

\* partial_sign with another blockhash than the wallet signed clears the
\* wallet's signature, and the chain takes a transaction once.
Accepted(tx) ==
    /\ tx.payer = relayer
    /\ tx.hash = hash
    /\ tx.valid
    /\ \A q \in landed : q.id # tx.id

\* Fault: the relayer's status code is not looked at.
PostSponsorUnchecked(a) ==
    /\ a.phase = "relaying"
    /\ attempts' = Without(a)
    /\ IF Accepted(a.tx)
       THEN landed' = landed \cup {[id |-> a.tx.id, order |-> a.tx.order, visit |-> a.tx.visit]}
       ELSE UNCHANGED landed
    /\ Show(a.visit, a.tx.id)
    /\ UNCHANGED <<visits, service, confirmed, prompts, links, mcp, hash, relayer, history>>

\* post_sponsor, and the app's handling of what it returns.
PostSponsor(a) ==
    /\ a.phase = "relaying"
    /\ attempts' = Without(a)
    /\ IF Accepted(a.tx)
       THEN \/ /\ landed' = landed \cup {[id |-> a.tx.id, order |-> a.tx.order, visit |-> a.tx.visit]}
               /\ \/ Show(a.visit, a.tx.id) /\ UNCHANGED timedOut
                  \/ Show(a.visit, None) /\ timedOut' = TRUE
            \/ Show(a.visit, None) /\ UNCHANGED <<landed, timedOut>>
       ELSE Show(a.visit, None) /\ UNCHANGED <<landed, timedOut>>
    /\ UNCHANGED <<visits, service, confirmed, prompts, links, mcp, hash, relayer, left, lost>>

\* Without a configured key a relayer that restarts makes a new one.
RelayerRestarts ==
    /\ relayer < MaxRelayers
    /\ relayer' = relayer + 1
    /\ UNCHANGED <<screen, visits, service, attempts, confirmed, prompts, links, mcp, landed, hash,
                   shown, history>>

NewBlockhash ==
    /\ hash < MaxHash
    /\ hash' = hash + 1
    /\ UNCHANGED <<screen, visits, service, attempts, confirmed, prompts, links, mcp, landed,
                   relayer, shown, history>>

-----------------------------------------------------------------------------
(* The MCP server (see PaymentFlow) and its answer.                        *)

McpAnswers(r) ==
    /\ r.result = "asked"
    /\ \/ /\ landed' = landed \cup {[id |-> r.id, order |-> r.order, visit |-> r.visit]}
          /\ mcp' = (mcp \ {r}) \cup {QrPaymentResponse(r, "paid")}
       \/ mcp' = (mcp \ {r}) \cup {QrPaymentResponse(r, "failed")} /\ UNCHANGED landed
    /\ UNCHANGED <<screen, visits, service, attempts, confirmed, prompts, links, hash, relayer,
                   shown, history>>

\* Fault: the result's success is not looked at.
OnQrPaymentAnswer(r) ==
    /\ r.result # "asked"
    /\ mcp' = mcp \ {r}
    /\ IF screen # None /\ screen.order = r.order
       THEN Show(screen.visit, r.id) ELSE UNCHANGED <<screen, shown>>
    /\ UNCHANGED <<visits, service, attempts, confirmed, prompts, links, outside, history>>

\* A result for no open screen, or for another order, is dropped.
OnQrPaymentResult(r) ==
    /\ r.result # "asked"
    /\ mcp' = mcp \ {r}
    /\ IF screen # None /\ screen.order = r.order
       THEN Show(screen.visit, IF r.result = "paid" THEN r.id ELSE None)
       ELSE UNCHANGED <<screen, shown>>
    /\ UNCHANGED <<visits, service, attempts, confirmed, prompts, links, outside, history>>

-----------------------------------------------------------------------------
ScreenStep ==
    \/ \E o \in Orders : OpenScreen(o)
    \/ Leave
    \/ ConnectWallet
    \/ \E t \in Tokens : ExecutePayment(t) \/ ExecuteSponsoredPayment(t)
    \/ SendQrPaymentRequest
    \/ ConfirmMbPayment

ServiceStep(a) ==
    \/ BuildFails(a)
    \/ OpenSignUrl(a)
    \/ OpenSignTransactionUrl(a)
    \/ PostSponsor(a)

WalletStep(p) == WalletConnects(p) \/ WalletPays(p) \/ WalletSigns(p) \/ WalletRefuses(p)

LinkStep(l) ==
    \/ HandleConnectCallback(l)
    \/ HandlePaymentCallback(l)
    \/ HandleSponsoredSignCallback(l)

Next ==
    \/ ScreenStep
    \/ \E a \in attempts : ServiceStep(a)
    \/ \E p \in prompts : WalletStep(p)
    \/ \E l \in links : LinkStep(l) \/ LoseLink(l)
    \/ RelayerRestarts
    \/ NewBlockhash
    \/ \E r \in mcp : McpAnswers(r) \/ OnQrPaymentResult(r)

Spec == Init /\ [][Next]_vars

\* The service's calls return, the user answers the wallet and the wallet's
\* links open the app.
Fairness ==
    /\ WF_vars(\E a \in attempts : ServiceStep(a))
    /\ WF_vars(\E p \in prompts : WalletStep(p))
    /\ WF_vars(\E l \in links : LinkStep(l))

FairSpec == Spec /\ Fairness

-----------------------------------------------------------------------------
(* What paying must keep true.                                             *)

\* A screen knows its order and one of its four payment methods, an attempt
\* belongs to a screen that was opened.
TypeOK ==
    /\ screen # None => screen \in Screens /\ screen.visit = visits
    /\ {wallet, connecting, left, timedOut} \subseteq BOOLEAN /\ {payC} \ {None} \subseteq Completers
    /\ \A a \in attempts : a.visit \in 1 .. visits /\ a.phase \in {"building", "waiting", "relaying"}
    /\ \A q \in landed : q.id \in 1 .. confirmed

\* Whatever answer reaches whatever screen, a proof shown as "paid" is the
\* signature of a payment that took the money, and one payment is shown as
\* paid once: an answer that outlived its screen cannot pay two orders.
ProofsAreOfPayments ==
    \A s \in shown :
        /\ \E q \in landed : q.id = s.proof
        /\ \A t \in shown : t.proof = s.proof => t = s

\* As long as nobody leaves a payment under way, the order a screen shows as
\* paid is the order that was paid, although no answer names its order.
ShownOrderIsPaid ==
    (~left /\ screen # None /\ screen.paid) => \E q \in landed : q.order = screen.order

\* As long as nobody leaves a payment under way and the relayer reports what
\* the chain did, one screen takes the money once, however often the user
\* retries after a failure.
PaidOncePerScreen ==
    (~left /\ ~timedOut)
        => \A q1, q2 \in landed : q1.visit = q2.visit => q1 = q2

\* The wallet payment the user confirmed comes to an end on the screen, unless
\* the request or the answer is lost or the screen is left.
WalletPaymentEnds ==
    (screen # None /\ screen.busy /\ screen.method = "local_wallet" /\ lost = 0)
        ~> (screen = None \/ ~screen.busy \/ lost > 0)

-----------------------------------------------------------------------------
(* What one would also expect, and the code does not keep.                 *)

\* The order shown as paid was paid, also when the payment before it was left.
ShownOrderIsPaidAlways ==
    (screen # None /\ screen.paid) => \E q \in landed : q.order = screen.order

\* One screen takes the money once, also when the relayer times out.
PaidOnceDespiteTimeout ==
    ~left => \A q1, q2 \in landed : q1.visit = q2.visit => q1 = q2

\* The sponsored payment the user confirmed comes to an end on the screen.
SponsoredPaymentEnds ==
    (screen # None /\ screen.busy /\ screen.method = "sponsored" /\ lost = 0)
        ~> (screen = None \/ ~screen.busy \/ lost > 0)
=============================================================================
