----------------------------- MODULE PhoneKeys -----------------------------
(***************************************************************************)
(* Session keys on the phone.  The buyer MCP makes a key and offers it,    *)
(* with a payment request or with a renewal request; the phone has the     *)
(* wallet register and fund it and then answers the MCP.  Two flows of the *)
(* app do that: the wizard of the challenge screen and the renewal of the  *)
(* keys screen.  Both talk to the same wallet app through deep links, and  *)
(* a callback of the wallet names no request: it completes whatever        *)
(* request of its kind was opened last.                                    *)
(*                                                                         *)
(* The key of the phone's DID never owns a session account (accounts are   *)
(* registered under the wallet's key), so the look-up of the challenge     *)
(* screen under that key never finds one and its wallet-free path, the     *)
(* revocation and the recovery of the old key's funds change nothing; the  *)
(* phone never holds a key's secret.  Those calls have no step here, nor   *)
(* has the sled entry "pending:", which is there whenever it is read.      *)
(* The user leaves the wizard between its steps only.                      *)
(*                                                                         *)
(* The wallet is one that is reached through deep links: the app waits     *)
(* three minutes for each of its callbacks.  A wallet reached through      *)
(* WalletConnect answers each request by itself, and the app waits for it  *)
(* without a timeout, as it does for the user's choice of a wallet and for *)
(* every call over HTTP.                                                   *)
(***************************************************************************)
EXTENDS Integers, FiniteSets

CONSTANTS
    Keys,          \* the session keys
    Listed,        \* the keys that were set up before
    Payments,      \* the payments the phone is asked to authorize
    None,
    LateAnswers,   \* can a prompt still be answered after the next one opened?
    MaxFlight      \* bound on the transactions the network has not settled

Flows == {"wizard", "renew"}
Kinds == {"signOnly", "signAndSend"}
Assets == {"sol", "usdc"}
Tx == [what : {"register"} \cup Assets, key : Keys]
Steps == {"closed", "await", "pick", "create", "confirm", "respond"} \cup Assets

ASSUME PhoneKeysAssumption ==
    /\ Listed \subseteq Keys
    /\ None \notin Keys /\ None \notin Payments
    /\ None \notin Flows /\ None \notin Kinds
    /\ LateAnswers \in BOOLEAN /\ MaxFlight \in Nat

VARIABLES
    records,      \* sled "session:": keys the app lists as active
    registered,   \* the session accounts on chain
    flight,       \* transactions the network has and has not executed
    flow,         \* what each flow of the app is doing
    waiting,      \* per kind of request, the flow whose completer is open
    prompts,      \* what the wallet app shows
    renewal,      \* _pendingRenewRequest of the keys screen
    mail,         \* renewal requests on their way to the phone
    made,         \* the keys the MCP has ever made
    offers,       \* the payment requests sent, with the key that came along
    answers,      \* history: the authorizations sent, with their key
    renewals,     \* history: the renewals reported, old key and new key
    sent          \* history: every transaction that was broadcast

chain == <<registered, flight>>
wallet == <<waiting, prompts>>
mcp == <<renewal, mail, made, offers>>
history == <<answers, renewals, sent>>
vars == <<records, chain, flow, wallet, mcp, history>>

\* A flow has a step, the kind of callback it waits for, a transaction that the
\* wallet signed and the app broadcasts, a key, and what it was started for.
Closed == [step |-> "closed", wait |-> None, signed |-> None, key |-> None, for |-> None]

\* The flow's step runs neither in the wallet nor in the network.
Idle(f) == flow[f].wait = None /\ flow[f].signed = None

Init ==
    /\ records = Listed
    /\ registered = Listed /\ flight = {}
    /\ flow = [f \in Flows |-> Closed]
    /\ waiting = [c \in Kinds |-> None] /\ prompts = {}
    /\ renewal = None /\ mail = {}
    /\ made = Listed /\ offers = {}
    /\ answers = {} /\ renewals = {} /\ sent = {}

-----------------------------------------------------------------------------
(* The buyer MCP, as the phone sees it: which keys its store holds, and so   *)
(* when it offers one, is in PaymentFlow.                                  *)

\* The messages: a request to authorize a payment, perhaps with a new key; the user's
\* authorization; a request to renew a key; the renewal.
AuthRequest(p, k) == [payment |-> p, key |-> k]
Authorization(p, k) == [payment |-> p, key |-> k]
RenewRequest(old, new) == [old |-> old, new |-> new]

\* The transfers a renewal request suggests: always one of SOL, and none of a
\* token, as create_session_key_for_request is given no mint.
Suggested == {"sol"}

RenewResponse(old, new) == [old |-> old, new |-> new]

\* A payment needs the user; a key that was just made may come along.
AskPayment(p) ==
    /\ \A o \in offers : o.payment # p
    /\ \E k \in (Keys \ made) \cup {None} :
          /\ offers' = offers \cup {AuthRequest(p, k)}
          /\ made' = made \cup ({k} \ {None})
    /\ UNCHANGED <<records, chain, flow, wallet, renewal, mail, history>>

\* create_and_send_renew_request, after a trigger of the phone or, from
\* check_and_renew_session, when a key is about to expire.
OfferRenewal(old) ==
    /\ old \in made
    /\ \E k \in Keys \ made : /\ mail' = mail \cup {RenewRequest(old, k)}
                              /\ made' = made \cup {k}
    /\ UNCHANGED <<records, chain, flow, wallet, renewal, offers, history>>

-----------------------------------------------------------------------------
(* Transactions and the wallet.                                            *)

\* What a transaction does when it is executed: an account is made only once.
Executes(tx) == tx.what = "register" => tx.key \notin registered

Execute(tx) ==
    registered' = IF tx.what = "register" THEN registered \cup {tx.key} ELSE registered

\* A transaction that was broadcast lands, or is dropped.
Settle(tx) ==
    /\ tx \in flight
    /\ flight' = flight \ {tx}
    /\ \/ Executes(tx) /\ Execute(tx)
       \/ UNCHANGED registered
    /\ UNCHANGED <<records, flow, wallet, mcp, history>>

\* The unsigned transactions the app builds.
RegisterTx(k) == [what |-> "register", key |-> k]
SolTx(k) == [what |-> "sol", key |-> k]
UsdcTx(k) == [what |-> "usdc", key |-> k]
TxOf(s) == CASE s.step = "create" -> RegisterTx(s.key)
             [] s.step = "sol" -> SolTx(s.key)
             [] s.step = "usdc" -> UsdcTx(s.key)

\* Opens the wallet with the transaction of the flow's step; the flow's completer
\* replaces the open one of this kind.
Prompt(f, kind, shown, open) ==
    /\ waiting' = [open EXCEPT ![kind] = f]
    /\ prompts' = (IF LateAnswers THEN shown ELSE {})
                      \cup {[kind |-> kind, tx |-> TxOf(flow[f])]}
    /\ flow' = [flow EXCEPT ![f].wait = kind]

Owner(kind) == waiting[kind]

Goto(f, step) ==
    flow' = [flow EXCEPT ![f].step = step, ![f].wait = None, ![f].signed = None]

\* An error: the wizard stays at its step, the renewal is over.
Fail(f) ==
    LET s == flow[f]
        stay == [s EXCEPT !.wait = None, !.signed = None,
                          !.step = IF s.step = "confirm" THEN "create" ELSE s.step]
    IN  flow' = [flow EXCEPT ![f] = IF f = "renew" THEN Closed ELSE stay]

\* finalize_phantom_session_key: the record is written once the registration
\* has a signature, executed or not.
Finalize(k) == records' = records \cup {k}

\* The step has the signature it waited for.
\* Fault: the wizard does not look whether the account is there.
AdvanceUnconfirmed(f) ==
    \/ flow[f].step = "create" /\ Finalize(flow[f].key) /\ Goto(f, "sol")
    \/ flow[f].step = "sol" /\ Goto(f, "usdc") /\ UNCHANGED records
    \/ flow[f].step = "usdc" /\ Goto(f, "respond") /\ UNCHANGED records

Advance(f) ==
    \/ /\ flow[f].step = "create"
       /\ Finalize(flow[f].key) /\ Goto(f, IF f = "wizard" THEN "confirm" ELSE "sol")
    \/ flow[f].step = "sol" /\ Goto(f, "usdc") /\ UNCHANGED records
    \/ flow[f].step = "usdc" /\ Goto(f, "respond") /\ UNCHANGED records

\* handleSignCallback: the wallet has signed and broadcast the transaction; the
\* flow has its signature, whether or not it will be executed.
SignAndSend(pr) ==
    /\ pr \in prompts /\ pr.kind = "signAndSend"
    /\ Cardinality(flight) < MaxFlight
    /\ prompts' = prompts \ {pr}
    /\ waiting' = [waiting EXCEPT !["signAndSend"] = None]
    /\ flight' = flight \cup {pr.tx} /\ sent' = sent \cup {pr.tx}
    /\ IF Owner("signAndSend") = None THEN UNCHANGED <<flow, records>>
       ELSE Advance(Owner("signAndSend"))
    /\ UNCHANGED <<registered, mcp, answers, renewals>>

\* handleSignOnlyCallback: the app gets the signed transaction.
SignOnly(pr) ==
    /\ pr \in prompts /\ pr.kind = "signOnly"
    /\ prompts' = prompts \ {pr}
    /\ waiting' = [waiting EXCEPT !["signOnly"] = None]
    /\ flow' = IF Owner("signOnly") = None THEN flow
               ELSE [flow EXCEPT ![Owner("signOnly")].wait = None,
                                 ![Owner("signOnly")].signed = pr.tx]
    /\ UNCHANGED <<records, chain, mcp, history>>

\* broadcast_signed_tx: the transaction is executed and confirmed, or refused by
\* the preflight, or not confirmed in time, and it may be executed later.
Broadcast(f) ==
    LET tx == flow[f].signed
    IN  /\ flow[f].wait = None /\ tx # None
        /\ \/ /\ Executes(tx) /\ Execute(tx) /\ Advance(f)
              /\ sent' = sent \cup {tx} /\ flight' = flight \ {tx}
           \/ /\ Fail(f)
              /\ flight' \in {flight} \cup
                     IF Cardinality(flight) < MaxFlight THEN {flight \cup {tx}} ELSE {}
              /\ sent' = IF flight' = flight THEN sent ELSE sent \cup {tx}
              /\ UNCHANGED <<registered, records>>
        /\ UNCHANGED <<wallet, mcp, answers, renewals>>

\* Fault: a transfer that was not signed is passed over.
NoSignatureSkips(f, shown, open) ==
    /\ prompts' = shown /\ waiting' = open
    /\ Goto(f, CASE flow[f].step = "create" -> "create" [] flow[f].step = "sol" -> "usdc"
                 [] OTHER -> "respond")

\* The flow gets no signature.  The wizard then tries sign-and-send: always for
\* the registration, for a transfer only if the wallet cannot sign only.
NoSignature(f, shown, open) ==
    LET s == flow[f]
        fallback == f = "wizard" /\ s.wait = "signOnly"
    IN  \/ /\ fallback
           /\ Prompt(f, "signAndSend", shown, open)
        \/ /\ ~ (fallback /\ s.step = "create")
           /\ Fail(f) /\ prompts' = shown /\ waiting' = open

\* The user rejects the transaction in the wallet.
Reject(pr) ==
    /\ pr \in prompts
    /\ LET f == Owner(pr.kind)
           shown == prompts \ {pr}
           open == [waiting EXCEPT ![pr.kind] = None]
       IN  IF f = None THEN prompts' = shown /\ UNCHANGED <<waiting, flow>>
           ELSE NoSignature(f, shown, open)
    /\ UNCHANGED <<records, chain, mcp, history>>

\* Fault: a request whose completer was replaced is waited for without a timeout.
TimeOutIfOpen(f) ==
    /\ flow[f].wait # None /\ waiting[flow[f].wait] = f
    /\ NoSignature(f, prompts, [c \in Kinds |-> IF waiting[c] = f THEN None ELSE waiting[c]])
    /\ UNCHANGED <<records, chain, mcp, history>>

\* The flow has waited three minutes; the wallet still shows the transaction.
TimeOut(f) ==
    /\ flow[f].wait # None
    /\ NoSignature(f, prompts, [c \in Kinds |-> IF waiting[c] = f THEN None ELSE waiting[c]])
    /\ UNCHANGED <<records, chain, mcp, history>>

-----------------------------------------------------------------------------
(* The flows of the app.                                                   *)

\* The challenge screen opens the wizard for a request (one screen at a time).
OpenWizard(o) ==
    /\ o \in offers /\ o.key # None
    /\ flow["wizard"] = Closed /\ \A a \in answers : a.payment # o.payment
    /\ flow' = [flow EXCEPT !["wizard"] =
                    [Closed EXCEPT !.step = "create", !.key = o.key, !.for = o.payment]]
    /\ UNCHANGED <<records, chain, wallet, mcp, history>>

\* The user declines or goes back: the MCP is told nothing.
CloseWizard ==
    /\ flow["wizard"] # Closed /\ Idle("wizard")
    /\ flow' = [flow EXCEPT !["wizard"] = Closed]
    /\ UNCHANGED <<records, chain, wallet, mcp, history>>

\* The answers go to the MCP over the phone's connection to its mediator.
SendAuthResponse(a) == answers' = answers \cup {a}
SendRenewResponse(r) == renewals' = renewals \cup {r}

\* The request came without a key: the user authorizes it with an active one.
AuthorizeExisting(o) ==
    /\ o \in offers /\ o.key = None /\ records # {}
    /\ flow["wizard"] = Closed
    /\ SendAuthResponse(o)
    /\ UNCHANGED <<records, chain, flow, wallet, mcp, renewals, sent>>

\* _renewKey sends the trigger and takes the request it may already have.
StartRenewal(old) ==
    /\ old \in records /\ flow["renew"] = Closed
    /\ flow' = [flow EXCEPT !["renew"] =
           [Closed EXCEPT !.step = IF renewal = None THEN "await" ELSE "pick",
                          !.key = IF renewal = None THEN None ELSE renewal.new, !.for = old]]
    /\ renewal' = None
    /\ UNCHANGED <<records, chain, wallet, mail, made, offers, history>>

\* The listener keeps the request and completes the waiting renewal with it.
RenewalArrives(m) ==
    /\ m \in mail
    /\ mail' = mail \ {m} /\ renewal' = m
    /\ IF flow["renew"].step = "await"
       THEN flow' = [flow EXCEPT !["renew"].step = "pick", !["renew"].key = m.new]
       ELSE UNCHANGED flow
    /\ UNCHANGED <<records, chain, wallet, made, offers, history>>

\* No request within a minute.
RenewalTimesOut ==
    /\ flow["renew"].step = "await"
    /\ Fail("renew")
    /\ UNCHANGED <<records, chain, wallet, mcp, history>>

\* selectWalletService, ensureWalletConnected: the user chooses a wallet, at any
\* time, and it connects or does not.
PickWallet ==
    /\ flow["renew"].step = "pick"
    /\ Goto("renew", "create") \/ Fail("renew")
    /\ UNCHANGED <<records, chain, wallet, mcp, history>>

\* get_session_account_info, with the wallet's key as the owner.
OnChain(k) == k \in registered

\* finalize_existing_session_key: a record of what is on chain.
FinalizeExisting(k) == records' = records \cup {k}

\* Is the key's account on chain already?  Else its registration is built and
\* put to the wallet.  The calls for that may fail.
Create(f) ==
    /\ flow[f].step = "create" /\ Idle(f)
    /\ \/ /\ OnChain(flow[f].key)
          /\ FinalizeExisting(flow[f].key)
          /\ Goto(f, "sol") /\ UNCHANGED wallet
       \/ /\ ~ OnChain(flow[f].key)
          /\ Prompt(f, "signOnly", prompts, waiting)
          /\ UNCHANGED records
       \/ Fail(f) /\ UNCHANGED <<records, wallet>>
    /\ UNCHANGED <<chain, mcp, history>>

\* _waitForSessionPdaConfirmed: the wizard goes on once the account is there,
\* and gives up after twelve looks.
Confirm ==
    /\ flow["wizard"].step = "confirm"
    /\ \/ OnChain(flow["wizard"].key) /\ Goto("wizard", "sol")
       \/ ~ OnChain(flow["wizard"].key) /\ Fail("wizard")
    /\ UNCHANGED <<records, chain, wallet, mcp, history>>

\* A renewal passes over a transfer of no amount.
PassesOver(f) == f = "renew" /\ flow[f].step \notin Suggested

\* The wizard signs a transfer and broadcasts it, the renewal has the wallet
\* broadcast it.  Building it may fail.
Fund(f) ==
    /\ flow[f].step \in Assets /\ Idle(f)
    /\ IF PassesOver(f)
       THEN Goto(f, IF flow[f].step = "sol" THEN "usdc" ELSE "respond") /\ UNCHANGED wallet
       ELSE \/ Prompt(f, IF f = "wizard" THEN "signOnly" ELSE "signAndSend", prompts, waiting)
            \/ Fail(f) /\ UNCHANGED wallet
    /\ UNCHANGED <<records, chain, mcp, history>>

\* The answer to the MCP: the authorization with the key, or the renewal.
Respond(f) ==
    /\ flow[f].step = "respond"
    /\ flow' = [flow EXCEPT ![f] = Closed]
    /\ IF f = "wizard"
       THEN /\ SendAuthResponse(Authorization(flow[f].for, flow[f].key))
            /\ UNCHANGED renewals
       ELSE /\ SendRenewResponse(RenewResponse(flow[f].for, flow[f].key))
            /\ UNCHANGED answers
    /\ UNCHANGED <<records, chain, wallet, mcp, sent>>

\* delete_session_key_local: the account on chain stays.
DeleteKey(k) ==
    /\ k \in records
    /\ records' = records \ {k}
    /\ UNCHANGED <<chain, flow, wallet, mcp, history>>

-----------------------------------------------------------------------------

Next ==
    \/ \E p \in Payments : AskPayment(p)
    \/ \E k \in Keys : OfferRenewal(k) \/ StartRenewal(k) \/ DeleteKey(k)
    \/ \E tx \in flight : Settle(tx)
    \/ \E pr \in prompts : SignAndSend(pr) \/ SignOnly(pr) \/ Reject(pr)
    \/ \E o \in offers : OpenWizard(o) \/ AuthorizeExisting(o)
    \/ \E m \in mail : RenewalArrives(m)
    \/ CloseWizard \/ RenewalTimesOut \/ PickWallet \/ Confirm
    \/ \E f \in Flows : TimeOut(f) \/ Create(f) \/ Fund(f) \/ Broadcast(f) \/ Respond(f)

Spec == Init /\ [][Next]_vars

\* The timers of a renewal go off: a minute for the server's request, three for
\* a callback of the wallet.  Nothing else has one: the user, the wallet, the
\* network, the server and the calls over HTTP owe nothing.
FairSpec == Spec /\ WF_vars(RenewalTimesOut) /\ WF_vars(TimeOut("renew"))

-----------------------------------------------------------------------------
(* What the phone's answers about session keys can be relied on for.       *)

\* An authorization names only a key whose session account is on chain: the
\* wizard looks for the account itself, so that it does not matter which of the
\* wallet's answers completed its request (_waitForSessionPdaConfirmed).
AuthorizedKeysAreRegistered ==
    \A a \in answers : a.key # None => a.key \in registered

\* A key that is reported as renewed is registered: the renewal relies on the
\* confirmation of the transaction it broadcast (broadcast_signed_tx) and never
\* looks for the account.  Only while the wallet shows one transaction at a time.
RenewedKeysAreRegistered == \A r \in renewals : r.new \in registered

\* The transfers to a key, those a renewal suggests or both, were broadcast before
\* the key is used in an answer, through rejections, timeouts and the fallback.
AnsweredKeysAreFunded ==
    /\ \A a \in answers : a.key # None =>
           \A asset \in Assets : [what |-> asset, key |-> a.key] \in sent
    /\ \A r \in renewals : \A asset \in Suggested : [what |-> asset, key |-> r.new] \in sent

\* Money is sent only to a key that was registered first.
FundsFollowRegistration ==
    \A tx \in sent : tx.what \in Assets => tx.key \in registered

\* A renewal runs in a call that has no timeout: the choice of a wallet, or HTTP.
Untimed == flow["renew"].step \notin {"closed", "await"} /\ flow["renew"].wait = None

\* A renewal the user started comes to an end, or stands for ever in a call that
\* has no timeout: it outlasts a lost request and every callback of the wallet
\* that does not come, also one that completed the wizard's request instead.
RenewalEnds == flow["renew"].step # "closed" ~> (flow["renew"].step = "closed" \/ []Untimed)

\* By hand: the user is not asked for a transfer that was broadcast before.
\* Broken by the retry of a transfer that was not confirmed in time.
FundedOnce == \A pr \in prompts : pr.tx.what \in Assets => pr.tx \notin sent

\* By hand: a renewal takes a request that the MCP made for the same key.  Broken
\* by the request that stays in _pendingRenewRequest.
RenewalAnswersItsRequest ==
    [][flow["renew"] = Closed /\ flow'["renew"].step = "pick"
            => renewal.old = flow'["renew"].for]_vars

\* By hand: what the app lists as active is registered.  Broken by
\* finalize_phantom_session_key, which comes before the confirmation.
ListedKeysAreRegistered == records \subseteq registered
=============================================================================
