---------------------------- MODULE VaultDeposit -----------------------------
(***************************************************************************)
(* Depositing into the MagicBlock vault from the phone: the sheet of the   *)
(* channel screen (channel_topology_screen.dart) sends an                  *)
(* mb-deposit-request, the MCP server's task takes the requests one by one *)
(* (main.rs), opens the vault's global state if there is none, deposits,   *)
(* reads the new total and answers.  The agent's vault tools run beside    *)
(* the task and share the buyer's key with it.                             *)
(*                                                                         *)
(* A request carries no identifier: whichever subscription is installed    *)
(* when an answer arrives shows it.  The identifiers below are history.    *)
(***************************************************************************)
EXTENDS Naturals, Sequences, FiniteSets

CONSTANTS
    Amounts,      \* base units a deposit, a cap or a withdrawal may have
    Tokens,       \* the names the sheet's drop-down offers
    Supply,       \* lamports of the buyer's key
    MaxRequests,  \* bound on deposits confirmed on the sheet
    MaxLost,      \* bound on requests and answers that get lost
    MaxRestarts,  \* bound on restarts of the MCP server
    None          \* Dart's null, Rust's None

VaultDepositAssumption ==
    /\ Amounts \subseteq Nat \ {0} /\ IsFiniteSet(Amounts)
    /\ {Supply, MaxRequests, MaxLost, MaxRestarts} \subseteq Nat
    /\ None \notin Nat

VARIABLES
    screen,    \* the ChannelTopologyScreen is open
    sheet,     \* its deposit sheet: "closed", "filling" or "submitting"
    listener,  \* the deposit whose subscription _mbDepositSub holds
    asked,     \* deposits confirmed so far
    queue,     \* the MCP server's channel of MbDepositCommands
    task,      \* the command the deposit task works on
    vault,     \* the buyer's global state of the default mint, and the key's lamports
    late,      \* deposit transactions given up that can still land
    answers,   \* mb-deposit-responses under way
    landed,    \* history: the amounts deposited, per request
    shown,     \* history: answers shown, with the deposit whose listener showed them
    replied,   \* history: requests the server has answered
    lost,      \* history: messages lost
    restarts   \* history: restarts of the server

phone == <<screen, sheet, listener, asked>>
vaultVars == <<phone, queue, task, vault, late, answers, landed, shown, replied, lost, restarts>>

Idle == [phase |-> "idle", request |-> None]
NoDeposits == [r \in 1 .. MaxRequests |-> <<>>]

Init ==
    /\ screen = FALSE /\ sheet = "closed" /\ listener = None /\ asked = 0
    /\ queue = <<>> /\ task = Idle
    /\ vault = [open |-> FALSE, deposited |-> 0, allocated |-> 0, cap |-> None, wallet |-> Supply]
    /\ late = {} /\ answers = {}
    /\ landed = NoDeposits /\ shown = {} /\ replied = {} /\ lost = 0 /\ restarts = 0

-----------------------------------------------------------------------------
(* The phone's screen and sheet.                                           *)

OpenScreen ==
    /\ ~screen
    /\ screen' = TRUE
    /\ UNCHANGED <<sheet, listener, asked, queue, task, vault, late, answers, landed, shown,
                   replied, lost, restarts>>

\* dispose cancels the subscription.
LeaveScreen ==
    /\ screen
    /\ screen' = FALSE /\ sheet' = "closed" /\ listener' = None
    /\ UNCHANGED <<asked, queue, task, vault, late, answers, landed, shown, replied, lost, restarts>>

ShowDepositSheet ==
    /\ screen /\ sheet = "closed"
    /\ sheet' = "filling"
    /\ UNCHANGED <<screen, listener, asked, queue, task, vault, late, answers, landed, shown,
                   replied, lost, restarts>>

\* The sheet can be swiped away, also while it waits.
DismissSheet ==
    /\ sheet # "closed"
    /\ sheet' = "closed"
    /\ UNCHANGED <<screen, listener, asked, queue, task, vault, late, answers, landed, shown,
                   replied, lost, restarts>>

\* main.rs parses the token's name as a public key, which none of the names
\* is: a request for any token is one for the default mint, in base units.
TokenMint(token) == "default"

MbDepositRequest(amount, token) ==
    [id |-> asked + 1, amount |-> amount, token |-> token]

\* onPressed installs the subscription before it sends.
Confirm ==
    /\ sheet = "filling" /\ asked < MaxRequests
    /\ asked' = asked + 1
    /\ listener' = asked + 1
    /\ UNCHANGED <<screen, task, vault, late, answers, landed, shown, replied, restarts>>

\* send_mb_deposit_request, by way of the mediator to the task's channel.
SendMbDepositRequest(amount, token) ==
    /\ Confirm
    /\ sheet' = "submitting"
    /\ \/ queue' = Append(queue, MbDepositRequest(amount, token)) /\ UNCHANGED lost
       \/ lost < MaxLost /\ lost' = lost + 1 /\ UNCHANGED queue

\* No paired MCP or no connection: the button comes back, the subscription stays.
SendFails ==
    /\ Confirm
    /\ UNCHANGED <<sheet, queue, lost>>

-----------------------------------------------------------------------------
(* The MCP server's deposit task.  Every call can fail; a transaction that  *)
(* was not confirmed in time may have landed, or land later.               *)

(* The transactions of the sdk on the buyer's vault: when the program      *)
(* accepts one, and the vault it leaves.                                   *)

Tx(accepted, after) == [accepted |-> accepted, vault |-> after]

BuildInitializeGlobalTx == Tx(~vault.open, [vault EXCEPT !.open = TRUE])

BuildDepositTx(amount) ==
    Tx(vault.open /\ amount <= vault.wallet,
       [vault EXCEPT !.deposited = @ + amount, !.wallet = @ - amount])

BuildInitializeChannelTx(cap) ==
    Tx(vault.open /\ vault.cap = None /\ vault.allocated + cap <= vault.deposited,
       [vault EXCEPT !.cap = cap, !.allocated = @ + cap])

\* Lowering a cap returns nothing to the allocation.
BuildUpdateSpendingCapTx(cap) ==
    LET more == IF vault.cap = None \/ cap <= vault.cap THEN 0 ELSE cap - vault.cap
    IN  Tx(vault.cap # None /\ vault.allocated + more <= vault.deposited,
           [vault EXCEPT !.cap = cap, !.allocated = @ + more])

BuildWithdrawTx(amount) ==
    Tx(vault.open /\ vault.allocated + amount <= vault.deposited,
       [vault EXCEPT !.deposited = @ - amount, !.wallet = @ + amount])

Send(tx) == tx.accepted /\ vault' = tx.vault

Reply(success, total) ==
    /\ replied' = replied \cup {task.request.id}
    /\ \/ /\ answers' = answers \cup {[id |-> task.request.id, success |-> success,
                                       amount |-> task.request.amount, total |-> total]}
          /\ UNCHANGED lost
       \/ lost < MaxLost /\ lost' = lost + 1 /\ UNCHANGED answers

\* Fault: a failed deposit ends the loop instead of continuing with the next.
ReplyErrorAndStop ==
    /\ Reply(FALSE, None)
    /\ task' = [task EXCEPT !.phase = "stopped"]

SendMbDepositError ==
    /\ Reply(FALSE, None)
    /\ task' = Idle

\* get_account(..).is_ok(): a failing call counts as a missing account.
TakeRequest ==
    /\ task = Idle /\ queue # <<>>
    /\ queue' = Tail(queue)
    /\ \E exists \in {vault.open, FALSE} :
           task' = [phase |-> IF exists THEN "deposit" ELSE "init", request |-> Head(queue)]
    /\ UNCHANGED <<phone, vault, late, answers, landed, shown, replied, lost, restarts>>

InitGlobal ==
    /\ task.phase = "init"
    /\ \/ /\ Send(BuildInitializeGlobalTx)
          /\ \/ task' = [task EXCEPT !.phase = "deposit"] /\ UNCHANGED <<answers, replied, lost>>
             \/ SendMbDepositError
       \/ SendMbDepositError /\ UNCHANGED vault
    /\ UNCHANGED <<phone, queue, late, landed, shown, restarts>>

Land(request) ==
    /\ Send(BuildDepositTx(request.amount))
    /\ landed' = [landed EXCEPT ![request.id] = Append(@, request.amount)]

\* Fault: the deposit is sent and not confirmed.
DepositSent ==
    /\ task' = [task EXCEPT !.phase = "total"]
    /\ \/ Land(task.request) /\ UNCHANGED late
       \/ late' = late \cup {task.request} /\ UNCHANGED <<vault, landed>>
    /\ UNCHANGED <<answers, replied, lost>>

DepositConfirmed ==
    \/ /\ Land(task.request)
       /\ task' = [task EXCEPT !.phase = "total"]
       /\ UNCHANGED <<late, answers, replied, lost>>
    \/ Land(task.request) /\ SendMbDepositError /\ UNCHANGED late
    \/ /\ SendMbDepositError
       /\ late' \in {late, late \cup {task.request}}
       /\ UNCHANGED <<vault, landed>>

Deposit ==
    /\ task.phase = "deposit"
    /\ DepositConfirmed
    /\ UNCHANGED <<phone, queue, shown, restarts>>

\* The total is whatever the account holds by then, or missing.
ReplySuccess ==
    /\ task.phase = "total"
    /\ \E total \in {vault.deposited, None} : Reply(TRUE, total)
    /\ task' = Idle
    /\ UNCHANGED <<phone, queue, vault, late, landed, shown, restarts>>

LandLate(request) ==
    /\ request \in late
    /\ late' = late \ {request}
    /\ Land(request)
    /\ UNCHANGED <<phone, queue, task, answers, shown, replied, lost, restarts>>

\* A restart empties the channel; the buyer's key is kept in sled.
Restart ==
    /\ restarts < MaxRestarts
    /\ restarts' = restarts + 1
    /\ queue' = <<>> /\ task' = Idle
    /\ UNCHANGED <<phone, vault, late, answers, landed, shown, replied, lost>>

-----------------------------------------------------------------------------
(* The agent's tools on the same vault.                                     *)

Tool(tx) ==
    /\ Send(tx)
    /\ UNCHANGED <<phone, queue, task, late, answers, landed, shown, replied, lost, restarts>>

MbInitGlobal == Tool(BuildInitializeGlobalTx)
MbDeposit(amount) == Tool(BuildDepositTx(amount))
MbCreateChannel(cap) == Tool(BuildInitializeChannelTx(cap))
MbUpdateSpendingCap(cap) == Tool(BuildUpdateSpendingCapTx(cap))
MbWithdraw(amount) == Tool(BuildWithdrawTx(amount))

-----------------------------------------------------------------------------
(* mbDepositResults: a broadcast stream that nobody may listen to.  The     *)
(* listener pops the top route, be it the sheet or the screen itself.      *)

OnMbDepositResult(a) ==
    /\ a \in answers
    /\ answers' = answers \ {a}
    /\ IF listener = None THEN UNCHANGED <<screen, sheet, listener, shown>>
       ELSE /\ shown' = shown \cup {[listener |-> listener, answer |-> a]}
            /\ sheet' = "closed"
            /\ IF sheet = "closed" THEN screen' = FALSE /\ listener' = None
                                   ELSE UNCHANGED <<screen, listener>>
    /\ UNCHANGED <<asked, queue, task, vault, late, landed, replied, lost, restarts>>

-----------------------------------------------------------------------------
PhoneStep ==
    \/ OpenScreen \/ LeaveScreen \/ ShowDepositSheet \/ DismissSheet
    \/ \E a \in Amounts, t \in Tokens : SendMbDepositRequest(a, t)
    \/ SendFails
    \/ \E a \in answers : OnMbDepositResult(a)

TaskStep == TakeRequest \/ InitGlobal \/ Deposit \/ ReplySuccess

ToolStep ==
    \/ MbInitGlobal
    \/ \E a \in Amounts :
        MbDeposit(a) \/ MbCreateChannel(a) \/ MbUpdateSpendingCap(a) \/ MbWithdraw(a)

Next ==
    \/ PhoneStep
    \/ TaskStep
    \/ ToolStep
    \/ \E r \in late : LandLate(r)
    \/ Restart

Spec == Init /\ [][Next]_vaultVars

\* The server's task runs on: each of its calls returns or times out.
FairSpec == Spec /\ WF_vaultVars(TaskStep)

-----------------------------------------------------------------------------
(* A deposit confirmed on the sheet moves money at most once, and the       *)
(* answer "success" is only given when that one deposit, of the amount it   *)
(* names, has landed: across restarts, calls that fail half way and the     *)
(* agent's own deposits (main.rs, the mb-deposit task).                     *)
SuccessIsDeposited ==
    /\ \A r \in 1 .. MaxRequests : Len(landed[r]) <= 1
    /\ \A a \in answers \cup {s.answer : s \in shown} :
           a.success => landed[a.id] = <<a.amount>>

(* Every request the server has queued is answered or forgotten in a        *)
(* restart; a request that fails does not hold up the next one.             *)
RequestIsAnswered ==
    \A r \in 1 .. MaxRequests :
        (\E i \in DOMAIN queue : queue[i].id = r) ~> (r \in replied \/ restarts > 0)

-----------------------------------------------------------------------------
(* What the screen says, and the code does not keep.                        *)

(* The result shown is that of the deposit the user waits for.              *)
ShownIsOwnAnswer == \A s \in shown : s.answer.id = s.listener

(* "Deposit failed": nothing was deposited, and nothing will be.            *)
FailureIsNotDeposited ==
    \A s \in shown : ~s.answer.success => landed[s.answer.id] = <<>>

(* An answer closes the sheet it was asked on, and never the screen.        *)
AnswerClosesTheSheet ==
    [][\A a \in answers : OnMbDepositResult(a) => screen' = screen]_vaultVars

(* The sheet does not wait for ever.                                        *)
SheetStopsWaiting == (sheet = "submitting") ~> (sheet # "submitting")
=============================================================================
