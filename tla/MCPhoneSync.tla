---------------------------- MODULE MCPhoneSync -----------------------------
(* Four parts of the buyer's phone in one instance: catching up with the    *)
(* mediator (PhoneSync), paying a QR code (DirectPay), depositing into the  *)
(* vault (VaultDeposit) and copying its log to IPFS (LogSync).  A behaviour *)
(* is of one of the parts; they share no variable.                          *)
EXTENDS Naturals

CONSTANTS
    Messages, Pulls, PageLimit, Persistent, MaxQueued, MaxRouterRestarts,
    Orders, TokenAccounts, PayTokens, MaxVisits, MaxConfirms, MaxHash, MaxRelayers, MaxLinksLost,
    Deposits, DepositTokens, Supply, MaxDeposits, MaxMailLost, MaxMcpRestarts,
    MaxRows, MaxSyncs, MaxLogRestarts,
    NoOne

VARIABLES
    part,       \* the part whose behaviour this is
    queue, cursor, pull, processed, deposited, restarts,
    screen, visits, connected, connecting, payC, signC, attempts, confirmed, asks, links, requests,
    landed, hash, relayer, shown, left, timedOut, lost,
    channelScreen, sheet, listener, asked, commands, task, vault, late, replies,
    deposits, results, replied, lostDeposits, mcpRestarts,
    table, manifest, returned, call, uploaded, syncs, restored, logRestarts

syncVars == <<queue, cursor, pull, processed, deposited, restarts>>
payVars == <<screen, visits, connected, connecting, payC, signC, attempts, confirmed, asks, links,
             requests, landed, hash, relayer, shown, left, timedOut, lost>>
vaultVars == <<channelScreen, sheet, listener, asked, commands, task, vault, late, replies,
               deposits, results, replied, lostDeposits, mcpRestarts>>
logVars == <<table, manifest, returned, call, uploaded, syncs, restored, logRestarts>>

Sync == INSTANCE PhoneSync WITH MaxRestarts <- MaxRouterRestarts, None <- NoOne

Pay == INSTANCE DirectPay
        WITH Tokens <- PayTokens, MaxAttempts <- MaxConfirms, MaxLost <- MaxLinksLost,
             None <- NoOne, wallet <- connected, prompts <- asks, mcp <- requests

Vault == INSTANCE VaultDeposit
        WITH Amounts <- Deposits, Tokens <- DepositTokens, MaxRequests <- MaxDeposits,
             MaxLost <- MaxMailLost, MaxRestarts <- MaxMcpRestarts, None <- NoOne,
             screen <- channelScreen, queue <- commands, answers <- replies, landed <- deposits,
             shown <- results, lost <- lostDeposits, restarts <- mcpRestarts

Log == INSTANCE LogSync
        WITH MaxAttempts <- MaxSyncs, MaxRestarts <- MaxLogRestarts, None <- NoOne,
             attempts <- syncs, restarts <- logRestarts

ASSUME PhoneAssumption ==
    /\ Sync!PhoneSyncAssumption /\ Pay!DirectPayAssumption
    /\ Vault!VaultDepositAssumption /\ Log!LogSyncAssumption

PartsInit ==
    part \in {"sync", "pay", "vault", "log"} /\ Sync!Init /\ Pay!Init /\ Vault!Init /\ Log!Init

PartsNext ==
    /\ UNCHANGED part
    /\ \/ part = "sync" /\ Sync!Next /\ UNCHANGED <<payVars, vaultVars, logVars>>
       \/ part = "pay" /\ Pay!Next /\ UNCHANGED <<syncVars, vaultVars, logVars>>
       \/ part = "vault" /\ Vault!Next /\ UNCHANGED <<syncVars, payVars, logVars>>
       \/ part = "log" /\ Log!Next /\ UNCHANGED <<syncVars, payVars, vaultVars>>

partsVars == <<part, syncVars, payVars, vaultVars, logVars>>

\* With the fairness of DirectPay and VaultDeposit.
PartsFairness ==
    /\ WF_payVars(\E a \in attempts : part = "pay" /\ Pay!ServiceStep(a) /\ UNCHANGED <<syncVars, vaultVars, logVars, part>>)
    /\ WF_payVars(\E p \in asks : part = "pay" /\ Pay!WalletStep(p) /\ UNCHANGED <<syncVars, vaultVars, logVars, part>>)
    /\ WF_payVars(\E l \in links : part = "pay" /\ Pay!LinkStep(l) /\ UNCHANGED <<syncVars, vaultVars, logVars, part>>)
    /\ WF_vaultVars(part = "vault" /\ Vault!TaskStep /\ UNCHANGED <<syncVars, payVars, logVars, part>>)

PartsSpec == PartsInit /\ [][PartsNext]_partsVars /\ PartsFairness

\* Every message that was not processed is among those the next pull may be
\* shown (PhoneSync, the cursor of the pull loop).
UnreadIsListed == Sync!UnreadIsListed

\* A proof shown as "paid" is the signature of a payment that took the money,
\* one payment is shown as paid once, and as long as nobody leaves a payment
\* under way it is the payment of the order shown (_onQrPaymentResult, the
\* wallet's callbacks).
ShownOrderIsPaid == Pay!ProofsAreOfPayments /\ Pay!ShownOrderIsPaid

\* The wallet payment the user confirmed comes to an end on the screen
\* (executePayment and its completer).
WalletPaymentEnds == Pay!WalletPaymentEnds

\* A deposit moves money at most once, and "success" names one that landed
\* (the mb-deposit task).
SuccessIsDeposited == Vault!SuccessIsDeposited

\* A row of the log that is marked as synced can be restored from IPFS
\* (sync_to_ipfs, mark_synced).
SyncedIsRestorable == Log!SyncedIsRestorable

\* A failing deposit request does not hold up the next one.
RequestIsAnswered == Vault!RequestIsAnswered
=============================================================================
