---------------------------- MODULE MCSessionKey ----------------------------
(* What limits the buyer's spending, in one instance: the session-key       *)
(* program (SessionKey), the keys of the buyer's MCP server (McpSessions),  *)
(* and its lists and vouchers (PaymentFlow, with a threshold, a QR order    *)
(* and answers that change the lists).  A behaviour is of one of the parts; *)
(* they share no variable, and the server's chain is its own abstraction of *)
(* the program.                                                             *)
EXTENDS SessionKeyProperties

CONSTANTS
    None,
    ServerKeys, ServerLimits, ServerAmounts, SplKinds, ServerFactor,
    MaxCalls, MaxRenewals, MaxLost,                 \* of McpSessions
    Challenges, QrPayments, Merchants, MerchantOf, AmountOf, FlowKeys, AutoApproveMax,
    Vault, FlowFactor, ListMaxima, Answers, ChainLimits, LostReplies,
    MaxFlowPayments, MaxCrashes,                    \* of PaymentFlow
    b, q, m                                         \* two payments and a merchant

\* A challenge b of 2 and a QR order q of 1 at one merchant, answers that change
\* the lists, choose the method or bring a key along.
MCMerchantOf == [p \in {b, q} |-> m]
MCAmountOf == [p \in {b, q} |-> IF p = b THEN 2 ELSE 1]
ListAnswer(action, method, secret) ==
    [yes |-> TRUE, action |-> action, max |-> 2, method |-> method, secret |-> secret]
MCAnswers == {ListAnswer("add_whitelist", "auto", TRUE),
              ListAnswer("add_blacklist", "session_key", FALSE),
              ListAnswer("remove_whitelist", "magicblock", FALSE),
              ListAnswer("remove_blacklist", "auto", FALSE)}

VARIABLES
    part,       \* the part whose behaviour this is
    store, age, account, calls, started, pending, requests, renewals,
    landed, closed, raced, regranted, unseen,
    status, keyStore, whitelist, blacklist, merchantSpent, vouchers, task, pendingAuth, pendingFund,
    holder, answer, asked, fundAsked, offered, chain, expired, timesPaid, given, lost, crashes

serverVars == <<store, age, account, calls, started, pending, requests, renewals,
                landed, closed, raced, regranted, unseen>>
flowVars == <<status, keyStore, whitelist, blacklist, merchantSpent, vouchers, task, pendingAuth,
              pendingFund, holder, answer, asked, fundAsked, offered, chain, expired, timesPaid,
              given, lost, crashes>>

Server == INSTANCE McpSessions
            WITH Keys <- ServerKeys, Limits <- ServerLimits, Amounts <- ServerAmounts,
                 LimitFactor <- ServerFactor

Flow == INSTANCE PaymentFlowProperties
            WITH Keys <- FlowKeys, LimitFactor <- FlowFactor, MaxPayments <- MaxFlowPayments,
                 sessions <- keyStore, pending <- pendingAuth, paid <- timesPaid

ASSUME PartsAssumption == Server!McpSessionsAssumption /\ Flow!PaymentFlowAssumption

PartsInit ==
    /\ part \in {"program", "server", "flow"}
    /\ Init /\ Server!Init /\ Flow!Init
    /\ part # "flow" => whitelist = [x \in Merchants |-> None]

PartsNext ==
    /\ UNCHANGED part
    /\ \/ part = "program" /\ Next
       \/ part # "program" /\ UNCHANGED vars
    /\ \/ part = "server" /\ Server!Next
       \/ part # "server" /\ UNCHANGED serverVars
    /\ \/ part = "flow" /\ Flow!Next
       \/ part # "flow" /\ UNCHANGED flowVars

PartsSpec == PartsInit /\ [][PartsNext]_<<part, vars, serverVars, flowVars>>

\* What a key paid is counted in the server's store, or about to be
\* (SessionManager::record_spent).
SpendingIsCounted == part = "server" => Server!SpendingIsCounted

\* A key the agent closed stays closed (close_session against record_spent).
ClosedStaysClosed == part = "server" => Server!ClosedStaysClosed

\* No voucher of the server is overwritten by another payment's
\* (mb_sign_voucher, the QR payments and execute_payment).
VouchersAreKept == part = "flow" => Flow!VouchersAreKept
=============================================================================
