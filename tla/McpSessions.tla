---------------------------- MODULE McpSessions -----------------------------
(***************************************************************************)
(* The session keys of the buyer's MCP server: SessionManager's records in *)
(* sled (ignite-pay-solana/src/session.rs), the client that pays with them *)
(* through the session program (payment.rs), the tools create_session,     *)
(* close_session and execute_spl_payment, and the renewal of a key that    *)
(* runs out.  See SessionKey for the program and PaymentFlow for what      *)
(* happens before a payment.                                               *)
(*                                                                         *)
(* A tool runs in a task of its own, and no lock orders the tools among    *)
(* themselves or with a payment under payment_mutex.  record_spent reads   *)
(* a record, adds to it and inserts it again, in two steps of the store.   *)
(***************************************************************************)
EXTENDS Naturals, FiniteSets, FiniteSetsExt

CONSTANTS
    Keys,          \* the session keys, in the byte order of their names in sled
    Limits,        \* the spending limits asked for
    Amounts,       \* the amounts paid
    SplKinds,      \* whether sessions and payments are of an SPL token
    LimitFactor,   \* create_session_key_for_request multiplies by this (10)
    MaxCalls,      \* bound on payments
    MaxRenewals,   \* bound on renewals asked for
    MaxLost,       \* bound on confirmations lost
    None

McpSessionsAssumption ==
    /\ Keys \subseteq Nat /\ IsFiniteSet(Keys)
    /\ SplKinds \subseteq BOOLEAN
    /\ Limits \subseteq Nat /\ Amounts \subseteq Nat \ {0}
    /\ {LimitFactor, MaxCalls, MaxRenewals, MaxLost} \subseteq Nat
    /\ None \notin Nat \cup [limit : Nat, spent : Nat, mint : BOOLEAN]

VARIABLES
    store,      \* SessionManager's record of each key, or None
    age,        \* each key is "unused", "fresh", "expiring" (5 minutes left) or "expired"
    account,    \* the session account of each key on the chain, or None
    calls,      \* tasks that register a key or pay
    started,    \* payments started so far
    pending,    \* pending_renew: the task waiting for the answer about each key
    requests,   \* renewal requests the phone has
    renewals,   \* renewals asked for so far
    landed,     \* history: what each key paid on the chain
    closed,     \* history: the keys the agent closed
    raced,      \* history: the keys whose record two tasks changed at a time
    regranted,  \* history: the keys the phone granted
    unseen      \* history: payments whose confirmation was lost

mcpVars == <<store, age, account, calls, started, pending, requests, renewals,
             landed, closed, raced, regranted, unseen>>
renewing == <<pending, requests, renewals>>
history == <<closed, raced, regranted, unseen>>

Init ==
    /\ store = [k \in Keys |-> None]
    /\ age = [k \in Keys |-> "unused"]
    /\ account = [k \in Keys |-> None]
    /\ calls = {} /\ started = 0
    /\ pending = [k \in Keys |-> None] /\ requests = {} /\ renewals = 0
    /\ landed = [k \in Keys |-> 0]
    /\ closed = {} /\ raced = {} /\ regranted = {} /\ unseen = 0

Unused == {k \in Keys : age[k] = "unused"}

\* Both of create_session's and the phone's keys start with nothing spent;
\* only the phone's records name their token.
Record(limit, mint) == [limit |-> limit, spent |-> 0, mint |-> mint]
Create(k, limit, mint) ==
    /\ store' = [store EXCEPT ![k] = Record(limit, mint)]
    /\ age' = [age EXCEPT ![k] = "fresh"]

\* get_active_session: the first record that has not expired.
Live == {k \in Keys : store[k] # None /\ age[k] # "expired"}
Active == IF Live = {} THEN None ELSE Min(Live)

\* A task that will change a record, or has read it and not written it yet.
Busy(k) == {c \in calls : c.key = k /\ c.stage \in {"recording", "writing"}}

-----------------------------------------------------------------------------
(* The tools.                                                              *)

\* The record is there before the key is registered, and stays if it never is.
CreateSession(k, limit, spl, onChain) ==
    /\ k \in Unused
    /\ Create(k, limit, FALSE)
    /\ calls' = IF onChain
                THEN calls \cup {[id |-> 0, kind |-> "create", key |-> k, amount |-> limit, spl |-> spl,
                                  source |-> "session", stage |-> "sending", seen |-> None, due |-> 0]}
                ELSE calls
    /\ UNCHANGED <<account, started, renewing, landed, history>>

Registered(k, limit, spl) ==
    account' = [account EXCEPT ![k] = [limit |-> limit, spent |-> 0, spl |-> spl]]

RegisterSessionOnChain(c) ==
    /\ c.kind = "create"
    /\ calls' = calls \ {c}
    /\ \/ Registered(c.key, c.amount, c.spl)
       \/ UNCHANGED account
    /\ UNCHANGED <<store, age, started, renewing, landed, history>>

\* close_session_refund signs withdraw_remaining with the session key alone,
\* where the owner must sign: it panics as long as the account has a balance,
\* and an account has its rent.
Refundable(k) == account[k] = None

\* Fault: the record is marked by clearing what was spent.
CloseByClearing(k, refund) ==
    /\ store[k] # None
    /\ refund => Refundable(k)
    /\ store' = [store EXCEPT ![k].spent = 0]
    /\ closed' = closed \cup {k}
    /\ raced' = IF Busy(k) = {} THEN raced ELSE raced \cup {k}
    /\ UNCHANGED <<age, account, calls, started, renewing, landed, regranted, unseen>>

CloseSession(k, refund) ==
    /\ store[k] # None
    /\ refund => Refundable(k)
    /\ store' = [store EXCEPT ![k] = None]
    /\ closed' = closed \cup {k}
    /\ raced' = IF Busy(k) = {} THEN raced ELSE raced \cup {k}
    /\ UNCHANGED <<age, account, calls, started, renewing, landed, regranted, unseen>>

-----------------------------------------------------------------------------
(* Paying.                                                                 *)

Start(kind, spl, source, a, due) ==
    /\ started < MaxCalls
    /\ Active # None
    /\ store[Active].spent + a <= store[Active].limit
    /\ started' = started + 1
    /\ calls' = calls \cup {[id |-> started + 1, kind |-> kind, key |-> Active, amount |-> a,
                            spl |-> spl, source |-> source, stage |-> "sending", seen |-> None,
                            due |-> due]}
    /\ UNCHANGED <<store, age, account, renewing, landed, history>>

\* execute_spl_payment derives the payer's token account from the session key,
\* not from the session account, unless the agent names another.
ExecuteSplPayment(a, source) == Start("tool", TRUE, source, a, 1)

\* execute_payment_atomic holds payment_mutex; the client records what was
\* spent, and execute_payment_atomic records it again.
ExecutePayment(a, spl) ==
    /\ \A c \in calls : c.kind # "atomic"
    /\ Start("atomic", spl, "session", a, 2)

\* The instruction names the session account, the scope and the amount.
PaymentIx(c) == [key |-> c.key, amount |-> c.amount, spl |-> c.spl, source |-> c.source]

ChainTakes(ix) ==
    /\ account[ix.key] # None
    /\ age[ix.key] # "expired"
    /\ ix.source = "session"
    /\ ix.spl = account[ix.key].spl
    /\ account[ix.key].spent + ix.amount <= account[ix.key].limit

Land(ix) ==
    /\ account' = [account EXCEPT ![ix.key].spent = account[ix.key].spent + ix.amount]
    /\ landed' = [landed EXCEPT ![ix.key] = landed[ix.key] + ix.amount]

Stage(c, stage) == calls' = (calls \ {c}) \cup {[c EXCEPT !.stage = stage]}

\* Confirmed, confirmed unseen, or refused.
Send(c) ==
    /\ c.stage = "sending"
    /\ \/ ChainTakes(PaymentIx(c)) /\ Land(PaymentIx(c)) /\ Stage(c, "recording") /\ UNCHANGED unseen
       \/ /\ ChainTakes(PaymentIx(c)) /\ Land(PaymentIx(c))
          /\ unseen < MaxLost /\ unseen' = unseen + 1
          /\ calls' = calls \ {c}
       \/ calls' = calls \ {c} /\ UNCHANGED <<account, landed, unseen>>
    /\ UNCHANGED <<store, age, started, renewing, closed, raced, regranted>>

\* With the session key as the payer of the fee.
SendTransaction(c) == c.kind # "create" /\ Send(c)

\* With the relayer as the payer; the tool never asks it.
SendToRelayer(c) == c.kind = "atomic" /\ Send(c)

\* record_spent does nothing for a key that is not in the store.
RecordRead(c) ==
    /\ c.stage = "recording"
    /\ calls' = IF store[c.key] = None THEN calls \ {c}
                ELSE (calls \ {c}) \cup {[c EXCEPT !.stage = "writing", !.seen = store[c.key]]}
    /\ raced' = IF \E d \in Busy(c.key) : d # c /\ d.stage = "writing"
                THEN raced \cup {c.key} ELSE raced
    /\ UNCHANGED <<store, age, account, started, renewing, landed, closed, regranted, unseen>>

\* Fault: what was spent is replaced, not added to.
SpentReplaced(c) == [c.seen EXCEPT !.spent = c.amount]

Spent(c) == [c.seen EXCEPT !.spent = c.seen.spent + c.amount]

RecordWrite(c) ==
    /\ c.stage = "writing"
    /\ store' = [store EXCEPT ![c.key] = Spent(c)]
    /\ calls' = (calls \ {c}) \cup
                    IF c.due = 1 THEN {}
                    ELSE {[c EXCEPT !.stage = "recording", !.due = 1, !.seen = None]}
    /\ UNCHANGED <<age, account, started, renewing, landed, history>>

\* The server stops with its tasks; what landed and is not recorded is lost.
Restart ==
    /\ calls # {}
    /\ unseen' = unseen + Cardinality({c \in calls : c.stage \in {"recording", "writing"}})
    /\ unseen' <= MaxLost
    /\ calls' = {} /\ pending' = [k \in Keys |-> None]
    /\ UNCHANGED <<store, age, account, started, requests, renewals, landed, closed, raced, regranted>>

-----------------------------------------------------------------------------
(* Renewal, and keys from the phone.                                       *)

NewKey(k, amount, mint) == Create(k, amount * LimitFactor, FALSE)

\* The monitor, or the handler of the phone's rotate trigger: the new key is
\* stored before the phone is asked, the answer is awaited by the old one.
Renew(by, k) ==
    /\ Active # None /\ k \in Unused
    /\ renewals < MaxRenewals
    /\ \A o \in Keys : pending[o] # by
    /\ NewKey(k, store[Active].limit, store[Active].mint)
    /\ pending' = [pending EXCEPT ![Active] = by]
    /\ requests' = requests \cup {[old |-> Active, new |-> k, spl |-> store[Active].mint]}
    /\ renewals' = renewals + 1
    /\ UNCHANGED <<account, calls, started, landed, history>>

CheckAndRenewSession(k) ==
    /\ Active # None
    /\ age[Active] = "expiring"
    /\ Renew("monitor", k)

CreateAndSendRenewRequest(k) == Renew("trigger", k)

\* The phone registers the new key with a limit of the user's, or declines.
PhoneAnswers(r, limit) ==
    /\ requests' = requests \ {r}
    /\ pending' = [pending EXCEPT ![r.old] = None]
    /\ \/ Registered(r.new, limit, r.spl)
       \/ UNCHANGED account
    /\ UNCHANGED <<store, age, calls, started, renewals, landed, history>>

\* The wait ends after 60 seconds; an answer that comes later wakes nobody.
RenewalTimesOut(k) ==
    /\ pending[k] # None
    /\ pending' = [pending EXCEPT ![k] = None]
    /\ UNCHANGED <<store, age, account, calls, started, requests, renewals, landed, history>>

\* get_session_from_auth_response: a key of the phone's, new or granted before,
\* stored over what was recorded of it.
GrantKey(k, limit, spl) ==
    /\ k \in Unused \cup regranted
    /\ age[k] # "expired"
    /\ store' = [store EXCEPT ![k] = Record(limit, spl)]
    /\ age' = [age EXCEPT ![k] = IF age[k] = "unused" THEN "fresh" ELSE age[k]]
    /\ IF account[k] = None THEN Registered(k, limit, spl) ELSE UNCHANGED account
    /\ regranted' = regranted \cup {k}
    /\ UNCHANGED <<calls, started, renewing, landed, closed, raced, unseen>>

TimePasses(k) ==
    /\ age[k] \in {"fresh", "expiring"}
    /\ age' = [age EXCEPT ![k] = IF age[k] = "fresh" THEN "expiring" ELSE "expired"]
    /\ UNCHANGED <<store, account, calls, started, renewing, landed, history>>

-----------------------------------------------------------------------------
ToolStep ==
    \/ \E k \in Keys, l \in Limits, spl \in SplKinds, onChain \in BOOLEAN : CreateSession(k, l, spl, onChain)
    \/ \E k \in Keys, refund \in BOOLEAN : CloseSession(k, refund)
    \/ \E a \in Amounts, source \in {"key", "session"} : ExecuteSplPayment(a, source)
    \/ \E a \in Amounts, spl \in SplKinds : ExecutePayment(a, spl)

CallStep(c) ==
    \/ RegisterSessionOnChain(c)
    \/ SendTransaction(c)
    \/ SendToRelayer(c)
    \/ RecordRead(c)
    \/ RecordWrite(c)

Next ==
    \/ ToolStep
    \/ \E c \in calls : CallStep(c)
    \/ Restart
    \/ \E k \in Keys : CheckAndRenewSession(k) \/ CreateAndSendRenewRequest(k)
    \/ \E r \in requests, l \in Limits : PhoneAnswers(r, l)
    \/ \E k \in Keys : RenewalTimesOut(k) \/ TimePasses(k)
    \/ \E k \in Keys, l \in Limits, spl \in SplKinds : GrantKey(k, l, spl)

Spec == Init /\ [][Next]_mcpVars

-----------------------------------------------------------------------------
(* What the store must say of the keys.                                    *)

Sum(S) == SumFunctionOnSet([c \in S |-> c.amount], S)
Unrecorded(k) == {c \in Busy(k) : c.due = 2 \/ c.kind = "tool"}

\* The server checks a payment against its own count: what a key paid on the
\* chain is counted, or about to be, unless its confirmation was lost, two
\* tasks changed the record at a time or the phone granted the key again.
SpendingIsCounted ==
    \A k \in Keys :
        (store[k] # None /\ k \notin raced \cup regranted \cup closed /\ unseen = 0)
            => landed[k] <= store[k].spent + Sum(Unrecorded(k))

\* A key the agent closed stays closed, unless a payment of it was being
\* recorded when it was closed or the phone granted it again.
ClosedStaysClosed ==
    \A k \in closed : store[k] = None \/ k \in raced \cup regranted

-----------------------------------------------------------------------------
(* What one would also expect, and the code does not keep.                 *)

\* A closed key stays closed.
ClosedIsForGood == \A k \in closed \ regranted : store[k] = None

\* What a key paid is counted whenever its record is there.
SpendingIsAlwaysCounted ==
    \A k \in Keys :
        (store[k] # None /\ k \notin regranted /\ unseen = 0)
            => landed[k] <= store[k].spent + Sum(Unrecorded(k))

\* The key a payment would use is registered as soon as any key is.
ActiveIsRegistered ==
    (\E k \in Live : account[k] # None) => account[Active] # None
=============================================================================
