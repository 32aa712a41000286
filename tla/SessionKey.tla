----------------------------- MODULE SessionKey -----------------------------
(***************************************************************************)
(* The session-key program (ignite-pay-session-program): an owner escrows  *)
(* SOL and SPL tokens in a program account (a PDA per owner and ephemeral  *)
(* signer) and the signer pays from it within limits.  One PDA: sessions   *)
(* share nothing but the owner's wallet.  An instruction is atomic; the    *)
(* runtime refuses a transaction that leaves the account below the         *)
(* rent-exempt balance but not empty, and deletes an empty account.        *)
(***************************************************************************)
EXTENDS Integers, Sequences

CONSTANTS
    Supply,          \* lamports the owner starts with
    TokenSupply,     \* SPL tokens the owner starts with
    Rent,            \* the rent-exempt minimum of the session account
    Day,             \* the length of the window of the count limit (86400 s)
    Amounts,         \* amounts an instruction or a transfer may carry
    Limits,          \* spending limits a session may be registered with
    PerTxLimits,     \* limits per payment, 0 for none
    DailyLimits,     \* limits on payments per window, 0 for none
    Lifetimes,       \* how long a session may be registered for
    MaxNow,          \* bound on the clock
    MaxSessions,     \* bound on registrations
    MaxPayments      \* bound on payments of one session

Scopes == {"sol:transfer", "spl:transfer"}

ASSUME SessionAssumption ==
    /\ Supply \in Nat /\ TokenSupply \in Nat
    /\ Rent \in Nat \ {0} /\ Day \in Nat \ {0}
    /\ Amounts \subseteq Nat /\ Limits \subseteq Nat /\ PerTxLimits \subseteq Nat
    /\ DailyLimits \subseteq Nat /\ Lifetimes \subseteq Nat \ {0}
    /\ MaxNow \in Nat /\ MaxSessions \in Nat /\ MaxPayments \in Nat

VARIABLES
    session,         \* the SessionKeyAccount, its existence as field open
    lamports,        \* lamports of the session account
    tokens,          \* tokens of the session account's ATA
    wallet,          \* lamports of the owner
    tokenWallet,     \* tokens of the owner
    now,             \* Clock::unix_timestamp
    sessions,        \* history: registrations so far
    payments,        \* history: the payments of this session, in order
    received,        \* history: lamports recipients got
    receivedTokens,  \* history: tokens recipients got
    paid             \* history: what this session paid, SOL and SPL together

vars == <<session, lamports, tokens, wallet, tokenWallet, now, sessions,
          payments, received, receivedTokens, paid>>
history == <<payments, received, receivedTokens, paid>>

NoSession ==
    [open |-> FALSE, spl |-> FALSE, scopes |-> {}, expires_at |-> 0,
     spending_limit |-> 0, current_spent |-> 0, per_tx_limit |-> 0,
     daily_tx_count_limit |-> 0, current_daily_count |-> 0,
     last_daily_reset |-> 0, revoked |-> FALSE]

Init ==
    /\ session = NoSession
    /\ lamports = 0 /\ tokens = 0
    /\ wallet = Supply /\ tokenWallet = TokenSupply
    /\ now = 0 /\ sessions = 0
    /\ payments = <<>> /\ paid = 0
    /\ received = 0 /\ receivedTokens = 0

-----------------------------------------------------------------------------
RegisterSessionKey(spl, scopes, life, limit, perTx, daily) ==
    /\ sessions < MaxSessions
    /\ ~session.open
    /\ scopes # {}
    /\ wallet >= Rent
    /\ session' = [open |-> TRUE, spl |-> spl, scopes |-> scopes,
                   expires_at |-> now + life, spending_limit |-> limit,
                   current_spent |-> 0, per_tx_limit |-> perTx,
                   daily_tx_count_limit |-> daily, current_daily_count |-> 0,
                   last_daily_reset |-> now, revoked |-> FALSE]
    /\ lamports' = Rent
    /\ wallet' = wallet - Rent
    /\ sessions' = sessions + 1
    /\ payments' = <<>> /\ paid' = 0
    /\ UNCHANGED <<tokens, tokenWallet, now, received, receivedTokens>>

FundSol(a) ==
    /\ session.open
    /\ a <= wallet
    /\ wallet' = wallet - a
    /\ lamports' = lamports + a
    /\ UNCHANGED <<session, tokens, tokenWallet, now, sessions, history>>

FundTokens(a) ==
    /\ session.open
    /\ a <= tokenWallet
    /\ tokenWallet' = tokenWallet - a
    /\ tokens' = tokens + a
    /\ UNCHANGED <<session, lamports, wallet, now, sessions, history>>

-----------------------------------------------------------------------------
(* A payment: the checks and the bookkeeping both instructions share.      *)

WindowElapsed == now - session.last_daily_reset >= Day
DailyCount == IF WindowElapsed THEN 0 ELSE session.current_daily_count

\* Fault: the limit is compared with what was spent before this payment.
MayPayCheckedBefore(a, scope) ==
    /\ session.open /\ ~session.revoked
    /\ now < session.expires_at
    /\ scope \in session.scopes
    /\ session.per_tx_limit > 0 => a <= session.per_tx_limit
    /\ session.daily_tx_count_limit > 0 => DailyCount + 1 <= session.daily_tx_count_limit
    /\ session.current_spent <= session.spending_limit

\* Any scope of the session will do, for either instruction.
MayPay(a, scope) ==
    /\ session.open /\ ~session.revoked
    /\ now < session.expires_at
    /\ scope \in session.scopes
    /\ session.per_tx_limit > 0 => a <= session.per_tx_limit
    /\ session.daily_tx_count_limit > 0 => DailyCount + 1 <= session.daily_tx_count_limit
    /\ session.current_spent + a <= session.spending_limit

\* Fault: the count starts again but the window does not move.
SpendSameWindow(a) ==
    [session EXCEPT !.current_spent = session.current_spent + a,
                    !.current_daily_count = DailyCount + 1]

\* Fault: a new window clears the total spent as well.
SpendDaily(a) ==
    [session EXCEPT !.current_spent = IF WindowElapsed THEN a ELSE session.current_spent + a,
                    !.current_daily_count = DailyCount + 1,
                    !.last_daily_reset = IF WindowElapsed THEN now ELSE session.last_daily_reset]

Spend(a) ==
    [session EXCEPT !.current_spent = session.current_spent + a,
                    !.current_daily_count = DailyCount + 1,
                    !.last_daily_reset = IF WindowElapsed THEN now ELSE session.last_daily_reset]

Record(a, kind, scope) ==
    /\ Len(payments) < MaxPayments
    /\ payments' = Append(payments, [time |-> now, kind |-> kind, scope |-> scope])
    /\ paid' = paid + a

\* The runtime's rent check and its deletion of empty accounts.
RentHolds(balance) == balance = 0 \/ balance >= Rent

\* A payment of the whole balance deletes the session account.
ExecutePayment(a, scope) ==
    /\ MayPay(a, scope)
    /\ a <= lamports
    /\ RentHolds(lamports - a)
    /\ lamports' = lamports - a
    /\ session' = IF lamports' = 0 THEN NoSession ELSE Spend(a)
    /\ received' = received + a
    /\ Record(a, "sol:transfer", scope)
    /\ UNCHANGED <<tokens, wallet, tokenWallet, now, sessions, receivedTokens>>

ExecuteSplPayment(a, scope) ==
    /\ MayPay(a, scope)
    /\ session.spl
    /\ a <= tokens
    /\ tokens' = tokens - a
    /\ session' = Spend(a)
    /\ receivedTokens' = receivedTokens + a
    /\ Record(a, "spl:transfer", scope)
    /\ UNCHANGED <<lamports, wallet, tokenWallet, now, sessions, received>>

-----------------------------------------------------------------------------
(* The owner takes back what is left, at any time while the account exists.*)

\* Fault: the rent is withdrawn too.
WithdrawAll ==
    /\ session.open
    /\ lamports > Rent
    /\ lamports' = 0
    /\ wallet' = wallet + lamports
    /\ UNCHANGED <<session, tokens, tokenWallet, now, sessions, history>>

\* Fault: the owner is credited the whole balance.
WithdrawTooMuch ==
    /\ session.open
    /\ lamports > Rent
    /\ lamports' = Rent
    /\ wallet' = wallet + lamports
    /\ UNCHANGED <<session, tokens, tokenWallet, now, sessions, history>>

WithdrawRemaining ==
    /\ session.open
    /\ lamports > Rent
    /\ lamports' = Rent
    /\ wallet' = wallet + (lamports - Rent)
    /\ UNCHANGED <<session, tokens, tokenWallet, now, sessions, history>>

WithdrawSplRemaining(a) ==
    /\ session.open
    /\ a <= tokens
    /\ tokens' = tokens - a
    /\ tokenWallet' = tokenWallet + a
    /\ UNCHANGED <<session, lamports, wallet, now, sessions, history>>

\* Fault: revoking moves the expiry into the past.
RevokeByExpiry ==
    /\ session.open
    /\ ~session.revoked
    /\ session' = [session EXCEPT !.revoked = TRUE, !.expires_at = now - 1]
    /\ UNCHANGED <<lamports, tokens, wallet, tokenWallet, now, sessions, history>>

RevokeSession ==
    /\ session.open
    /\ ~session.revoked
    /\ session' = [session EXCEPT !.revoked = TRUE]
    /\ UNCHANGED <<lamports, tokens, wallet, tokenWallet, now, sessions, history>>

\* The account's lamports go to the owner; the tokens of its ATA stay there.
CloseSession ==
    /\ session.open
    /\ session.revoked \/ now >= session.expires_at
    /\ session' = NoSession
    /\ lamports' = 0
    /\ wallet' = wallet + lamports
    /\ UNCHANGED <<tokens, tokenWallet, now, sessions, history>>

Tick ==
    /\ now < MaxNow
    /\ now' = now + 1
    /\ UNCHANGED <<session, lamports, tokens, wallet, tokenWallet, sessions, history>>

Next ==
    \/ \E spl \in BOOLEAN, scopes \in SUBSET Scopes, life \in Lifetimes,
          limit \in Limits, perTx \in PerTxLimits, daily \in DailyLimits :
            RegisterSessionKey(spl, scopes, life, limit, perTx, daily)
    \/ \E a \in Amounts : FundSol(a) \/ FundTokens(a)
    \/ \E a \in Amounts, scope \in Scopes : ExecutePayment(a, scope)
    \/ \E a \in Amounts, scope \in Scopes : ExecuteSplPayment(a, scope)
    \/ WithdrawRemaining
    \/ \E a \in Amounts : WithdrawSplRemaining(a)
    \/ RevokeSession
    \/ CloseSession
    \/ Tick

Spec == Init /\ [][Next]_vars
=============================================================================
