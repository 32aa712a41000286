------------------------ MODULE SessionKeyProperties ------------------------
(* What a session key may spend, and where the owner's money is.            *)
EXTENDS SessionKey

\* The account and the balances have their types; an account that exists
\* holds its rent, one that does not holds nothing.
TypeOK ==
    /\ session \in [open : BOOLEAN, spl : BOOLEAN, scopes : SUBSET Scopes,
                    expires_at : Nat, spending_limit : Nat, current_spent : Nat,
                    per_tx_limit : Nat, daily_tx_count_limit : Nat,
                    current_daily_count : Nat, last_daily_reset : Nat,
                    revoked : BOOLEAN]
    /\ lamports \in Nat /\ tokens \in Nat /\ wallet \in Nat /\ tokenWallet \in Nat
    /\ now \in Nat /\ sessions \in Nat
    /\ received \in Nat /\ receivedTokens \in Nat /\ paid \in Nat

\* The rent-exempt balance is there exactly as long as the account.
RentKept == IF session.open THEN lamports >= Rent ELSE lamports = 0

\* No lamport and no token is made or lost: what is not with the owner or in
\* the session has reached a recipient, across payments, withdrawals, closing
\* and registering again under the same address.
FundsConserved ==
    /\ wallet + lamports + received = Supply
    /\ tokenWallet + tokens + receivedTokens = TokenSupply

\* All the payments of a session together, in SOL and in tokens, are what
\* current_spent says and stay within spending_limit.
SpentWithinLimit ==
    session.open => (paid = session.current_spent /\ paid <= session.spending_limit)

\* Payment n later than payment k comes at least a day after it.
DayApart(n) ==
    \A k \in DOMAIN payments :
        k + n \in DOMAIN payments => payments[k + n].time >= payments[k].time + Day

\* The window of the count limit is reset by the first payment after it has
\* elapsed, so that a day, wherever it begins, may see more payments than the
\* limit, but never more than twice as many.
TwiceTheLimitInADay ==
    (session.open /\ session.daily_tx_count_limit > 0)
        => DayApart(2 * session.daily_tx_count_limit)

\* What is paid lowers what the session may still pay, and nothing but a new
\* registration raises it: neither funding, a new day, a withdrawal nor
\* revoking gives back allowance, and a revoked session never pays again.
AllowanceOnlyShrinks ==
    [][(session.open /\ session'.open)
        => /\ session'.spending_limit - session'.current_spent
                <= session.spending_limit - session.current_spent
           /\ session.revoked => (session'.revoked /\ UNCHANGED <<received, receivedTokens>>)]_vars

-----------------------------------------------------------------------------
(* What the documents say and the code does not keep.                       *)

\* session-key-payment-flow_en.md:383 "scopes limits the types of operations
\* that can be executed".
ScopeLimitsOperation ==
    \A k \in DOMAIN payments : payments[k].kind \in session.scopes \/ ~session.open

\* lib.rs:287 "Leave rent-exempt minimum to keep the account alive": an
\* account disappears only by close_session.
AliveUntilClosed ==
    [][(session.open /\ ~session'.open) => (session.revoked \/ now >= session.expires_at)]_vars

\* The daily limit as a limit on any day, not on the program's windows.
LimitInAnyDay ==
    (session.open /\ session.daily_tx_count_limit > 0)
        => DayApart(session.daily_tx_count_limit)
=============================================================================
