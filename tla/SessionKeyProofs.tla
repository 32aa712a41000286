-------------------------- MODULE SessionKeyProofs --------------------------
(***************************************************************************)
(* What limits the buyer's spending, for every value of the constants.     *)
(*                                                                         *)
(* The session-key program: types, conservation of the funds, the spending *)
(* limit and what a day may take beyond it, and that the allowance only    *)
(* shrinks.  The keys of the buyer's MCP server: what a key paid is        *)
(* counted, and a closed key stays closed.  Its vouchers: none is written  *)
(* over another.                                                           *)
(***************************************************************************)
EXTENDS MCSessionKey, Functions, FiniteSetTheorems, WellFoundedInduction, TLAPS

Session ==
    [open : BOOLEAN, spl : BOOLEAN, scopes : SUBSET Scopes,
     expires_at : Nat, spending_limit : Nat, current_spent : Nat,
     per_tx_limit : Nat, daily_tx_count_limit : Nat,
     current_daily_count : Nat, last_daily_reset : Nat, revoked : BOOLEAN]

\* What the inductive invariant adds: a limit cannot be met before it is
\* respected, and the rent is there while the account is.
Inv ==
    /\ TypeOK
    /\ RentKept
    /\ FundsConserved
    /\ SpentWithinLimit

\* The record a payment leaves behind: the parts of Spend that change.
LEMMA SpendType ==
    ASSUME TypeOK, NEW a \in Nat
    PROVE  /\ Spend(a) \in Session
           /\ Spend(a).current_spent = session.current_spent + a
           /\ Spend(a).spending_limit = session.spending_limit
           /\ Spend(a).revoked = session.revoked
           /\ Spend(a).open = session.open
<1> DEFINE x == session.current_spent + a
           y == DailyCount + 1
           z == IF WindowElapsed THEN now ELSE session.last_daily_reset
           s == [session EXCEPT !.current_spent = x, !.current_daily_count = y,
                                !.last_daily_reset = z]
<1>1. session \in Session /\ now \in Nat
  BY DEF TypeOK, Session
<1>2. x \in Nat /\ y \in Nat /\ z \in Nat
  BY <1>1 DEF DailyCount, Session
<1>3. Spend(a) = s
  BY DEF Spend
<1> HIDE DEF x, y, z
<1>4. /\ s \in Session
      /\ s.current_spent = x
      /\ s.spending_limit = session.spending_limit
      /\ s.revoked = session.revoked
      /\ s.open = session.open
  BY <1>1, <1>2 DEF Session
<1> QED
  BY <1>3, <1>4 DEF x

LEMMA NoSessionType == NoSession \in Session /\ ~NoSession.open
BY DEF NoSession, Session

LEMMA InitInv == Init => Inv
BY SessionAssumption, NoSessionType
   DEF Init, Inv, TypeOK, Session, RentKept, FundsConserved, SpentWithinLimit

-----------------------------------------------------------------------------
(* One lemma per instruction.                                              *)

LEMMA RegisterInv ==
    ASSUME Inv, NEW spl \in BOOLEAN, NEW scopes \in SUBSET Scopes, NEW life \in Lifetimes,
           NEW limit \in Limits, NEW perTx \in PerTxLimits, NEW daily \in DailyLimits,
           RegisterSessionKey(spl, scopes, life, limit, perTx, daily)
    PROVE  Inv'
<1>1. now + life \in Nat /\ limit \in Nat /\ perTx \in Nat /\ daily \in Nat
  BY SessionAssumption DEF Inv, TypeOK
<1>2. session' \in Session /\ session'.open /\ session'.current_spent = 0
      /\ session'.spending_limit = limit
  BY <1>1 DEF RegisterSessionKey, Session, Inv, TypeOK
<1>3. wallet' \in Nat /\ wallet' = wallet - Rent /\ lamports' = Rent /\ lamports = 0
  BY SessionAssumption DEF RegisterSessionKey, Inv, TypeOK, RentKept
<1>4. TypeOK'
  BY <1>2, <1>3, SessionAssumption DEF RegisterSessionKey, Inv, TypeOK, Session
<1>5. RentKept'
  BY <1>2, <1>3, SessionAssumption DEF RentKept
<1>6. FundsConserved'
  BY <1>3, SessionAssumption DEF RegisterSessionKey, Inv, TypeOK, FundsConserved
<1>7. SpentWithinLimit'
  BY <1>1, <1>2 DEF RegisterSessionKey, SpentWithinLimit
<1> QED
  BY <1>4, <1>5, <1>6, <1>7 DEF Inv

LEMMA FundInv ==
    ASSUME Inv, NEW a \in Amounts, FundSol(a) \/ FundTokens(a)
    PROVE  Inv'
<1>1. a \in Nat
  BY SessionAssumption
<1>2. CASE FundSol(a)
  BY <1>1, <1>2, SessionAssumption
     DEF FundSol, history, Inv, TypeOK, RentKept, FundsConserved, SpentWithinLimit
<1>3. CASE FundTokens(a)
  BY <1>1, <1>3, SessionAssumption
     DEF FundTokens, history, Inv, TypeOK, RentKept, FundsConserved, SpentWithinLimit
<1> QED
  BY <1>2, <1>3

LEMMA ExecutePaymentInv ==
    ASSUME Inv, NEW a \in Amounts, NEW scope \in Scopes, ExecutePayment(a, scope)
    PROVE  Inv'
<1>1. a \in Nat
  BY SessionAssumption
<1>2. /\ session.open /\ lamports' = lamports - a /\ lamports' \in Nat
      /\ received' = received + a /\ received' \in Nat /\ paid' = paid + a /\ paid' \in Nat
      /\ session.current_spent + a <= session.spending_limit
  BY <1>1 DEF ExecutePayment, MayPay, Record, Inv, TypeOK
<1>3. session' \in Session
  BY <1>1, SpendType, NoSessionType DEF ExecutePayment, Inv
<1>4. TypeOK'
  BY <1>2, <1>3 DEF ExecutePayment, Inv, TypeOK, Session
<1>5. RentKept'
  <2>1. CASE lamports' = 0
    BY <2>1, NoSessionType DEF ExecutePayment, RentKept
  <2>2. CASE lamports' # 0
    BY <2>2, <1>1, <1>2, SpendType DEF ExecutePayment, RentHolds, RentKept, Inv
  <2> QED
    BY <2>1, <2>2
<1>6. FundsConserved'
  BY <1>1, <1>2, SessionAssumption DEF ExecutePayment, Inv, TypeOK, FundsConserved
<1>7. SpentWithinLimit'
  <2>1. CASE lamports' = 0
    BY <2>1, NoSessionType DEF ExecutePayment, SpentWithinLimit
  <2>2. CASE lamports' # 0
    <3>1. session'.current_spent = session.current_spent + a
          /\ session'.spending_limit = session.spending_limit
      BY <2>2, <1>1, SpendType DEF ExecutePayment, Inv
    <3> QED
      BY <3>1, <1>2 DEF SpentWithinLimit, Inv
  <2> QED
    BY <2>1, <2>2
<1> QED
  BY <1>4, <1>5, <1>6, <1>7 DEF Inv

LEMMA ExecuteSplPaymentInv ==
    ASSUME Inv, NEW a \in Amounts, NEW scope \in Scopes, ExecuteSplPayment(a, scope)
    PROVE  Inv'
<1>1. a \in Nat
  BY SessionAssumption
<1>2. /\ session.open /\ tokens' = tokens - a /\ tokens' \in Nat
      /\ receivedTokens' = receivedTokens + a /\ receivedTokens' \in Nat
      /\ paid' = paid + a /\ paid' \in Nat
      /\ session.current_spent + a <= session.spending_limit
  BY <1>1 DEF ExecuteSplPayment, MayPay, Record, Inv, TypeOK
<1>3. /\ session' \in Session /\ session'.open
      /\ session'.current_spent = session.current_spent + a
      /\ session'.spending_limit = session.spending_limit
  BY <1>1, <1>2, SpendType DEF ExecuteSplPayment, Inv
<1>4. TypeOK'
  BY <1>2, <1>3 DEF ExecuteSplPayment, Inv, TypeOK, Session
<1>5. RentKept'
  BY <1>2, <1>3 DEF ExecuteSplPayment, RentKept, Inv
<1>6. FundsConserved'
  BY <1>1, <1>2, SessionAssumption DEF ExecuteSplPayment, Inv, TypeOK, FundsConserved
<1>7. SpentWithinLimit'
  BY <1>2, <1>3 DEF SpentWithinLimit, Inv
<1> QED
  BY <1>4, <1>5, <1>6, <1>7 DEF Inv

LEMMA OwnerInv ==
    ASSUME Inv,
           \/ WithdrawRemaining
           \/ \E a \in Amounts : WithdrawSplRemaining(a)
           \/ RevokeSession
           \/ CloseSession
    PROVE  Inv'
<1>1. CASE WithdrawRemaining
  BY <1>1, SessionAssumption
     DEF WithdrawRemaining, history, Inv, TypeOK, RentKept, FundsConserved, SpentWithinLimit
<1>2. ASSUME NEW a \in Amounts, WithdrawSplRemaining(a)
      PROVE  Inv'
  BY <1>2, SessionAssumption
     DEF WithdrawSplRemaining, history, Inv, TypeOK, RentKept, FundsConserved, SpentWithinLimit
<1>3. CASE RevokeSession
  <2>1. /\ session' \in Session /\ session'.open = session.open
        /\ session'.current_spent = session.current_spent
        /\ session'.spending_limit = session.spending_limit
    BY <1>3 DEF RevokeSession, Inv, TypeOK, Session
  <2> QED
    BY <1>3, <2>1
       DEF RevokeSession, history, Inv, TypeOK, Session, RentKept, FundsConserved, SpentWithinLimit
<1>4. CASE CloseSession
  <2>1. session' \in Session /\ ~session'.open
    BY <1>4, NoSessionType DEF CloseSession
  <2> QED
    BY <1>4, <2>1, SessionAssumption
       DEF CloseSession, history, Inv, TypeOK, Session, RentKept, FundsConserved, SpentWithinLimit
<1> QED
  BY <1>1, <1>2, <1>3, <1>4

LEMMA StutterInv ==
    ASSUME Inv, Tick \/ UNCHANGED vars
    PROVE  Inv'
BY DEF Tick, vars, history, Inv, TypeOK, RentKept, FundsConserved, SpentWithinLimit

LEMMA NextInv == Inv /\ [Next]_vars => Inv'
<1> SUFFICES ASSUME Inv, [Next]_vars PROVE Inv'
  OBVIOUS
<1> QED
  BY RegisterInv, FundInv, ExecutePaymentInv, ExecuteSplPaymentInv, OwnerInv, StutterInv DEF Next

LEMMA AlwaysInv == Spec => []Inv
BY InitInv, NextInv, PTL DEF Spec

-----------------------------------------------------------------------------
(* The theorems.                                                           *)

\* The account and the balances have their types, whatever the parameters
\* register_session_key is called with.
THEOREM TypeCorrect == Spec => []TypeOK
<1>1. Inv => TypeOK
  BY DEF Inv
<1> QED
  BY <1>1, AlwaysInv, PTL

\* An account that exists holds its rent; a payment that empties it deletes it.
THEOREM RentIsKept == Spec => []RentKept
<1>1. Inv => RentKept
  BY DEF Inv
<1> QED
  BY <1>1, AlwaysInv, PTL

\* Payments, withdrawals and closing move lamports and tokens and make none.
THEOREM FundsAreConserved == Spec => []FundsConserved
<1>1. Inv => FundsConserved
  BY DEF Inv
<1> QED
  BY <1>1, AlwaysInv, PTL

\* What execute_payment and execute_spl_payment paid for a session together
\* never exceeds its spending_limit.
THEOREM SpendingLimitHolds == Spec => []SpentWithinLimit
<1>1. Inv => SpentWithinLimit
  BY DEF Inv
<1> QED
  BY <1>1, AlwaysInv, PTL

-----------------------------------------------------------------------------
Shrinks ==
    (session.open /\ session'.open)
        => /\ session'.spending_limit - session'.current_spent
                <= session.spending_limit - session.current_spent
           /\ session.revoked => (session'.revoked /\ UNCHANGED <<received, receivedTokens>>)

LEMMA StepShrinks ==
    ASSUME Inv, [Next]_vars
    PROVE  Shrinks
<1> USE SessionAssumption
<1>0. session.spending_limit \in Nat /\ session.current_spent \in Nat
  BY DEF Inv, TypeOK
<1>1. ASSUME NEW spl \in BOOLEAN, NEW scopes \in SUBSET Scopes, NEW life \in Lifetimes,
             NEW limit \in Limits, NEW perTx \in PerTxLimits, NEW daily \in DailyLimits,
             RegisterSessionKey(spl, scopes, life, limit, perTx, daily)
      PROVE  Shrinks
  BY <1>1 DEF RegisterSessionKey, Shrinks
<1>2. ASSUME NEW a \in Amounts, NEW scope \in Scopes, ExecutePayment(a, scope)
      PROVE  Shrinks
  <2>1. ~session.revoked /\ a \in Nat
    BY <1>2 DEF ExecutePayment, MayPay
  <2>2. CASE lamports' = 0
    BY <1>2, <2>2, NoSessionType DEF ExecutePayment, Shrinks
  <2>3. CASE lamports' # 0
    <3>1. session'.current_spent = session.current_spent + a
          /\ session'.spending_limit = session.spending_limit
      BY <1>2, <2>1, <2>3, SpendType DEF ExecutePayment, Inv
    <3> QED
      BY <1>0, <2>1, <3>1 DEF Shrinks
  <2> QED
    BY <2>2, <2>3
<1>3. ASSUME NEW a \in Amounts, NEW scope \in Scopes, ExecuteSplPayment(a, scope)
      PROVE  Shrinks
  <2>1. ~session.revoked /\ a \in Nat
    BY <1>3 DEF ExecuteSplPayment, MayPay
  <2>2. session'.current_spent = session.current_spent + a
        /\ session'.spending_limit = session.spending_limit
    BY <1>3, <2>1, SpendType DEF ExecuteSplPayment, Inv
  <2> QED
    BY <1>0, <2>1, <2>2 DEF Shrinks
<1>4. CASE RevokeSession
  BY <1>0, <1>4 DEF RevokeSession, history, Shrinks, Inv, TypeOK
<1>5. CASE CloseSession
  BY <1>5, NoSessionType DEF CloseSession, Shrinks
<1>6. CASE UNCHANGED <<session, received, receivedTokens>>
  BY <1>0, <1>6 DEF Shrinks
<1>7. ASSUME \/ \E a \in Amounts : FundSol(a) \/ FundTokens(a)
             \/ WithdrawRemaining
             \/ \E a \in Amounts : WithdrawSplRemaining(a)
             \/ Tick
             \/ UNCHANGED vars
      PROVE  UNCHANGED <<session, received, receivedTokens>>
  BY <1>7 DEF FundSol, FundTokens, WithdrawRemaining, WithdrawSplRemaining, Tick, vars, history
<1> QED
  BY <1>1, <1>2, <1>3, <1>4, <1>5, <1>6, <1>7 DEF Next

\* Nothing but registering again gives a session key allowance back, and a
\* revoked session never pays.
THEOREM AllowanceShrinks == Spec => AllowanceOnlyShrinks
<1>1. Inv /\ [Next]_vars => [Shrinks]_vars
  BY StepShrinks
<1> QED
  BY <1>1, AlwaysInv, PTL DEF Spec, AllowanceOnlyShrinks, Shrinks

-----------------------------------------------------------------------------
(* The window of the count limit.  With c payments in the window that began *)
(* at r, those before it are no later than r, and those more than L before  *)
(* it lie in an earlier window, a day before r.                             *)

Payment == [time : Nat, kind : Scopes, scope : Scopes]
Payments == Seq(Payment)

LEMMA ElementOf ==
    ASSUME NEW S, NEW s \in Seq(S)
    PROVE  \A k \in DOMAIN s : s[k] \in S
OBVIOUS

LEMMA AppendOf ==
    ASSUME NEW S, NEW s \in Seq(S), NEW x \in S
    PROVE  /\ Append(s, x) \in Seq(S) /\ Len(Append(s, x)) = Len(s) + 1 /\ Len(s) \in Nat
           /\ DOMAIN s = 1 .. Len(s) /\ DOMAIN Append(s, x) = 1 .. Len(s) + 1
           /\ \A k \in 1 .. Len(s) : Append(s, x)[k] = s[k]
           /\ Append(s, x)[Len(s) + 1] = x
OBVIOUS

WindowInv ==
    LET L == session.daily_tx_count_limit
        c == session.current_daily_count
        r == session.last_daily_reset
    IN  /\ c <= L
        /\ r <= now
        /\ \A k \in DOMAIN payments :
               /\ k + c <= Len(payments) => payments[k].time <= r
               /\ k + (c + L) <= Len(payments) => payments[k].time + Day <= r
        /\ DayApart(2 * L)

WInv ==
    /\ payments \in Payments
    /\ \A k \in DOMAIN payments : payments[k].time <= now
    /\ (session.open /\ session.daily_tx_count_limit > 0) => WindowInv

\* A payment, as far as the window is concerned.
LEMMA PayWindow ==
    ASSUME Inv, WInv, NEW a \in Amounts, NEW kind \in Scopes, NEW scope \in Scopes,
           MayPay(a, scope), Record(a, kind, scope), session' = Spend(a), UNCHANGED now
    PROVE  WInv'
<1> DEFINE n == Len(payments)
           L == session.daily_tx_count_limit
           c == session.current_daily_count
           r == session.last_daily_reset
           p == [time |-> now, kind |-> kind, scope |-> scope]
<1>1. /\ session \in Session /\ now \in Nat /\ Day \in Nat
      /\ L \in Nat /\ c \in Nat /\ r \in Nat /\ n \in Nat
  <2>1. session \in Session /\ now \in Nat /\ Day \in Nat
    BY SessionAssumption DEF Inv, TypeOK, Session
  <2>2. L \in Nat /\ c \in Nat /\ r \in Nat
    BY <2>1 DEF Session
  <2>3. payments \in Seq(Payment)
    BY DEF WInv, Payments
  <2>4. n \in Nat
    BY <2>3
  <2> QED
    BY <2>1, <2>2, <2>4
<1>2. /\ payments' \in Payments /\ Len(payments') = n + 1
      /\ DOMAIN payments = 1 .. n /\ DOMAIN payments' = 1 .. n + 1
      /\ \A k \in 1 .. n : payments'[k] = payments[k] /\ payments[k].time \in Nat
      /\ payments'[n + 1].time = now
  <2>1. payments \in Payments /\ payments' = Append(payments, p)
    BY DEF WInv, Record
  <2>2. p \in Payment /\ p.time = now
    BY <1>1 DEF Payment
  <2> HIDE DEF p
  <2>3. payments' \in Payments /\ Len(payments') = n + 1
    BY <2>1, <2>2, AppendOf DEF Payments
  <2>4. /\ DOMAIN payments = 1 .. n /\ DOMAIN payments' = 1 .. n + 1
        /\ \A k \in 1 .. n : payments'[k] = payments[k]
        /\ payments'[n + 1] = p
    BY <2>1, <2>2, AppendOf DEF Payments
  <2>5. \A k \in 1 .. n : payments[k].time \in Nat
    <3>1. \A k \in DOMAIN payments : payments[k] \in Payment
      BY <2>1, ElementOf DEF Payments
    <3> QED
      BY <2>4, <3>1 DEF Payment
  <2> QED
    BY <2>2, <2>3, <2>4, <2>5
<1>3. \A k \in DOMAIN payments' : payments'[k].time <= now'
  <2>1. \A k \in 1 .. n : payments[k].time <= now
    BY <1>2 DEF WInv
  <2>2. TAKE k \in DOMAIN payments'
  <2>3. k \in 1 .. n \/ k = n + 1
    BY <1>1, <1>2, <2>2
  <2> QED
    BY <1>1, <1>2, <2>1, <2>3
<1>4. /\ session'.daily_tx_count_limit = L /\ session'.open = session.open
      /\ session'.current_daily_count = DailyCount + 1
      /\ session'.last_daily_reset = IF WindowElapsed THEN now ELSE r
  BY <1>1 DEF Spend, Session
<1>5. ASSUME session.open, L > 0
      PROVE  WindowInv'
  <2>1. /\ c <= L /\ r <= now
        /\ \A k \in 1 .. n : k + c <= n => payments[k].time <= r
        /\ \A k \in 1 .. n : k + (c + L) <= n => payments[k].time + Day <= r
        /\ \A k \in 1 .. n : k + 2 * L \in 1 .. n => payments[k + 2 * L].time >= payments[k].time + Day
    BY <1>2, <1>5 DEF WInv, WindowInv, DayApart
  <2>2. DailyCount + 1 <= L /\ DailyCount \in Nat
    BY <1>1, <1>5 DEF MayPay, DailyCount
  <2> DEFINE c2 == session'.current_daily_count
             r2 == session'.last_daily_reset
  <2>3. /\ c2 \in Nat /\ r2 \in Nat /\ c2 <= L /\ r2 <= now
        /\ \A k \in 1 .. n : k + c2 <= n + 1 => payments[k].time <= r2
        /\ \A k \in 1 .. n : k + (c2 + L) <= n + 1 => payments[k].time + Day <= r2
    <3>1. CASE WindowElapsed
      <4>1. c2 = 1 /\ r2 = now /\ r + Day <= now
        BY <1>1, <1>4, <3>1 DEF DailyCount, WindowElapsed
      <4>2. \A k \in 1 .. n : payments[k].time <= now
        BY <1>2 DEF WInv
      <4> HIDE DEF c2, r2, n, L, c, r
      <4>3. ASSUME NEW k \in 1 .. n, k + (1 + L) <= n + 1
            PROVE  payments[k].time + Day <= now
        <5>1. k + c <= n
          BY <1>1, <2>1, <4>3
        <5>2. payments[k].time <= r
          BY <2>1, <5>1
        <5> QED
          BY <1>1, <1>2, <4>1, <5>2
      <4>4. c2 \in Nat /\ c2 <= L /\ r2 \in Nat /\ r2 <= now
        BY <1>1, <1>5, <4>1
      <4> QED
        BY <4>1, <4>2, <4>3, <4>4
    <3>2. CASE ~WindowElapsed
      <4>1. c2 = c + 1 /\ r2 = r
        BY <1>4, <3>2 DEF DailyCount
      <4>2. c + 1 <= L
        BY <2>2, <3>2 DEF DailyCount
      <4> HIDE DEF c2, r2, n, L, c, r
      <4> QED
        BY <1>1, <1>2, <2>1, <4>1, <4>2
    <3> QED
      BY <3>1, <3>2
  <2>4. \A k \in 1 .. n : k + 2 * L = n + 1 => payments[k].time + Day <= now
    <3> HIDE DEF c2, r2, n, L
    <3> QED
      BY <1>1, <1>2, <2>3
  <2>5. DayApart(2 * L)'
    <3>1. SUFFICES ASSUME NEW k \in 1 .. n + 1, k + 2 * L \in 1 .. n + 1
                   PROVE  payments'[k + 2 * L].time >= payments'[k].time + Day
      BY <1>2, <1>4 DEF DayApart
    <3> HIDE DEF n, L
    <3>2. k \in 1 .. n /\ (k + 2 * L \in 1 .. n \/ k + 2 * L = n + 1)
      BY <1>1, <1>5, <3>1
    <3> QED
      BY <1>1, <1>2, <2>1, <2>4, <3>2
  <2>6. \A k \in 1 .. n + 1 :
           /\ k + c2 <= n + 1 => payments'[k].time <= r2
           /\ k + (c2 + L) <= n + 1 => payments'[k].time + Day <= r2
    <3>1. c2 >= 1
      BY <1>4, <2>2
    <3> HIDE DEF n, L, c2, r2
    <3> QED
      BY <1>1, <1>2, <2>3, <3>1, SMTT(30)
  <2> QED
    BY <1>2, <1>4, <2>3, <2>5, <2>6 DEF WindowInv
<1> QED
  BY <1>2, <1>3, <1>4, <1>5 DEF WInv

LEMMA InitWindow == Init => WInv
BY DEF Init, WInv, NoSession, Payments

LEMMA NextWindow ==
    ASSUME Inv, WInv, [Next]_vars
    PROVE  WInv'
<1> USE SessionAssumption
<1>1. payments \in Payments /\ now \in Nat /\ \A k \in DOMAIN payments : payments[k].time \in Nat
  <2>1. payments \in Payments /\ now \in Nat
    BY DEF WInv, Inv, TypeOK
  <2>2. \A k \in DOMAIN payments : payments[k] \in Payment
    BY <2>1, ElementOf DEF Payments
  <2> QED
    BY <2>1, <2>2 DEF Payment
<1>2. ASSUME NEW spl \in BOOLEAN, NEW scopes \in SUBSET Scopes, NEW life \in Lifetimes,
             NEW limit \in Limits, NEW perTx \in PerTxLimits, NEW daily \in DailyLimits,
             RegisterSessionKey(spl, scopes, life, limit, perTx, daily)
      PROVE  WInv'
  <2>1. payments' = <<>> /\ now' = now /\ session'.daily_tx_count_limit = daily
        /\ session'.current_daily_count = 0 /\ session'.last_daily_reset = now
    BY <1>2 DEF RegisterSessionKey
  <2>2. payments' \in Payments /\ daily \in Nat
    BY <2>1 DEF Payments
  <2>3. DOMAIN payments' = {}
    BY <2>1
  <2> QED
    BY <1>1, <2>1, <2>2, <2>3 DEF WInv, WindowInv, DayApart
<1>3. ASSUME NEW a \in Amounts, NEW scope \in Scopes, ExecutePayment(a, scope)
      PROVE  WInv'
  <2>1. MayPay(a, scope) /\ Record(a, "sol:transfer", scope) /\ UNCHANGED now
    BY <1>3 DEF ExecutePayment
  <2>2. CASE lamports' # 0
    BY <1>3, <2>1, <2>2, PayWindow DEF ExecutePayment, Scopes
  <2>3. CASE lamports' = 0
    <3>1. ~session'.open
      BY <1>3, <2>3, NoSessionType DEF ExecutePayment
    <3> DEFINE p == [time |-> now, kind |-> "sol:transfer", scope |-> scope]
    <3>2. payments' = Append(payments, p)
      BY <2>1 DEF Record
    <3>3. p \in Payment /\ p.time = now
      BY <1>1 DEF Scopes, Payment
    <3> HIDE DEF p
    <3>4. payments' \in Payments
      BY <1>1, <3>2, <3>3, AppendOf DEF Payments
    <3>5. \A k \in DOMAIN payments' : k \in DOMAIN payments \/ payments'[k] = p
      BY <1>1, <3>2, <3>3, AppendOf DEF Payments
    <3>6. \A k \in DOMAIN payments : payments'[k] = payments[k]
      BY <1>1, <3>2, <3>3, AppendOf DEF Payments
    <3> QED
      BY <1>1, <2>1, <3>1, <3>3, <3>4, <3>5, <3>6 DEF WInv
  <2> QED
    BY <2>2, <2>3
<1>4. ASSUME NEW a \in Amounts, NEW scope \in Scopes, ExecuteSplPayment(a, scope)
      PROVE  WInv'
  BY <1>4, PayWindow DEF ExecuteSplPayment, Scopes
<1>5. CASE RevokeSession
  <2>1. /\ session'.open = session.open
        /\ session'.daily_tx_count_limit = session.daily_tx_count_limit
        /\ session'.current_daily_count = session.current_daily_count
        /\ session'.last_daily_reset = session.last_daily_reset
    BY <1>5 DEF RevokeSession, Inv, TypeOK
  <2> QED
    BY <1>5, <2>1 DEF RevokeSession, history, WInv, WindowInv, DayApart
<1>6. CASE CloseSession
  BY <1>6, NoSessionType DEF CloseSession, history, WInv
<1>7. CASE UNCHANGED <<session, payments, now>>
  BY <1>7 DEF WInv, WindowInv, DayApart
<1>8. CASE Tick
  <2>1. session' = session /\ payments' = payments /\ now' = now + 1
    BY <1>8 DEF Tick, history
  <2>2. session.last_daily_reset \in Nat
    BY DEF Inv, TypeOK
  <2>3. \A k \in DOMAIN payments' : payments'[k].time <= now'
    BY <1>1, <2>1 DEF WInv
  <2>4. (session.open /\ session.daily_tx_count_limit > 0) => WindowInv'
    BY <1>1, <2>1, <2>2 DEF WInv, WindowInv, DayApart
  <2> QED
    BY <1>1, <2>1, <2>3, <2>4 DEF WInv
<1>9. ASSUME \/ \E a \in Amounts : FundSol(a) \/ FundTokens(a)
             \/ WithdrawRemaining
             \/ \E a \in Amounts : WithdrawSplRemaining(a)
             \/ UNCHANGED vars
      PROVE  UNCHANGED <<session, payments, now>>
  BY <1>9 DEF FundSol, FundTokens, WithdrawRemaining, WithdrawSplRemaining, vars, history
<1> QED
  BY <1>2, <1>3, <1>4, <1>5, <1>6, <1>7, <1>8, <1>9 DEF Next

\* However the payments fall, 2 * daily_tx_count_limit + 1 of them in a row
\* span at least a day: the window that the first payment after its end
\* resets lets at most two windows overlap a day.
THEOREM DailyLimitWithinTwo == Spec => []TwiceTheLimitInADay
<1>1. Inv /\ WInv /\ [Next]_vars => WInv'
  BY NextWindow
<1>2. WInv => TwiceTheLimitInADay
  BY DEF WInv, WindowInv, TwiceTheLimitInADay
<1> QED
  BY <1>1, <1>2, InitWindow, AlwaysInv, PTL DEF Spec

-----------------------------------------------------------------------------
(* Sums over finite sets.  The induction is over the finite subsets of a set *)
(* ordered by inclusion, put as: of the subsets that break a claim one is    *)
(* the smallest.                                                             *)

\* Of the finite sets with a property, one has no proper subset with it.
LEMMA SmallestSet ==
    ASSUME NEW S, IsFiniteSet(S), NEW Q \in SUBSET SUBSET S, Q # {}
    PROVE  \E T \in Q : \A U \in Q : U \subseteq T => U = T
<1>1. Q \subseteq FiniteSubsetsOf(S)
  BY FS_FiniteSubsetsOfFinite
<1>2. PICK T \in Q : \A U \in Q : <<U, T>> \notin StrictSubsetOrdering(S)
  BY <1>1, FS_StrictSubsetOrderingWellFounded, WFMin
<1> QED
  BY <1>2 DEF StrictSubsetOrdering

Some(s) == CHOOSE x \in s : TRUE
Adds(g, F, S) ==
    g = [s \in SUBSET S |-> IF s = {} THEN 0 ELSE F[Some(s)] + g[s \ {Some(s)}]]

LEMMA SomeIn == \A s : s # {} => Some(s) \in s
  BY DEF Some

LEMMA AddsOnce ==
    ASSUME NEW F, NEW A, NEW B, NEW T, IsFiniteSet(T), T \subseteq A, T \subseteq B,
           NEW g, NEW h, Adds(g, F, A), Adds(h, F, B)
    PROVE  g[T] = h[T]
<1> DEFINE Q == {s \in SUBSET T : g[s] # h[s]}
<1>1. SUFFICES ASSUME Q # {} PROVE FALSE
  OBVIOUS
<1>2. PICK s \in Q : \A u \in Q : u \subseteq s => u = s
  <2> HIDE DEF Q
  <2>1. Q \in SUBSET SUBSET T
    BY DEF Q
  <2> QED
    BY <1>1, <2>1, SmallestSet
<1>3. s \in SUBSET A /\ s \in SUBSET B
  OBVIOUS
<1>4. /\ g[s] = IF s = {} THEN 0 ELSE F[Some(s)] + g[s \ {Some(s)}]
      /\ h[s] = IF s = {} THEN 0 ELSE F[Some(s)] + h[s \ {Some(s)}]
  BY <1>3 DEF Adds
<1>5. s # {}
  BY <1>4
<1>6. g[s \ {Some(s)}] = h[s \ {Some(s)}]
  BY <1>2, <1>5, SomeIn
<1> QED
  BY <1>2, <1>4, <1>5, <1>6

LEMMA AddsExists ==
    ASSUME NEW F, NEW S, IsFiniteSet(S)
    PROVE  \E g : Adds(g, F, S)
<1> DEFINE Q == {T \in SUBSET S : ~ \E g : Adds(g, F, T)}
<1>1. SUFFICES ASSUME Q # {} PROVE FALSE
  OBVIOUS
<1>2. PICK T \in Q : \A U \in Q : U \subseteq T => U = T
  <2> HIDE DEF Q
  <2>1. Q \in SUBSET SUBSET S
    BY DEF Q
  <2> QED
    BY <1>1, <2>1, SmallestSet
<1> DEFINE G(u) == CHOOSE g : Adds(g, F, u)
           Less(s) == s \ {Some(s)}
           f == [s \in SUBSET T |-> IF s = {} THEN 0 ELSE F[Some(s)] + G(Less(s))[Less(s)]]
<1>3. ASSUME NEW u \in SUBSET T, u # T PROVE Adds(G(u), F, u)
  BY <1>2, <1>3
<1>4. ASSUME NEW s \in SUBSET T, s # {}
      PROVE  Less(s) \in SUBSET T /\ Less(s) # T
  BY <1>4, SomeIn
<1>5. ASSUME NEW u \in SUBSET T, u # T PROVE f[u] = G(u)[u]
  <2>1. CASE u = {}
    <3>1. Adds(G(u), F, u)
      BY <1>3, <1>5
    <3>2. G(u)[u] = 0
      <4> HIDE DEF G
      <4> QED
        BY <2>1, <3>1 DEF Adds
    <3> QED
      BY <2>1, <3>2
  <2>2. CASE u # {}
    <3>1. G(u)[u] = F[Some(u)] + G(u)[Less(u)]
      <4>1. Adds(G(u), F, u)
        BY <1>3, <1>5
      <4> HIDE DEF G
      <4> QED
        BY <2>2, <4>1 DEF Adds
    <3>2. G(u)[Less(u)] = G(Less(u))[Less(u)]
      <4>1. Adds(G(u), F, u) /\ Adds(G(Less(u)), F, Less(u))
        BY <1>3, <1>4, <1>5, <2>2
      <4>2. Less(u) \subseteq u /\ Less(u) \subseteq Less(u) /\ Less(u) \in SUBSET S
        OBVIOUS
      <4>3. IsFiniteSet(Less(u))
        BY <4>2, FS_Subset
      <4> HIDE DEF G, Less
      <4> QED
        BY <4>1, <4>2, <4>3, AddsOnce
    <3> HIDE DEF G, Less
    <3> QED
      BY <2>2, <3>1, <3>2
  <2> QED
    BY <2>1, <2>2
<1>6. Adds(f, F, T)
  <2>1. \A s \in SUBSET T : s # {} => G(Less(s))[Less(s)] = f[Less(s)]
    <3> HIDE DEF G, Less, f
    <3> QED
      BY <1>4, <1>5
  <2> HIDE DEF G
  <2>2. f = [s \in SUBSET T |-> IF s = {} THEN 0 ELSE F[Some(s)] + f[Less(s)]]
    <3> DEFINE h == [s \in SUBSET T |-> IF s = {} THEN 0 ELSE F[Some(s)] + f[Less(s)]]
    <3>1. \A s \in SUBSET T : f[s] = h[s]
      BY <2>1
    <3> QED
      BY <3>1
  <2> QED
    BY <2>2 DEF Adds
<1> QED
  BY <1>2, <1>6


LEMMA SumAdds ==
    ASSUME NEW F, NEW S, IsFiniteSet(S)
    PROVE  \E g : Adds(g, F, S) /\ SumFunctionOnSet(F, S) = g[S]
<1>1. SumFunctionOnSet(F, S) = (CHOOSE g : Adds(g, F, S))[S]
  BY DEF Adds, Some, SumFunctionOnSet, FoldFunctionOnSet, MapThenFoldSet
<1> QED
  BY <1>1, AddsExists

LEMMA SumSome ==
    ASSUME NEW F, NEW S, IsFiniteSet(S)
    PROVE  SumFunctionOnSet(F, S) = IF S = {} THEN 0 ELSE F[Some(S)] + SumFunctionOnSet(F, S \ {Some(S)})
<1>1. PICK g : Adds(g, F, S) /\ SumFunctionOnSet(F, S) = g[S]
  BY SumAdds
<1>2. SumFunctionOnSet(F, S) = IF S = {} THEN 0 ELSE F[Some(S)] + g[S \ {Some(S)}]
  BY <1>1 DEF Adds
<1> DEFINE R == S \ {Some(S)}
<1>3. IsFiniteSet(R) /\ R \subseteq S
  BY FS_Subset
<1> HIDE DEF R
<1>4. PICK h : Adds(h, F, R) /\ SumFunctionOnSet(F, R) = h[R]
  BY <1>3, SumAdds
<1>5. g[R] = h[R]
  BY <1>1, <1>3, <1>4, AddsOnce
<1> QED
  BY <1>2, <1>4, <1>5 DEF R

LEMMA SumEmpty == ASSUME NEW F PROVE SumFunctionOnSet(F, {}) = 0
BY FS_EmptySet, SumSome

\* Sums of integers are integers, of naturals naturals.
LEMMA SumType ==
    ASSUME NEW D \in {Int, Nat}, NEW F, NEW S, IsFiniteSet(S), \A i \in S : F[i] \in D
    PROVE  SumFunctionOnSet(F, S) \in D
<1> DEFINE Q == {T \in SUBSET S : SumFunctionOnSet(F, T) \notin D}
<1>1. SUFFICES ASSUME Q # {} PROVE FALSE
  OBVIOUS
<1>2. PICK T \in Q : \A U \in Q : U \subseteq T => U = T
  <2> HIDE DEF Q
  <2>1. Q \in SUBSET SUBSET S
    BY DEF Q
  <2> QED
    BY <1>1, <2>1, SmallestSet
<1> DEFINE rest == T \ {Some(T)}
<1>3. IsFiniteSet(T)
  BY FS_Subset
<1>4. T # {}
  BY SumEmpty
<1>5. Some(T) \in T /\ rest \in SUBSET S /\ rest \subseteq T /\ rest # T
  BY <1>4, SomeIn
<1>6. SumFunctionOnSet(F, rest) \in D
  BY <1>2, <1>5
<1>7. SumFunctionOnSet(F, T) = F[Some(T)] + SumFunctionOnSet(F, rest)
  BY <1>3, <1>4, SumSome
<1>8. F[Some(T)] \in D /\ SumFunctionOnSet(F, T) \notin D
  BY <1>5
<1> QED
  <2> HIDE DEF rest, Q
  <2> QED BY <1>6, <1>7, <1>8

\* The order of the summands does not matter: any of them can be taken out.
LEMMA SumTakeOut ==
    ASSUME NEW F, NEW S, IsFiniteSet(S), \A i \in S : F[i] \in Int, NEW x \in S
    PROVE  SumFunctionOnSet(F, S) = F[x] + SumFunctionOnSet(F, S \ {x})
<1> DEFINE Sum(T) == SumFunctionOnSet(F, T)
           Q == {T \in SUBSET S : \E z \in T : Sum(T) # F[z] + Sum(T \ {z})}
<1>1. SUFFICES ASSUME Q # {} PROVE FALSE
  OBVIOUS
<1>2. PICK T \in Q : \A U \in Q : U \subseteq T => U = T
  <2> HIDE DEF Q
  <2>1. Q \in SUBSET SUBSET S
    BY DEF Q
  <2> QED
    BY <1>1, <2>1, SmallestSet
<1>3. PICK z \in T : Sum(T) # F[z] + Sum(T \ {z})
  OBVIOUS
<1> DEFINE y == Some(T)
<1>4. IsFiniteSet(T) /\ y \in T /\ Sum(T) = F[y] + Sum(T \ {y})
  BY FS_Subset, SumSome, SomeIn
<1>5. y # z
  BY <1>3, <1>4
<1>6. /\ Sum(T \ {y}) = F[z] + Sum((T \ {y}) \ {z})
      /\ Sum(T \ {z}) = F[y] + Sum((T \ {z}) \ {y})
  <2> HIDE DEF Sum, y
  <2> QED BY <1>2, <1>4, <1>5
<1>7. (T \ {y}) \ {z} = (T \ {z}) \ {y}
  OBVIOUS
<1>8. Sum((T \ {y}) \ {z}) \in Int
  <2>1. IsFiniteSet((T \ {y}) \ {z})
    BY FS_Subset
  <2> QED
    BY <2>1, SumType
<1>9. F[y] \in Int /\ F[z] \in Int
  BY <1>4
<1> DEFINE rest == Sum((T \ {y}) \ {z})
<1>10. Sum(T) = F[y] + (F[z] + rest) /\ Sum(T \ {z}) = F[y] + rest
  <2> HIDE DEF Sum, y
  <2> QED BY <1>4, <1>6, <1>7
<1>11. rest \in Int
  BY <1>8
<1> QED
  <2> HIDE DEF Sum, y, Q, rest
  <2> QED BY <1>3, <1>9, <1>10, <1>11

\* The sum depends only on the summands.
LEMMA SumSame ==
    ASSUME NEW F, NEW G, NEW S, IsFiniteSet(S), \A i \in S : F[i] = G[i]
    PROVE  SumFunctionOnSet(F, S) = SumFunctionOnSet(G, S)
<1> DEFINE Q == {T \in SUBSET S : SumFunctionOnSet(F, T) # SumFunctionOnSet(G, T)}
<1>1. SUFFICES ASSUME Q # {} PROVE FALSE
  OBVIOUS
<1>2. PICK T \in Q : \A U \in Q : U \subseteq T => U = T
  <2> HIDE DEF Q
  <2>1. Q \in SUBSET SUBSET S
    BY DEF Q
  <2> QED
    BY <1>1, <2>1, SmallestSet
<1>3. T # {}
  BY SumEmpty
<1> DEFINE rest == T \ {Some(T)}
<1>4. Some(T) \in T /\ rest \in SUBSET S /\ rest \subseteq T /\ rest # T
  BY <1>3, SomeIn
<1>5. SumFunctionOnSet(F, rest) = SumFunctionOnSet(G, rest)
  BY <1>2, <1>4
<1>6. IsFiniteSet(T)
  BY FS_Subset
<1> QED
  BY <1>2, <1>3, <1>4, <1>5, <1>6, SumSome

\* A summand is added.
LEMMA SumPlus ==
    ASSUME NEW F, NEW G, NEW S, IsFiniteSet(S), NEW x, x \notin S, G[x] \in Int,
           \A i \in S : F[i] \in Int /\ G[i] = F[i]
    PROVE  SumFunctionOnSet(G, S \cup {x}) = SumFunctionOnSet(F, S) + G[x]
<1>1. IsFiniteSet(S \cup {x}) /\ (S \cup {x}) \ {x} = S
  BY FS_AddElement
<1>2. SumFunctionOnSet(G, S \cup {x}) = G[x] + SumFunctionOnSet(G, S)
  BY <1>1, SumTakeOut
<1>3. SumFunctionOnSet(F, S) = SumFunctionOnSet(G, S)
  BY SumSame
<1>4. SumFunctionOnSet(G, S) \in Int
  BY SumType
<1> QED
  BY <1>2, <1>3, <1>4

\* A finite set of numbers has a least one.
LEMMA LeastOf ==
    ASSUME NEW S, IsFiniteSet(S), S # {}, \A s \in S : s \in Nat
    PROVE  \E k \in S : \A j \in S : k <= j
<1> DEFINE Below(k) == {j \in S : j <= k}
           Q == {Below(k) : k \in S}
<1>1. Q \in SUBSET SUBSET S
  OBVIOUS
<1>2. PICK T \in Q : \A U \in Q : U \subseteq T => U = T
  <2>1. Q # {}
    OBVIOUS
  <2> HIDE DEF Q
  <2> QED
    BY <1>1, <2>1, SmallestSet
<1>3. PICK k \in S : \A U \in Q : U \subseteq Below(k) => U = Below(k)
  BY <1>2
<1>4. ASSUME NEW j \in S, ~(k <= j) PROVE FALSE
  <2>1. j \in Nat /\ k \in Nat /\ j < k
    BY <1>4
  <2>2. \A i \in S : i <= j => i <= k
    BY <2>1
  <2>3. ~(k <= j) /\ k <= k
    BY <2>1
  <2>4. Below(j) = Below(k)
    BY <1>3, <2>2
  <2> QED
    BY <2>3, <2>4
<1> QED
  BY <1>4

\* And a greatest one.
LEMMA GreatestOf ==
    ASSUME NEW S, IsFiniteSet(S), S # {}, \A s \in S : s \in Nat
    PROVE  \E k \in S : \A j \in S : k >= j
<1> DEFINE Above(k) == {j \in S : j >= k}
           Q == {Above(k) : k \in S}
<1>1. Q \in SUBSET SUBSET S
  OBVIOUS
<1>2. PICK T \in Q : \A U \in Q : U \subseteq T => U = T
  <2>1. Q # {}
    OBVIOUS
  <2> HIDE DEF Q
  <2> QED
    BY <1>1, <2>1, SmallestSet
<1>3. PICK k \in S : \A U \in Q : U \subseteq Above(k) => U = Above(k)
  BY <1>2
<1>4. ASSUME NEW j \in S, ~(k >= j) PROVE FALSE
  <2>1. j \in Nat /\ k \in Nat /\ j > k
    BY <1>4
  <2>2. \A i \in S : i >= j => i >= k
    BY <2>1
  <2>3. ~(k >= j) /\ k >= k
    BY <2>1
  <2>4. Above(j) = Above(k)
    BY <1>3, <2>2
  <2> QED
    BY <2>3, <2>4
<1> QED
  BY <1>4

-----------------------------------------------------------------------------
(* The keys of the server (McpSessions).                                     *)

KeyRecord == [limit : Nat, spent : Nat, mint : BOOLEAN]
ServerCall == [id : Nat, kind : {"create", "tool", "atomic"}, key : ServerKeys, amount : Nat,
               spl : BOOLEAN, source : {"key", "session"}, stage : {"sending", "recording", "writing"},
               seen : KeyRecord \cup {None}, due : {0, 1, 2}]

ServerTyped ==
    /\ store \in [ServerKeys -> KeyRecord \cup {None}]
    /\ age \in [ServerKeys -> {"unused", "fresh", "expiring", "expired"}]
    /\ landed \in [ServerKeys -> Nat] /\ unseen \in Nat /\ started \in Nat
    /\ calls \in SUBSET ServerCall /\ IsFiniteSet(calls) /\ closed \subseteq ServerKeys

\* A call is a registration or the payment of a number; what execute_payment_atomic
\* pays is recorded twice, what execute_spl_payment pays once.
CallFits(c) ==
    /\ c.id <= started /\ (c.kind = "create" <=> c.id = 0)
    /\ c.kind = "create" => c.stage = "sending"
    /\ c.kind = "tool" => c.due = 1
    /\ c.kind = "atomic" => c.due \in {1, 2} /\ (c.stage = "sending" => c.due = 2)
    /\ c.kind # "create" => age[c.key] # "unused"
    /\ c.stage = "writing" => c.seen \in KeyRecord

CallsNumbered ==
    /\ \A c \in calls : CallFits(c)
    /\ \A c, d \in calls : c.id = d.id /\ c.id # 0 => c = d

Spoilt == raced \cup regranted
Writes(c, k) == c \in calls /\ c.key = k /\ c.stage = "writing"

\* A key is in the store from its first use until it is closed; one that was closed
\* is written by nobody; of one that was not, a task that writes it has read what is
\* there, and no other task does.
KeyKept(k) ==
    /\ age[k] = "unused" => store[k] = None /\ k \notin closed /\ landed[k] = 0
    /\ age[k] # "unused" /\ k \notin closed => store[k] # None
    /\ k \in closed \ Spoilt => store[k] = None /\ \A c \in calls : ~Writes(c, k)
    /\ k \notin closed \cup Spoilt =>
          /\ \A c \in calls : Writes(c, k) => c.seen = store[k]
          /\ \A c, d \in calls : Writes(c, k) /\ Writes(d, k) => c = d

KeyCounted(k) ==
    (store[k] # None /\ k \notin closed \cup Spoilt /\ unseen = 0) =>
        landed[k] <= store[k].spent + Server!Sum(Server!Unrecorded(k))

ServerInv ==
    /\ ServerTyped /\ CallsNumbered
    /\ \A k \in ServerKeys : KeyKept(k) /\ KeyCounted(k)

-----------------------------------------------------------------------------
(* What the actions do to the calls.                                         *)

LEMMA ServerConstants ==
    /\ ServerKeys \subseteq Nat /\ IsFiniteSet(ServerKeys) /\ SplKinds \subseteq BOOLEAN
    /\ ServerLimits \subseteq Nat /\ ServerAmounts \subseteq Nat \ {0}
    /\ ServerFactor \in Nat /\ MaxCalls \in Nat
    /\ None \notin Nat /\ None \notin KeyRecord
BY PartsAssumption DEF Server!McpSessionsAssumption, KeyRecord, Server!IsFiniteSet, IsFiniteSet

\* A key is never made unused, and nobody's number is taken back.
Later ==
    /\ age' \in [ServerKeys -> {"unused", "fresh", "expiring", "expired"}]
    /\ \A k \in ServerKeys : age'[k] = "unused" => age[k] = "unused"
    /\ started' \in Nat /\ started <= started'

LEMMA CallsDropped ==
    ASSUME ServerTyped, CallsNumbered, Later, calls' \subseteq calls
    PROVE  calls' \in SUBSET ServerCall /\ IsFiniteSet(calls') /\ CallsNumbered'
<1>1. \A c \in calls : c \in ServerCall /\ c.key \in ServerKeys /\ c.id \in Nat
  BY DEF ServerTyped, ServerCall
<1>2. \A c \in calls : CallFits(c)'
  BY <1>1 DEF ServerTyped, CallsNumbered, CallFits, Later
<1>3. IsFiniteSet(calls')
  BY FS_Subset DEF ServerTyped
<1> QED
  BY <1>1, <1>2, <1>3 DEF CallsNumbered

\* A call goes on under its number.
LEMMA CallGoesOn ==
    ASSUME ServerTyped, CallsNumbered, Later, NEW c \in calls, c.id # 0,
           NEW d \in ServerCall, d.id = c.id, CallFits(d)',
           calls' = (calls \ {c}) \cup {d}
    PROVE  calls' \in SUBSET ServerCall /\ IsFiniteSet(calls') /\ CallsNumbered'
<1>1. \A e \in calls : e \in ServerCall /\ e.key \in ServerKeys /\ e.id \in Nat
  BY DEF ServerTyped, ServerCall
<1>2. \A e \in calls : CallFits(e)'
  BY <1>1 DEF ServerTyped, CallsNumbered, CallFits, Later
<1>3. IsFiniteSet(calls')
  BY FS_RemoveElement, FS_AddElement DEF ServerTyped
<1>4. \A e \in calls \ {c} : e.id # d.id
  BY DEF CallsNumbered
<1> QED
  BY <1>1, <1>2, <1>3, <1>4 DEF CallsNumbered

\* A call begins: a registration, or the payment of a new number.
LEMMA CallBegins ==
    ASSUME ServerTyped, CallsNumbered, Later,
           NEW d \in ServerCall, d.id = 0 \/ d.id > started, CallFits(d)',
           calls' = calls \cup {d}
    PROVE  calls' \in SUBSET ServerCall /\ IsFiniteSet(calls') /\ CallsNumbered'
<1>1. \A e \in calls : e \in ServerCall /\ e.key \in ServerKeys /\ e.id \in Nat
  BY DEF ServerTyped, ServerCall
<1>2. \A e \in calls : CallFits(e)' /\ e.id <= started
  BY <1>1 DEF ServerTyped, CallsNumbered, CallFits, Later
<1>3. IsFiniteSet(calls')
  BY FS_AddElement DEF ServerTyped
<1>4. d.id \in Nat /\ started \in Nat
  BY DEF ServerCall, ServerTyped
<1>5. \A e \in calls : e.id = d.id => d.id = 0
  BY <1>1, <1>2, <1>4
<1> QED
  BY <1>1, <1>2, <1>3, <1>5 DEF CallsNumbered

\* get_active_session finds a key that was used and has a record, if there is one.
LEMMA ActiveIsLive ==
    ASSUME ServerTyped, \A k \in ServerKeys : KeyKept(k), Server!Active # None
    PROVE  /\ Server!Active \in ServerKeys
           /\ store[Server!Active] \in KeyRecord
           /\ age[Server!Active] # "unused"
<1>1. Server!Live # {} /\ Server!Live \in SUBSET Nat /\ IsFiniteSet(Server!Live)
  BY ServerConstants, FS_Subset DEF Server!Active, Server!Live
<1>2. PICK k \in Server!Live : \A j \in Server!Live : k <= j
  BY <1>1, LeastOf
<1>3. Server!Active \in Server!Live
  BY <1>1, <1>2 DEF Server!Active, Server!Min
<1> QED
  BY <1>3 DEF Server!Live, ServerTyped, KeyKept

ServerBase == ServerTyped /\ CallsNumbered /\ \A k \in ServerKeys : KeyKept(k)

\* Calls end, and nothing else that the store keeps changes.
LEMMA CallsEnd ==
    ASSUME ServerBase, calls' \subseteq calls, UNCHANGED <<store, age, started, closed>>,
           raced \subseteq raced', regranted \subseteq regranted',
           landed' \in [ServerKeys -> Nat], unseen' \in Nat,
           \A k \in ServerKeys : age[k] = "unused" => landed'[k] = landed[k]
    PROVE  ServerBase'
<1>1. Later
  BY DEF ServerBase, ServerTyped, Later
<1>2. calls' \in SUBSET ServerCall /\ IsFiniteSet(calls') /\ CallsNumbered'
  BY <1>1, CallsDropped DEF ServerBase
<1>3. ServerTyped'
  BY <1>2 DEF ServerBase, ServerTyped
<1>4. ASSUME NEW k \in ServerKeys PROVE KeyKept(k)'
  BY <1>4 DEF ServerBase, KeyKept, Writes, Spoilt
<1> QED
  BY <1>2, <1>3, <1>4 DEF ServerBase

\* A key comes into use with a record of its own; a registration of it may begin.
LEMMA KeyCreated ==
    ASSUME ServerBase, NEW n \in ServerKeys, age[n] = "unused", NEW limit \in Nat, NEW mint \in BOOLEAN,
           Server!Create(n, limit, mint), UNCHANGED <<started, closed, raced, regranted, landed, unseen>>,
           \/ calls' = calls
           \/ \E d \in ServerCall : /\ calls' = calls \cup {d}
                                    /\ d.id = 0 /\ d.kind = "create" /\ d.stage = "sending"
    PROVE  ServerBase'
<1>1. /\ store' = [store EXCEPT ![n] = [limit |-> limit, spent |-> 0, mint |-> mint]]
      /\ age' = [age EXCEPT ![n] = "fresh"]
  BY DEF Server!Create, Server!Record
<1>2. Later
  BY <1>1 DEF ServerBase, ServerTyped, Later
<1>3. calls' \in SUBSET ServerCall /\ IsFiniteSet(calls') /\ CallsNumbered'
  <2>1. CASE calls' = calls
    BY <1>2, <2>1, CallsDropped DEF ServerBase
  <2>2. ASSUME NEW d \in ServerCall, calls' = calls \cup {d}, d.id = 0, d.kind = "create",
               d.stage = "sending"
        PROVE  calls' \in SUBSET ServerCall /\ IsFiniteSet(calls') /\ CallsNumbered'
    <3>1. CallFits(d)'
      BY <1>2, <2>2 DEF CallFits, Later
    <3> QED
      BY <1>2, <2>2, <3>1, CallBegins DEF ServerBase
  <2> QED
    BY <2>1, <2>2
<1>4. [limit |-> limit, spent |-> 0, mint |-> mint] \in KeyRecord
  BY DEF KeyRecord
<1>5. ServerTyped'
  BY <1>1, <1>3, <1>4 DEF ServerBase, ServerTyped
<1>6. \A c, k : Writes(c, k)' => Writes(c, k)
  BY DEF Writes
<1>7. \A c \in calls : c.key = n => c.stage = "sending"
  BY DEF ServerBase, CallsNumbered, CallFits
<1>8. store'[n] # None
  BY <1>1, <1>4, ServerConstants DEF ServerBase, ServerTyped
<1>9. ASSUME NEW k \in ServerKeys PROVE KeyKept(k)'
  <2>1. KeyKept(k) /\ \A c \in calls' : Writes(c, k)' => c \in calls /\ Writes(c, k)
    BY <1>6 DEF ServerBase, Writes
  <2>2. CASE k = n
    <3>1. age'[k] = "fresh" /\ k \notin closed'
      BY <1>1, <2>1, <2>2 DEF ServerBase, ServerTyped, KeyKept
    <3>2. \A c \in calls' : ~Writes(c, k)'
      BY <1>7, <2>1, <2>2 DEF Writes
    <3> QED
      BY <1>8, <2>2, <3>1, <3>2 DEF KeyKept
  <2>3. CASE k # n
    <3>1. age'[k] = age[k] /\ store'[k] = store[k]
      BY <1>1, <2>3 DEF ServerBase, ServerTyped
    <3> QED
      BY <2>1, <3>1 DEF KeyKept, Spoilt
  <2> QED
    BY <2>2, <2>3
<1> QED
  BY <1>3, <1>5, <1>9 DEF ServerBase

\* close_session: whoever was about to write the key's record spoils it.
LEMMA KeyClosed ==
    ASSUME ServerBase, NEW n \in ServerKeys, NEW refund, Server!CloseSession(n, refund)
    PROVE  ServerBase'
<1>1. /\ store[n] # None /\ store' = [store EXCEPT ![n] = None] /\ closed' = closed \cup {n}
      /\ raced' = IF Server!Busy(n) = {} THEN raced ELSE raced \cup {n}
      /\ UNCHANGED <<age, calls, started, landed, regranted, unseen>>
  BY DEF Server!CloseSession
<1>2. Later
  BY <1>1 DEF ServerBase, ServerTyped, Later
<1>3. calls' \in SUBSET ServerCall /\ IsFiniteSet(calls') /\ CallsNumbered'
  BY <1>1, <1>2, CallsDropped DEF ServerBase
<1>4. ServerTyped'
  BY <1>1, <1>3 DEF ServerBase, ServerTyped
<1>5. ASSUME NEW c \in calls, Writes(c, n) PROVE n \in raced'
  BY <1>1, <1>5 DEF Server!Busy, Writes
<1>6. ASSUME NEW k \in ServerKeys PROVE KeyKept(k)'
  <2>1. KeyKept(k) /\ \A c : Writes(c, k)' <=> Writes(c, k)
    BY <1>1 DEF ServerBase, Writes
  <2>2. CASE k = n
    BY <1>1, <1>5, <2>1, <2>2 DEF KeyKept, ServerBase, ServerTyped, Spoilt
  <2>3. CASE k # n
    <3>1. store'[k] = store[k] /\ raced \subseteq raced' /\ (k \in raced' => k \in raced)
      BY <1>1, <2>3 DEF ServerBase, ServerTyped
    <3> QED
      BY <1>1, <2>1, <2>3, <3>1 DEF KeyKept, Spoilt
  <2> QED
    BY <2>2, <2>3
<1> QED
  BY <1>3, <1>4, <1>6 DEF ServerBase

\* A payment begins, with the active key.
LEMMA PaymentBegins ==
    ASSUME ServerBase, NEW kind \in {"tool", "atomic"}, NEW spl \in BOOLEAN,
           NEW source \in {"key", "session"}, NEW a \in Nat, NEW due \in {1, 2},
           due = (IF kind = "tool" THEN 1 ELSE 2), Server!Start(kind, spl, source, a, due)
    PROVE  ServerBase'
<1>1. PICK n, d :
         /\ n = Server!Active /\ n # None /\ started' = started + 1 /\ calls' = calls \cup {d}
         /\ d = [id |-> started + 1, kind |-> kind, key |-> n, amount |-> a, spl |-> spl,
                 source |-> source, stage |-> "sending", seen |-> None, due |-> due]
         /\ UNCHANGED <<store, age, landed, closed, raced, regranted, unseen>>
  BY DEF Server!Start, Server!history
<1>2. n \in ServerKeys /\ age[n] # "unused"
  BY <1>1, ActiveIsLive DEF ServerBase
<1>3. started \in Nat /\ started' \in Nat
  BY <1>1 DEF ServerBase, ServerTyped
<1>4. Later
  BY <1>1, <1>3 DEF ServerBase, ServerTyped, Later
<1>5. d \in ServerCall /\ d.id > started /\ CallFits(d)'
  BY <1>1, <1>2, <1>3 DEF ServerCall, CallFits
<1>6. calls' \in SUBSET ServerCall /\ IsFiniteSet(calls') /\ CallsNumbered'
  BY <1>1, <1>4, <1>5, CallBegins DEF ServerBase
<1>7. ServerTyped'
  BY <1>1, <1>3, <1>6 DEF ServerBase, ServerTyped
<1>8. \A c, k : Writes(c, k)' => Writes(c, k)
  BY <1>1 DEF Writes
<1>9. ASSUME NEW k \in ServerKeys PROVE KeyKept(k)'
  BY <1>1, <1>8 DEF ServerBase, KeyKept, Spoilt, Writes
<1> QED
  BY <1>6, <1>7, <1>9 DEF ServerBase

LEMMA CallIs ==
    ASSUME ServerBase, NEW c \in calls
    PROVE  /\ c \in ServerCall /\ CallFits(c) /\ c.key \in ServerKeys /\ c.amount \in Nat
           /\ c.kind # "create" => c.id # 0 /\ age[c.key] # "unused"
BY DEF ServerBase, ServerTyped, CallsNumbered, CallFits, ServerCall

\* A payment lands and is to be recorded, or nobody sees it land, or it does not.
LEMMA PaymentSent ==
    ASSUME ServerBase, NEW c \in calls, c.kind # "create", Server!Send(c)
    PROVE  ServerBase'
<1>1. /\ c.stage = "sending"
      /\ UNCHANGED <<store, age, started, closed, raced, regranted>>
      /\ \/ landed' = landed
         \/ landed' = [landed EXCEPT ![c.key] = landed[c.key] + c.amount]
      /\ unseen' \in {unseen, unseen + 1}
      /\ \/ calls' = calls \ {c}
         \/ calls' = (calls \ {c}) \cup {[c EXCEPT !.stage = "recording"]}
  BY DEF Server!Send, Server!Land, Server!PaymentIx, Server!Stage, Server!renewing
<1>2. c \in ServerCall /\ CallFits(c) /\ c.key \in ServerKeys /\ c.amount \in Nat
      /\ c.id # 0 /\ age[c.key] # "unused"
  BY CallIs
<1>3. landed' \in [ServerKeys -> Nat] /\ unseen' \in Nat
  BY <1>1, <1>2 DEF ServerBase, ServerTyped
<1>4. \A k \in ServerKeys : age[k] = "unused" => landed'[k] = landed[k]
  BY <1>1, <1>2 DEF ServerBase, ServerTyped
<1>5. CASE calls' = calls \ {c}
  BY <1>1, <1>3, <1>4, <1>5, CallsEnd
<1>6. CASE calls' = (calls \ {c}) \cup {[c EXCEPT !.stage = "recording"]}
  <2>1. PICK d : d = [c EXCEPT !.stage = "recording"]
    OBVIOUS
  <2>2. /\ d \in ServerCall /\ d.id = c.id /\ d.stage = "recording" /\ d.key = c.key
        /\ d.kind = c.kind /\ d.due = c.due
    BY <1>2, <2>1 DEF ServerCall
  <2>3. CallFits(d)'
    BY <1>1, <1>2, <2>2 DEF CallFits
  <2>4. Later
    BY <1>1 DEF ServerBase, ServerTyped, Later
  <2>5. calls' \in SUBSET ServerCall /\ IsFiniteSet(calls') /\ CallsNumbered'
    BY <1>2, <1>6, <2>1, <2>2, <2>3, <2>4, CallGoesOn DEF ServerBase
  <2>6. ServerTyped'
    BY <1>1, <1>3, <2>5 DEF ServerBase, ServerTyped
  <2>7. \A e, k : Writes(e, k)' => Writes(e, k)
    BY <1>6, <2>1, <2>2 DEF Writes
  <2>8. ASSUME NEW k \in ServerKeys PROVE KeyKept(k)'
    BY <1>1, <1>4, <2>7 DEF ServerBase, KeyKept, Spoilt, Writes
  <2> QED
    BY <2>5, <2>6, <2>8 DEF ServerBase
<1> QED
  BY <1>1, <1>5, <1>6

\* record_spent reads the record: a second reader spoils it.
LEMMA RecordIsRead ==
    ASSUME ServerBase, NEW c \in calls, Server!RecordRead(c)
    PROVE  ServerBase'
<1>1. /\ c.stage = "recording"
      /\ UNCHANGED <<store, age, started, landed, closed, regranted, unseen>>
      /\ raced' = IF \E d \in Server!Busy(c.key) : d # c /\ d.stage = "writing"
                  THEN raced \cup {c.key} ELSE raced
  BY DEF Server!RecordRead, Server!renewing
<1>2. c \in ServerCall /\ CallFits(c) /\ c.key \in ServerKeys /\ c.id # 0
      /\ age[c.key] # "unused"
  BY <1>1, CallIs DEF CallFits
<1>3. CASE store[c.key] = None
  <2>1. calls' \subseteq calls
    BY <1>3 DEF Server!RecordRead
  <2> QED
    BY <1>1, <2>1, CallsEnd DEF ServerBase, ServerTyped
<1>4. CASE store[c.key] # None
  <2>1. PICK d : d = [c EXCEPT !.stage = "writing", !.seen = store[c.key]]
    OBVIOUS
  <2>2. calls' = (calls \ {c}) \cup {d}
    BY <1>4, <2>1 DEF Server!RecordRead
  <2>3. /\ d \in ServerCall /\ d.id = c.id /\ d.stage = "writing" /\ d.key = c.key
        /\ d.kind = c.kind /\ d.due = c.due /\ d.seen = store[c.key]
    BY <1>2, <1>4, <2>1 DEF ServerCall, ServerBase, ServerTyped
  <2>4. CallFits(d)'
    BY <1>1, <1>2, <1>4, <2>3 DEF CallFits, ServerBase, ServerTyped
  <2>5. Later
    BY <1>1 DEF ServerBase, ServerTyped, Later
  <2>6. calls' \in SUBSET ServerCall /\ IsFiniteSet(calls') /\ CallsNumbered'
    BY <1>2, <2>2, <2>3, <2>4, <2>5, CallGoesOn DEF ServerBase
  <2>7. ServerTyped'
    BY <1>1, <2>6 DEF ServerBase, ServerTyped
  <2>8. \A e, k : Writes(e, k)' => Writes(e, k) \/ (e = d /\ k = c.key)
    BY <2>2, <2>3 DEF Writes
  <2>9. \A e \in calls : Writes(e, c.key) => c.key \in raced'
    BY <1>1 DEF Writes, Server!Busy
  <2>10. ASSUME NEW k \in ServerKeys PROVE KeyKept(k)'
    <3>1. KeyKept(k) /\ raced \subseteq raced'
      BY <1>1 DEF ServerBase
    <3>2. CASE k = c.key
      <4>1. k \notin raced' => \A e \in calls' : Writes(e, k)' => e = d
        BY <2>8, <2>9, <3>2 DEF Writes
      <4>2. k \notin closed \ Spoilt
        BY <1>4, <3>1, <3>2 DEF KeyKept
      <4> QED
        BY <1>1, <1>2, <2>3, <3>1, <3>2, <4>1, <4>2 DEF KeyKept, Spoilt
    <3>3. CASE k # c.key
      <4>1. \A e : Writes(e, k)' => Writes(e, k) /\ e \in calls
        BY <2>8, <3>3 DEF Writes
      <4> QED
        BY <1>1, <3>1, <4>1 DEF KeyKept, Spoilt
    <3> QED
      BY <3>2, <3>3
  <2> QED
    BY <2>6, <2>7, <2>10 DEF ServerBase
<1> QED
  BY <1>3, <1>4

\* It writes what it has read and adds what was paid.
LEMMA RecordIsWritten ==
    ASSUME ServerBase, NEW c \in calls, Server!RecordWrite(c)
    PROVE  ServerBase'
<1>1. /\ c.stage = "writing" /\ store' = [store EXCEPT ![c.key] = Server!Spent(c)]
      /\ UNCHANGED <<age, started, landed, closed, raced, regranted, unseen>>
  BY DEF Server!RecordWrite, Server!renewing, Server!history
<1>2. c \in ServerCall /\ CallFits(c) /\ c.key \in ServerKeys /\ c.id # 0 /\ c.amount \in Nat
      /\ age[c.key] # "unused" /\ c.kind # "create"
  BY <1>1, CallIs DEF CallFits
<1>3. Writes(c, c.key)
  BY <1>1 DEF Writes
<1>4. Server!Spent(c) \in KeyRecord
  BY <1>1, <1>2 DEF Server!Spent, KeyRecord, CallFits
<1>5. Later
  BY <1>1 DEF ServerBase, ServerTyped, Later
<1>6. calls' \in SUBSET ServerCall /\ IsFiniteSet(calls') /\ CallsNumbered'
  <2>1. CASE c.due = 1
    <3>1. calls' \subseteq calls
      BY <2>1 DEF Server!RecordWrite
    <3> QED
      BY <1>5, <3>1, CallsDropped DEF ServerBase
  <2>2. CASE c.due # 1
    <3>1. PICK d : d = [c EXCEPT !.stage = "recording", !.due = 1, !.seen = None]
      OBVIOUS
    <3>2. calls' = (calls \ {c}) \cup {d}
      BY <2>2, <3>1 DEF Server!RecordWrite
    <3>3. /\ d \in ServerCall /\ d.id = c.id /\ d.stage = "recording" /\ d.key = c.key
          /\ d.kind = c.kind /\ d.due = 1
      BY <1>2, <3>1 DEF ServerCall
    <3>4. CallFits(d)'
      BY <1>1, <1>2, <2>2, <3>3 DEF CallFits
    <3> QED
      BY <1>2, <1>5, <3>2, <3>3, <3>4, CallGoesOn DEF ServerBase
  <2> QED
    BY <2>1, <2>2
<1>7. ServerTyped'
  BY <1>1, <1>2, <1>4, <1>6 DEF ServerBase, ServerTyped
<1>8. \A e, k : Writes(e, k)' => Writes(e, k) /\ e # c
  <2>1. \A e \in calls' : e \in calls \ {c} \/ e.stage = "recording"
    BY <1>2 DEF Server!RecordWrite, ServerCall
  <2> QED
    BY <2>1 DEF Writes
<1>9. ASSUME NEW k \in ServerKeys PROVE KeyKept(k)'
  <2>1. KeyKept(k)
    BY DEF ServerBase
  <2>2. CASE k = c.key
    <3>1. store'[k] # None
      BY <1>1, <1>2, <1>4, <2>2, ServerConstants DEF ServerBase, ServerTyped
    <3>2. k \notin closed \ Spoilt
      BY <1>3, <2>1, <2>2 DEF KeyKept
    <3>3. k \notin closed \cup Spoilt => \A e \in calls' : ~Writes(e, k)'
      BY <1>3, <1>8, <2>1, <2>2 DEF KeyKept, Writes
    <3> QED
      BY <1>1, <1>2, <2>2, <3>1, <3>2, <3>3 DEF KeyKept, Spoilt
  <2>3. CASE k # c.key
    <3>1. store'[k] = store[k]
      BY <1>1, <2>3 DEF ServerBase, ServerTyped
    <3>2. \A e : Writes(e, k)' => Writes(e, k) /\ e \in calls
      BY <1>8 DEF Writes
    <3> QED
      BY <1>1, <2>1, <3>1, <3>2 DEF KeyKept, Spoilt
  <2> QED
    BY <2>2, <2>3
<1> QED
  BY <1>6, <1>7, <1>9 DEF ServerBase

\* The phone grants a key: what was recorded of it is gone.
LEMMA KeyGranted ==
    ASSUME ServerBase, NEW n \in ServerKeys, NEW limit \in Nat, NEW spl \in BOOLEAN,
           Server!GrantKey(n, limit, spl)
    PROVE  ServerBase'
<1>1. /\ store' = [store EXCEPT ![n] = [limit |-> limit, spent |-> 0, mint |-> spl]]
      /\ age' = [age EXCEPT ![n] = IF age[n] = "unused" THEN "fresh" ELSE age[n]]
      /\ regranted' = regranted \cup {n}
      /\ UNCHANGED <<calls, started, landed, closed, raced, unseen>>
  BY DEF Server!GrantKey, Server!Record, Server!renewing
<1>2. [limit |-> limit, spent |-> 0, mint |-> spl] \in KeyRecord
  BY DEF KeyRecord
<1>3. Later
  BY <1>1 DEF ServerBase, ServerTyped, Later
<1>4. calls' \in SUBSET ServerCall /\ IsFiniteSet(calls') /\ CallsNumbered'
  BY <1>1, <1>3, CallsDropped DEF ServerBase
<1>5. ServerTyped'
  BY <1>1, <1>2, <1>4 DEF ServerBase, ServerTyped
<1>6. \A c, k : Writes(c, k)' <=> Writes(c, k)
  BY <1>1 DEF Writes
<1>7. ASSUME NEW k \in ServerKeys PROVE KeyKept(k)'
  <2>1. KeyKept(k)
    BY DEF ServerBase
  <2>2. CASE k = n
    <3>1. store'[k] # None /\ age'[k] # "unused" /\ k \in Spoilt'
      BY <1>1, <1>2, <2>2, ServerConstants DEF ServerBase, ServerTyped, Spoilt
    <3> QED
      BY <3>1 DEF KeyKept, Spoilt
  <2>3. CASE k # n
    <3>1. store'[k] = store[k] /\ age'[k] = age[k] /\ (k \in Spoilt' <=> k \in Spoilt)
      BY <1>1, <2>3 DEF ServerBase, ServerTyped, Spoilt
    <3> QED
      BY <1>1, <1>6, <2>1, <3>1 DEF KeyKept, Spoilt
  <2> QED
    BY <2>2, <2>3
<1> QED
  BY <1>4, <1>5, <1>7 DEF ServerBase

LEMMA KeyAges ==
    ASSUME ServerBase, NEW n \in ServerKeys, Server!TimePasses(n)
    PROVE  ServerBase'
<1>1. /\ age[n] \in {"fresh", "expiring"}
      /\ age' = [age EXCEPT ![n] = IF age[n] = "fresh" THEN "expiring" ELSE "expired"]
      /\ UNCHANGED <<store, calls, started, landed, closed, raced, regranted, unseen>>
  BY DEF Server!TimePasses, Server!history
<1>2. Later
  BY <1>1 DEF ServerBase, ServerTyped, Later
<1>3. calls' \in SUBSET ServerCall /\ IsFiniteSet(calls') /\ CallsNumbered'
  BY <1>1, <1>2, CallsDropped DEF ServerBase
<1>4. ServerTyped'
  BY <1>1, <1>2, <1>3 DEF ServerBase, ServerTyped, Later
<1>5. \A k \in ServerKeys : age'[k] = "unused" <=> age[k] = "unused"
  BY <1>1 DEF ServerBase, ServerTyped
<1>6. \A c, k : Writes(c, k)' <=> Writes(c, k)
  BY <1>1 DEF Writes
<1>7. \A k \in ServerKeys : KeyKept(k)'
  BY <1>1, <1>5, <1>6 DEF ServerBase, KeyKept, Spoilt
<1> QED
  BY <1>3, <1>4, <1>7 DEF ServerBase

-----------------------------------------------------------------------------
(* What the actions do to the count of what a key paid.                      *)

Unrecorded(k) == Server!Unrecorded(k)
Sum(S) == Server!Sum(S)

LEMMA ServerSum == \A S : Sum(S) = SumFunctionOnSet([c \in S |-> c.amount], S)
BY DEF Sum, Server!Sum, Server!SumFunctionOnSet, Server!FoldFunctionOnSet, Server!MapThenFoldSet,
       SumFunctionOnSet, FoldFunctionOnSet, MapThenFoldSet

LEMMA SumIsNat ==
    ASSUME NEW S, IsFiniteSet(S), \A c \in S : c.amount \in Nat PROVE Sum(S) \in Nat
BY ServerSum, SumType

LEMMA SumWithOne ==
    ASSUME NEW S, IsFiniteSet(S), \A c \in S : c.amount \in Nat,
           NEW x, x \notin S, x.amount \in Nat
    PROVE  Sum(S \cup {x}) = Sum(S) + x.amount
<1> DEFINE F == [c \in S |-> c.amount]
           G == [c \in S \cup {x} |-> c.amount]
<1>1. G[x] \in Int /\ G[x] = x.amount /\ \A i \in S : F[i] \in Int /\ G[i] = F[i]
  OBVIOUS
<1>2. Sum(S) = SumFunctionOnSet(F, S) /\ Sum(S \cup {x}) = SumFunctionOnSet(G, S \cup {x})
  BY ServerSum
<1> HIDE DEF F, G
<1>3. SumFunctionOnSet(G, S \cup {x}) = SumFunctionOnSet(F, S) + G[x]
  BY <1>1, SumPlus
<1> QED
  BY <1>1, <1>2, <1>3

LEMMA SumWithoutOne ==
    ASSUME NEW S, IsFiniteSet(S), \A c \in S : c.amount \in Nat, NEW x \in S
    PROVE  Sum(S) = Sum(S \ {x}) + x.amount
<1>1. IsFiniteSet(S \ {x}) /\ (S \ {x}) \cup {x} = S /\ x \notin S \ {x}
  BY FS_RemoveElement
<1>2. \A c \in S \ {x} : c.amount \in Nat
  OBVIOUS
<1>3. Sum((S \ {x}) \cup {x}) = Sum(S \ {x}) + x.amount
  BY <1>1, <1>2, SumWithOne
<1> QED
  BY <1>1, <1>3

LEMMA UnrecordedIs ==
    ASSUME ServerBase, NEW k
    PROVE  /\ Unrecorded(k) = {c \in calls : /\ c.key = k /\ c.stage \in {"recording", "writing"}
                                             /\ c.due = 2 \/ c.kind = "tool"}
           /\ IsFiniteSet(Unrecorded(k)) /\ \A c \in Unrecorded(k) : c.amount \in Nat
           /\ Sum(Unrecorded(k)) \in Nat
<1>1. Unrecorded(k) = {c \in calls : /\ c.key = k /\ c.stage \in {"recording", "writing"}
                                     /\ c.due = 2 \/ c.kind = "tool"}
  BY DEF Unrecorded, Server!Unrecorded, Server!Busy
<1>2. IsFiniteSet(Unrecorded(k)) /\ \A c \in Unrecorded(k) : c.amount \in Nat
  BY <1>1, FS_Subset DEF ServerBase, ServerTyped, ServerCall
<1> QED
  BY <1>1, <1>2, SumIsNat

\* The key's books are as they were.
LEMMA CountStays ==
    ASSUME NEW k, KeyCounted(k), store'[k] = store[k], landed'[k] = landed[k],
           Unrecorded(k)' = Unrecorded(k), closed \subseteq closed', Spoilt \subseteq Spoilt',
           unseen' = 0 => unseen = 0
    PROVE  KeyCounted(k)'
BY DEF KeyCounted, Unrecorded

\* No call that is to be recorded begins, goes on or ends.
LEMMA SameUnrecorded ==
    ASSUME ServerBase, ServerBase',
           \A c : c \in calls /\ c.stage # "sending" <=> c \in calls' /\ c.stage # "sending"
    PROVE  \A k : Unrecorded(k)' = Unrecorded(k)
<1>1. \A k : Unrecorded(k)' = {c \in calls' : /\ c.key = k /\ c.stage \in {"recording", "writing"}
                                              /\ c.due = 2 \/ c.kind = "tool"}
  BY DEF Unrecorded, Server!Unrecorded, Server!Busy
<1>2. \A k : Unrecorded(k) = {c \in calls : /\ c.key = k /\ c.stage \in {"recording", "writing"}
                                            /\ c.due = 2 \/ c.kind = "tool"}
  BY DEF Unrecorded, Server!Unrecorded, Server!Busy
<1> QED
  BY <1>1, <1>2

UnrecordedIn(S, k) == {c \in S : /\ c.key = k /\ c.stage \in {"recording", "writing"}
                                 /\ c.due = 2 \/ c.kind = "tool"}

LEMMA UnrecordedThen ==
    \A k : Unrecorded(k) = UnrecordedIn(calls, k) /\ Unrecorded(k)' = UnrecordedIn(calls', k)
BY DEF Unrecorded, Server!Unrecorded, Server!Busy, UnrecordedIn

\* A payment that lands is to be recorded.
LEMMA CountSent ==
    ASSUME ServerBase, NEW c \in calls, c.kind # "create", Server!Send(c),
           NEW k \in ServerKeys, KeyCounted(k)
    PROVE  KeyCounted(k)'
<1>1. /\ c.stage = "sending" /\ UNCHANGED <<store, age, started, closed, raced, regranted>>
      /\ \/ /\ landed' = [landed EXCEPT ![c.key] = landed[c.key] + c.amount]
            /\ calls' = (calls \ {c}) \cup {[c EXCEPT !.stage = "recording"]} /\ unseen' = unseen
         \/ unseen' = unseen + 1
         \/ calls' = calls \ {c} /\ UNCHANGED <<landed, unseen>>
  BY DEF Server!Send, Server!Land, Server!PaymentIx, Server!Stage, Server!renewing
<1>2. c \in ServerCall /\ CallFits(c) /\ c.key \in ServerKeys /\ c.amount \in Nat /\ c.id # 0
  BY CallIs
<1>3. CASE unseen' = unseen + 1
  <2>1. unseen' # 0
    BY <1>3 DEF ServerBase, ServerTyped
  <2> QED
    BY <2>1 DEF KeyCounted
<1>4. CASE calls' = calls \ {c} /\ UNCHANGED <<landed, unseen>>
  <2>1. Unrecorded(k)' = Unrecorded(k)
    BY <1>1, <1>4, UnrecordedThen DEF UnrecordedIn
  <2> QED
    BY <1>1, <1>4, <2>1, CountStays DEF Spoilt
<1>5. CASE /\ landed' = [landed EXCEPT ![c.key] = landed[c.key] + c.amount]
           /\ calls' = (calls \ {c}) \cup {[c EXCEPT !.stage = "recording"]} /\ unseen' = unseen
  <2>1. PICK d : d = [c EXCEPT !.stage = "recording"]
    OBVIOUS
  <2>2. /\ d \in ServerCall /\ d.id = c.id /\ d.stage = "recording" /\ d.key = c.key
        /\ d.kind = c.kind /\ d.due = c.due /\ d.amount = c.amount
    BY <1>2, <2>1 DEF ServerCall
  <2>3. c.due = 2 \/ c.kind = "tool"
    BY <1>1, <1>2 DEF CallFits, ServerCall
  <2>4. d \notin calls
    BY <1>1, <1>2, <2>2 DEF ServerBase, CallsNumbered
  <2>5. CASE k # c.key
    <3>1. Unrecorded(k)' = Unrecorded(k)
      BY <1>5, <2>1, <2>2, <2>5, UnrecordedThen DEF UnrecordedIn
    <3>2. landed'[k] = landed[k]
      BY <1>5, <2>5 DEF ServerBase, ServerTyped
    <3> QED
      BY <1>1, <1>5, <3>1, <3>2, CountStays DEF Spoilt
  <2>6. CASE k = c.key
    <3>1. Unrecorded(k)' = Unrecorded(k) \cup {d} /\ d \notin Unrecorded(k)
      BY <1>1, <1>5, <2>1, <2>2, <2>3, <2>4, <2>6, UnrecordedThen DEF UnrecordedIn
    <3>2. Sum(Unrecorded(k) \cup {d}) = Sum(Unrecorded(k)) + c.amount
      BY <1>2, <2>2, <3>1, UnrecordedIs, SumWithOne
    <3>3. landed'[k] = landed[k] + c.amount /\ landed[k] \in Nat
      BY <1>5, <2>6 DEF ServerBase, ServerTyped
    <3>4. Sum(Unrecorded(k)) \in Nat /\ (store[k] # None => store[k].spent \in Nat)
      BY UnrecordedIs DEF ServerBase, ServerTyped, KeyRecord
    <3>5. Server!Sum(Server!Unrecorded(k))' = Sum(Unrecorded(k)) + c.amount
      BY <3>1, <3>2 DEF Sum, Unrecorded
    <3>6. Sum(Unrecorded(k)) = Server!Sum(Server!Unrecorded(k))
      BY DEF Sum, Unrecorded
    <3>7. (store[k] # None /\ k \notin closed \cup Spoilt /\ unseen = 0) =>
             landed[k] + c.amount <= (store[k].spent + Sum(Unrecorded(k))) + c.amount
      BY <1>2, <3>3, <3>4, <3>6 DEF KeyCounted
    <3>8. store[k] # None =>
             (store[k].spent + Sum(Unrecorded(k))) + c.amount
                 = store[k].spent + (Sum(Unrecorded(k)) + c.amount)
      BY <1>2, <3>4
    <3> QED
      BY <1>1, <1>5, <3>3, <3>5, <3>7, <3>8 DEF KeyCounted, Spoilt
  <2> QED
    BY <2>5, <2>6
<1> QED
  BY <1>1, <1>3, <1>4, <1>5

\* Reading the record loses no payment whose key is still there.
LEMMA CountRead ==
    ASSUME ServerBase, NEW c \in calls, Server!RecordRead(c), NEW k \in ServerKeys, KeyCounted(k)
    PROVE  KeyCounted(k)'
<1>1. /\ c.stage = "recording" /\ UNCHANGED <<store, landed, closed, regranted, unseen>>
      /\ raced \subseteq raced'
  BY DEF Server!RecordRead, Server!renewing
<1>2. c \in ServerCall /\ CallFits(c) /\ c.key \in ServerKeys /\ c.amount \in Nat /\ c.id # 0
  BY <1>1, CallIs DEF CallFits
<1>3. CASE store[c.key] = None
  <2>1. calls' = calls \ {c}
    BY <1>3 DEF Server!RecordRead
  <2>2. CASE k = c.key
    BY <1>1, <1>3, <2>2 DEF KeyCounted
  <2>3. CASE k # c.key
    <3>1. Unrecorded(k)' = Unrecorded(k)
      BY <2>1, <2>3, UnrecordedThen DEF UnrecordedIn
    <3> QED
      BY <1>1, <3>1, CountStays DEF Spoilt
  <2> QED
    BY <2>2, <2>3
<1>4. CASE store[c.key] # None
  <2>1. PICK d : d = [c EXCEPT !.stage = "writing", !.seen = store[c.key]]
    OBVIOUS
  <2>2. calls' = (calls \ {c}) \cup {d}
    BY <1>4, <2>1 DEF Server!RecordRead
  <2>3. /\ d.id = c.id /\ d.stage = "writing" /\ d.key = c.key
        /\ d.kind = c.kind /\ d.due = c.due /\ d.amount = c.amount
    BY <1>2, <2>1 DEF ServerCall
  <2>4. d \notin calls
    BY <1>1, <1>2, <2>3 DEF ServerBase, CallsNumbered
  <2>5. CASE c \notin Unrecorded(k)
    <3>1. Unrecorded(k)' = Unrecorded(k)
      BY <1>1, <2>2, <2>3, <2>5, UnrecordedThen DEF UnrecordedIn
    <3> QED
      BY <1>1, <3>1, CountStays DEF Spoilt
  <2>6. CASE c \in Unrecorded(k)
    <3> DEFINE rest == Unrecorded(k) \ {c}
    <3>1. Unrecorded(k)' = rest \cup {d} /\ d \notin rest
      BY <1>1, <2>2, <2>3, <2>4, <2>6, UnrecordedThen DEF UnrecordedIn
    <3>2. IsFiniteSet(rest) /\ \A x \in rest : x.amount \in Nat
      BY UnrecordedIs, FS_RemoveElement
    <3>3. Sum(Unrecorded(k)) = Sum(rest) + c.amount
      BY <2>6, UnrecordedIs, SumWithoutOne
    <3>4. Sum(rest \cup {d}) = Sum(rest) + c.amount
      <4> HIDE DEF rest
      <4> QED
        BY <1>2, <2>3, <3>1, <3>2, SumWithOne
    <3>5. Server!Sum(Server!Unrecorded(k))' = Server!Sum(Server!Unrecorded(k))
      BY <3>1, <3>3, <3>4 DEF Sum, Unrecorded
    <3> QED
      BY <1>1, <3>5 DEF KeyCounted, Spoilt
  <2> QED
    BY <2>5, <2>6
<1> QED
  BY <1>3, <1>4

\* Writing it counts what was read together with the payment.
LEMMA CountWritten ==
    ASSUME ServerBase, NEW c \in calls, Server!RecordWrite(c), NEW k \in ServerKeys, KeyCounted(k)
    PROVE  KeyCounted(k)'
<1>1. /\ c.stage = "writing" /\ store' = [store EXCEPT ![c.key] = Server!Spent(c)]
      /\ UNCHANGED <<landed, closed, raced, regranted, unseen>>
  BY DEF Server!RecordWrite, Server!renewing, Server!history
<1>2. c \in ServerCall /\ CallFits(c) /\ c.key \in ServerKeys /\ c.amount \in Nat /\ c.id # 0
      /\ c.kind # "create" /\ age[c.key] # "unused"
  BY <1>1, CallIs DEF CallFits
<1>3. UnrecordedIn(calls', k) = UnrecordedIn(calls, k) \ {c}
  <2>1. CASE c.due = 1
    <3>1. calls' = calls \ {c}
      BY <2>1 DEF Server!RecordWrite
    <3> QED
      BY <3>1 DEF UnrecordedIn
  <2>2. CASE c.due # 1
    <3>1. PICK d : d = [c EXCEPT !.stage = "recording", !.due = 1, !.seen = None]
      OBVIOUS
    <3>2. calls' = (calls \ {c}) \cup {d}
      BY <2>2, <3>1 DEF Server!RecordWrite
    <3>3. d.due = 1 /\ d.kind = c.kind
      BY <1>2, <3>1 DEF ServerCall
    <3>4. c.kind # "tool"
      BY <1>2, <2>2 DEF CallFits
    <3>5. d.id = c.id /\ d.stage = "recording"
      BY <1>2, <3>1 DEF ServerCall
    <3>6. d \notin calls
      BY <1>1, <1>2, <3>5 DEF ServerBase, CallsNumbered
    <3> QED
      BY <3>2, <3>3, <3>4, <3>6 DEF UnrecordedIn
  <2> QED
    BY <2>1, <2>2
<1>4. Unrecorded(k)' = Unrecorded(k) \ {c}
  BY <1>3, UnrecordedThen
<1>5. CASE k # c.key
  <2>1. Unrecorded(k)' = Unrecorded(k)
    BY <1>4, <1>5, UnrecordedThen DEF UnrecordedIn
  <2>2. store'[k] = store[k]
    BY <1>1, <1>5 DEF ServerBase, ServerTyped
  <2> QED
    BY <1>1, <2>1, <2>2, CountStays DEF Spoilt
<1>6. CASE k = c.key
  <2>1. SUFFICES ASSUME k \notin closed \cup Spoilt, unseen = 0
                 PROVE  KeyCounted(k)'
    BY <1>1 DEF KeyCounted, Spoilt
  <2>2. c.seen = store[k] /\ store[k] \in KeyRecord /\ store[k] # None
    BY <1>1, <1>2, <1>6, <2>1 DEF ServerBase, KeyKept, Writes, CallFits, ServerTyped
  <2>3. store'[k].spent = store[k].spent + c.amount
    BY <1>1, <1>2, <1>6, <2>2 DEF ServerBase, ServerTyped, Server!Spent, KeyRecord
  <2> DEFINE rest == Unrecorded(k) \ {c}
  <2>4. IsFiniteSet(rest) /\ \A x \in rest : x.amount \in Nat
    BY UnrecordedIs, FS_RemoveElement
  <2>5. Sum(rest) \in Nat
    <3> HIDE DEF rest
    <3> QED
      BY <2>4, SumIsNat
  <2>6. Sum(Unrecorded(k)) <= Sum(rest) + c.amount
    <3>1. CASE c \in Unrecorded(k)
      <4>1. Sum(Unrecorded(k)) = Sum(rest) + c.amount
        BY <3>1, UnrecordedIs, SumWithoutOne
      <4> HIDE DEF rest
      <4> QED
        BY <1>2, <2>5, <4>1
    <3>2. CASE c \notin Unrecorded(k)
      <4>1. rest = Unrecorded(k)
        BY <3>2
      <4> HIDE DEF rest
      <4> QED
        BY <1>2, <2>5, <4>1
    <3> QED
      BY <3>1, <3>2
  <2>7. landed[k] <= store[k].spent + Sum(Unrecorded(k))
    BY <2>1, <2>2 DEF KeyCounted, Sum, Unrecorded
  <2>8. landed[k] \in Nat /\ store[k].spent \in Nat /\ Sum(Unrecorded(k)) \in Nat
    BY <2>2, UnrecordedIs DEF ServerBase, ServerTyped, KeyRecord
  <2>9. landed[k] <= (store[k].spent + c.amount) + Sum(rest)
    <3> HIDE DEF rest
    <3> QED
      BY <1>2, <2>5, <2>6, <2>7, <2>8
  <2>10. Server!Sum(Server!Unrecorded(k))' = Sum(rest)
    BY <1>4 DEF Sum, Unrecorded
  <2> QED
    BY <1>1, <2>3, <2>9, <2>10 DEF KeyCounted
<1> QED
  BY <1>5, <1>6

-----------------------------------------------------------------------------
(* Every step of the server.                                                 *)

\* A key that comes into use has paid nothing.
LEMMA CountCreated ==
    ASSUME ServerBase, ServerBase', NEW n \in ServerKeys, age[n] = "unused",
           NEW limit \in Nat, NEW mint \in BOOLEAN, Server!Create(n, limit, mint),
           UNCHANGED <<closed, raced, regranted, landed, unseen>>,
           \A k : Unrecorded(k)' = Unrecorded(k), NEW k \in ServerKeys, KeyCounted(k)
    PROVE  KeyCounted(k)'
<1>1. store' = [store EXCEPT ![n] = [limit |-> limit, spent |-> 0, mint |-> mint]]
  BY DEF Server!Create, Server!Record
<1>2. CASE k = n
  <2>1. landed'[k] = 0 /\ store'[k].spent = 0
    BY <1>1, <1>2 DEF ServerBase, ServerTyped, KeyKept
  <2>2. Server!Sum(Server!Unrecorded(k))' = Sum(Unrecorded(k)) /\ Sum(Unrecorded(k)) \in Nat
    BY UnrecordedIs DEF Sum, Unrecorded
  <2> QED
    BY <2>1, <2>2 DEF KeyCounted
<1>3. CASE k # n
  <2>1. store'[k] = store[k]
    BY <1>1, <1>3 DEF ServerBase, ServerTyped
  <2> QED
    BY <2>1, CountStays DEF Spoilt
<1> QED
  BY <1>2, <1>3

LEMMA ToolStep ==
    ASSUME ServerInv, Server!ToolStep PROVE ServerInv'
<1>0. ServerBase /\ \A k \in ServerKeys : KeyCounted(k)
  BY DEF ServerInv, ServerBase
<1>1. SUFFICES ServerBase' /\ \A k \in ServerKeys : KeyCounted(k)'
  BY DEF ServerInv, ServerBase
<1>2. ASSUME NEW n \in ServerKeys, NEW limit \in ServerLimits, NEW spl \in SplKinds, NEW onChain,
             Server!CreateSession(n, limit, spl, onChain)
      PROVE  ServerBase' /\ \A k \in ServerKeys : KeyCounted(k)'
  <2>1. /\ age[n] = "unused" /\ Server!Create(n, limit, FALSE)
        /\ UNCHANGED <<started, closed, raced, regranted, landed, unseen>>
    BY <1>2 DEF Server!CreateSession, Server!Unused, Server!history
  <2>2. limit \in Nat /\ spl \in BOOLEAN
    BY ServerConstants
  <2>3. \/ calls' = calls
        \/ \E d \in ServerCall : /\ calls' = calls \cup {d}
                                 /\ d.id = 0 /\ d.kind = "create" /\ d.stage = "sending"
    <3> DEFINE d == [id |-> 0, kind |-> "create", key |-> n, amount |-> limit, spl |-> spl,
                     source |-> "session", stage |-> "sending", seen |-> None, due |-> 0]
    <3>1. calls' = calls \/ calls' = calls \cup {d}
      BY <1>2 DEF Server!CreateSession
    <3>2. d \in ServerCall /\ d.id = 0 /\ d.kind = "create" /\ d.stage = "sending"
      BY <2>2 DEF ServerCall
    <3> HIDE DEF d
    <3> QED
      BY <3>1, <3>2
  <2>4. ServerBase'
    BY <1>0, <2>1, <2>2, <2>3, KeyCreated
  <2>5. \A k : Unrecorded(k)' = Unrecorded(k)
    BY <2>3, UnrecordedThen DEF UnrecordedIn
  <2> QED
    BY <1>0, <2>1, <2>2, <2>4, <2>5, CountCreated
<1>3. ASSUME NEW n \in ServerKeys, NEW refund, Server!CloseSession(n, refund)
      PROVE  ServerBase' /\ \A k \in ServerKeys : KeyCounted(k)'
  <2>1. ServerBase'
    BY <1>0, <1>3, KeyClosed
  <2>2. /\ store' = [store EXCEPT ![n] = None] /\ closed' = closed \cup {n} /\ raced \subseteq raced'
        /\ UNCHANGED <<calls, landed, regranted, unseen>>
    BY <1>3 DEF Server!CloseSession
  <2>3. ASSUME NEW k \in ServerKeys PROVE KeyCounted(k)'
    <3>1. CASE k = n
      BY <2>2, <3>1 DEF KeyCounted
    <3>2. CASE k # n
      <4>1. store'[k] = store[k] /\ Unrecorded(k)' = Unrecorded(k)
        BY <1>0, <2>2, <3>2, UnrecordedThen DEF ServerBase, ServerTyped
      <4> QED
        BY <1>0, <2>2, <4>1, CountStays DEF Spoilt
    <3> QED
      BY <3>1, <3>2
  <2> QED
    BY <2>1, <2>3
<1>4. ASSUME NEW a \in ServerAmounts,
             \/ \E source \in {"key", "session"} : Server!ExecuteSplPayment(a, source)
             \/ \E spl \in SplKinds : Server!ExecutePayment(a, spl)
      PROVE  ServerBase' /\ \A k \in ServerKeys : KeyCounted(k)'
  <2>1. PICK kind \in {"tool", "atomic"}, spl \in BOOLEAN, source \in {"key", "session"}, due \in {1, 2} :
           due = (IF kind = "tool" THEN 1 ELSE 2) /\ Server!Start(kind, spl, source, a, due)
    BY <1>4, ServerConstants DEF Server!ExecuteSplPayment, Server!ExecutePayment
  <2>2. a \in Nat
    BY ServerConstants
  <2>3. ServerBase'
    BY <1>0, <2>1, <2>2, PaymentBegins
  <2>4. PICK d : d.stage = "sending" /\ calls' = calls \cup {d}
    BY <2>1 DEF Server!Start
  <2>5. \A k : Unrecorded(k)' = Unrecorded(k)
    BY <2>4, UnrecordedThen DEF UnrecordedIn
  <2>6. UNCHANGED <<store, landed, closed, raced, regranted, unseen>>
    BY <2>1 DEF Server!Start, Server!history
  <2> QED
    BY <1>0, <2>3, <2>5, <2>6, CountStays DEF Spoilt
<1> QED
  BY <1>2, <1>3, <1>4 DEF Server!ToolStep

LEMMA CallStep ==
    ASSUME ServerInv, NEW c \in calls, Server!CallStep(c) PROVE ServerInv'
<1>0. ServerBase /\ \A k \in ServerKeys : KeyCounted(k)
  BY DEF ServerInv, ServerBase
<1>1. SUFFICES ServerBase' /\ \A k \in ServerKeys : KeyCounted(k)'
  BY DEF ServerInv, ServerBase
<1>2. CASE Server!RegisterSessionOnChain(c)
  <2>1. /\ calls' = calls \ {c} /\ c.kind = "create"
        /\ UNCHANGED <<store, age, started, landed, closed, raced, regranted, unseen>>
    BY <1>2 DEF Server!RegisterSessionOnChain, Server!history
  <2>2. c.stage = "sending"
    BY <1>0, <2>1, CallIs DEF CallFits
  <2>3. ServerBase'
    BY <1>0, <2>1, CallsEnd DEF ServerBase, ServerTyped
  <2>4. \A k : Unrecorded(k)' = Unrecorded(k)
    BY <2>1, <2>2, UnrecordedThen DEF UnrecordedIn
  <2> QED
    BY <1>0, <2>1, <2>3, <2>4, CountStays DEF Spoilt
<1>3. CASE Server!SendTransaction(c) \/ Server!SendToRelayer(c)
  <2>1. c.kind # "create" /\ Server!Send(c)
    BY <1>3 DEF Server!SendTransaction, Server!SendToRelayer
  <2> QED
    BY <1>0, <2>1, PaymentSent, CountSent
<1>4. CASE Server!RecordRead(c)
  BY <1>0, <1>4, RecordIsRead, CountRead
<1>5. CASE Server!RecordWrite(c)
  BY <1>0, <1>5, RecordIsWritten, CountWritten
<1> QED
  BY <1>2, <1>3, <1>4, <1>5 DEF Server!CallStep

LEMMA ServerRestarts ==
    ASSUME ServerInv, Server!Restart PROVE ServerInv'
<1>0. ServerBase /\ \A k \in ServerKeys : KeyCounted(k)
  BY DEF ServerInv, ServerBase
<1> DEFINE B == {c \in calls : c.stage \in {"recording", "writing"}}
<1>1. /\ calls' = {} /\ unseen' = unseen + Server!Cardinality(B)
      /\ UNCHANGED <<store, age, started, landed, closed, raced, regranted>>
  BY DEF Server!Restart
<1>2. IsFiniteSet(B) /\ Server!Cardinality(B) = Cardinality(B)
  BY <1>0, FS_Subset DEF ServerBase, ServerTyped, Server!Cardinality, Cardinality
<1>3. Cardinality(B) \in Nat /\ (Cardinality(B) = 0 => B = {})
  <2> HIDE DEF B
  <2> QED
    BY <1>2, FS_CardinalityType, FS_EmptySet
<1>4. unseen \in Nat /\ unseen' \in Nat /\ (unseen' = 0 => unseen = 0 /\ B = {})
  <2>1. unseen \in Nat
    BY <1>0 DEF ServerBase, ServerTyped
  <2> HIDE DEF B
  <2> QED
    BY <1>1, <1>2, <1>3, <2>1
<1>5. ServerBase'
  BY <1>0, <1>1, <1>4, CallsEnd DEF ServerBase, ServerTyped
<1>6. ASSUME NEW k \in ServerKeys PROVE KeyCounted(k)'
  <2>1. CASE unseen' = 0
    <3>1. Unrecorded(k)' = Unrecorded(k)
      BY <1>1, <1>4, <2>1, UnrecordedThen DEF UnrecordedIn
    <3> QED
      BY <1>0, <1>1, <1>4, <3>1, CountStays DEF Spoilt
  <2>2. CASE unseen' # 0
    BY <2>2 DEF KeyCounted
  <2> QED
    BY <2>1, <2>2
<1> QED
  BY <1>5, <1>6 DEF ServerInv, ServerBase

LEMMA ServerStep == ServerInv /\ [Server!Next]_serverVars => ServerInv'
<1> SUFFICES ASSUME ServerInv, [Server!Next]_serverVars
             PROVE  ServerInv'
  OBVIOUS
<1>0. ServerBase /\ \A k \in ServerKeys : KeyCounted(k)
  BY DEF ServerInv, ServerBase
<1>1. ASSUME UNCHANGED <<store, age, calls, started, landed, closed, raced, regranted, unseen>>
      PROVE  ServerInv'
  <2>1. ServerBase'
    BY <1>0, <1>1, CallsEnd DEF ServerBase, ServerTyped
  <2>2. \A k : Unrecorded(k)' = Unrecorded(k)
    BY <1>1, UnrecordedThen DEF UnrecordedIn
  <2>3. \A k \in ServerKeys : KeyCounted(k)'
    BY <1>0, <1>1, <2>2, CountStays DEF Spoilt
  <2> QED
    BY <2>1, <2>3 DEF ServerInv, ServerBase
<1>2. ASSUME NEW n \in ServerKeys, Server!CheckAndRenewSession(n) \/ Server!CreateAndSendRenewRequest(n)
      PROVE  ServerInv'
  <2>1. PICK by : Server!Renew(by, n)
    BY <1>2 DEF Server!CheckAndRenewSession, Server!CreateAndSendRenewRequest
  <2>2. /\ age[n] = "unused" /\ Server!Active # None
        /\ Server!Create(n, store[Server!Active].limit * ServerFactor, FALSE)
        /\ UNCHANGED <<calls, started, closed, raced, regranted, landed, unseen>>
    BY <2>1 DEF Server!Renew, Server!NewKey, Server!Unused, Server!history
  <2>3. store[Server!Active].limit \in Nat
    BY <1>0, <2>2, ActiveIsLive DEF ServerBase, KeyRecord
  <2>4. PICK limit : limit = store[Server!Active].limit * ServerFactor
    OBVIOUS
  <2>5. limit \in Nat
    BY <2>3, <2>4, ServerConstants
  <2>6. Server!Create(n, limit, FALSE)
    BY <2>2, <2>4
  <2>7. ServerBase'
    BY <1>0, <2>2, <2>5, <2>6, KeyCreated
  <2>8. \A k : Unrecorded(k)' = Unrecorded(k)
    BY <2>2, UnrecordedThen DEF UnrecordedIn
  <2>9. \A k \in ServerKeys : KeyCounted(k)'
    BY <1>0, <2>2, <2>5, <2>6, <2>7, <2>8, CountCreated
  <2> QED
    BY <2>7, <2>9 DEF ServerInv, ServerBase
<1>3. ASSUME NEW n \in ServerKeys, NEW limit \in ServerLimits, NEW spl \in SplKinds,
             Server!GrantKey(n, limit, spl)
      PROVE  ServerInv'
  <2>1. limit \in Nat /\ spl \in BOOLEAN
    BY ServerConstants
  <2>2. ServerBase'
    BY <1>0, <1>3, <2>1, KeyGranted
  <2>3. /\ \A k \in ServerKeys : k # n => store'[k] = store[k]
        /\ regranted' = regranted \cup {n} /\ UNCHANGED <<calls, landed, closed, raced, unseen>>
    BY <1>0, <1>3 DEF Server!GrantKey, Server!renewing, ServerBase, ServerTyped
  <2>4. ASSUME NEW k \in ServerKeys PROVE KeyCounted(k)'
    <3>1. CASE k = n
      BY <2>3, <3>1 DEF KeyCounted, Spoilt
    <3>2. CASE k # n
      <4>1. Unrecorded(k)' = Unrecorded(k)
        BY <2>3, UnrecordedThen DEF UnrecordedIn
      <4> QED
        BY <1>0, <2>3, <3>2, <4>1, CountStays DEF Spoilt
    <3> QED
      BY <3>1, <3>2
  <2> QED
    BY <2>2, <2>4 DEF ServerInv, ServerBase
<1>4. ASSUME NEW n \in ServerKeys, Server!TimePasses(n) PROVE ServerInv'
  <2>1. ServerBase'
    BY <1>0, <1>4, KeyAges
  <2>2. UNCHANGED <<store, calls, landed, closed, raced, regranted, unseen>>
    BY <1>4 DEF Server!TimePasses, Server!history
  <2>3. \A k : Unrecorded(k)' = Unrecorded(k)
    BY <2>2, UnrecordedThen DEF UnrecordedIn
  <2>4. \A k \in ServerKeys : KeyCounted(k)'
    BY <1>0, <2>2, <2>3, CountStays DEF Spoilt
  <2> QED
    BY <2>1, <2>4 DEF ServerInv, ServerBase
<1>5. ASSUME NEW r, NEW limit, Server!PhoneAnswers(r, limit) PROVE ServerInv'
  BY <1>1, <1>5 DEF Server!PhoneAnswers, Server!history
<1>6. ASSUME NEW n, Server!RenewalTimesOut(n) PROVE ServerInv'
  BY <1>1, <1>6 DEF Server!RenewalTimesOut, Server!history
<1>7. CASE UNCHANGED serverVars
  BY <1>1, <1>7 DEF serverVars
<1> QED
  BY <1>2, <1>3, <1>4, <1>5, <1>6, <1>7, ToolStep, CallStep, ServerRestarts DEF Server!Next

LEMMA ServerInit == Server!Init => ServerInv
<1> SUFFICES ASSUME Server!Init
             PROVE  ServerInv
  OBVIOUS
<1>1. /\ store = [k \in ServerKeys |-> None] /\ age = [k \in ServerKeys |-> "unused"]
      /\ calls = {} /\ started = 0 /\ landed = [k \in ServerKeys |-> 0]
      /\ closed = {} /\ raced = {} /\ regranted = {} /\ unseen = 0
  BY DEF Server!Init
<1>2. ServerTyped /\ CallsNumbered
  BY <1>1, FS_EmptySet DEF ServerTyped, CallsNumbered
<1>3. ASSUME NEW k \in ServerKeys PROVE KeyKept(k) /\ KeyCounted(k)
  BY <1>1 DEF KeyKept, KeyCounted, Spoilt, Writes
<1> QED
  BY <1>2, <1>3 DEF ServerInv

LEMMA ServerInvSays == ServerInv => Server!SpendingIsCounted /\ Server!ClosedStaysClosed
<1> SUFFICES ASSUME ServerInv
             PROVE  Server!SpendingIsCounted /\ Server!ClosedStaysClosed
  OBVIOUS
<1>1. Server!SpendingIsCounted
  BY DEF ServerInv, KeyCounted, Spoilt, Server!SpendingIsCounted
<1> QED
  BY <1>1 DEF ServerInv, ServerTyped, KeyKept, Spoilt, Server!ClosedStaysClosed

-----------------------------------------------------------------------------
(* The vouchers of the server (PaymentFlow).                                 *)

Locked == {"fund", "pay", "sign", "voucher", "landed"}

FlowShape ==
    /\ task = [p \in Flow!Payments |-> task[p]]
    /\ \A p \in Flow!Payments : {"stage", "seq"} \subseteq DOMAIN task[p]
    /\ IsFiniteSet(vouchers) /\ \A v \in vouchers : v.seq \in Nat /\ v.amount \in Nat

\* A task past the lock holds payment_mutex; the number that a task is about to sign
\* is past every number of its merchant in the store, and the vault has room for the
\* voucher.
FlowInv ==
    /\ FlowShape
    /\ \A p \in Flow!Payments :
          /\ task[p].stage \in Locked => holder = p
          /\ task[p].stage = "sign" =>
                /\ task[p].seq \in Nat
                /\ \A v \in vouchers : v.merchant = MerchantOf[p] => v.seq < task[p].seq
                /\ Flow!Outstanding + AmountOf[p] <= Vault
    /\ Flow!VouchersAreKept
    /\ Flow!VouchersWithinVault

\* One task goes to stage s, the others and their numbers stay.
TaskMoves(p, s) ==
    /\ task' = [r \in Flow!Payments |-> task'[r]]
    /\ \A r \in Flow!Payments :
          /\ {"stage", "seq"} \subseteq DOMAIN task'[r]
          /\ task'[r].stage = IF r = p THEN s ELSE task[r].stage
          /\ task'[r].seq = task[r].seq

TasksStay ==
    /\ task' = [r \in Flow!Payments |-> task'[r]]
    /\ \A r \in Flow!Payments :
          /\ {"stage", "seq"} \subseteq DOMAIN task'[r]
          /\ task'[r].stage = task[r].stage /\ task'[r].seq = task[r].seq

LEMMA NobodyPays == None \notin Flow!Payments
BY PartsAssumption DEF Flow!PaymentFlowAssumption

LEMMA FlowGoto ==
    ASSUME FlowShape, NEW p \in Flow!Payments, NEW s, Flow!Goto(p, s) PROVE TaskMoves(p, s)
BY DEF FlowShape, Flow!Goto, TaskMoves

LEMMA FlowExecute ==
    ASSUME FlowShape, NEW p \in Flow!Payments, NEW how, NEW method, NEW snap,
           Flow!Execute(p, how, method, snap)
    PROVE  TaskMoves(p, "lock")
BY DEF FlowShape, Flow!Execute, TaskMoves

\* Nothing is signed.
LEMMA SameVouchers ==
    ASSUME Flow!VouchersAreKept, Flow!VouchersWithinVault, UNCHANGED <<vouchers, given>>
    PROVE  Flow!VouchersAreKept' /\ Flow!VouchersWithinVault' /\ Flow!Outstanding' = Flow!Outstanding
<1>1. Flow!VouchersAreKept'
  BY DEF Flow!VouchersAreKept
<1>2. Flow!Outstanding' = Flow!Outstanding
  BY DEF Flow!Outstanding
<1> QED
  BY <1>1, <1>2 DEF Flow!VouchersWithinVault

\* The vouchers add up, one by one.
LEMMA OutstandingIs ==
    /\ Flow!Outstanding = SumFunctionOnSet([v \in vouchers |-> v.amount], vouchers)
    /\ Flow!Outstanding' = SumFunctionOnSet([v \in vouchers' |-> v.amount], vouchers')
BY DEF Flow!Outstanding, Flow!SumFunctionOnSet, Flow!FoldFunctionOnSet, Flow!MapThenFoldSet,
       SumFunctionOnSet, FoldFunctionOnSet, MapThenFoldSet

LEMMA OutstandingGrows ==
    ASSUME FlowShape, NEW v, v \notin vouchers, v.amount \in Nat, vouchers' = vouchers \cup {v}
    PROVE  Flow!Outstanding' = Flow!Outstanding + v.amount
<1> DEFINE F == [w \in vouchers |-> w.amount]
           G == [w \in vouchers \cup {v} |-> w.amount]
<1>1. G[v] \in Int /\ G[v] = v.amount /\ \A w \in vouchers : F[w] \in Int /\ G[w] = F[w]
  BY DEF FlowShape
<1>2. IsFiniteSet(vouchers)
  BY DEF FlowShape
<1> HIDE DEF F, G
<1>3. SumFunctionOnSet(G, vouchers \cup {v}) = SumFunctionOnSet(F, vouchers) + G[v]
  BY <1>1, <1>2, SumPlus
<1>4. Flow!Outstanding = SumFunctionOnSet(F, vouchers)
  BY OutstandingIs DEF F
<1>5. Flow!Outstanding' = SumFunctionOnSet(G, vouchers \cup {v})
  BY OutstandingIs DEF G
<1> QED
  BY <1>1, <1>3, <1>4, <1>5

\* A task goes on, and takes or gives back nobody else's mutex.
LEMMA FlowGoesOn ==
    ASSUME FlowInv, NEW p \in Flow!Payments, NEW s, TaskMoves(p, s), s # "sign",
           UNCHANGED <<vouchers, given>>,
           \A r \in Flow!Payments \ {p} : holder = r => holder' = r,
           s \in Locked => holder' = p
    PROVE  FlowInv'
<1>1. FlowShape'
  BY DEF FlowInv, FlowShape, TaskMoves
<1>2. Flow!VouchersAreKept' /\ Flow!VouchersWithinVault' /\ Flow!Outstanding' = Flow!Outstanding
  BY SameVouchers DEF FlowInv
<1>3. ASSUME NEW r \in Flow!Payments
      PROVE  /\ task'[r].stage \in Locked => holder' = r
             /\ task'[r].stage = "sign" =>
                   /\ task'[r].seq \in Nat
                   /\ \A v \in vouchers' : v.merchant = MerchantOf[r] => v.seq < task'[r].seq
                   /\ Flow!Outstanding' + AmountOf[r] <= Vault
  BY <1>2, <1>3 DEF FlowInv, TaskMoves
<1> QED
  BY <1>1, <1>2, <1>3 DEF FlowInv

LEMMA FlowStays ==
    ASSUME FlowInv, TasksStay, UNCHANGED <<vouchers, given, holder>> PROVE FlowInv'
<1>1. FlowShape'
  BY DEF FlowInv, FlowShape, TasksStay
<1>2. Flow!VouchersAreKept' /\ Flow!VouchersWithinVault' /\ Flow!Outstanding' = Flow!Outstanding
  BY SameVouchers DEF FlowInv
<1> QED
  BY <1>1, <1>2 DEF FlowInv, TasksStay

\* The number that is read is past every number of the merchant.
LEMMA NextSeqIsNew ==
    ASSUME FlowShape, NEW m1
    PROVE  /\ Flow!NextSeq(m1) \in Nat
           /\ \A v \in vouchers : v.merchant = m1 => v.seq < Flow!NextSeq(m1)
<1> DEFINE S == {0} \cup {v.seq : v \in {w \in vouchers : w.merchant = m1}}
<1>1. IsFiniteSet(S) /\ S # {} /\ \A s \in S : s \in Nat
  <2>1. IsFiniteSet({w \in vouchers : w.merchant = m1})
    BY FS_Subset DEF FlowShape
  <2> DEFINE W == {w \in vouchers : w.merchant = m1}
             T == {v.seq : v \in W}
             f == [v \in W |-> v.seq]
  <2>2. IsFiniteSet(T)
    <3>1. f \in Surjection(W, T)
      BY DEF Surjection
    <3> QED
      BY <2>1, <3>1, FS_Surjection
  <2>3. IsFiniteSet(S)
    BY <2>2, FS_AddElement
  <2> QED
    BY <2>3 DEF FlowShape
<1>2. Flow!NextSeq(m1) = 1 + Flow!Max(S)
  BY DEF Flow!NextSeq
<1>3. \A v \in vouchers : v.merchant = m1 => v.seq \in S
  OBVIOUS
<1> HIDE DEF S
<1>4. PICK k \in S : \A j \in S : k >= j
  BY <1>1, GreatestOf
<1>5. Flow!Max(S) \in S /\ \A j \in S : Flow!Max(S) >= j
  BY <1>4 DEF Flow!Max
<1>6. \A j \in S : j < Flow!NextSeq(m1)
  BY <1>1, <1>2, <1>5
<1> QED
  BY <1>1, <1>2, <1>3, <1>5, <1>6


\* What a task that holds the mutex keeps from everyone else.
LEMMA OneHolds ==
    ASSUME FlowInv, NEW p \in Flow!Payments, task[p].stage \in Locked
    PROVE  holder = p /\ \A q1 \in Flow!Payments \ {p} : holder # q1
BY DEF FlowInv

USE DEF Flow!disk, Flow!lists, Flow!memory, Flow!phone, Flow!world, Flow!history

\* The steps of a task that leave the mutex alone and do not lead to it.
LEMMA BeforeTheLock ==
    ASSUME FlowInv, NEW p \in Flow!Payments,
           \/ Flow!Receive(p) \/ Flow!VerificationFails(p) \/ Flow!RiskCheck(p)
           \/ Flow!Decide(p) \/ Flow!Ask(p) \/ Flow!AskFails(p) \/ Flow!Authorized(p)
           \/ Flow!Refused(p) \/ Flow!AuthTimeout(p) \/ Flow!Finish(p) \/ Flow!QrPay(p)
    PROVE  FlowInv'
<1>0. FlowShape
  BY DEF FlowInv
<1>1. UNCHANGED <<vouchers, given, holder>>
  <2>1. CASE \/ Flow!Receive(p) \/ Flow!VerificationFails(p) \/ Flow!RiskCheck(p)
             \/ Flow!Decide(p) \/ Flow!Ask(p) \/ Flow!AskFails(p)
    BY <2>1 DEF Flow!Receive, Flow!VerificationFails, Flow!RiskCheck, Flow!Decide, Flow!Ask,
                Flow!AskFails
  <2>2. CASE \/ Flow!Authorized(p) \/ Flow!Refused(p) \/ Flow!AuthTimeout(p) \/ Flow!Finish(p)
             \/ Flow!QrPay(p)
    BY <2>2 DEF Flow!Authorized, Flow!Refused, Flow!AuthTimeout, Flow!Finish, Flow!QrPay
  <2> QED
    BY <2>1, <2>2
<1>2. \E s \in {"check", "done", "decide", "ask", "wait", "lock"} : TaskMoves(p, s)
  <2>1. CASE Flow!Receive(p) \/ Flow!VerificationFails(p)
    BY <1>0, <2>1, FlowGoto DEF Flow!Receive, Flow!VerificationFails, Flow!Close
  <2>2. CASE Flow!RiskCheck(p) \/ Flow!Decide(p)
    BY <1>0, <2>2, FlowGoto, FlowExecute DEF Flow!RiskCheck, Flow!Decide, Flow!Close
  <2>3. CASE Flow!Ask(p)
    <3>1. PICK k : task' = [task EXCEPT ![p].stage = "wait", ![p].key = k]
      BY <2>3 DEF Flow!Ask, Flow!SendAuthRequest
    <3>2. TaskMoves(p, "wait")
      BY <1>0, <3>1 DEF TaskMoves, FlowShape
    <3> QED
      BY <3>2
  <2>4. CASE Flow!Authorized(p)
    <3>1. PICK snap : Flow!Execute(p, "phone", task[p].reply.method, snap)
      BY <2>4 DEF Flow!Authorized
    <3> QED
      BY <1>0, <3>1, FlowExecute
  <2>5. CASE Flow!AskFails(p) \/ Flow!Refused(p) \/ Flow!AuthTimeout(p) \/ Flow!Finish(p)
    BY <1>0, <2>5, FlowGoto
       DEF Flow!AskFails, Flow!Refused, Flow!AuthTimeout, Flow!Finish, Flow!Close
  <2>6. CASE Flow!QrPay(p)
    <3>1. PICK method : Flow!Execute(p, "phone", method, Flow!Snapshot)
      BY <2>6 DEF Flow!QrPay
    <3> QED
      BY <1>0, <3>1, FlowExecute
  <2> QED
    BY <2>1, <2>2, <2>3, <2>4, <2>5, <2>6
<1>3. PICK s \in {"check", "done", "decide", "ask", "wait", "lock"} : TaskMoves(p, s)
  BY <1>2
<1> QED
  BY <1>1, <1>3, FlowGoesOn DEF Locked

\* The steps that take the mutex, give it back, or pay by something else than a voucher.
LEMMA AroundTheLock ==
    ASSUME FlowInv, NEW p \in Flow!Payments,
           \/ Flow!Lock(p) \/ Flow!ToppedUp(p) \/ Flow!NotToppedUp(p) \/ Flow!PayOnChain(p)
           \/ Flow!PayFails(p) \/ Flow!Record(p)
    PROVE  FlowInv'
<1>0. FlowShape
  BY DEF FlowInv
<1>1. UNCHANGED <<vouchers, given>>
  BY DEF Flow!Lock, Flow!ToppedUp, Flow!NotToppedUp, Flow!PayOnChain, Flow!PayFails, Flow!Record
<1>2. \A q1 \in Flow!Payments \ {p} : holder # q1
  <2>1. CASE Flow!Lock(p)
    BY <2>1, NobodyPays DEF Flow!Lock
  <2>2. CASE Flow!ToppedUp(p) \/ Flow!NotToppedUp(p) \/ Flow!PayOnChain(p)
    BY <2>2, OneHolds DEF Flow!ToppedUp, Flow!NotToppedUp, Flow!PayOnChain, Locked
  <2>3. CASE Flow!PayFails(p) \/ Flow!Record(p)
    BY <2>3, OneHolds DEF Flow!PayFails, Flow!Record, Locked
  <2> QED
    BY <2>1, <2>2, <2>3
<1>3. \E s \in {"pay", "fund", "landed", "failed", "paid"} :
         Flow!Goto(p, s) /\ (s \in Locked => holder' = p)
  <2>1. CASE Flow!Lock(p)
    BY <2>1 DEF Flow!Lock, Flow!Fail, Locked
  <2>2. CASE Flow!ToppedUp(p) \/ Flow!PayOnChain(p)
    BY <2>2, OneHolds DEF Flow!ToppedUp, Flow!PayOnChain, Flow!Fail, Locked
  <2>3. CASE Flow!NotToppedUp(p) \/ Flow!PayFails(p) \/ Flow!Record(p)
    BY <2>3 DEF Flow!NotToppedUp, Flow!PayFails, Flow!Record, Flow!Fail, Locked
  <2> QED
    BY <2>1, <2>2, <2>3
<1>4. PICK s \in {"pay", "fund", "landed", "failed", "paid"} :
         TaskMoves(p, s) /\ (s \in Locked => holder' = p)
  BY <1>0, <1>3, FlowGoto
<1> QED
  BY <1>1, <1>2, <1>4, FlowGoesOn

\* The store is summed up and its last number read.
LEMMA VouchersAreRead ==
    ASSUME FlowInv, NEW p \in Flow!Payments, Flow!ReadVouchers(p) PROVE FlowInv'
<1> DEFINE n == Flow!NextSeq(MerchantOf[p])
<1>1. FlowShape /\ holder = p
  BY OneHolds DEF FlowInv, Flow!ReadVouchers, Locked
<1>2. n \in Nat /\ \A v \in vouchers : v.merchant = MerchantOf[p] => v.seq < n
  BY <1>1, NextSeqIsNew
<1>3. /\ task' = [task EXCEPT ![p].stage = "sign", ![p].seq = n]
      /\ UNCHANGED <<vouchers, given, holder>>
      /\ Flow!Outstanding + AmountOf[p] <= Vault
  BY DEF Flow!ReadVouchers
<1> HIDE DEF n
<1>4. FlowShape'
  BY <1>1, <1>3 DEF FlowShape
<1>5. \A q1 \in Flow!Payments : q1 # p => task'[q1] = task[q1]
  BY <1>1, <1>3 DEF FlowShape
<1>6. task'[p].seq = n
  BY <1>1, <1>3 DEF FlowShape
<1>7. ASSUME NEW q1 \in Flow!Payments
      PROVE  /\ task'[q1].stage \in Locked => holder' = q1
             /\ task'[q1].stage = "sign" =>
                   /\ task'[q1].seq \in Nat
                   /\ \A v \in vouchers' : v.merchant = MerchantOf[q1] => v.seq < task'[q1].seq
                   /\ Flow!Outstanding' + AmountOf[q1] <= Vault
  <2>0. Flow!Outstanding' = Flow!Outstanding
    BY <1>3, SameVouchers DEF FlowInv
  <2>1. CASE q1 = p
    BY <1>1, <1>2, <1>3, <1>6, <2>0, <2>1
  <2>2. CASE q1 # p
    BY <1>3, <1>5, <2>0, <2>2 DEF FlowInv
  <2> QED
    BY <2>1, <2>2
<1>8. Flow!VouchersAreKept' /\ Flow!VouchersWithinVault'
  BY <1>3, SameVouchers DEF FlowInv
<1> QED
  BY <1>4, <1>7, <1>8 DEF FlowInv

\* The next voucher is stored: over nothing, since its number is new.
LEMMA VoucherIsSigned ==
    ASSUME FlowInv, NEW p \in Flow!Payments, Flow!SignVoucher(p) PROVE FlowInv'
<1>1. FlowShape /\ holder = p /\ task[p].stage = "sign" /\ task[p].seq \in Nat
  BY OneHolds DEF FlowInv, Flow!SignVoucher, Locked
<1>2. PICK v : v = [merchant |-> MerchantOf[p], seq |-> task[p].seq, amount |-> AmountOf[p]]
  OBVIOUS
<1>3. v.merchant = MerchantOf[p] /\ v.seq = task[p].seq /\ v.amount = AmountOf[p] /\ v.amount \in Nat
  BY <1>2, PartsAssumption DEF Flow!PaymentFlowAssumption
<1>4. \A w \in vouchers : w.merchant = v.merchant => w.seq # v.seq
  <2>1. \A w \in vouchers : w.seq \in Nat
    BY <1>1 DEF FlowShape
  <2> QED
    BY <1>1, <1>3, <2>1 DEF FlowInv
<1>5. vouchers' = vouchers \cup {v} /\ v \notin vouchers
  <2>1. vouchers' = Flow!StoreVoucher(v)
    BY <1>2 DEF Flow!SignVoucher
  <2> QED
    BY <1>4, <2>1 DEF Flow!StoreVoucher
<1>6. given' = given \cup {[payment |-> p, voucher |-> v]} /\ holder' = holder
  BY <1>2 DEF Flow!SignVoucher
<1>7. TaskMoves(p, "voucher")
  BY <1>1, FlowGoto DEF Flow!SignVoucher
<1>8. FlowShape'
  <2>1. IsFiniteSet(vouchers')
    BY <1>1, <1>5, FS_AddElement DEF FlowShape
  <2>2. \A w \in vouchers' : w.seq \in Nat /\ w.amount \in Nat
    BY <1>1, <1>3, <1>5 DEF FlowShape
  <2> QED
    BY <1>7, <2>1, <2>2 DEF FlowShape, TaskMoves
<1>9. ASSUME NEW q1 \in Flow!Payments
      PROVE  /\ task'[q1].stage \in Locked => holder' = q1
             /\ task'[q1].stage # "sign"
  <2>1. CASE q1 = p
    BY <1>1, <1>6, <1>7, <2>1 DEF TaskMoves
  <2>2. CASE q1 # p
    BY <1>1, <1>6, <1>7, <2>2, OneHolds DEF TaskMoves, FlowInv, Locked
  <2> QED
    BY <2>1, <2>2
<1>10. Flow!VouchersAreKept'
  <2>1. \A g \in given : g.voucher \in vouchers /\ g.voucher # v
    BY <1>5 DEF FlowInv, Flow!VouchersAreKept
  <2> QED
    BY <1>5, <1>6, <2>1 DEF FlowInv, Flow!VouchersAreKept
<1>11. Flow!VouchersWithinVault'
  <2>1. Flow!Outstanding' = Flow!Outstanding + AmountOf[p]
    BY <1>1, <1>3, <1>5, OutstandingGrows
  <2> QED
    BY <1>1, <2>1 DEF FlowInv, Flow!VouchersWithinVault
<1> QED
  BY <1>8, <1>9, <1>10, <1>11 DEF FlowInv

\* The phone, the background task and the chain move no task to another stage.
LEMMA AroundTheVouchers ==
    ASSUME FlowInv,
           \/ \E p \in Flow!Payments : Flow!Deliver(p)
           \/ \E k \in FlowKeys : Flow!Renew(k) \/ Flow!Expire(k)
           \/ \E k \in FlowKeys, limit \in ChainLimits : Flow!PhoneRegisters(k, limit)
           \/ \E p \in Flow!Payments, a \in Answers : Flow!PhoneAnswers(p, a)
           \/ \E k \in FlowKeys, funded \in BOOLEAN : Flow!PhoneTopsUp(k, funded)
    PROVE  FlowInv'
<1>0. FlowShape
  BY DEF FlowInv
<1>1. ASSUME NEW p \in Flow!Payments, Flow!Deliver(p) PROVE FlowInv'
  <2>1. TasksStay
    BY <1>0, <1>1 DEF Flow!Deliver, FlowShape, TasksStay
  <2> QED
    BY <1>1, <2>1, FlowStays DEF Flow!Deliver
<1>2. CASE UNCHANGED <<task, vouchers, given, holder>>
  <2>1. TasksStay
    BY <1>0, <1>2 DEF FlowShape, TasksStay
  <2> QED
    BY <1>2, <2>1, FlowStays
<1>3. ASSUME NEW k \in FlowKeys, NEW funded, Flow!PhoneTopsUp(k, funded) PROVE FlowInv'
  <2>1. UNCHANGED <<vouchers, given, holder>>
    BY <1>3 DEF Flow!PhoneTopsUp, Flow!AnswerTopUp
  <2>2. CASE task' = task
    BY <1>2, <2>1, <2>2
  <2>3. CASE task' # task
    <3>1. PICK x : task' = [task EXCEPT ![pendingFund[k]].topUp = x]
      BY <1>3, <2>3 DEF Flow!PhoneTopsUp
    <3>2. TasksStay
      BY <1>0, <3>1 DEF FlowShape, TasksStay
    <3> QED
      BY <2>1, <3>2, FlowStays
  <2> QED
    BY <2>2, <2>3
<1> QED
  BY <1>1, <1>2, <1>3 DEF Flow!Renew, Flow!Expire, Flow!PhoneRegisters, Flow!PhoneAnswers

\* A restart takes the mutex and every task that has begun along.
LEMMA FlowRestarts == ASSUME FlowInv, Flow!Crash PROVE FlowInv'
<1>1. FlowShape'
  BY DEF Flow!Crash, FlowInv, FlowShape
<1>2. Flow!VouchersAreKept' /\ Flow!VouchersWithinVault'
  BY SameVouchers DEF Flow!Crash, FlowInv
<1>3. \A p \in Flow!Payments : task'[p].stage \in {"idle", "done"}
  BY DEF Flow!Crash, FlowInv, FlowShape
<1> QED
  BY <1>1, <1>2, <1>3 DEF FlowInv, Locked

LEMMA FlowInit == Flow!Init => FlowInv
<1> SUFFICES ASSUME Flow!Init PROVE FlowInv
  OBVIOUS
<1>1. FlowShape
  BY FS_EmptySet DEF Flow!Init, Flow!Idle, FlowShape
<1>2. \A p \in Flow!Payments : task[p].stage = "idle"
  BY DEF Flow!Init, Flow!Idle
<1>3. Flow!VouchersAreKept
  BY DEF Flow!Init, Flow!VouchersAreKept
<1>4. Flow!VouchersWithinVault
  <2>1. vouchers = {} /\ Vault \in Nat
    BY PartsAssumption DEF Flow!Init, Flow!PaymentFlowAssumption
  <2> QED
    BY <2>1, OutstandingIs, SumEmpty DEF Flow!VouchersWithinVault
<1> QED
  BY <1>1, <1>2, <1>3, <1>4 DEF FlowInv, Locked

LEMMA FlowStep == FlowInv /\ [Flow!Next]_flowVars => FlowInv'
<1> SUFFICES ASSUME FlowInv, [Flow!Next]_flowVars PROVE FlowInv'
  OBVIOUS
<1>1. ASSUME NEW p \in Flow!Payments, Flow!Step(p) \/ Flow!QrPay(p) PROVE FlowInv'
  BY <1>1, BeforeTheLock, AroundTheLock, VouchersAreRead, VoucherIsSigned DEF Flow!Step
<1>2. CASE UNCHANGED flowVars
  BY <1>2, FlowStays DEF flowVars, FlowInv, FlowShape, TasksStay
<1> QED
  BY <1>1, <1>2, AroundTheVouchers, FlowRestarts DEF Flow!Next


-----------------------------------------------------------------------------
(* The parts together.                                                       *)

partsVars == <<part, vars, serverVars, flowVars>>

PartsInv ==
    /\ part = "server" => ServerInv
    /\ part = "flow" => FlowInv

LEMMA PartsStep == PartsInv /\ [PartsNext]_partsVars => PartsInv'
<1> SUFFICES ASSUME PartsInv, [PartsNext]_partsVars PROVE PartsInv'
  OBVIOUS
<1>1. part' = part
  BY DEF PartsNext, partsVars
<1>2. ASSUME part = "server" PROVE ServerInv'
  <2>1. ServerInv
    BY <1>2 DEF PartsInv
  <2>2. [Server!Next]_serverVars
    BY <1>2 DEF PartsNext, partsVars
  <2> QED
    BY <2>1, <2>2, ServerStep
<1>3. ASSUME part = "flow" PROVE FlowInv'
  <2>1. FlowInv
    BY <1>3 DEF PartsInv
  <2>2. [Flow!Next]_flowVars
    BY <1>3 DEF PartsNext, partsVars
  <2> QED
    BY <2>1, <2>2, FlowStep
<1> QED
  BY <1>1, <1>2, <1>3 DEF PartsInv

LEMMA PartsInvHolds == PartsSpec => []PartsInv
<1>1. PartsInit => PartsInv
  BY ServerInit, FlowInit DEF PartsInit, PartsInv
<1> QED
  BY <1>1, PartsStep, PTL DEF PartsSpec, partsVars

(* SessionManager::record_spent adds up what a key paid: whatever calls      *)
(* overlap, a payment that landed is in the local sum or its task is about   *)
(* to write it, unless two tasks wrote from one copy of the record, the      *)
(* confirmation was lost, or the key was registered afresh.                  *)
THEOREM PaymentsAreCounted == PartsSpec => []SpendingIsCounted
<1>1. PartsInv => SpendingIsCounted
  BY ServerInvSays DEF PartsInv, SpendingIsCounted
<1> QED
  BY <1>1, PartsInvHolds, PTL

(* A key that close_session removed stays out of the store: no renewal,      *)
(* restart, refusal or late answer brings it back, but the phone granting it *)
(* again, or a record_spent that was under way when it was closed.           *)
THEOREM ClosedKeysStayClosed == PartsSpec => []ClosedStaysClosed
<1>1. PartsInv => ClosedStaysClosed
  BY ServerInvSays DEF PartsInv, ClosedStaysClosed
<1> QED
  BY <1>1, PartsInvHolds, PTL

(* mb_sign_voucher stores every voucher under a number that is free: for any *)
(* number of challenges, QR orders, merchants and restarts, payment_mutex    *)
(* keeps two tasks from reading the same last number, so a voucher that was  *)
(* handed out stays in the store and pays for one payment only.              *)
THEOREM VouchersKept == PartsSpec => []VouchersAreKept
<1>1. PartsInv => VouchersAreKept
  BY DEF PartsInv, FlowInv, VouchersAreKept
<1> QED
  BY <1>1, PartsInvHolds, PTL

(* try_mb_voucher_payment sums up the store before it signs: whichever tasks *)
(* pay at once and however often the server restarts, the vouchers that are  *)
(* out never exceed what is deposited and not allocated in the vault.        *)
THEOREM VouchersFit == PartsSpec => [](part = "flow" => Flow!VouchersWithinVault)
<1>1. PartsInv => (part = "flow" => Flow!VouchersWithinVault)
  BY DEF PartsInv, FlowInv
<1> QED
  BY <1>1, PartsInvHolds, PTL
=============================================================================
