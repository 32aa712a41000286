-------------------------- MODULE PaymentFlowProofs --------------------------
(***************************************************************************)
(* For any number of challenges, QR payments, keys, merchants and restarts *)
(* a payment is made at most once, never after it was closed, and what is  *)
(* written down about it is true.                                          *)
(*                                                                         *)
(* The argument is local to a task: its stage tells whether the payment    *)
(* was made and that its status is still pending_auth.  It needs neither   *)
(* the mutex nor the contents of the stores.                               *)
(***************************************************************************)
EXTENDS PaymentFlowProperties, TLAPS

\* The part of the types that the proof uses.
Shape ==
    /\ status \in [Payments -> {"none", "pending_auth", "executed", "rejected", "expired"}]
    /\ paid \in [Payments -> Nat]
    /\ task = [p \in Payments |-> task[p]]
    /\ \A p \in Payments : "stage" \in DOMAIN task[p]

NotPaidYet == {"check", "decide", "ask", "wait", "lock", "fund", "pay", "sign"}
JustPaid == {"voucher", "landed", "paid"}

\* What the stage of a task says of its payment.
StageTells(p) ==
    /\ task[p].stage = "idle" => status[p] = "none" /\ paid[p] = 0
    /\ task[p].stage \in NotPaidYet => status[p] = "pending_auth" /\ paid[p] = 0
    /\ task[p].stage \in JustPaid => status[p] = "pending_auth" /\ paid[p] = 1
    /\ task[p].stage = "failed" => status[p] = "pending_auth" /\ (paid[p] = 0 \/ p \in lost)

Recorded(p) ==
    /\ status[p] = "executed" => paid[p] = 1
    /\ status[p] \in {"rejected", "expired"} => paid[p] = 0 \/ p \in lost

IInv == Shape /\ \A p \in Payments : StageTells(p) /\ Recorded(p)

-----------------------------------------------------------------------------
(* Updates of task.  Steps that leave the stage of every task alone, or     *)
(* change it for one task, are all the actions but Crash.                    *)

\* Moves(p, s): task p goes to stage s and no other task goes anywhere.
Moves(p, s) ==
    /\ task' = [q \in Payments |-> task'[q]]
    /\ \A q \in Payments : "stage" \in DOMAIN task'[q]
    /\ \A q \in Payments : task'[q].stage = IF q = p THEN s ELSE task[q].stage

Stays ==
    /\ task' = [q \in Payments |-> task'[q]]
    /\ \A q \in Payments : "stage" \in DOMAIN task'[q]
    /\ \A q \in Payments : task'[q].stage = task[q].stage

(* Goto changes the stage of its task only.                                  *)
LEMMA GotoMoves ==
    ASSUME Shape, NEW p \in Payments, NEW s, Goto(p, s) PROVE Moves(p, s)
BY DEF Shape, Goto, Moves

(* So does Execute, which leads to the mutex.                                *)
LEMMA ExecuteMoves ==
    ASSUME Shape, NEW p \in Payments, NEW how, NEW method, NEW snap, Execute(p, how, method, snap)
    PROVE  Moves(p, "lock")
BY DEF Shape, Execute, Moves

(* A step that leaves task alone.                                            *)
LEMMA UnchangedStays ==
    ASSUME Shape, task' = task PROVE Stays
BY DEF Shape, Stays

-----------------------------------------------------------------------------
(* What moves a payment along its life keeps the invariant.                  *)

(* The task goes on and the payment is as it was.                            *)
LEMMA GoesOn ==
    ASSUME IInv, NEW p \in Payments, NEW s, Moves(p, s), UNCHANGED <<status, paid>>,
           lost \subseteq lost',
           \/ task[p].stage \in NotPaidYet /\ s \in NotPaidYet \cup {"failed"}
           \/ task[p].stage \in JustPaid /\ s \in JustPaid
           \/ s = "done"
    PROVE  IInv'
BY DEF IInv, Shape, StageTells, Recorded, Moves, NotPaidYet, JustPaid

(* The challenge arrives, or the QR order does.                              *)
LEMMA Arrives ==
    ASSUME IInv, NEW p \in Payments, NEW s \in NotPaidYet, Moves(p, s),
           task[p].stage = "idle",
           status' = [status EXCEPT ![p] = "pending_auth"], UNCHANGED <<paid, lost>>
    PROVE  IInv'
BY DEF IInv, Shape, StageTells, Recorded, Moves, NotPaidYet, JustPaid

(* The payment is made.                                                      *)
LEMMA IsMade ==
    ASSUME IInv, NEW p \in Payments, NEW s, Moves(p, s),
           task[p].stage \in NotPaidYet,
           paid' = [paid EXCEPT ![p] = @ + 1], UNCHANGED status, lost \subseteq lost',
           s \in JustPaid \/ (s = "failed" /\ p \in lost')
    PROVE  IInv'
BY DEF IInv, Shape, StageTells, Recorded, Moves, NotPaidYet, JustPaid

(* The payment is closed, with the outcome that the stage allows.            *)
LEMMA IsClosed ==
    ASSUME IInv, NEW p \in Payments, NEW s \in {"executed", "rejected", "expired"},
           Moves(p, "done"),
           status' = [status EXCEPT ![p] = s], UNCHANGED <<paid, lost>>,
           IF s = "executed" THEN task[p].stage \in JustPaid
           ELSE task[p].stage \in NotPaidYet \cup {"failed"}
    PROVE  IInv'
BY DEF IInv, Shape, StageTells, Recorded, Moves, NotPaidYet, JustPaid

(* The step is none of the payment's business.                               *)
LEMMA IsUntouched ==
    ASSUME IInv, Stays, UNCHANGED <<status, paid, lost>> PROVE IInv'
BY DEF IInv, Shape, StageTells, Recorded, Stays, NotPaidYet, JustPaid

-----------------------------------------------------------------------------
(* The actions.                                                              *)

USE DEF disk, memory, phone, world, history, lists

(* The steps of a challenge up to the mutex.                                 *)
LEMMA BeforeTheMutex ==
    ASSUME IInv, NEW p \in Payments,
           \/ Receive(p) \/ VerificationFails(p) \/ RiskCheck(p) \/ Decide(p)
           \/ Ask(p) \/ AskFails(p) \/ Authorized(p) \/ Refused(p) \/ AuthTimeout(p)
    PROVE  IInv'
<1>0. Shape
  BY DEF IInv
<1>1. CASE Receive(p)
  <2>1. Moves(p, "check")
    BY <1>0, <1>1, GotoMoves DEF Receive, MayArrive
  <2> QED
    BY <1>1, <2>1, Arrives DEF Receive, MayArrive, NotPaidYet
<1>2. CASE VerificationFails(p)
  <2>1. Moves(p, "done")
    BY <1>0, <1>2, GotoMoves DEF VerificationFails, Close
  <2> QED
    BY <1>2, <2>1, IsClosed DEF VerificationFails, Close, NotPaidYet
<1>3. CASE RiskCheck(p)
  <2>1. CASE Close(p, "rejected")
    <3>1. Moves(p, "done")
      BY <1>0, <2>1, GotoMoves DEF Close
    <3> QED
      BY <1>3, <2>1, <3>1, IsClosed DEF RiskCheck, Close, NotPaidYet
  <2>2. CASE Execute(p, "whitelist", "auto", Snapshot) /\ UNCHANGED status
    <3>1. Moves(p, "lock")
      BY <1>0, <2>2, ExecuteMoves
    <3> QED
      BY <1>3, <2>2, <3>1, GoesOn DEF RiskCheck, NotPaidYet
  <2>3. CASE Goto(p, "decide") /\ UNCHANGED status
    <3>1. Moves(p, "decide")
      BY <1>0, <2>3, GotoMoves
    <3> QED
      BY <1>3, <2>3, <3>1, GoesOn DEF RiskCheck, NotPaidYet
  <2> QED
    BY <1>3, <2>1, <2>2, <2>3 DEF RiskCheck
<1>4. CASE Decide(p)
  <2>1. Moves(p, "lock") \/ Moves(p, "ask")
    BY <1>0, <1>4, GotoMoves, ExecuteMoves DEF Decide
  <2>2. UNCHANGED <<status, paid, lost>> /\ task[p].stage \in NotPaidYet
    BY <1>4 DEF Decide, NotPaidYet
  <2>3. {"lock", "ask"} \subseteq NotPaidYet
    BY DEF NotPaidYet
  <2>4. CASE Moves(p, "lock")
    BY <2>2, <2>3, <2>4, GoesOn
  <2>5. CASE Moves(p, "ask")
    BY <2>2, <2>3, <2>5, GoesOn
  <2> QED
    BY <2>1, <2>4, <2>5
<1>5. CASE Ask(p)
  <2>1. PICK k : task' = [task EXCEPT ![p].stage = "wait", ![p].key = k]
    BY <1>5 DEF Ask, SendAuthRequest
  <2>2. Moves(p, "wait")
    BY <1>0, <2>1 DEF Moves, Shape
  <2>3. UNCHANGED <<status, paid, lost>> /\ task[p].stage \in NotPaidYet
    BY <1>5 DEF Ask, SendAuthRequest, NotPaidYet
  <2> QED
    BY <2>2, <2>3, GoesOn DEF NotPaidYet
<1>6. CASE AskFails(p)
  <2>1. Moves(p, "done")
    BY <1>0, <1>6, GotoMoves DEF AskFails
  <2> QED
    BY <1>6, <2>1, GoesOn DEF AskFails
<1>7. CASE Authorized(p)
  <2>1. PICK snap : Execute(p, "phone", task[p].reply.method, snap)
    BY <1>7 DEF Authorized
  <2>2. Moves(p, "lock")
    BY <1>0, <2>1, ExecuteMoves
  <2> QED
    BY <1>7, <2>2, GoesOn DEF Authorized, NotPaidYet
<1>8. CASE Refused(p)
  <2>1. Moves(p, "done")
    BY <1>0, <1>8, GotoMoves DEF Refused, Close
  <2> QED
    BY <1>8, <2>1, IsClosed DEF Refused, Close, NotPaidYet
<1>9. CASE AuthTimeout(p)
  <2>1. Moves(p, "done")
    BY <1>0, <1>9, GotoMoves DEF AuthTimeout, Close
  <2> QED
    BY <1>9, <2>1, IsClosed DEF AuthTimeout, Close, NotPaidYet
<1> QED
  BY <1>1, <1>2, <1>3, <1>4, <1>5, <1>6, <1>7, <1>8, <1>9

(* execute_payment_atomic and what its caller writes down.                   *)
LEMMA UnderTheMutex ==
    ASSUME IInv, NEW p \in Payments,
           \/ Lock(p) \/ ToppedUp(p) \/ NotToppedUp(p) \/ ReadVouchers(p) \/ SignVoucher(p)
           \/ PayOnChain(p) \/ PayFails(p) \/ Record(p) \/ Finish(p)
    PROVE  IInv'
<1>0. Shape
  BY DEF IInv
<1>1. CASE Lock(p)
  <2>1. \E s \in {"pay", "fund", "failed"} : Goto(p, s)
    BY <1>1 DEF Lock, Fail
  <2>2. PICK s \in {"pay", "fund", "failed"} : Moves(p, s)
    BY <1>0, <2>1, GotoMoves
  <2>3. UNCHANGED <<status, paid, lost>> /\ task[p].stage \in NotPaidYet
    BY <1>1 DEF Lock, NotPaidYet
  <2> QED
    BY <2>2, <2>3, GoesOn DEF NotPaidYet
<1>2. CASE ToppedUp(p)
  <2>1. Moves(p, "pay") \/ Moves(p, "failed")
    BY <1>0, <1>2, GotoMoves DEF ToppedUp, Fail
  <2>2. UNCHANGED <<status, paid, lost>> /\ task[p].stage \in NotPaidYet
    BY <1>2 DEF ToppedUp, NotPaidYet
  <2> QED
    BY <2>1, <2>2, GoesOn DEF NotPaidYet
<1>3. CASE NotToppedUp(p)
  <2>1. Moves(p, "failed")
    BY <1>0, <1>3, GotoMoves DEF NotToppedUp, Fail
  <2>2. UNCHANGED <<status, paid, lost>> /\ task[p].stage \in NotPaidYet
    BY <1>3 DEF NotToppedUp, NotPaidYet
  <2> QED
    BY <2>1, <2>2, GoesOn
<1>4. CASE ReadVouchers(p)
  <2>1. Moves(p, "sign")
    BY <1>0, <1>4 DEF ReadVouchers, Moves, Shape
  <2>2. UNCHANGED <<status, paid, lost>> /\ task[p].stage \in NotPaidYet
    BY <1>4 DEF ReadVouchers, NotPaidYet
  <2> QED
    BY <2>1, <2>2, GoesOn DEF NotPaidYet
<1>5. CASE SignVoucher(p)
  <2>1. Moves(p, "voucher")
    BY <1>0, <1>5, GotoMoves DEF SignVoucher
  <2>2. UNCHANGED <<status, lost>> /\ paid' = [paid EXCEPT ![p] = @ + 1]
    BY <1>5 DEF SignVoucher
  <2>3. task[p].stage \in NotPaidYet
    BY <1>5 DEF SignVoucher, NotPaidYet
  <2> QED
    BY <2>1, <2>2, <2>3, IsMade DEF JustPaid
<1>6. CASE PayOnChain(p)
  <2>1. UNCHANGED status /\ paid' = [paid EXCEPT ![p] = @ + 1]
    BY <1>6 DEF PayOnChain
  <2>2. task[p].stage \in NotPaidYet
    BY <1>6 DEF PayOnChain, NotPaidYet
  <2>3. CASE Goto(p, "landed") /\ UNCHANGED lost
    <3>1. Moves(p, "landed")
      BY <1>0, <2>3, GotoMoves
    <3> QED
      BY <2>1, <2>2, <2>3, <3>1, IsMade DEF JustPaid
  <2>4. CASE Fail(p) /\ lost' = lost \cup {p}
    <3>1. Moves(p, "failed")
      BY <1>0, <2>4, GotoMoves DEF Fail
    <3> QED
      BY <2>1, <2>2, <2>4, <3>1, IsMade
  <2> QED
    BY <1>6, <2>3, <2>4 DEF PayOnChain
<1>7. CASE PayFails(p)
  <2>1. Moves(p, "failed")
    BY <1>0, <1>7, GotoMoves DEF PayFails, Fail
  <2>2. UNCHANGED <<status, paid, lost>> /\ task[p].stage \in NotPaidYet
    BY <1>7 DEF PayFails, NotPaidYet
  <2> QED
    BY <2>1, <2>2, GoesOn
<1>8. CASE Record(p)
  <2>1. Moves(p, "paid")
    BY <1>0, <1>8, GotoMoves DEF Record
  <2>2. UNCHANGED <<status, paid, lost>> /\ task[p].stage \in JustPaid
    BY <1>8 DEF Record, JustPaid
  <2> QED
    BY <2>1, <2>2, GoesOn DEF JustPaid
<1>9. CASE Finish(p)
  <2>1. PICK s \in {"executed", "rejected"} :
           /\ Close(p, s)
           /\ task[p].stage = (IF s = "executed" THEN "paid" ELSE "failed")
    BY <1>9 DEF Finish
  <2>2. Moves(p, "done")
    BY <1>0, <2>1, GotoMoves DEF Close
  <2>3. UNCHANGED <<paid, lost>>
    BY <1>9 DEF Finish
  <2> QED
    BY <2>1, <2>2, <2>3, IsClosed DEF Close, JustPaid
<1> QED
  BY <1>1, <1>2, <1>3, <1>4, <1>5, <1>6, <1>7, <1>8, <1>9

(* What the phone, the background task and the world do, and a QR order.     *)
LEMMA AroundTheTasks ==
    ASSUME IInv,
           \/ \E p \in Payments : Deliver(p) \/ QrPay(p)
           \/ \E k \in Keys : Renew(k) \/ Expire(k)
           \/ \E k \in Keys, limit \in ChainLimits : PhoneRegisters(k, limit)
           \/ \E p \in Payments, a \in Answers : PhoneAnswers(p, a)
           \/ \E k \in Keys, funded \in BOOLEAN : PhoneTopsUp(k, funded)
    PROVE  IInv'
<1>0. Shape
  BY DEF IInv
<1>1. ASSUME NEW p \in Payments, Deliver(p) PROVE IInv'
  <2>1. Stays
    BY <1>0, <1>1 DEF Deliver, Shape, Stays
  <2> QED
    BY <1>1, <2>1, IsUntouched DEF Deliver
<1>2. ASSUME NEW p \in Payments, QrPay(p) PROVE IInv'
  <2>1. PICK method : Execute(p, "phone", method, Snapshot)
    BY <1>2 DEF QrPay, MayArrive
  <2>2. Moves(p, "lock")
    BY <1>0, <2>1, ExecuteMoves
  <2> QED
    BY <1>2, <2>2, Arrives DEF QrPay, MayArrive, NotPaidYet
<1>3. ASSUME NEW k \in Keys, NEW funded, PhoneTopsUp(k, funded) PROVE IInv'
  <2>1. CASE task' = task
    BY <1>0, <1>3, <2>1, UnchangedStays, IsUntouched DEF PhoneTopsUp, AnswerTopUp
  <2>2. CASE task' # task
    <3>1. PICK x : task' = [task EXCEPT ![pendingFund[k]].topUp = x]
      BY <1>3, <2>2 DEF PhoneTopsUp, AnswerTopUp
    <3>2. Stays
      BY <1>0, <3>1 DEF Shape, Stays
    <3> QED
      BY <1>3, <3>2, IsUntouched DEF PhoneTopsUp, AnswerTopUp
  <2> QED
    BY <2>1, <2>2
<1>4. CASE UNCHANGED <<task, status, paid, lost>>
  BY <1>0, <1>4, UnchangedStays, IsUntouched
<1> QED
  BY <1>1, <1>2, <1>3, <1>4 DEF Renew, Expire, PhoneRegisters, PhoneAnswers

(* A restart ends every task that has begun.                                 *)
LEMMA AfterACrash ==
    ASSUME IInv, Crash PROVE IInv'
BY DEF Crash, IInv, Shape, StageTells, Recorded, NotPaidYet, JustPaid

-----------------------------------------------------------------------------
(* The theorems.                                                             *)

LEMMA InitHolds == Init => IInv
BY DEF Init, Idle, IInv, Shape, StageTells, Recorded, NotPaidYet, JustPaid

LEMMA StepHolds == IInv /\ [Next]_vars => IInv'
<1> SUFFICES ASSUME IInv, [Next]_vars PROVE IInv'
  OBVIOUS
<1>1. ASSUME NEW p \in Payments, Step(p) PROVE IInv'
  BY <1>1, BeforeTheMutex, UnderTheMutex DEF Step
<1>2. CASE UNCHANGED vars
  <2>1. UNCHANGED <<task, status, paid, lost>>
    BY <1>2 DEF vars
  <2> QED
    BY <2>1, UnchangedStays, IsUntouched DEF IInv
<1> QED
  BY <1>1, <1>2, AroundTheTasks, AfterACrash DEF Next

(* The invariant of the argument, for every number of payments and keys.     *)
THEOREM StageTellsOutcome == Spec => []IInv
<1>1. Init => IInv
  BY InitHolds
<1>2. IInv /\ [Next]_vars => IInv'
  BY StepHolds
<1> QED
  BY <1>1, <1>2, PTL DEF Spec

(* update_status never tells the caller of process_x402_challenge that a     *)
(* payment was executed that was not, or the other way round, unless the     *)
(* confirmation of its transaction was lost.                                 *)
THEOREM OutcomesAreTrue == Spec => []OutcomeIsTrue
<1>1. IInv => OutcomeIsTrue
  BY DEF IInv, Recorded, OutcomeIsTrue
<1> QED
  BY <1>1, StageTellsOutcome, PTL

(* Only the two steps that pay change paid, each for the payment of its task. *)
LEMMA OnlyPayersPay ==
    ASSUME [Next]_vars, Shape, NEW p \in Payments, paid'[p] # paid[p]
    PROVE  task[p].stage \in {"sign", "pay"}
<1>1. ASSUME NEW q \in Payments, SignVoucher(q) \/ PayOnChain(q)
      PROVE  p = q /\ task[p].stage \in {"sign", "pay"}
  BY <1>1 DEF SignVoucher, PayOnChain, Shape
<1>2. ASSUME NEW q \in Payments,
             \/ Receive(q) \/ VerificationFails(q) \/ RiskCheck(q) \/ Decide(q) \/ Ask(q)
             \/ AskFails(q) \/ Authorized(q) \/ Refused(q) \/ AuthTimeout(q)
      PROVE  UNCHANGED paid
  BY <1>2 DEF Receive, VerificationFails, RiskCheck, Decide, Ask, SendAuthRequest, AskFails, Authorized,
              Refused, AuthTimeout
<1>3. ASSUME NEW q \in Payments,
             \/ Lock(q) \/ ToppedUp(q) \/ NotToppedUp(q) \/ ReadVouchers(q)
             \/ PayFails(q) \/ Record(q) \/ Finish(q) \/ Deliver(q) \/ QrPay(q)
      PROVE  UNCHANGED paid
  BY <1>3 DEF Lock, ToppedUp, NotToppedUp, ReadVouchers, PayFails, Record, Finish,
              Deliver, QrPay
<1>4. ASSUME NEW k \in Keys, NEW x,
             \/ Renew(k) \/ Expire(k) \/ PhoneRegisters(k, x) \/ PhoneTopsUp(k, x)
      PROVE  UNCHANGED paid
  BY <1>4 DEF Renew, Expire, PhoneRegisters, PhoneTopsUp, AnswerTopUp
<1>5. UNCHANGED vars => UNCHANGED paid
  BY DEF vars
<1>6. ASSUME NEW q, NEW x, PhoneAnswers(q, x) \/ Crash PROVE UNCHANGED paid
  BY <1>6 DEF PhoneAnswers, Crash
<1>7. PICK q \in Payments : Step(q)
  BY <1>2, <1>3, <1>4, <1>5, <1>6 DEF Next
<1> QED
  BY <1>1, <1>2, <1>3, <1>7 DEF Step

(* A payment is made once, and only while its status is pending_auth: no     *)
(* late, repeated or reordered answer and no restart makes it again.         *)
THEOREM ClosedPaymentsAreFinal == Spec => ClosedIsFinal
<1>1. IInv /\ [Next]_vars =>
        [\A p \in Payments : paid'[p] # paid[p] => status[p] = "pending_auth" /\ paid[p] = 0]_vars
  <2> SUFFICES ASSUME IInv, [Next]_vars, NEW p \in Payments, paid'[p] # paid[p]
               PROVE  status[p] = "pending_auth" /\ paid[p] = 0
    OBVIOUS
  <2>1. task[p].stage \in NotPaidYet
    BY OnlyPayersPay DEF IInv, NotPaidYet
  <2> QED
    BY <2>1 DEF IInv, StageTells
<1> QED
  BY <1>1, StageTellsOutcome, PTL DEF Spec, ClosedIsFinal
=============================================================================
