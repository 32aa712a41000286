------------------------ MODULE ChannelProgramProofs ------------------------
(***************************************************************************)
(* The on-chain program keeps its accounts right for every deposit, tree,  *)
(* window and order of transactions; off the chain, the engine pays every  *)
(* leaf once and loses no deposit.  In between, what the engine needs of   *)
(* finite sums: a sum over a set is a choice of an order, and that the     *)
(* order does not matter is shown with a smallest set where it would.      *)
(***************************************************************************)
EXTENDS MCChannelProgram, Functions, FiniteSetTheorems, SequenceTheorems,
        WellFoundedInduction, TLAPS

\* The escrow's payouts and the paid leaves, related to the account.
Books ==
    /\ ~Exists => Paid = 0 /\ \A i \in Slots : times[i] = 0
    /\ Exists =>
        \A i \in Slots : times[i] = IF i \in account.claimed_leaves THEN 1 ELSE 0

IInv == TypeOK /\ Books /\ ClosedPaysDeposits

\* A leaf's amount is a number, so every payout is.
LEMMA AmountType ==
    ASSUME TypeOK, Exists, NEW i \in Slots
    PROVE  account.current_root[i].amount \in Nat
BY ChannelProgramAssumption DEF TypeOK, Account, Leaf

\* The initial state has paid nothing.
LEMMA InitIInv == Init => IInv
BY ChannelProgramAssumption
DEF Init, IInv, TypeOK, Books, ClosedPaysDeposits, Paid, Parties, Exists, Status

\* The status and root changes touch no token.
LEMMA StatusStep ==
    ASSUME IInv, NEW s \in Sequences, NEW r \in Roots,
           \/ CooperativeSettle(s, r) \/ TriggerChallenge(s, r)
           \/ SubmitCounterState(s, r) \/ SettleAfterTimeout
    PROVE  IInv'
<1>1. Exists
  BY DEF Status, CooperativeSettle, TriggerChallenge, SubmitCounterState, SettleAfterTimeout
<1>2. account \in Account
  BY <1>1 DEF IInv, TypeOK
<1>3. account' \in Account /\ account' # NoValue
  <2>1. now + SettleWindow \in Nat /\ now \in Nat
    BY ChannelProgramAssumption DEF IInv, TypeOK
  <2>2. s \in Nat
    BY ChannelProgramAssumption DEF Sequences
  <2>3. CASE CooperativeSettle(s, r)
    <3>1. account' = [account EXCEPT !.status = "Settling",
                                     !.settle_deadline = now + SettleWindow]
      BY <2>3 DEF CooperativeSettle
    <3>2. account' \in Account
      BY <1>2, <2>1, <3>1 DEF Account, Statuses
    <3> QED BY <3>2, ChannelProgramAssumption
  <2>4. CASE TriggerChallenge(s, r)
    <3>1. account' = [account EXCEPT !.status = "Challenged", !.challenge_slot = now,
                          !.current_root = r, !.sequence = s]
      BY <2>4 DEF TriggerChallenge
    <3>2. account' \in Account
      BY <1>2, <2>1, <2>2, <3>1 DEF Account, Statuses
    <3> QED BY <3>2, ChannelProgramAssumption
  <2>5. CASE SubmitCounterState(s, r)
    <3>1. account' = [account EXCEPT !.sequence = s, !.current_root = r]
      BY <2>5 DEF SubmitCounterState
    <3>2. account' \in Account
      BY <1>2, <2>2, <3>1 DEF Account
    <3> QED BY <3>2, ChannelProgramAssumption
  <2>6. CASE SettleAfterTimeout
    <3>1. account' = [account EXCEPT !.status = "Settling",
                                     !.settle_deadline = now + SettleWindow]
      BY <2>6 DEF SettleAfterTimeout
    <3>2. account' \in Account
      BY <1>2, <2>1, <3>1 DEF Account, Statuses
    <3> QED BY <3>2, ChannelProgramAssumption
  <2> QED BY <2>3, <2>4, <2>5, <2>6
<1>4. /\ account'.total_claimed = account.total_claimed
      /\ account'.total_deposited = account.total_deposited
      /\ account'.claimed_leaves = account.claimed_leaves
      /\ account'.status \in {"Challenged", "Settling"} /\ account.status # "Closed"
      /\ UNCHANGED <<tokens, now>>
  BY <1>1, <1>2
  DEF CooperativeSettle, TriggerChallenge, SubmitCounterState, SettleAfterTimeout, Account, Status
<1>5. /\ account'.status = "Challenged" => account'.challenge_slot # NoValue
      /\ account'.status \in {"Settling", "Closed"} => account'.settle_deadline # NoValue
  <2>1. now + SettleWindow # NoValue /\ now # NoValue
    BY ChannelProgramAssumption DEF IInv, TypeOK
  <2> QED
    BY <1>1, <1>2, <2>1
    DEF CooperativeSettle, TriggerChallenge, SubmitCounterState, SettleAfterTimeout, Account,
        IInv, TypeOK, Status
<1>8. TypeOK'
  BY <1>1, <1>3, <1>4, <1>5 DEF IInv, TypeOK, Exists, Status, tokens
<1>6. Books'
  BY <1>1, <1>3, <1>4 DEF IInv, Books, Exists, tokens, Paid
<1>7. ClosedPaysDeposits'
  BY <1>1, <1>3, <1>4 DEF IInv, ClosedPaysDeposits, Exists, Status, tokens, Paid
<1> QED BY <1>6, <1>8, <1>7 DEF IInv

\* A claim pays one leaf, once, and books it.
LEMMA PayStep ==
    ASSUME IInv, Exists, Status # "Closed", NEW i \in Slots, NEW p \in Parties, Pay(i, p)
    PROVE  IInv'
<1> DEFINE amount == account.current_root[i].amount
<1>1. account \in Account /\ amount \in Nat
  BY AmountType DEF IInv, TypeOK
<1>2. /\ account' = [account EXCEPT !.total_claimed = account.total_claimed + amount,
                                    !.claimed_leaves = account.claimed_leaves \cup {i}]
      /\ escrow >= amount /\ escrow' = escrow - amount
      /\ vault' = [vault EXCEPT ![p] = vault[p] + amount]
      /\ paid' = [paid EXCEPT ![p] = paid[p] + amount]
      /\ times' = [times EXCEPT ![i] = times[i] + 1]
      /\ i \notin account.claimed_leaves
      /\ account.total_claimed + amount <= account.total_deposited
      /\ wallet' = wallet /\ now' = now
  BY DEF Pay
<1>3. account' \in Account /\ account' # NoValue
  <2>1. account.total_claimed + amount \in Nat /\ account.claimed_leaves \cup {i} \in SUBSET Slots
    BY <1>1 DEF Account
  <2>2. account' \in Account
    BY <1>1, <1>2, <2>1 DEF Account
  <2> QED BY <2>2, ChannelProgramAssumption
<1>4. TypeOK'
  BY <1>1, <1>2, <1>3, ChannelProgramAssumption
  DEF IInv, TypeOK, Exists, Status, Account, Parties
<1>5. Paid' = Paid + amount
  BY <1>1, <1>2, ChannelProgramAssumption DEF IInv, TypeOK, Paid, Parties
<1>6. Books'
  BY <1>1, <1>2, <1>3 DEF IInv, TypeOK, Books, Exists, Account
<1>7. ClosedPaysDeposits'
  BY <1>1, <1>2, <1>3, <1>5 DEF IInv, ClosedPaysDeposits, Exists, Status, Account
<1> QED BY <1>4, <1>6, <1>7 DEF IInv

\* The refunds are the whole rest, however the shares are rounded.
LEMMA FinalizeStep ==
    ASSUME IInv, FinalizeSettlement
    PROVE  IInv'
<1> DEFINE share == Share(account.deposit_a)
<1>1. Exists /\ account.status = "Settling" /\ account \in Account
  BY DEF FinalizeSettlement, Status, IInv, TypeOK
<1>2. share \in Nat /\ share <= Unclaimed /\ Unclaimed \in Nat
  <2>1. account.deposit_a + account.deposit_b \in Nat \ {0} /\ account.deposit_a * RatioScale \in Nat
    BY <1>1 DEF Account, RatioScale
  <2>2. Ratio(account.deposit_a) \in Nat
    BY <2>1 DEF Ratio
  <2>3. Unclaimed \in Nat
    BY <1>1 DEF IInv, ClosedPaysDeposits, Unclaimed, Account
  <2>4. Unclaimed * Ratio(account.deposit_a) \in Nat
    BY <2>2, <2>3
  <2>5. share \in Nat
    BY <2>4 DEF Share, RatioScale
  <2> QED BY <2>3, <2>5 DEF FinalizeSettlement
<1>3. Refund(User) = share /\ Refund(Provider) = Unclaimed - share
  BY ChannelProgramAssumption DEF Refund
<1>4. /\ account' = [account EXCEPT !.status = "Closed"]
      /\ escrow >= Unclaimed /\ escrow' = escrow - Unclaimed
      /\ vault' = [p \in Parties |-> vault[p] + Refund(p)]
      /\ paid' = [p \in Parties |-> paid[p] + Refund(p)]
      /\ wallet' = wallet /\ now' = now /\ times' = times
  BY <1>2, <1>3 DEF FinalizeSettlement
<1>5. account' \in Account /\ account' # NoValue
  BY <1>1, <1>4, ChannelProgramAssumption DEF Account, Statuses
<1>6. \A p \in Parties : Refund(p) \in Nat
  BY <1>2, <1>3 DEF Parties
<1>7. vault' \in [Parties -> Nat] /\ paid' \in [Parties -> Nat]
  BY <1>4, <1>6 DEF IInv, TypeOK
<1>8. TypeOK'
  BY <1>1, <1>2, <1>4, <1>5, <1>7, ChannelProgramAssumption DEF IInv, TypeOK, Exists, Status, Account
<1>9. Paid' = Paid + Unclaimed
  BY <1>2, <1>3, <1>4 DEF IInv, TypeOK, Paid, Parties
<1>10. Books'
  BY <1>1, <1>4, <1>5 DEF IInv, Books, Exists, Account
<1>11. ClosedPaysDeposits'
  BY <1>1, <1>4, <1>5, <1>9 DEF IInv, ClosedPaysDeposits, Exists, Status, Account, Unclaimed
<1> QED BY <1>8, <1>10, <1>11 DEF IInv

\* Opening and funding.
LEMMA DepositStep ==
    ASSUME IInv, OpenChannel \/ FundChannel
    PROVE  IInv'
<1>1. CASE OpenChannel
  <2>1. account' \in Account /\ account' # NoValue /\ account'.status = "Open"
        /\ account'.total_claimed = 0 /\ account'.claimed_leaves = {}
        /\ account'.total_deposited = DepositA /\ ~Exists /\ UNCHANGED <<tokens, now>>
    BY <1>1, ChannelProgramAssumption DEF OpenChannel, Account, Statuses, Exists, IInv, TypeOK
  <2>2. TypeOK'
    BY <2>1 DEF IInv, TypeOK, Exists, Status, tokens
  <2>3. Books'
    BY <2>1 DEF IInv, Books, Exists, tokens, Paid
  <2>4. ClosedPaysDeposits'
    BY <2>1, ChannelProgramAssumption DEF IInv, Books, ClosedPaysDeposits, Exists, Status, tokens, Paid
  <2> QED BY <2>2, <2>3, <2>4 DEF IInv
<1>2. CASE FundChannel
  <2>1. Exists /\ account \in Account /\ account.status = "Open"
    BY <1>2 DEF FundChannel, Status, IInv, TypeOK
  <2>2. account' \in Account /\ account' # NoValue /\ account'.status = "Open"
        /\ account'.total_claimed = account.total_claimed
        /\ account'.claimed_leaves = account.claimed_leaves
        /\ account'.total_deposited = account.total_deposited + DepositB
        /\ escrow' = escrow /\ now' = now /\ paid' = paid /\ times' = times
    <3>1. /\ account' = [account EXCEPT !.deposit_b = DepositB,
                            !.total_deposited = account.total_deposited + DepositB]
          /\ escrow' = escrow /\ now' = now /\ paid' = paid /\ times' = times
      BY <1>2 DEF FundChannel
    <3>2. account.total_deposited + DepositB \in Nat /\ DepositB \in Nat
      BY <2>1, ChannelProgramAssumption DEF Account
    <3>3. account' \in Account
      BY <2>1, <3>1, <3>2 DEF Account
    <3> QED BY <2>1, <3>1, <3>3, ChannelProgramAssumption DEF Account
  <2>3. wallet' \in [Parties -> Nat] /\ vault' \in [Parties -> Nat]
    BY <1>2, ChannelProgramAssumption DEF FundChannel, IInv, TypeOK, Parties
  <2>4. TypeOK'
    BY <2>1, <2>2, <2>3 DEF IInv, TypeOK, Exists, Status
  <2>5. Books'
    BY <2>1, <2>2 DEF IInv, Books, Exists
  <2>6. ClosedPaysDeposits'
    BY <2>1, <2>2, ChannelProgramAssumption
    DEF IInv, ClosedPaysDeposits, Exists, Status, Paid, Account
  <2> QED BY <2>4, <2>5, <2>6 DEF IInv
<1> QED BY <1>1, <1>2

\* Transfers into the escrow and the passing of slots leave the account alone.
LEMMA OutsideStep ==
    ASSUME IInv, Tick \/ \E p \in Parties, a \in {DepositA, DepositB} : TransferToEscrow(p, a)
    PROVE  IInv'
<1>1. UNCHANGED <<account, vault, paid, times>>
  BY DEF Tick, TransferToEscrow, tokens
<1>2. escrow' \in Nat /\ now' \in Nat /\ wallet' \in [Parties -> Nat]
  <2>1. CASE Tick
    BY <2>1 DEF Tick, tokens, IInv, TypeOK
  <2>2. ASSUME NEW p \in Parties, NEW a \in {DepositA, DepositB}, TransferToEscrow(p, a)
        PROVE  escrow' \in Nat /\ now' \in Nat /\ wallet' \in [Parties -> Nat]
    BY <2>2, ChannelProgramAssumption DEF TransferToEscrow, IInv, TypeOK
  <2> QED BY <2>1, <2>2
<1> QED
  BY <1>1, <1>2 DEF IInv, TypeOK, Books, ClosedPaysDeposits, Exists, Status, Paid

\* Every step keeps the books.
LEMMA NextIInv == IInv /\ [Next]_vars => IInv'
<1> SUFFICES ASSUME IInv, [Next]_vars PROVE IInv'
  OBVIOUS
<1>1. CASE UNCHANGED vars
  BY <1>1 DEF vars, IInv, TypeOK, Books, ClosedPaysDeposits, Exists, Status, Paid
<1>2. ASSUME NEW i \in Slots, ClaimStep(i)
      PROVE  IInv'
  <2>1. Exists /\ Status # "Closed" /\ \E p \in Parties : Pay(i, p)
    BY <1>2 DEF ClaimStep, Claim, VerifyHtlc, HtlcRefund, HtlcOpen, Pay
  <2> QED BY <2>1, PayStep
<1>3. CASE Tick \/ \E p \in Parties, a \in {DepositA, DepositB} : TransferToEscrow(p, a)
  BY <1>3, OutsideStep
<1>4. ASSUME NEW s \in Sequences, NEW r \in Roots,
             CooperativeSettle(s, r) \/ TriggerChallenge(s, r) \/ SubmitCounterState(s, r)
      PROVE  IInv'
  BY <1>4, StatusStep
<1>5. CASE SettleAfterTimeout
  BY <1>5, StatusStep, ChannelProgramAssumption DEF Sequences
<1> QED
  BY <1>1, <1>2, <1>3, <1>4, <1>5, DepositStep, FinalizeStep DEF Next

\* The escrow pays out what was claimed, and in the end what was deposited.
THEOREM PayoutsMatchDeposits == Spec => []ClosedPaysDeposits
<1>1. IInv => ClosedPaysDeposits
  BY DEF IInv
<1> QED BY InitIInv, NextIInv, <1>1, PTL DEF Spec

\* The account keeps its type.
THEOREM TypeCorrect == Spec => []TypeOK
<1>1. IInv => TypeOK
  BY DEF IInv
<1> QED BY InitIInv, NextIInv, <1>1, PTL DEF Spec

\* No leaf index is paid twice, whatever roots follow one another.
THEOREM PaidAtMostOnce == Spec => []LeafPaidOnce
<1>1. IInv => LeafPaidOnce
  BY DEF IInv, Books, LeafPaidOnce
<1> QED BY InitIInv, NextIInv, <1>1, PTL DEF Spec

-----------------------------------------------------------------------------
(* Sums over finite sets.  The induction is over the finite subsets of a set *)
(* ordered by inclusion, put as: of the subsets that break a claim one is    *)
(* the smallest.                                                             *)

\* Of the finite sets with a property, one has no proper subset with it.
LEMMA SmallestSet ==
    ASSUME NEW S, IsFiniteSet(S), NEW Q \in SUBSET SUBSET S, Q # {}
    PROVE  \E T \in Q : \A U \in Q : U \subseteq T => U = T
<1>1. Q \subseteq FiniteSubsetsOf(S)
  BY FS_FiniteSubsetsOfFinite
<1>2. PICK T \in Q : \A U \in Q : <<U, T>> \notin StrictSubsetOrdering(S)
  BY <1>1, FS_StrictSubsetOrderingWellFounded, WFMin
<1> QED
  BY <1>2 DEF StrictSubsetOrdering

Some(s) == CHOOSE x \in s : TRUE
Adds(g, F, S) ==
    g = [s \in SUBSET S |-> IF s = {} THEN 0 ELSE F[Some(s)] + g[s \ {Some(s)}]]

LEMMA SomeIn == \A s : s # {} => Some(s) \in s
  BY DEF Some

LEMMA AddsOnce ==
    ASSUME NEW F, NEW A, NEW B, NEW T, IsFiniteSet(T), T \subseteq A, T \subseteq B,
           NEW g, NEW h, Adds(g, F, A), Adds(h, F, B)
    PROVE  g[T] = h[T]
<1> DEFINE Q == {s \in SUBSET T : g[s] # h[s]}
<1>1. SUFFICES ASSUME Q # {} PROVE FALSE
  OBVIOUS
<1>2. PICK s \in Q : \A u \in Q : u \subseteq s => u = s
  <2> HIDE DEF Q
  <2>1. Q \in SUBSET SUBSET T
    BY DEF Q
  <2> QED
    BY <1>1, <2>1, SmallestSet
<1>3. s \in SUBSET A /\ s \in SUBSET B
  OBVIOUS
<1>4. /\ g[s] = IF s = {} THEN 0 ELSE F[Some(s)] + g[s \ {Some(s)}]
      /\ h[s] = IF s = {} THEN 0 ELSE F[Some(s)] + h[s \ {Some(s)}]
  BY <1>3 DEF Adds
<1>5. s # {}
  BY <1>4
<1>6. g[s \ {Some(s)}] = h[s \ {Some(s)}]
  BY <1>2, <1>5, SomeIn
<1> QED
  BY <1>2, <1>4, <1>5, <1>6

LEMMA AddsExists ==
    ASSUME NEW F, NEW S, IsFiniteSet(S)
    PROVE  \E g : Adds(g, F, S)
<1> DEFINE Q == {T \in SUBSET S : ~ \E g : Adds(g, F, T)}
<1>1. SUFFICES ASSUME Q # {} PROVE FALSE
  OBVIOUS
<1>2. PICK T \in Q : \A U \in Q : U \subseteq T => U = T
  <2> HIDE DEF Q
  <2>1. Q \in SUBSET SUBSET S
    BY DEF Q
  <2> QED
    BY <1>1, <2>1, SmallestSet
<1> DEFINE G(u) == CHOOSE g : Adds(g, F, u)
           Less(s) == s \ {Some(s)}
           f == [s \in SUBSET T |-> IF s = {} THEN 0 ELSE F[Some(s)] + G(Less(s))[Less(s)]]
<1>3. ASSUME NEW u \in SUBSET T, u # T PROVE Adds(G(u), F, u)
  BY <1>2, <1>3
<1>4. ASSUME NEW s \in SUBSET T, s # {}
      PROVE  Less(s) \in SUBSET T /\ Less(s) # T
  BY <1>4, SomeIn
<1>5. ASSUME NEW u \in SUBSET T, u # T PROVE f[u] = G(u)[u]
  <2>1. CASE u = {}
    <3>1. Adds(G(u), F, u)
      BY <1>3, <1>5
    <3>2. G(u)[u] = 0
      <4> HIDE DEF G
      <4> QED
        BY <2>1, <3>1 DEF Adds
    <3> QED
      BY <2>1, <3>2
  <2>2. CASE u # {}
    <3>1. G(u)[u] = F[Some(u)] + G(u)[Less(u)]
      <4>1. Adds(G(u), F, u)
        BY <1>3, <1>5
      <4> HIDE DEF G
      <4> QED
        BY <2>2, <4>1 DEF Adds
    <3>2. G(u)[Less(u)] = G(Less(u))[Less(u)]
      <4>1. Adds(G(u), F, u) /\ Adds(G(Less(u)), F, Less(u))
        BY <1>3, <1>4, <1>5, <2>2
      <4>2. Less(u) \subseteq u /\ Less(u) \subseteq Less(u) /\ Less(u) \in SUBSET S
        OBVIOUS
      <4>3. IsFiniteSet(Less(u))
        BY <4>2, FS_Subset
      <4> HIDE DEF G, Less
      <4> QED
        BY <4>1, <4>2, <4>3, AddsOnce
    <3> HIDE DEF G, Less
    <3> QED
      BY <2>2, <3>1, <3>2
  <2> QED
    BY <2>1, <2>2
<1>6. Adds(f, F, T)
  <2>1. \A s \in SUBSET T : s # {} => G(Less(s))[Less(s)] = f[Less(s)]
    <3> HIDE DEF G, Less, f
    <3> QED
      BY <1>4, <1>5
  <2> HIDE DEF G
  <2>2. f = [s \in SUBSET T |-> IF s = {} THEN 0 ELSE F[Some(s)] + f[Less(s)]]
    <3> DEFINE h == [s \in SUBSET T |-> IF s = {} THEN 0 ELSE F[Some(s)] + f[Less(s)]]
    <3>1. \A s \in SUBSET T : f[s] = h[s]
      BY <2>1
    <3> QED
      BY <3>1
  <2> QED
    BY <2>2 DEF Adds
<1> QED
  BY <1>2, <1>6


LEMMA SumAdds ==
    ASSUME NEW F, NEW S, IsFiniteSet(S)
    PROVE  \E g : Adds(g, F, S) /\ SumFunctionOnSet(F, S) = g[S]
<1>1. SumFunctionOnSet(F, S) = (CHOOSE g : Adds(g, F, S))[S]
  BY DEF Adds, Some, SumFunctionOnSet, FoldFunctionOnSet, MapThenFoldSet
<1> QED
  BY <1>1, AddsExists

LEMMA SumSome ==
    ASSUME NEW F, NEW S, IsFiniteSet(S)
    PROVE  SumFunctionOnSet(F, S) = IF S = {} THEN 0 ELSE F[Some(S)] + SumFunctionOnSet(F, S \ {Some(S)})
<1>1. PICK g : Adds(g, F, S) /\ SumFunctionOnSet(F, S) = g[S]
  BY SumAdds
<1>2. SumFunctionOnSet(F, S) = IF S = {} THEN 0 ELSE F[Some(S)] + g[S \ {Some(S)}]
  BY <1>1 DEF Adds
<1> DEFINE R == S \ {Some(S)}
<1>3. IsFiniteSet(R) /\ R \subseteq S
  BY FS_Subset
<1> HIDE DEF R
<1>4. PICK h : Adds(h, F, R) /\ SumFunctionOnSet(F, R) = h[R]
  BY <1>3, SumAdds
<1>5. g[R] = h[R]
  BY <1>1, <1>3, <1>4, AddsOnce
<1> QED
  BY <1>2, <1>4, <1>5 DEF R

LEMMA SumEmpty == ASSUME NEW F PROVE SumFunctionOnSet(F, {}) = 0
BY FS_EmptySet, SumSome

\* Sums of integers are integers, of naturals naturals.
LEMMA SumType ==
    ASSUME NEW D \in {Int, Nat}, NEW F, NEW S, IsFiniteSet(S), \A i \in S : F[i] \in D
    PROVE  SumFunctionOnSet(F, S) \in D
<1> DEFINE Q == {T \in SUBSET S : SumFunctionOnSet(F, T) \notin D}
<1>1. SUFFICES ASSUME Q # {} PROVE FALSE
  OBVIOUS
<1>2. PICK T \in Q : \A U \in Q : U \subseteq T => U = T
  <2> HIDE DEF Q
  <2>1. Q \in SUBSET SUBSET S
    BY DEF Q
  <2> QED
    BY <1>1, <2>1, SmallestSet
<1> DEFINE rest == T \ {Some(T)}
<1>3. IsFiniteSet(T)
  BY FS_Subset
<1>4. T # {}
  BY SumEmpty
<1>5. Some(T) \in T /\ rest \in SUBSET S /\ rest \subseteq T /\ rest # T
  BY <1>4, SomeIn
<1>6. SumFunctionOnSet(F, rest) \in D
  BY <1>2, <1>5
<1>7. SumFunctionOnSet(F, T) = F[Some(T)] + SumFunctionOnSet(F, rest)
  BY <1>3, <1>4, SumSome
<1>8. F[Some(T)] \in D /\ SumFunctionOnSet(F, T) \notin D
  BY <1>5
<1> QED
  <2> HIDE DEF rest, Q
  <2> QED BY <1>6, <1>7, <1>8

\* The order of the summands does not matter: any of them can be taken out.
LEMMA SumTakeOut ==
    ASSUME NEW F, NEW S, IsFiniteSet(S), \A i \in S : F[i] \in Int, NEW x \in S
    PROVE  SumFunctionOnSet(F, S) = F[x] + SumFunctionOnSet(F, S \ {x})
<1> DEFINE Sum(T) == SumFunctionOnSet(F, T)
           Q == {T \in SUBSET S : \E z \in T : Sum(T) # F[z] + Sum(T \ {z})}
<1>1. SUFFICES ASSUME Q # {} PROVE FALSE
  OBVIOUS
<1>2. PICK T \in Q : \A U \in Q : U \subseteq T => U = T
  <2> HIDE DEF Q
  <2>1. Q \in SUBSET SUBSET S
    BY DEF Q
  <2> QED
    BY <1>1, <2>1, SmallestSet
<1>3. PICK z \in T : Sum(T) # F[z] + Sum(T \ {z})
  OBVIOUS
<1> DEFINE y == Some(T)
<1>4. IsFiniteSet(T) /\ y \in T /\ Sum(T) = F[y] + Sum(T \ {y})
  BY FS_Subset, SumSome, SomeIn
<1>5. y # z
  BY <1>3, <1>4
<1>6. /\ Sum(T \ {y}) = F[z] + Sum((T \ {y}) \ {z})
      /\ Sum(T \ {z}) = F[y] + Sum((T \ {z}) \ {y})
  <2> HIDE DEF Sum, y
  <2> QED BY <1>2, <1>4, <1>5
<1>7. (T \ {y}) \ {z} = (T \ {z}) \ {y}
  OBVIOUS
<1>8. Sum((T \ {y}) \ {z}) \in Int
  <2>1. IsFiniteSet((T \ {y}) \ {z})
    BY FS_Subset
  <2> QED
    BY <2>1, SumType
<1>9. F[y] \in Int /\ F[z] \in Int
  BY <1>4
<1> DEFINE rest == Sum((T \ {y}) \ {z})
<1>10. Sum(T) = F[y] + (F[z] + rest) /\ Sum(T \ {z}) = F[y] + rest
  <2> HIDE DEF Sum, y
  <2> QED BY <1>4, <1>6, <1>7
<1>11. rest \in Int
  BY <1>8
<1> QED
  <2> HIDE DEF Sum, y, Q, rest
  <2> QED BY <1>3, <1>9, <1>10, <1>11

\* The sum depends only on the summands.
LEMMA SumSame ==
    ASSUME NEW F, NEW G, NEW S, IsFiniteSet(S), \A i \in S : F[i] = G[i]
    PROVE  SumFunctionOnSet(F, S) = SumFunctionOnSet(G, S)
<1> DEFINE Q == {T \in SUBSET S : SumFunctionOnSet(F, T) # SumFunctionOnSet(G, T)}
<1>1. SUFFICES ASSUME Q # {} PROVE FALSE
  OBVIOUS
<1>2. PICK T \in Q : \A U \in Q : U \subseteq T => U = T
  <2> HIDE DEF Q
  <2>1. Q \in SUBSET SUBSET S
    BY DEF Q
  <2> QED
    BY <1>1, <2>1, SmallestSet
<1>3. T # {}
  BY SumEmpty
<1> DEFINE rest == T \ {Some(T)}
<1>4. Some(T) \in T /\ rest \in SUBSET S /\ rest \subseteq T /\ rest # T
  BY <1>3, SomeIn
<1>5. SumFunctionOnSet(F, rest) = SumFunctionOnSet(G, rest)
  BY <1>2, <1>4
<1>6. IsFiniteSet(T)
  BY FS_Subset
<1> QED
  BY <1>2, <1>3, <1>4, <1>5, <1>6, SumSome

\* One summand changes.
LEMMA SumChange ==
    ASSUME NEW F, NEW G, NEW S, IsFiniteSet(S), NEW x \in S,
           \A i \in S : F[i] \in Int /\ G[i] \in Int,
           \A i \in S \ {x} : F[i] = G[i]
    PROVE  SumFunctionOnSet(G, S) = SumFunctionOnSet(F, S) - F[x] + G[x]
<1>1. IsFiniteSet(S \ {x})
  BY FS_Subset
<1>2. SumFunctionOnSet(F, S \ {x}) = SumFunctionOnSet(G, S \ {x})
  BY <1>1, SumSame
<1>3. SumFunctionOnSet(F, S \ {x}) \in Int
  BY <1>1, SumType
<1>4. /\ SumFunctionOnSet(F, S) = F[x] + SumFunctionOnSet(F, S \ {x})
      /\ SumFunctionOnSet(G, S) = G[x] + SumFunctionOnSet(G, S \ {x})
  BY SumTakeOut
<1> QED
  BY <1>2, <1>3, <1>4

\* A set and the rest of it.
LEMMA SumParts ==
    ASSUME NEW F, NEW S, IsFiniteSet(S), \A i \in S : F[i] \in Int, NEW A \in SUBSET S
    PROVE  SumFunctionOnSet(F, S) = SumFunctionOnSet(F, A) + SumFunctionOnSet(F, S \ A)
<1> DEFINE Sum(T) == SumFunctionOnSet(F, T)
           Q == {T \in SUBSET S : Sum(S) # Sum(T) + Sum(S \ T)}
<1>1. SUFFICES ASSUME Q # {} PROVE FALSE
  OBVIOUS
<1>2. PICK T \in Q : \A U \in Q : U \subseteq T => U = T
  <2> HIDE DEF Q
  <2>1. Q \in SUBSET SUBSET S
    BY DEF Q
  <2> QED
    BY <1>1, <2>1, SmallestSet
<1>3. \A U \in SUBSET S : IsFiniteSet(U) /\ Sum(U) \in Int
  BY FS_Subset, SumType
<1>4. T # {}
  <2>1. S \ {} = S /\ Sum({}) = 0
    BY SumEmpty
  <2>2. Sum(S) # Sum(T) + Sum(S \ T) /\ Sum(S) \in Int
    BY <1>3
  <2>3. Sum(S) = Sum({}) + Sum(S \ {})
    <3> HIDE DEF Sum
    <3> QED BY <2>1, <2>2
  <2> HIDE DEF Sum
  <2> QED BY <2>2, <2>3
<1>5. PICK x \in T : TRUE
  BY <1>4
<1> DEFINE less == T \ {x}
<1>6. Sum(T) = F[x] + Sum(less)
  BY <1>3, SumTakeOut
<1>7. Sum(S \ less) = F[x] + Sum(S \ T)
  <2>1. (S \ less) \ {x} = S \ T /\ S \ less \in SUBSET S /\ x \in S \ less
    OBVIOUS
  <2> HIDE DEF less
  <2> QED BY <1>3, <2>1, SumTakeOut
<1>8. Sum(S) = Sum(less) + Sum(S \ less)
  <2>1. less \in SUBSET S /\ less \subseteq T /\ less # T
    OBVIOUS
  <2> HIDE DEF less, Sum
  <2> QED BY <1>2, <2>1
<1>9. Sum(less) \in Int /\ Sum(S \ T) \in Int /\ F[x] \in Int
  BY <1>3
<1> QED
  <2> HIDE DEF Sum, less
  <2> QED BY <1>2, <1>6, <1>7, <1>8, <1>9

-----------------------------------------------------------------------------
(* The engine.                                                               *)

\* What the proofs use of the constants of the engine.
LEMMA EngineConstants ==
    /\ User # Provider /\ NoValue \notin {User, Provider} /\ NoValue \notin Recipients
    /\ FirstSlot \in Slots /\ IsFiniteSet(Slots)
    /\ DepositA \in Nat \ {0} /\ DepositB \in Nat \ {0}
    /\ SettleWindow \in Nat /\ MaxEngineNow \in Nat /\ NoValue \notin Nat
    /\ Timelocks \subseteq Nat /\ AutoCloseSlots \subseteq Nat /\ MaxEngineSequence \in Nat
<1>1. Engine!StateChannelAssumption
  BY PartsAssumption
<1>2. IsFiniteSet(Slots)
  <2>1. Engine!IsFiniteSet(Slots)
    BY <1>1 DEF Engine!StateChannelAssumption
  <2> QED
    BY <2>1 DEF Engine!IsFiniteSet, IsFiniteSet
<1> QED
  BY <1>1, <1>2 DEF Engine!StateChannelAssumption

Moments == Nat \cup {NoValue}
Metadata ==
    [status : {"Open", "Challenged", "Settling", "Closed"}, sequence : Nat,
     current_root : Engine!Tree, total_deposited : Nat, deposit_a : Nat, deposit_b : Nat,
     challenge_slot : Moments, auto_close_slot : Moments, total_claimed : Nat,
     settle_deadline : Moments, claimed_leaves : SUBSET Slots]
LeafUpdate == [sequence : Nat, index : Slots, prev : Engine!Leaf, new : Engine!Leaf]

\* A pipeline has signed one update, or two that follow one another.
Signed == {us \in Seq(LeafUpdate) : Len(us) \in {1, 2}}
Pipelines == [updates : Signed, result : Engine!Tree]

EngineTyped ==
    /\ meta \in Metadata /\ leaves \in Engine!Tree
    /\ pipeline \in [Clients -> Pipelines \cup {Engine!NoPipeline}]
    /\ engineNow \in Nat /\ engineCrashes \in Nat
    /\ enginePaid \in [Engine!Parties -> Nat]
    /\ \A i \in DOMAIN claims : claims[i].amount \in Nat

\* The tree after an update.
After(t, u) == [t EXCEPT ![u.index] = u.new]

\* No update that could be applied next, and no batch, takes the leaves below the
\* deposits; the updates that are out of date do not matter.
Keeps(m, l, us) ==
    /\ Len(us) = 2 => us[2].sequence = us[1].sequence + 1
    /\ us[1].sequence <= m.sequence + 1
    /\ (m.status = "Open" /\ us[1].sequence = m.sequence + 1) =>
           /\ Engine!Total(After(l, us[1])) >= m.total_deposited
           /\ Len(us) = 2 =>
                 Engine!Total(After(After(l, us[1]), us[2])) >= m.total_deposited

\* Until a crash cuts a write, the leaves cover the deposits.
Backed ==
    engineCrashes = 0 =>
        /\ Engine!Total(leaves) >= meta.total_deposited
        /\ \A p \in Clients :
              pipeline[p] # Engine!NoPipeline => Keeps(meta, leaves, pipeline[p].updates)

EngineInv == EngineTyped /\ Engine!EveryLeafPaidOnce /\ Backed

\* A sum in the engine is a sum.
LEMMA EngineSum == \A F, S : Engine!SumFunctionOnSet(F, S) = SumFunctionOnSet(F, S)
BY DEF Engine!SumFunctionOnSet, Engine!FoldFunctionOnSet, Engine!MapThenFoldSet,
       SumFunctionOnSet, FoldFunctionOnSet, MapThenFoldSet

\* What the leaves are worth, and how a change of one of them changes it.
LEMMA WorthType ==
    ASSUME NEW t \in Engine!Tree, NEW s \in SUBSET Slots
    PROVE  Engine!Worth(t, s) \in Nat
<1>1. IsFiniteSet(s)
  BY EngineConstants, FS_Subset
<1> DEFINE F == [i \in Slots |-> t[i].amount]
<1>2. \A i \in s : F[i] \in Nat
  BY DEF Engine!Tree, Engine!Leaf
<1>3. SumFunctionOnSet(F, s) \in Nat
  <2> HIDE DEF F
  <2> QED BY <1>1, <1>2, SumType
<1> QED
  BY <1>3, EngineSum DEF Engine!Worth

LEMMA TotalAfter ==
    ASSUME NEW t \in Engine!Tree, NEW i \in Slots, NEW leaf \in Engine!Leaf
    PROVE  /\ [t EXCEPT ![i] = leaf] \in Engine!Tree
           /\ Engine!Total([t EXCEPT ![i] = leaf]) = Engine!Total(t) - t[i].amount + leaf.amount
<1> DEFINE u == [t EXCEPT ![i] = leaf]
           F == [k \in Slots |-> t[k].amount]
           G == [k \in Slots |-> u[k].amount]
<1>1. u \in Engine!Tree
  BY DEF Engine!Tree
<1>2. \A k \in Slots : F[k] \in Int /\ G[k] \in Int
  BY <1>1 DEF Engine!Tree, Engine!Leaf
<1>3. \A k \in Slots \ {i} : F[k] = G[k]
  BY DEF Engine!Tree
<1>4. F[i] = t[i].amount /\ G[i] = leaf.amount
  BY DEF Engine!Tree
<1>5. SumFunctionOnSet(G, Slots) = SumFunctionOnSet(F, Slots) - F[i] + G[i]
  <2> HIDE DEF F, G
  <2> QED BY <1>2, <1>3, EngineConstants, SumChange
<1>6. Engine!Total(t) = SumFunctionOnSet(F, Slots) /\ Engine!Total(u) = SumFunctionOnSet(G, Slots)
  BY EngineSum DEF Engine!Total, Engine!Worth
<1> QED
  <2> HIDE DEF F, G, u
  <2>1. u \in Engine!Tree /\ Engine!Total(u) = Engine!Total(t) - t[i].amount + leaf.amount
    BY <1>1, <1>4, <1>5, <1>6
  <2> QED BY <2>1 DEF u

\* Applying the updates of a pipeline.
LEMMA AppliedIsAfter ==
    ASSUME NEW t \in Engine!Tree, NEW u \in LeafUpdate, NEW v \in LeafUpdate
    PROVE  /\ Engine!Applied(t, <<u>>) = After(t, u)
           /\ Engine!Applied(t, <<u, v>>) = After(After(t, u), v)
           /\ After(t, u) \in Engine!Tree /\ After(After(t, u), v) \in Engine!Tree
<1>1. After(t, u) \in Engine!Tree /\ After(After(t, u), v) \in Engine!Tree
  BY DEF After, LeafUpdate, Engine!Tree
<1>2. Engine!Max({1}) = 1 /\ Engine!Max({2}) = 2 /\ Engine!Max({1, 2}) = 2
  BY DEF Engine!Max
<1>3. ASSUME NEW i \in Slots
      PROVE  Engine!Applied(t, <<u>>)[i] = After(t, u)[i]
  <2>1. {k \in DOMAIN <<u>> : <<u>>[k].index = i} = IF u.index = i THEN {1} ELSE {}
    OBVIOUS
  <2> QED
    BY <1>2, <2>1 DEF Engine!Applied, After, Engine!Tree
<1>4. ASSUME NEW i \in Slots
      PROVE  Engine!Applied(t, <<u, v>>)[i] = After(After(t, u), v)[i]
  <2> DEFINE us == <<u, v>>
             touching == {k \in DOMAIN us : us[k].index = i}
  <2>1. touching = {k \in {1, 2} : us[k].index = i} /\ us[1] = u /\ us[2] = v
    OBVIOUS
  <2>2. /\ u.index = i /\ v.index = i => touching = {1, 2}
        /\ u.index = i /\ v.index # i => touching = {1}
        /\ u.index # i /\ v.index = i => touching = {2}
        /\ u.index # i /\ v.index # i => touching = {}
    BY <2>1
  <2>3. Engine!Applied(t, us)[i] = IF touching = {} THEN t[i] ELSE us[Engine!Max(touching)].new
    BY DEF Engine!Applied
  <2>4. After(After(t, u), v)[i] = IF v.index = i THEN v.new ELSE IF u.index = i THEN u.new ELSE t[i]
    BY DEF After, Engine!Tree, LeafUpdate
  <2> HIDE DEF touching, us
  <2>5. touching = {} \/ us[Engine!Max(touching)] = IF v.index = i THEN v ELSE u
    BY <1>2, <2>1, <2>2
  <2>6. touching = {} <=> u.index # i /\ v.index # i
    BY <2>2
  <2>7. Engine!Applied(t, us)[i] = After(After(t, u), v)[i]
    BY <2>3, <2>4, <2>5, <2>6
  <2> QED
    BY <2>7 DEF us
<1>5. /\ Engine!Applied(t, <<u>>) = [i \in Slots |-> Engine!Applied(t, <<u>>)[i]]
      /\ Engine!Applied(t, <<u, v>>) = [i \in Slots |-> Engine!Applied(t, <<u, v>>)[i]]
      /\ After(t, u) = [i \in Slots |-> After(t, u)[i]]
      /\ After(After(t, u), v) = [i \in Slots |-> After(After(t, u), v)[i]]
  BY <1>1 DEF Engine!Applied, Engine!Tree
<1>6. Engine!Applied(t, <<u>>) = After(t, u)
  BY <1>3, <1>5
<1>7. Engine!Applied(t, <<u, v>>) = After(After(t, u), v)
  BY <1>4, <1>5
<1> QED
  BY <1>1, <1>6, <1>7

\* The leaves the operations make are leaves.
LEMMA StandardLeaf ==
    ASSUME NEW o \in Engine!Owners \cup {NoValue}, NEW a \in Nat
    PROVE  Engine!Standard(o, a) \in Engine!Leaf /\ Engine!Standard(o, a).amount = a
BY DEF Engine!Standard, Engine!Leaf

LEMMA HtlcLeaf ==
    ASSUME NEW o \in Engine!Owners \cup {NoValue}, NEW a \in Nat,
           NEW t \in Timelocks, NEW b \in Recipients
    PROVE  Engine!Htlc(o, a, t, b) \in Engine!Leaf /\ Engine!Htlc(o, a, t, b).amount = a
BY EngineConstants DEF Engine!Htlc, Engine!Leaf

\* What is on disk after persist_state.
LEMMA PersistOutcome ==
    ASSUME NEW m, NEW l, NEW c, Engine!Persist(m, l, c), engineCrashes \in Nat
    PROVE  /\ meta' = m /\ leaves' \in {leaves, l} /\ engineCrashes' \in Nat
           /\ engineCrashes' = 0 => leaves' = l /\ engineCrashes = 0
BY DEF Engine!Persist

\* A signed update is out of date once the sequence has moved on.
LEMMA StillKeeps ==
    ASSUME NEW m \in Metadata, NEW n \in Metadata, NEW l, NEW us \in Signed,
           Keeps(m, l, us), NEW k,
           \/ n.sequence > m.sequence
           \/ n.sequence = m.sequence /\ n.status # "Open"
           \/ /\ n.sequence = m.sequence /\ n.status = m.status
              /\ n.total_deposited = m.total_deposited /\ k = l
    PROVE  Keeps(n, k, us)
<1>1. us[1].sequence \in Nat /\ m.sequence \in Nat /\ n.sequence \in Nat
  <2>1. us[1] \in LeafUpdate
    BY DEF Signed
  <2> QED
    BY <2>1 DEF LeafUpdate, Metadata
<1>2. CASE n.sequence > m.sequence
  BY <1>1, <1>2 DEF Keeps
<1>3. CASE n.sequence = m.sequence /\ n.status # "Open"
  BY <1>1, <1>3 DEF Keeps
<1>4. CASE n.sequence = m.sequence /\ n.status = m.status
           /\ n.total_deposited = m.total_deposited /\ k = l
  BY <1>4 DEF Keeps
<1> QED
  BY <1>2, <1>3, <1>4

\* An operation that writes the channel and pays nothing: the sequence moves
\* on, or the channel leaves the open state, or what an update is checked
\* against stays; the tree it writes covers the deposits.
LEMMA WriteStep ==
    ASSUME EngineInv, NEW m \in Metadata, NEW l \in Engine!Tree, NEW c,
           Engine!Persist(m, l, c), UNCHANGED <<engineNow, claims, enginePaid>>,
           m.total_claimed = meta.total_claimed, m.claimed_leaves = meta.claimed_leaves,
           m.total_deposited >= meta.total_deposited,
           pipeline' \in [Clients -> Pipelines \cup {Engine!NoPipeline}],
           engineCrashes = 0 =>
               /\ Engine!Total(l) >= m.total_deposited
               /\ \A p \in Clients :
                     \/ pipeline'[p] = Engine!NoPipeline
                     \/ Keeps(m, l, pipeline'[p].updates)
    PROVE  EngineInv'
<1>1. /\ meta' = m /\ leaves' \in {leaves, l} /\ engineCrashes' \in Nat
      /\ engineCrashes' = 0 => leaves' = l /\ engineCrashes = 0
  BY PersistOutcome DEF EngineInv, EngineTyped
<1>2. EngineTyped'
  BY <1>1 DEF EngineInv, EngineTyped
<1>3. Engine!EveryLeafPaidOnce'
  <2>1. meta.total_deposited \in Nat /\ m.total_deposited \in Nat /\ meta.total_claimed \in Nat
    BY DEF EngineInv, EngineTyped, Metadata
  <2> QED
    BY <1>1, <2>1 DEF EngineInv, Engine!EveryLeafPaidOnce, Engine!PaidOut
<1>4. Backed'
  BY <1>1 DEF Backed
<1> QED
  BY <1>2, <1>3, <1>4 DEF EngineInv

\* A pipeline signs its updates: they keep what the leaves are worth.
LEMMA BuildStep ==
    ASSUME EngineInv, NEW p \in Clients, NEW us \in Signed, Engine!Build(p, us),
           Engine!Applied(leaves, us) \in Engine!Tree,
           engineCrashes = 0 => Keeps(meta, leaves, us)
    PROVE  EngineInv'
<1> USE DEF Engine!Build, Engine!disk, Engine!payouts
<1>1. [updates |-> us, result |-> Engine!Applied(leaves, us)] \in Pipelines
  BY DEF Pipelines
<1>2. EngineTyped'
  BY <1>1 DEF EngineInv, EngineTyped
<1>3. Engine!EveryLeafPaidOnce'
  BY DEF EngineInv, Engine!EveryLeafPaidOnce, Engine!PaidOut
<1>4. Backed'
  <2> SUFFICES ASSUME engineCrashes = 0, NEW q \in Clients, pipeline'[q] # Engine!NoPipeline
               PROVE  Engine!Total(leaves) >= meta.total_deposited
                      /\ Keeps(meta, leaves, pipeline'[q].updates)
    BY DEF EngineInv, Backed
  <2>1. CASE q = p
    BY <2>1 DEF EngineInv, EngineTyped, Backed
  <2>2. CASE q # p
    BY <2>2 DEF EngineInv, EngineTyped, Backed
  <2> QED
    BY <2>1, <2>2
<1> QED
  BY <1>2, <1>3, <1>4 DEF EngineInv

LEMMA SignedUpdates ==
    ASSUME NEW u \in LeafUpdate, NEW v \in LeafUpdate
    PROVE  <<u>> \in Signed /\ <<u, v>> \in Signed
BY DEF Signed

\* An update signed now, for a leaf i.
LEMMA UpdateSigned ==
    ASSUME EngineInv, NEW n \in Nat, NEW i \in Slots, NEW new \in Engine!Leaf
    PROVE  Engine!Update(n, i, leaves[i], new) \in LeafUpdate
BY DEF Engine!Update, LeafUpdate, EngineInv, EngineTyped, Metadata, Engine!Tree

\* A leaf is replaced by one of the same amount.
LEMMA ReplaceStep ==
    ASSUME EngineInv, NEW p \in Clients, NEW i \in Slots, NEW new \in Engine!Leaf,
           new.amount = leaves[i].amount, Engine!Replace(p, i, new)
    PROVE  EngineInv'
<1> DEFINE u == Engine!Update(1, i, leaves[i], new)
<1>1. u \in LeafUpdate /\ u.index = i /\ u.new = new /\ u.sequence = meta.sequence + 1
  <2>1. u \in LeafUpdate
    BY UpdateSigned
  <2> QED
    BY <2>1 DEF Engine!Update
<1> HIDE DEF u
<1>2. <<u>> \in Signed /\ Engine!Applied(leaves, <<u>>) \in Engine!Tree
  BY <1>1, SignedUpdates, AppliedIsAfter DEF EngineInv, EngineTyped
<1>3. ASSUME engineCrashes = 0
      PROVE  Keeps(meta, leaves, <<u>>)
  <2>1. leaves \in Engine!Tree /\ Engine!Total(leaves) >= meta.total_deposited
    BY <1>3 DEF EngineInv, EngineTyped, Backed
  <2>2. Engine!Total(After(leaves, u)) = Engine!Total(leaves) - leaves[i].amount + new.amount
    BY <1>1, <2>1, TotalAfter DEF After
  <2>3. Engine!Total(leaves) \in Nat /\ leaves[i].amount \in Nat /\ meta.sequence \in Nat
    BY <2>1, WorthType DEF EngineInv, EngineTyped, Metadata, Engine!Tree, Engine!Leaf, Engine!Total
  <2>4. Engine!Total(After(leaves, u)) >= meta.total_deposited
    BY <2>1, <2>2, <2>3
  <2> QED
    BY <1>1, <2>3, <2>4 DEF Keeps
<1>4. Engine!Build(p, <<u>>)
  BY DEF Engine!Replace, u
<1> QED
  BY <1>2, <1>3, <1>4, BuildStep

\* A part of a leaf is moved to an empty leaf: the receiving leaf first, so that
\* the leaves cover the deposits between the two updates too.
LEMMA PartialTransferStep ==
    ASSUME EngineInv, NEW p \in Clients, NEW src \in Slots, NEW dest \in Slots,
           NEW a \in Nat \ {0}, NEW to \in Recipients, Engine!PartialTransfer(p, src, dest, a, to)
    PROVE  EngineInv'
<1> DEFINE got == Engine!Standard(to, a)
           left == Engine!Standard(leaves[src].owner, leaves[src].amount - a)
           u == Engine!Update(1, dest, leaves[dest], got)
           v == Engine!Update(2, src, leaves[src], left)
<1>1. /\ leaves \in Engine!Tree /\ leaves[src].amount \in Nat /\ leaves[dest].amount = 0
      /\ leaves[src].owner \in Engine!Owners \cup {NoValue} /\ a <= leaves[src].amount
      /\ meta.sequence \in Nat /\ meta.total_deposited \in Nat
  BY DEF EngineInv, EngineTyped, Engine!Tree, Engine!Leaf, Engine!PartialTransfer, Engine!IsEmpty,
         Metadata
<1>2. src # dest /\ leaves[src].amount - a \in Nat
  BY <1>1
<1>3. /\ got \in Engine!Leaf /\ got.amount = a
      /\ left \in Engine!Leaf /\ left.amount = leaves[src].amount - a
  <2>1. to \in Engine!Owners \cup {NoValue}
    BY DEF Engine!Owners
  <2> QED
    BY <1>1, <1>2, <2>1, StandardLeaf
<1> HIDE DEF got, left
<1>4. /\ u \in LeafUpdate /\ u.index = dest /\ u.new = got /\ u.sequence = meta.sequence + 1
      /\ v \in LeafUpdate /\ v.index = src /\ v.new = left /\ v.sequence = meta.sequence + 2
  <2>1. u \in LeafUpdate /\ v \in LeafUpdate
    BY <1>3, UpdateSigned
  <2> QED
    BY <2>1 DEF Engine!Update
<1> HIDE DEF u, v
<1>5. <<u, v>> \in Signed /\ Engine!Applied(leaves, <<u, v>>) \in Engine!Tree
  <2>1. <<u, v>> \in Signed
    BY <1>4, SignedUpdates
  <2>2. leaves \in Engine!Tree /\ u \in LeafUpdate /\ v \in LeafUpdate
    BY <1>1, <1>4
  <2>3. /\ Engine!Applied(leaves, <<u, v>>) = After(After(leaves, u), v)
        /\ After(After(leaves, u), v) \in Engine!Tree
    BY <2>2, AppliedIsAfter
  <2> QED BY <2>1, <2>3
<1>6. ASSUME engineCrashes = 0
      PROVE  Keeps(meta, leaves, <<u, v>>)
  <2> DEFINE t == After(leaves, u)
  <2>1. t \in Engine!Tree /\ Engine!Total(t) = Engine!Total(leaves) - leaves[dest].amount + a
    <3>1. t = [leaves EXCEPT ![dest] = got]
      BY <1>4 DEF After
    <3> HIDE DEF t
    <3> QED BY <1>1, <1>3, <3>1, TotalAfter
  <2>2. t[src] = leaves[src]
    BY <1>1, <1>2, <1>4 DEF After, Engine!Tree
  <2>3. Engine!Total(After(t, v)) = Engine!Total(t) - leaves[src].amount + left.amount
    <3> HIDE DEF t
    <3>1. After(t, v) = [t EXCEPT ![src] = left]
      BY <1>4 DEF After
    <3> QED BY <1>3, <2>1, <2>2, <3>1, TotalAfter
  <2>4. Engine!Total(leaves) \in Nat /\ Engine!Total(leaves) >= meta.total_deposited
    BY <1>1, <1>6, WorthType DEF EngineInv, Backed, Engine!Total
  <2>5. Engine!Total(t) >= meta.total_deposited /\ Engine!Total(After(t, v)) >= meta.total_deposited
    <3> HIDE DEF t
    <3> QED BY <1>1, <1>3, <2>1, <2>3, <2>4
  <2> QED
    BY <1>1, <1>4, <2>5 DEF Keeps
<1>7. Engine!Build(p, <<u, v>>)
  BY DEF Engine!PartialTransfer, u, v, got, left
<1> QED
  BY <1>5, <1>6, <1>7, BuildStep

\* Every step of a client's pipeline.
LEMMA PipelineSteps ==
    ASSUME EngineInv, NEW p \in Clients, Engine!PipelineStep(p)
    PROVE  EngineInv'
<1>1. \A i \in Slots : /\ leaves[i] \in Engine!Leaf /\ leaves[i].amount \in Nat
                       /\ leaves[i].owner \in Engine!Owners \cup {NoValue}
                       /\ leaves[i].beneficiary \in Engine!Owners \cup {NoValue}
  BY DEF EngineInv, EngineTyped, Engine!Tree, Engine!Leaf, Engine!Owners
<1>2. ASSUME NEW i \in Slots, NEW to \in Recipients, Engine!TransferLeaf(p, i, to)
      PROVE  EngineInv'
  BY <1>1, <1>2, StandardLeaf, ReplaceStep DEF Engine!TransferLeaf, Engine!Owners
<1>3. ASSUME NEW i \in Slots, NEW dest \in Slots, NEW a \in Engine!Amounts, NEW to \in Recipients,
             Engine!PartialTransfer(p, i, dest, a, to)
      PROVE  EngineInv'
  <2>1. a \in Nat \ {0}
    BY EngineConstants DEF Engine!Amounts
  <2> QED
    BY <1>3, <2>1, PartialTransferStep
<1>4. ASSUME NEW i \in Slots, NEW t \in Timelocks, NEW b \in Recipients,
             Engine!CreateHtlc(p, i, t, b)
      PROVE  EngineInv'
  BY <1>1, <1>4, HtlcLeaf, ReplaceStep DEF Engine!CreateHtlc
<1>5. ASSUME NEW i \in Slots, Engine!ResolveHtlc(p, i)
      PROVE  EngineInv'
  BY <1>1, <1>5, StandardLeaf, ReplaceStep DEF Engine!ResolveHtlc
<1>6. ASSUME NEW i \in Slots, Engine!RefundHtlc(p, i)
      PROVE  EngineInv'
  BY <1>1, <1>6, StandardLeaf, ReplaceStep DEF Engine!RefundHtlc
<1>7. CASE Engine!Abort(p)
  <2> USE <1>7 DEF Engine!Abort, Engine!disk, Engine!payouts
  <2>1. EngineTyped'
    BY DEF EngineInv, EngineTyped
  <2>2. Engine!EveryLeafPaidOnce'
    BY DEF EngineInv, Engine!EveryLeafPaidOnce, Engine!PaidOut
  <2>3. Backed'
    BY DEF EngineInv, EngineTyped, Backed
  <2> QED
    BY <2>1, <2>2, <2>3 DEF EngineInv
<1> QED
  BY <1>2, <1>3, <1>4, <1>5, <1>6, <1>7 DEF Engine!PipelineStep

\* A pipeline that an operation leaves alone, or drops, is still in order.
LEMMA PipelinesKeep ==
    ASSUME EngineInv, engineCrashes = 0, NEW m \in Metadata, NEW l,
           \/ m.sequence > meta.sequence
           \/ m.sequence = meta.sequence /\ m.status # "Open"
           \/ /\ m.sequence = meta.sequence /\ m.status = meta.status
              /\ m.total_deposited = meta.total_deposited /\ l = leaves,
           NEW q \in Clients, pipeline[q] # Engine!NoPipeline
    PROVE  Keeps(m, l, pipeline[q].updates)
<1>1. pipeline[q].updates \in Signed /\ Keeps(meta, leaves, pipeline[q].updates)
  BY DEF EngineInv, EngineTyped, Backed, Pipelines
<1> QED
  BY <1>1, StillKeeps DEF EngineInv, EngineTyped

\* An operation that writes the channel, pays nothing and leaves the pipelines.
LEMMA QuietStep ==
    ASSUME EngineInv, NEW m \in Metadata, NEW l \in Engine!Tree, NEW c,
           Engine!Persist(m, l, c), UNCHANGED <<pipeline, engineNow, claims, enginePaid>>,
           m.total_claimed = meta.total_claimed, m.claimed_leaves = meta.claimed_leaves,
           m.total_deposited >= meta.total_deposited,
           \/ m.sequence > meta.sequence
           \/ m.sequence = meta.sequence /\ m.status # "Open"
           \/ /\ m.sequence = meta.sequence /\ m.status = meta.status
              /\ m.total_deposited = meta.total_deposited /\ l = leaves,
           engineCrashes = 0 => Engine!Total(l) >= m.total_deposited
    PROVE  EngineInv'
<1>1. pipeline' \in [Clients -> Pipelines \cup {Engine!NoPipeline}]
  BY DEF EngineInv, EngineTyped
<1>2. ASSUME engineCrashes = 0, NEW q \in Clients
      PROVE  pipeline'[q] = Engine!NoPipeline \/ Keeps(m, l, pipeline'[q].updates)
  BY <1>2, PipelinesKeep
<1> QED
  BY <1>1, <1>2, WriteStep

\* Without a new tree nothing drops out of it.
LEMMA SameTreeStep ==
    ASSUME EngineInv, NEW m \in Metadata, NEW c, Engine!Persist(m, leaves, c),
           UNCHANGED <<pipeline, engineNow, claims, enginePaid>>,
           m.total_claimed = meta.total_claimed, m.claimed_leaves = meta.claimed_leaves,
           m.total_deposited = meta.total_deposited,
           \/ m.sequence > meta.sequence
           \/ m.sequence = meta.sequence /\ m.status \in {"Settling", "Closed", meta.status}
    PROVE  EngineInv'
<1>1. leaves \in Engine!Tree /\ meta.total_deposited \in Nat
  BY DEF EngineInv, EngineTyped, Metadata
<1>2. engineCrashes = 0 => Engine!Total(leaves) >= m.total_deposited
  BY DEF EngineInv, Backed
<1> QED
  BY <1>1, <1>2, QuietStep

\* The trees construct_split_tree accepts cover the deposits.
LEMMA SplitTree ==
    ASSUME EngineInv, NEW t \in Engine!Splits
    PROVE  t \in Engine!Tree /\ Engine!Total(t) = meta.total_deposited
<1>1. Engine!Total(t) = meta.total_deposited
  BY DEF Engine!Splits
<1>2. ASSUME NEW i \in Slots
      PROVE  t[i] \in Engine!Leaf
  <2>1. \/ \E p \in Engine!Parties, a \in 1 .. (DepositA + DepositB) : t[i] = Engine!Standard(p, a)
        \/ t[i] = Engine!Empty
    BY DEF Engine!Splits
  <2>2. CASE t[i] = Engine!Empty
    BY <2>2, StandardLeaf DEF Engine!Empty
  <2>3. CASE t[i] # Engine!Empty
    <3>1. PICK p \in Engine!Parties, a \in 1 .. (DepositA + DepositB) : t[i] = Engine!Standard(p, a)
      BY <2>1, <2>3
    <3>2. a \in Nat /\ p \in Engine!Owners
      BY EngineConstants DEF Engine!Owners
    <3> QED
      BY <3>1, <3>2, StandardLeaf
  <2> QED
    BY <2>2, <2>3
<1>3. t = [i \in Slots |-> t[i]]
  BY DEF Engine!Splits
<1> QED
  BY <1>1, <1>2, <1>3 DEF Engine!Tree

\* The metadata of a tree r with sequence n.
Advanced(m, n, r) == [m EXCEPT !.sequence = n, !.current_root = r]

LEMMA AdvancedMetadata ==
    ASSUME NEW m \in Metadata, NEW n \in Nat, NEW r \in Engine!Tree
    PROVE  /\ Advanced(m, n, r) \in Metadata /\ Advanced(m, n, r).sequence = n
           /\ Advanced(m, n, r).status = m.status
           /\ Advanced(m, n, r).total_deposited = m.total_deposited
           /\ Advanced(m, n, r).total_claimed = m.total_claimed
           /\ Advanced(m, n, r).claimed_leaves = m.claimed_leaves
<1> DEFINE k1 == [m EXCEPT !.sequence = n]
           k == [k1 EXCEPT !.current_root = r]
<1>1. /\ k1 \in Metadata /\ k1.sequence = n /\ k1.status = m.status
      /\ k1.total_deposited = m.total_deposited
      /\ k1.total_claimed = m.total_claimed /\ k1.claimed_leaves = m.claimed_leaves
  BY DEF Metadata
<1> HIDE DEF k1
<1>2. /\ k \in Metadata /\ k.sequence = n /\ k.status = m.status
      /\ k.total_deposited = m.total_deposited
      /\ k.total_claimed = m.total_claimed /\ k.claimed_leaves = m.claimed_leaves
  BY <1>1 DEF Metadata
<1>3. k = Advanced(m, n, r)
  BY DEF k1, Advanced
<1> HIDE DEF k
<1> QED
  BY <1>2, <1>3

LEMMA NewTreeInMetadata ==
    ASSUME EngineInv, NEW t \in Engine!Tree
    PROVE  /\ Engine!NewTree(t) \in Metadata /\ Engine!NewTree(t).sequence = meta.sequence + 1
           /\ Engine!NewTree(t).total_deposited = meta.total_deposited
           /\ Engine!NewTree(t).total_claimed = meta.total_claimed
           /\ Engine!NewTree(t).claimed_leaves = meta.claimed_leaves
<1>1. meta \in Metadata /\ meta.sequence + 1 \in Nat
  BY DEF EngineInv, EngineTyped, Metadata
<1>2. Engine!NewTree(t) = Advanced(meta, meta.sequence + 1, t)
  BY DEF Engine!NewTree, Engine!NextSequence, Advanced
<1> QED
  BY <1>1, <1>2, AdvancedMetadata

\* Operations while the channel is open that no pipeline prepared.
LEMMA OpenSteps ==
    ASSUME EngineInv,
           \/ \E i \in Slots : Engine!FundChannel(i)
           \/ \E t \in Engine!Splits : Engine!ConstructSplitTree(t)
           \/ Engine!ProviderCosignState
           \/ \E s \in AutoCloseSlots : Engine!SetAutoCloseSlot(s)
    PROVE  EngineInv'
<1> USE DEF Engine!payouts
<1>1. meta \in Metadata /\ leaves \in Engine!Tree
  BY DEF EngineInv, EngineTyped
<1>2. ASSUME NEW i \in Slots, Engine!FundChannel(i)
      PROVE  EngineInv'
  <2> DEFINE leaf == Engine!Standard(Provider, DepositB)
             l == [leaves EXCEPT ![i] = leaf]
             m == [Engine!NewTree(l) EXCEPT !.deposit_b = DepositB,
                                            !.total_deposited = @ + DepositB]
  <2>1. leaf \in Engine!Leaf /\ leaf.amount = DepositB
    BY EngineConstants, StandardLeaf DEF Engine!Owners, Engine!Parties
  <2> HIDE DEF leaf
  <2>2. l \in Engine!Tree /\ Engine!Total(l) = Engine!Total(leaves) - leaves[i].amount + DepositB
    BY <1>1, <2>1, TotalAfter
  <2>3. leaves[i].amount = 0 /\ Engine!Total(leaves) \in Nat /\ DepositB \in Nat
    BY <1>1, <1>2, EngineConstants, WorthType DEF Engine!FundChannel, Engine!IsEmpty, Engine!Total
  <2> HIDE DEF l
  <2>4. /\ m \in Metadata /\ m.sequence = meta.sequence + 1
        /\ m.total_deposited = meta.total_deposited + DepositB
        /\ m.total_claimed = meta.total_claimed /\ m.claimed_leaves = meta.claimed_leaves
    <3> DEFINE n == Engine!NewTree(l)
    <3>1. /\ n \in Metadata /\ n.sequence = meta.sequence + 1
          /\ n.total_deposited = meta.total_deposited
          /\ n.total_claimed = meta.total_claimed /\ n.claimed_leaves = meta.claimed_leaves
      BY <2>2, NewTreeInMetadata
    <3> HIDE DEF n
    <3> DEFINE k1 == [n EXCEPT !.deposit_b = DepositB]
               k == [k1 EXCEPT !.total_deposited = @ + DepositB]
    <3>2. /\ k1 \in Metadata /\ k1.sequence = meta.sequence + 1
          /\ k1.total_deposited = meta.total_deposited
          /\ k1.total_claimed = meta.total_claimed /\ k1.claimed_leaves = meta.claimed_leaves
      BY <2>3, <3>1 DEF Metadata
    <3>3. m = k
      BY <3>1 DEF n, Metadata
    <3> HIDE DEF k1, m
    <3> QED
      BY <2>3, <3>2, <3>3 DEF Metadata
  <2> HIDE DEF m
  <2>5. meta.total_deposited \in Nat /\ meta.sequence \in Nat
    BY <1>1 DEF Metadata
  <2>6. engineCrashes = 0 => Engine!Total(l) >= m.total_deposited
    BY <2>2, <2>3, <2>4, <2>5 DEF EngineInv, Backed
  <2>7. Engine!Persist(m, l, NoValue) /\ UNCHANGED <<pipeline, engineNow, claims, enginePaid>>
    BY <1>2 DEF Engine!FundChannel, m, l, leaf
  <2>8. m.total_deposited >= meta.total_deposited /\ m.sequence > meta.sequence
    BY <2>3, <2>4, <2>5
  <2> QED
    BY <2>2, <2>4, <2>6, <2>7, <2>8, QuietStep
<1>3. ASSUME NEW t \in Engine!Splits, Engine!ConstructSplitTree(t)
      PROVE  EngineInv'
  <2> DEFINE m == Engine!NewTree(t)
  <2>1. t \in Engine!Tree /\ Engine!Total(t) = meta.total_deposited
    BY SplitTree
  <2>2. /\ m \in Metadata /\ m.sequence = meta.sequence + 1
        /\ m.total_deposited = meta.total_deposited
        /\ m.total_claimed = meta.total_claimed /\ m.claimed_leaves = meta.claimed_leaves
    BY <2>1, NewTreeInMetadata
  <2>3. meta.sequence \in Nat /\ meta.total_deposited \in Nat
    BY <1>1 DEF Metadata
  <2>4. Engine!Persist(m, t, [sequence |-> Engine!NextSequence, root |-> t])
        /\ UNCHANGED <<pipeline, engineNow, claims, enginePaid>>
    BY <1>3 DEF Engine!ConstructSplitTree
  <2> HIDE DEF m
  <2>5. m.sequence > meta.sequence
        /\ m.total_deposited >= meta.total_deposited /\ Engine!Total(t) >= m.total_deposited
    BY <2>1, <2>2, <2>3
  <2> QED
    BY <2>1, <2>2, <2>4, <2>5, QuietStep
<1>4. CASE Engine!ProviderCosignState
  BY <1>1, <1>4, SameTreeStep DEF Engine!ProviderCosignState
<1>5. ASSUME NEW s \in AutoCloseSlots, Engine!SetAutoCloseSlot(s)
      PROVE  EngineInv'
  <2> DEFINE m == [meta EXCEPT !.auto_close_slot = s]
  <2>1. /\ m \in Metadata /\ m.sequence = meta.sequence /\ m.status = meta.status
        /\ m.total_deposited = meta.total_deposited
        /\ m.total_claimed = meta.total_claimed /\ m.claimed_leaves = meta.claimed_leaves
    BY <1>1, EngineConstants DEF Metadata, Moments
  <2>2. Engine!Persist(m, leaves, cosign) /\ UNCHANGED <<pipeline, engineNow, claims, enginePaid>>
    BY <1>5 DEF Engine!SetAutoCloseSlot
  <2> HIDE DEF m
  <2> QED
    BY <2>1, <2>2, SameTreeStep
<1> QED
  BY <1>2, <1>3, <1>4, <1>5

\* A pipeline in order whose first update is the next one for the channel.
LEMMA NextUpdate ==
    ASSUME EngineInv, NEW p \in Clients, pipeline[p] # Engine!NoPipeline
    PROVE  \/ \E u \in LeafUpdate :
                 /\ pipeline[p].updates = <<u>>
                 /\ engineCrashes = 0 => Keeps(meta, leaves, <<u>>)
           \/ \E u, v \in LeafUpdate :
                 /\ pipeline[p].updates = <<u, v>>
                 /\ engineCrashes = 0 => Keeps(meta, leaves, <<u, v>>)
<1>1. pipeline[p].updates \in Signed
  BY DEF EngineInv, EngineTyped, Pipelines
<1>2. engineCrashes = 0 => Keeps(meta, leaves, pipeline[p].updates)
  BY DEF EngineInv, Backed
<1> DEFINE us == pipeline[p].updates
<1>3. \/ us[1] \in LeafUpdate /\ us = <<us[1]>>
      \/ us[1] \in LeafUpdate /\ us[2] \in LeafUpdate /\ us = <<us[1], us[2]>>
  <2> HIDE DEF us
  <2>1. us \in Signed
    BY <1>1 DEF us
  <2> QED
    BY <2>1 DEF Signed
<1> QED
  BY <1>2, <1>3

\* What Keeps says of the next updates of an open channel.
LEMMA KeepsOne ==
    ASSUME Engine!Open, NEW u, u.sequence = meta.sequence + 1, Keeps(meta, leaves, <<u>>)
    PROVE  Engine!Total(After(leaves, u)) >= meta.total_deposited
BY DEF Keeps, Engine!Open

LEMMA KeepsTwo ==
    ASSUME Engine!Open, NEW u, NEW v, u.sequence = meta.sequence + 1,
           Keeps(meta, leaves, <<u, v>>)
    PROVE  /\ v.sequence = u.sequence + 1
           /\ Engine!Total(After(leaves, u)) >= meta.total_deposited
           /\ Engine!Total(After(After(leaves, u), v)) >= meta.total_deposited
BY DEF Keeps, Engine!Open

\* A pipeline of one update left.
LEMMA KeepsRest ==
    ASSUME NEW m, NEW l, NEW v, m.sequence \in Nat, v.sequence = m.sequence + 1,
           Engine!Total(After(l, v)) >= m.total_deposited
    PROVE  Keeps(m, l, <<v>>)
BY DEF Keeps

LEMMA ApplyLeafUpdateStep ==
    ASSUME EngineInv, NEW p \in Clients, Engine!ApplyLeafUpdate(p)
    PROVE  EngineInv'
<1> DEFINE us == pipeline[p].updates
           l == Engine!Applied(leaves, <<Head(us)>>)
           m == Engine!NewTree(l)
           rest == IF Tail(us) = <<>> THEN Engine!NoPipeline
                   ELSE [pipeline[p] EXCEPT !.updates = Tail(us)]
<1>1. /\ pipeline[p] # Engine!NoPipeline /\ Engine!Open /\ Engine!Valid(<<Head(us)>>)
      /\ Engine!Persist(m, l, NoValue) /\ UNCHANGED <<engineNow, claims, enginePaid>>
      /\ pipeline' = [pipeline EXCEPT ![p] = rest]
  BY DEF Engine!ApplyLeafUpdate, Engine!payouts
<1>2. leaves \in Engine!Tree /\ meta \in Metadata /\ meta.sequence \in Nat
      /\ meta.total_deposited \in Nat
  BY DEF EngineInv, EngineTyped, Metadata
<1>3. Head(us).sequence = meta.sequence + 1
  BY <1>1 DEF Engine!Valid
<1>4. pipeline[p] \in Pipelines
  BY <1>1 DEF EngineInv, EngineTyped
<1>5. \E u \in LeafUpdate :
        /\ Head(us) = u
        /\ engineCrashes = 0 => Engine!Total(After(leaves, u)) >= meta.total_deposited
        /\ \/ rest = Engine!NoPipeline
           \/ /\ rest \in Pipelines
              /\ engineCrashes = 0 => Keeps(m, After(leaves, u), rest.updates)
  <2>1. CASE \E u \in LeafUpdate : us = <<u>> /\ (engineCrashes = 0 => Keeps(meta, leaves, <<u>>))
    <3>1. PICK u \in LeafUpdate : us = <<u>> /\ (engineCrashes = 0 => Keeps(meta, leaves, <<u>>))
      BY <2>1
    <3> HIDE DEF us
    <3>2. Head(us) = u /\ Tail(us) = <<>>
      BY <3>1
    <3>3. engineCrashes = 0 => Engine!Total(After(leaves, u)) >= meta.total_deposited
      BY <1>1, <1>3, <3>1, <3>2, KeepsOne
    <3> QED
      BY <3>2, <3>3
  <2>2. CASE \E u, v \in LeafUpdate :
                us = <<u, v>> /\ (engineCrashes = 0 => Keeps(meta, leaves, <<u, v>>))
    <3>1. PICK u \in LeafUpdate, v \in LeafUpdate :
                us = <<u, v>> /\ (engineCrashes = 0 => Keeps(meta, leaves, <<u, v>>))
      BY <2>2
    <3>2. Head(us) = u /\ Tail(us) = <<v>>
      <4> HIDE DEF us
      <4> QED BY <3>1
    <3>3. engineCrashes = 0 =>
            /\ v.sequence = u.sequence + 1
            /\ Engine!Total(After(leaves, u)) >= meta.total_deposited
            /\ Engine!Total(After(After(leaves, u), v)) >= meta.total_deposited
      <4> HIDE DEF us
      <4> QED BY <1>1, <1>3, <3>1, <3>2, KeepsTwo
    <3>4. rest \in Pipelines /\ rest.updates = <<v>>
      <4>1. <<v>> # <<>>
        OBVIOUS
      <4>2. rest = [pipeline[p] EXCEPT !.updates = <<v>>]
        BY <3>2, <4>1
      <4>3. <<v>> \in Signed
        BY SignedUpdates
      <4> HIDE DEF rest, us
      <4> QED BY <1>4, <4>2, <4>3 DEF Pipelines
    <3>5. l = After(leaves, u) /\ l \in Engine!Tree
      BY <1>2, <3>2, AppliedIsAfter
    <3> HIDE DEF l
    <3>6. m.sequence = meta.sequence + 1 /\ m.total_deposited = meta.total_deposited
      BY <3>5, NewTreeInMetadata
    <3> HIDE DEF m, rest, us
    <3>7. engineCrashes = 0 => Keeps(m, After(leaves, u), <<v>>)
      <4> SUFFICES ASSUME engineCrashes = 0
                   PROVE  Keeps(m, After(leaves, u), <<v>>)
        OBVIOUS
      <4>1. m.sequence \in Nat /\ v.sequence = m.sequence + 1
        BY <1>2, <1>3, <3>2, <3>3, <3>6
      <4>2. Engine!Total(After(After(leaves, u), v)) >= m.total_deposited
        BY <3>3, <3>6
      <4> QED
        BY <4>1, <4>2, KeepsRest
    <3> QED
      BY <3>2, <3>3, <3>4, <3>7
  <2> QED
    BY <1>1, <2>1, <2>2, NextUpdate
<1>6. PICK u \in LeafUpdate :
        /\ Head(us) = u
        /\ engineCrashes = 0 => Engine!Total(After(leaves, u)) >= meta.total_deposited
        /\ \/ rest = Engine!NoPipeline
           \/ /\ rest \in Pipelines
              /\ engineCrashes = 0 => Keeps(m, After(leaves, u), rest.updates)
  BY <1>5
<1>7. l = After(leaves, u) /\ l \in Engine!Tree
  BY <1>2, <1>6, AppliedIsAfter
<1> HIDE DEF l, rest
<1>8. /\ m \in Metadata /\ m.sequence = meta.sequence + 1
      /\ m.total_deposited = meta.total_deposited
      /\ m.total_claimed = meta.total_claimed /\ m.claimed_leaves = meta.claimed_leaves
  BY <1>7, NewTreeInMetadata
<1> HIDE DEF m, us
<1>9. pipeline' \in [Clients -> Pipelines \cup {Engine!NoPipeline}]
  BY <1>1, <1>6 DEF EngineInv, EngineTyped
<1>10. ASSUME engineCrashes = 0, NEW q \in Clients
       PROVE  pipeline'[q] = Engine!NoPipeline \/ Keeps(m, l, pipeline'[q].updates)
  <2>0. pipeline \in [Clients -> Pipelines \cup {Engine!NoPipeline}]
    BY DEF EngineInv, EngineTyped
  <2>1. CASE q = p
    BY <1>1, <1>6, <1>7, <1>10, <2>0, <2>1
  <2>2. CASE q # p
    <3>1. pipeline'[q] = pipeline[q]
      BY <1>1, <2>0, <2>2
    <3>2. m.sequence > meta.sequence
      BY <1>2, <1>8
    <3> QED
      BY <1>8, <1>10, <3>1, <3>2, PipelinesKeep
  <2> QED
    BY <2>1, <2>2
<1>11. m.total_deposited >= meta.total_deposited
       /\ (engineCrashes = 0 => Engine!Total(l) >= m.total_deposited)
  BY <1>2, <1>6, <1>7, <1>8
<1> QED
  BY <1>1, <1>7, <1>8, <1>9, <1>10, <1>11, WriteStep

LEMMA ApplyLeafUpdateBatchStep ==
    ASSUME EngineInv, NEW p \in Clients, Engine!ApplyLeafUpdateBatch(p)
    PROVE  EngineInv'
<1> DEFINE us == pipeline[p].updates
           l == Engine!Applied(leaves, us)
           m == [meta EXCEPT !.sequence = @ + Len(us), !.current_root = l]
<1>1. /\ pipeline[p] # Engine!NoPipeline /\ Engine!Open /\ Engine!Valid(us)
      /\ Engine!Persist(m, l, cosign) /\ UNCHANGED <<engineNow, claims, enginePaid>>
      /\ pipeline' = [pipeline EXCEPT ![p] = Engine!NoPipeline]
  BY DEF Engine!ApplyLeafUpdateBatch, Engine!payouts
<1>2. leaves \in Engine!Tree /\ meta \in Metadata /\ meta.sequence \in Nat
      /\ meta.total_deposited \in Nat
  BY DEF EngineInv, EngineTyped, Metadata
<1>3. /\ l \in Engine!Tree /\ Len(us) \in Nat /\ Len(us) >= 1
      /\ engineCrashes = 0 => Engine!Total(l) >= meta.total_deposited
  <2>1. CASE \E u \in LeafUpdate : us = <<u>> /\ (engineCrashes = 0 => Keeps(meta, leaves, <<u>>))
    <3>1. PICK u \in LeafUpdate : us = <<u>> /\ (engineCrashes = 0 => Keeps(meta, leaves, <<u>>))
      BY <2>1
    <3>2. u.sequence = meta.sequence + 1
      <4> HIDE DEF us
      <4> QED BY <1>1, <3>1 DEF Engine!Valid
    <3> HIDE DEF us
    <3>3. Engine!Applied(leaves, <<u>>) = After(leaves, u) /\ After(leaves, u) \in Engine!Tree
      BY <1>2, AppliedIsAfter
    <3>4. l = After(leaves, u) /\ l \in Engine!Tree /\ Len(us) = 1
      BY <3>1, <3>3
    <3> HIDE DEF l
    <3>5. engineCrashes = 0 => Engine!Total(After(leaves, u)) >= meta.total_deposited
      BY <1>1, <3>1, <3>2, KeepsOne
    <3> QED
      BY <3>4, <3>5
  <2>2. CASE \E u, v \in LeafUpdate :
                us = <<u, v>> /\ (engineCrashes = 0 => Keeps(meta, leaves, <<u, v>>))
    <3>1. PICK u \in LeafUpdate, v \in LeafUpdate :
                us = <<u, v>> /\ (engineCrashes = 0 => Keeps(meta, leaves, <<u, v>>))
      BY <2>2
    <3>2. u.sequence = meta.sequence + 1
      <4> HIDE DEF us
      <4> QED BY <1>1, <3>1 DEF Engine!Valid
    <3> HIDE DEF us
    <3>3. /\ Engine!Applied(leaves, <<u, v>>) = After(After(leaves, u), v)
          /\ After(After(leaves, u), v) \in Engine!Tree
      BY <1>2, AppliedIsAfter
    <3>4. l = After(After(leaves, u), v) /\ l \in Engine!Tree /\ Len(us) = 2
      BY <3>1, <3>3
    <3> HIDE DEF l
    <3>5. engineCrashes = 0 => Engine!Total(After(After(leaves, u), v)) >= meta.total_deposited
      BY <1>1, <3>1, <3>2, KeepsTwo
    <3> QED
      BY <3>4, <3>5
  <2> QED
    BY <1>1, <2>1, <2>2, NextUpdate
<1> HIDE DEF l, us
<1>4. m = Advanced(meta, meta.sequence + Len(us), l)
  BY <1>2 DEF Advanced, Metadata
<1> HIDE DEF m
<1>5. /\ m \in Metadata /\ m.sequence = meta.sequence + Len(us)
      /\ m.total_deposited = meta.total_deposited
      /\ m.total_claimed = meta.total_claimed /\ m.claimed_leaves = meta.claimed_leaves
  <2>1. meta.sequence + Len(us) \in Nat
    BY <1>2, <1>3
  <2> QED
    BY <1>2, <1>3, <1>4, <2>1, AdvancedMetadata, ZenonT(40)
<1>6. m.sequence > meta.sequence /\ m.total_deposited >= meta.total_deposited
  BY <1>2, <1>3, <1>5
<1>7. pipeline' \in [Clients -> Pipelines \cup {Engine!NoPipeline}]
  BY <1>1 DEF EngineInv, EngineTyped
<1>8. ASSUME engineCrashes = 0, NEW q \in Clients
      PROVE  pipeline'[q] = Engine!NoPipeline \/ Keeps(m, l, pipeline'[q].updates)
  <2>1. pipeline \in [Clients -> Pipelines \cup {Engine!NoPipeline}]
    BY DEF EngineInv, EngineTyped
  <2>2. pipeline'[q] = Engine!NoPipeline \/ pipeline'[q] = pipeline[q]
    BY <1>1, <2>1
  <2> QED
    BY <1>5, <1>6, <1>8, <2>2, PipelinesKeep
<1>9. engineCrashes = 0 => Engine!Total(l) >= m.total_deposited
  BY <1>3, <1>5
<1> QED
  BY <1>1, <1>3, <1>5, <1>6, <1>7, <1>8, <1>9, WriteStep

\* The roots at hand are trees.
LEMMA RootsAreTrees ==
    ASSUME EngineInv, NEW root \in Engine!RootsAtHand
    PROVE  root \in Engine!Tree
<1>1. meta.current_root \in Engine!Tree /\ leaves \in Engine!Tree
  BY DEF EngineInv, EngineTyped, Metadata
<1>2. ASSUME NEW q \in Clients, pipeline[q] # Engine!NoPipeline
      PROVE  pipeline[q].result \in Engine!Tree
  BY <1>2 DEF EngineInv, EngineTyped, Pipelines
<1> QED
  BY <1>1, <1>2 DEF Engine!RootsAtHand

\* The metadata of a channel that settles.
LEMMA SettleMetadata ==
    ASSUME EngineInv
    PROVE  /\ Engine!Settle \in Metadata /\ Engine!Settle.status = "Settling"
           /\ Engine!Settle.sequence = meta.sequence
           /\ Engine!Settle.total_deposited = meta.total_deposited
           /\ Engine!Settle.total_claimed = meta.total_claimed
           /\ Engine!Settle.claimed_leaves = meta.claimed_leaves
<1> DEFINE k1 == [meta EXCEPT !.status = "Settling"]
           k == [k1 EXCEPT !.settle_deadline = Engine!Deadline]
<1>1. Engine!Deadline \in Moments
  BY EngineConstants DEF Engine!Deadline, Moments, EngineInv, EngineTyped
<1>2. /\ k1 \in Metadata /\ k1.status = "Settling" /\ k1.sequence = meta.sequence
      /\ k1.total_deposited = meta.total_deposited
      /\ k1.total_claimed = meta.total_claimed /\ k1.claimed_leaves = meta.claimed_leaves
  BY DEF EngineInv, EngineTyped, Metadata
<1>3. Engine!Settle = k
  BY DEF Engine!Settle
<1> HIDE DEF k1
<1> QED
  BY <1>1, <1>2, <1>3 DEF Metadata

\* Closing, disputes and the end of the settlement.
LEMMA CloseSteps ==
    ASSUME EngineInv, Engine!CloseStep
    PROVE  EngineInv'
<1> USE DEF Engine!payouts
<1>1. meta \in Metadata /\ leaves \in Engine!Tree /\ meta.sequence \in Nat
  BY DEF EngineInv, EngineTyped, Metadata
<1>2. CASE Engine!CloseChannel \/ Engine!AutoSettle \/ Engine!SettleAfterTimeout
  <2>1. Engine!Persist(Engine!Settle, leaves, NoValue)
        /\ UNCHANGED <<pipeline, engineNow, claims, enginePaid>>
    BY <1>2 DEF Engine!CloseChannel, Engine!AutoSettle, Engine!SettleAfterTimeout
  <2> QED
    BY <2>1, SettleMetadata, SameTreeStep
<1>3. ASSUME NEW s \in Engine!Sequences, NEW root \in Engine!RootsAtHand,
             Engine!TriggerChallenge(s, root)
      PROVE  EngineInv'
  <2> DEFINE k1 == [meta EXCEPT !.status = "Challenged", !.challenge_slot = engineNow]
             k == [meta EXCEPT !.status = "Challenged", !.challenge_slot = engineNow,
                               !.current_root = root, !.sequence = s]
  <2>1. s \in Nat /\ s > meta.sequence /\ root \in Engine!Tree
    BY <1>3, EngineConstants, RootsAreTrees DEF Engine!TriggerChallenge, Engine!Sequences
  <2>2. /\ k1 \in Metadata /\ k1.total_deposited = meta.total_deposited
        /\ k1.total_claimed = meta.total_claimed /\ k1.claimed_leaves = meta.claimed_leaves
    <3> DEFINE k0 == [meta EXCEPT !.status = "Challenged"]
               k2 == [k0 EXCEPT !.challenge_slot = engineNow]
    <3>1. /\ k0 \in Metadata /\ k0.total_deposited = meta.total_deposited
          /\ k0.total_claimed = meta.total_claimed /\ k0.claimed_leaves = meta.claimed_leaves
      BY <1>1 DEF Metadata
    <3>2. k1 = k2 /\ engineNow \in Moments
      BY DEF EngineInv, EngineTyped, Moments
    <3> HIDE DEF k0, k1
    <3> QED
      BY <3>1, <3>2 DEF Metadata
  <2>3. k = Advanced(k1, s, root)
    BY <1>1 DEF Advanced, Metadata
  <2>4. Engine!Persist(k, leaves, cosign) /\ UNCHANGED <<pipeline, engineNow, claims, enginePaid>>
    BY <1>3 DEF Engine!TriggerChallenge
  <2> HIDE DEF k, k1
  <2>5. /\ k \in Metadata /\ k.sequence = s /\ k.total_deposited = meta.total_deposited
        /\ k.total_claimed = meta.total_claimed /\ k.claimed_leaves = meta.claimed_leaves
    BY <2>1, <2>2, <2>3, AdvancedMetadata
  <2> QED
    BY <2>1, <2>4, <2>5, SameTreeStep
<1>4. ASSUME NEW s \in Engine!Sequences, NEW root \in Engine!RootsAtHand, NEW b \in BOOLEAN,
             Engine!SubmitCounterState(s, root, b)
      PROVE  EngineInv'
  <2> DEFINE k == Advanced(meta, s, root)
             l == IF b THEN root ELSE leaves
             c == [sequence |-> s, root |-> root]
  <2>1. s \in Nat /\ s > meta.sequence /\ root \in Engine!Tree
        /\ Engine!Total(root) >= meta.total_deposited
    BY <1>4, EngineConstants, RootsAreTrees DEF Engine!SubmitCounterState, Engine!Sequences
  <2>2. /\ k \in Metadata /\ k.sequence = s /\ k.total_deposited = meta.total_deposited
        /\ k.total_claimed = meta.total_claimed /\ k.claimed_leaves = meta.claimed_leaves
    BY <1>1, <2>1, AdvancedMetadata
  <2>3. Engine!Persist(k, l, c) /\ UNCHANGED <<pipeline, engineNow, claims, enginePaid>>
    BY <1>4 DEF Engine!SubmitCounterState, Advanced
  <2>4. l \in Engine!Tree /\ (engineCrashes = 0 => Engine!Total(l) >= k.total_deposited)
    BY <1>1, <2>1, <2>2 DEF EngineInv, Backed
  <2>5. k.total_deposited >= meta.total_deposited
    BY <1>1, <2>2 DEF Metadata
  <2> HIDE DEF k, l, c
  <2> QED
    BY <2>1, <2>2, <2>3, <2>4, <2>5, QuietStep
<1>5. CASE Engine!FinalizeSettlement
  <2> DEFINE k == [meta EXCEPT !.status = "Closed"]
  <2>1. /\ k \in Metadata /\ k.sequence = meta.sequence /\ k.status = "Closed"
        /\ k.total_deposited = meta.total_deposited
        /\ k.total_claimed = meta.total_claimed /\ k.claimed_leaves = meta.claimed_leaves
    BY <1>1 DEF Metadata
  <2>2. Engine!Persist(k, leaves, cosign) /\ UNCHANGED <<pipeline, engineNow, claims, enginePaid>>
    BY <1>5 DEF Engine!FinalizeSettlement
  <2> HIDE DEF k
  <2> QED
    BY <2>1, <2>2, SameTreeStep
<1> QED
  BY <1>2, <1>3, <1>4, <1>5 DEF Engine!CloseStep

\* A claim: the leaf joins the leaves claimed, its amount what was paid.
LEMMA ClaimPays ==
    ASSUME EngineInv, NEW i \in Slots, NEW to, Engine!Pay(i, to)
    PROVE  EngineInv'
<1> DEFINE a == leaves[i].amount
           k == [meta EXCEPT !.total_claimed = @ + a, !.claimed_leaves = @ \cup {i}]
<1>1. /\ i \notin meta.claimed_leaves /\ to \in Engine!Parties
      /\ meta.total_claimed + a <= meta.total_deposited
      /\ Engine!Persist(k, leaves, cosign)
      /\ claims' = [n \in DOMAIN claims \cup {i} |-> IF n = i THEN leaves[i] ELSE claims[n]]
      /\ enginePaid' = [enginePaid EXCEPT ![to] = @ + a]
      /\ UNCHANGED <<pipeline, engineNow>>
  BY DEF Engine!Pay
<1>2. a \in Nat /\ meta \in Metadata /\ leaves \in Engine!Tree
  BY DEF EngineInv, EngineTyped, Engine!Tree, Engine!Leaf
<1>3. /\ k \in Metadata /\ k.sequence = meta.sequence /\ k.status = meta.status
      /\ k.total_deposited = meta.total_deposited
      /\ k.total_claimed = meta.total_claimed + a
      /\ k.claimed_leaves = meta.claimed_leaves \cup {i}
  <2> DEFINE k1 == [meta EXCEPT !.total_claimed = @ + a]
             k2 == [k1 EXCEPT !.claimed_leaves = @ \cup {i}]
  <2> HIDE DEF a
  <2>1. /\ k1 \in Metadata /\ k1.sequence = meta.sequence /\ k1.status = meta.status
        /\ k1.total_deposited = meta.total_deposited
        /\ k1.total_claimed = meta.total_claimed + a /\ k1.claimed_leaves = meta.claimed_leaves
    BY <1>2 DEF Metadata
  <2>2. k = k2
    BY <1>2 DEF Metadata
  <2> HIDE DEF k, k1
  <2> QED
    BY <2>1, <2>2 DEF Metadata
<1> HIDE DEF k
<1>4. meta' = k /\ leaves' = leaves /\ engineCrashes' \in Nat
      /\ (engineCrashes' = 0 => engineCrashes = 0)
  BY <1>1, PersistOutcome DEF EngineInv, EngineTyped
<1>5. EngineTyped'
  <2>1. enginePaid' \in [Engine!Parties -> Nat]
    <3> HIDE DEF a
    <3> QED BY <1>1, <1>2 DEF EngineInv, EngineTyped
  <2>2. \A n \in DOMAIN claims' : claims'[n].amount \in Nat
    BY <1>1, <1>2 DEF EngineInv, EngineTyped
  <2> QED
    BY <1>1, <1>2, <1>3, <1>4, <2>1, <2>2 DEF EngineInv, EngineTyped
<1>6. Engine!EveryLeafPaidOnce'
  <2> DEFINE D == DOMAIN claims
             F == [n \in D |-> claims[n].amount]
             G == [n \in D \cup {i} |-> claims'[n].amount]
             both == enginePaid[User] + enginePaid[Provider]
  <2>1. /\ meta.claimed_leaves = D /\ both = meta.total_claimed
        /\ both = SumFunctionOnSet(F, D)
    BY EngineSum DEF EngineInv, Engine!EveryLeafPaidOnce, Engine!PaidOut
  <2>2. i \notin D /\ D \subseteq Slots /\ IsFiniteSet(D) /\ IsFiniteSet(D \cup {i})
    <3>1. D \cup {i} \subseteq Slots
      BY <1>2, <2>1 DEF Metadata
    <3> QED
      BY <1>1, <2>1, <3>1, EngineConstants, FS_Subset
  <2>3. DOMAIN claims' = D \cup {i}
    BY <1>1
  <2>4. \A n \in D \cup {i} : G[n] = IF n = i THEN a ELSE F[n]
    BY <1>1
  <2>5. (\A n \in D \cup {i} : G[n] \in Int) /\ G[i] = a /\ (\A n \in D : G[n] = F[n])
    <3>1. \A n \in D : F[n] \in Nat
      BY DEF EngineInv, EngineTyped
    <3> HIDE DEF G, F, a
    <3> QED BY <1>2, <2>2, <2>4, <3>1
  <2>6. (D \cup {i}) \ {i} = D
    BY <2>2
  <2>7. SumFunctionOnSet(G, D \cup {i}) = a + SumFunctionOnSet(F, D)
    <3> HIDE DEF G, F, a, D
    <3>1. i \in D \cup {i}
      OBVIOUS
    <3>2. SumFunctionOnSet(G, D \cup {i}) = G[i] + SumFunctionOnSet(G, (D \cup {i}) \ {i})
      BY <2>2, <2>5, <3>1, SumTakeOut
    <3>3. SumFunctionOnSet(G, D) = SumFunctionOnSet(F, D)
      BY <2>2, <2>5, SumSame
    <3> QED
      BY <2>5, <2>6, <3>2, <3>3
  <2>8. enginePaid'[User] + enginePaid'[Provider] = both + a
    <3> HIDE DEF a
    <3> QED BY <1>1, <1>2, EngineConstants DEF Engine!Parties, EngineInv, EngineTyped
  <2>9. both \in Nat /\ meta.total_claimed \in Nat
    BY <1>2, <2>1 DEF Metadata
  <2>10. Engine!SumFunctionOnSet([n \in DOMAIN claims' |-> claims'[n].amount], DOMAIN claims')
           = both + a
    <3>1. [n \in DOMAIN claims' |-> claims'[n].amount] = G
      BY <2>3
    <3> HIDE DEF G, F, a, D, both
    <3> QED
      BY <1>2, <2>1, <2>3, <2>7, <2>9, <3>1, EngineSum
  <2> HIDE DEF a, D, F, G, both
  <2>11. /\ meta'.claimed_leaves = DOMAIN claims'
         /\ enginePaid'[User] + enginePaid'[Provider] = meta'.total_claimed
         /\ enginePaid'[User] + enginePaid'[Provider] = both + a
         /\ both + a <= meta'.total_deposited
    BY <1>1, <1>3, <1>4, <2>1, <2>3, <2>8, <2>9
  <2> QED
    BY <2>10, <2>11 DEF Engine!EveryLeafPaidOnce, Engine!PaidOut
<1>7. Backed'
  <2> SUFFICES ASSUME engineCrashes' = 0
               PROVE  /\ Engine!Total(leaves) >= k.total_deposited
                      /\ \A q \in Clients :
                           pipeline[q] # Engine!NoPipeline => Keeps(k, leaves, pipeline[q].updates)
    BY <1>1, <1>4 DEF Backed
  <2>1. engineCrashes = 0
    BY <1>4
  <2>2. Engine!Total(leaves) >= k.total_deposited
    BY <1>3, <2>1 DEF EngineInv, Backed
  <2> QED
    BY <1>3, <2>1, <2>2, PipelinesKeep
<1> QED
  BY <1>5, <1>6, <1>7 DEF EngineInv

\* Every claim operation.
LEMMA ClaimSteps ==
    ASSUME EngineInv, Engine!ClaimStep
    PROVE  EngineInv'
<1>1. PICK i \in Slots : \/ Engine!ClaimLeaf(i) \/ Engine!ClaimLeafWithProof(i)
                         \/ Engine!ClaimHtlcVerify(i) \/ Engine!ClaimHtlcRefund(i)
  BY DEF Engine!ClaimStep
<1>2. \E to : Engine!Pay(i, to)
  BY <1>1 DEF Engine!ClaimLeaf, Engine!ClaimLeafWithProof, Engine!ClaimHtlcVerify,
              Engine!ClaimHtlcRefund
<1> QED
  BY <1>2, ClaimPays

\* A slot passes, or nothing happens to the engine.
LEMMA ChannelSame ==
    ASSUME EngineInv, engineNow' \in Nat,
           UNCHANGED <<meta, leaves, pipeline, engineCrashes, claims, enginePaid>>
    PROVE  EngineInv'
<1>1. EngineTyped'
  BY DEF EngineInv, EngineTyped
<1>2. Engine!EveryLeafPaidOnce'
  BY DEF EngineInv, Engine!EveryLeafPaidOnce, Engine!PaidOut
<1>3. Backed'
  BY DEF EngineInv, Backed
<1> QED
  BY <1>1, <1>2, <1>3 DEF EngineInv

\* Every step of the engine keeps the invariant.
LEMMA EngineStep ==
    ASSUME EngineInv, [Engine!Next]_engineVars
    PROVE  EngineInv'
<1>1. CASE UNCHANGED engineVars
  <2>1. engineNow' \in Nat
    BY <1>1 DEF engineVars, EngineInv, EngineTyped
  <2> QED
    BY <1>1, <2>1, ChannelSame DEF engineVars
<1>2. CASE \E p \in Clients : Engine!PipelineStep(p)
  BY <1>2, PipelineSteps
<1>3. CASE Engine!OpenStep
  BY <1>3, OpenSteps, ApplyLeafUpdateStep, ApplyLeafUpdateBatchStep DEF Engine!OpenStep
<1>4. CASE Engine!CloseStep
  BY <1>4, CloseSteps
<1>5. CASE Engine!ClaimStep
  BY <1>5, ClaimSteps
<1>6. CASE Engine!Tick
  <2>1. engineNow' \in Nat
    BY <1>6 DEF Engine!Tick, EngineInv, EngineTyped
  <2> QED
    BY <1>6, <2>1, ChannelSame DEF Engine!Tick, Engine!disk, Engine!payouts
<1> QED
  BY <1>1, <1>2, <1>3, <1>4, <1>5, <1>6 DEF Engine!Next

\* open_channel: the deposit is in one leaf.
LEMMA EngineInit == Engine!Init => EngineInv
<1> SUFFICES ASSUME Engine!Init PROVE EngineInv
  OBVIOUS
<1> DEFINE none == [i \in Slots |-> Engine!Empty]
           first == Engine!Standard(User, DepositA)
<1>1. Engine!Empty \in Engine!Leaf /\ first \in Engine!Leaf /\ first.amount = DepositA
  BY EngineConstants, StandardLeaf DEF Engine!Empty, Engine!Owners, Engine!Parties
<1>2. none \in Engine!Tree /\ (\A i \in Slots : none[i].amount = 0)
  BY <1>1 DEF Engine!Tree, Engine!Empty, Engine!Standard
<1>3. leaves = [none EXCEPT ![FirstSlot] = first]
  BY EngineConstants DEF Engine!Init
<1> HIDE DEF none, first
<1>4. /\ leaves \in Engine!Tree
      /\ Engine!Total(leaves) = Engine!Total(none) - none[FirstSlot].amount + DepositA
  BY <1>1, <1>2, <1>3, EngineConstants, TotalAfter
<1>5. Engine!Total(leaves) >= DepositA
  <2>1. Engine!Total(none) \in Nat /\ none[FirstSlot].amount = 0 /\ DepositA \in Nat
    BY <1>2, EngineConstants, WorthType DEF Engine!Total
  <2> QED
    BY <1>4, <2>1
<1>6. /\ meta \in Metadata /\ meta.total_deposited = DepositA
      /\ meta.claimed_leaves = {} /\ meta.total_claimed = 0
  BY <1>4, EngineConstants DEF Engine!Init, Metadata, Moments
<1>7. /\ engineNow = 0 /\ engineCrashes = 0 /\ claims = <<>>
      /\ pipeline = [p \in Clients |-> Engine!NoPipeline]
      /\ enginePaid = [p \in Engine!Parties |-> 0]
  BY DEF Engine!Init
<1>8. EngineTyped
  BY <1>4, <1>6, <1>7 DEF EngineTyped
<1>9. Engine!EveryLeafPaidOnce
  <2>1. DOMAIN claims = {}
    BY <1>7
  <2>2. enginePaid[User] + enginePaid[Provider] = 0
    BY <1>7 DEF Engine!Parties
  <2>3. Engine!SumFunctionOnSet([i \in DOMAIN claims |-> claims[i].amount], DOMAIN claims) = 0
    BY <2>1, EngineSum, SumEmpty
  <2> QED
    BY <1>6, <2>1, <2>2, <2>3, EngineConstants DEF Engine!EveryLeafPaidOnce, Engine!PaidOut
<1>10. Backed
  BY <1>5, <1>6, <1>7 DEF Backed
<1> QED
  BY <1>8, <1>9, <1>10 DEF EngineInv

\* The deposits that were not claimed are in the leaves that were not claimed: the
\* tree covers all deposits, and the leaves paid, still standing, are worth what
\* was paid.
LEMMA BackedCovers == EngineInv => Engine!LeavesCoverDeposit
<1> SUFFICES ASSUME EngineInv, engineCrashes = 0, Engine!PaidLeavesStand
             PROVE  Engine!Unclaimed >= meta.total_deposited - meta.total_claimed
  BY DEF Engine!LeavesCoverDeposit
<1> DEFINE C == meta.claimed_leaves
           F == [i \in Slots |-> leaves[i].amount]
           G == [i \in DOMAIN claims |-> claims[i].amount]
<1>1. /\ leaves \in Engine!Tree /\ C \in SUBSET Slots /\ C = DOMAIN claims
      /\ meta.total_deposited \in Nat /\ meta.total_claimed \in Nat
  BY DEF EngineInv, EngineTyped, Metadata, Engine!EveryLeafPaidOnce
<1>2. \A i \in Slots : F[i] \in Int
  BY <1>1 DEF Engine!Tree, Engine!Leaf
<1>3. IsFiniteSet(Slots) /\ IsFiniteSet(C) /\ IsFiniteSet(Slots \ C)
  BY <1>1, EngineConstants, FS_Subset
<1>4. Engine!Total(leaves) = SumFunctionOnSet(F, Slots)
      /\ Engine!Unclaimed = SumFunctionOnSet(F, Slots \ C)
  BY EngineSum DEF Engine!Total, Engine!Unclaimed, Engine!Worth
<1>5. meta.total_claimed = SumFunctionOnSet(G, C)
  BY <1>1, EngineSum DEF EngineInv, Engine!EveryLeafPaidOnce
<1>6. \A i \in C : F[i] = G[i]
  BY <1>1 DEF Engine!PaidLeavesStand
<1>7. Engine!Total(leaves) >= meta.total_deposited
  BY DEF EngineInv, Backed
<1> HIDE DEF C, F, G
<1>8. SumFunctionOnSet(F, Slots) = SumFunctionOnSet(F, C) + SumFunctionOnSet(F, Slots \ C)
  BY <1>1, <1>2, <1>3, SumParts
<1>9. SumFunctionOnSet(F, C) = SumFunctionOnSet(G, C)
  BY <1>3, <1>6, SumSame
<1>10. SumFunctionOnSet(F, Slots \ C) \in Int
  BY <1>2, <1>3, SumType
<1> QED
  BY <1>1, <1>4, <1>5, <1>7, <1>8, <1>9, <1>10

-----------------------------------------------------------------------------
(* The HTLC records of a channel.                                            *)

Records == [state : {"Pending", "Revealed", "Fulfilled", "Expired", "Refunded"}, timelock : Nat]

HtlcTyped ==
    /\ records \in [Locks -> Records \cup {NoValue}]
    /\ saved \in [Locks -> Records \cup {NoValue}]
    /\ htlcSlot \in Nat /\ unsaved \in Nat /\ htlcRestarts \in Nat
    /\ fulfilled \subseteq Locks /\ refunded \subseteq Locks
    /\ used \subseteq Locks /\ remade \subseteq Locks

\* Until a save fails, what is saved is what is in memory.
SavedIsCurrent == unsaved = 0 => saved = records

\* A lock that was used once has one record, which is where its end put it,
\* unless a restart brought back an older one.
OneEnd ==
    ~(unsaved > 0 /\ htlcRestarts > 0) =>
        \A l \in Locks \ remade :
            /\ l \in fulfilled =>
                 l \notin refunded /\ (records[l] = NoValue \/ records[l].state = "Fulfilled")
            /\ l \in refunded => records[l] = NoValue \/ records[l].state = "Refunded"
            /\ records[l] # NoValue \/ l \in fulfilled \cup refunded => l \in used

HtlcInv == HtlcTyped /\ SavedIsCurrent /\ OneEnd

LEMMA HtlcConstants == Durations \subseteq Nat
<1>1. Htlcs!HtlcRecordsAssumption
  BY PartsAssumption
<1> QED
  BY <1>1 DEF Htlcs!HtlcRecordsAssumption

\* A save that ends or fails.
LEMMA SaveOutcome ==
    ASSUME HtlcInv, Htlcs!PersistToDb, records' \in [Locks -> Records \cup {NoValue}]
    PROVE  /\ saved' \in [Locks -> Records \cup {NoValue}] /\ unsaved' \in Nat
           /\ SavedIsCurrent' /\ (unsaved' = 0 => unsaved = 0)
BY DEF HtlcInv, HtlcTyped, SavedIsCurrent, Htlcs!PersistToDb

\* A record put in for a lock, the first of the lock or one more.
LEMMA InsertStep ==
    ASSUME HtlcInv, NEW lock \in Locks, NEW d \in Durations, Htlcs!Insert(lock, d)
    PROVE  HtlcInv'
<1>1. Htlcs!Record(d) \in Records /\ Htlcs!Record(d).state = "Pending"
  <2>1. htlcSlot + d \in Nat
    BY HtlcConstants DEF HtlcInv, HtlcTyped
  <2> QED
    BY <2>1 DEF Htlcs!Record, Records
<1>2. /\ records' = [records EXCEPT ![lock] = Htlcs!Record(d)] /\ Htlcs!PersistToDb
      /\ used' = used \cup {lock} /\ remade' = remade \cup (used \cap {lock})
      /\ UNCHANGED <<htlcSlot, htlcRestarts, fulfilled, refunded>>
  BY DEF Htlcs!Insert
<1> USE DEF HtlcInv, HtlcTyped
<1>3. records' \in [Locks -> Records \cup {NoValue}]
  BY <1>1, <1>2
<1>4. /\ saved' \in [Locks -> Records \cup {NoValue}] /\ unsaved' \in Nat
      /\ SavedIsCurrent' /\ (unsaved' = 0 => unsaved = 0)
  BY <1>2, <1>3, SaveOutcome
<1>5. OneEnd'
  <2> SUFFICES ASSUME ~(unsaved' > 0 /\ htlcRestarts' > 0), NEW l \in Locks \ remade'
               PROVE  /\ l \in fulfilled =>
                           l \notin refunded /\ (records'[l] = NoValue \/ records'[l].state = "Fulfilled")
                      /\ l \in refunded => records'[l] = NoValue \/ records'[l].state = "Refunded"
                      /\ records'[l] # NoValue \/ l \in fulfilled \cup refunded => l \in used'
    BY <1>2 DEF OneEnd
  <2>1. ~(unsaved > 0 /\ htlcRestarts > 0) /\ l \notin remade
    BY <1>2, <1>4
  <2>2. /\ l \in fulfilled =>
             l \notin refunded /\ (records[l] = NoValue \/ records[l].state = "Fulfilled")
        /\ l \in refunded => records[l] = NoValue \/ records[l].state = "Refunded"
        /\ records[l] # NoValue \/ l \in fulfilled \cup refunded => l \in used
    BY <2>1 DEF OneEnd
  <2>3. CASE l = lock
    BY <1>2, <2>2, <2>3
  <2>4. CASE l # lock
    BY <1>2, <2>2, <2>4
  <2> QED
    BY <2>3, <2>4
<1> QED
  BY <1>2, <1>3, <1>4, <1>5

\* What an operation that creates no record does to each lock: its record stays or
\* goes away, moves on, or ends one way or the other.
Same(l) == (l \in fulfilled' <=> l \in fulfilled) /\ (l \in refunded' <=> l \in refunded)

Moves(l) ==
    \/ records'[l] \in {NoValue, records[l]} /\ Same(l)
    \/ records[l] # NoValue /\ records[l].state \in {"Pending", "Revealed", "Expired"} /\ Same(l)
    \/ /\ records[l] # NoValue /\ records[l].state = "Revealed"
       /\ records'[l].state = "Fulfilled" /\ (l \in refunded' <=> l \in refunded)
    \/ /\ records[l] # NoValue /\ records[l].state = "Expired"
       /\ records'[l].state = "Refunded" /\ (l \in fulfilled' <=> l \in fulfilled)

LEMMA MoveStep ==
    ASSUME HtlcInv, Htlcs!PersistToDb, records' \in [Locks -> Records \cup {NoValue}],
           UNCHANGED <<htlcSlot, htlcRestarts, used, remade>>,
           fulfilled' \subseteq Locks, refunded' \subseteq Locks, \A l \in Locks : Moves(l)
    PROVE  HtlcInv'
<1> USE DEF HtlcInv, HtlcTyped
<1>1. /\ saved' \in [Locks -> Records \cup {NoValue}] /\ unsaved' \in Nat
      /\ SavedIsCurrent' /\ (unsaved' = 0 => unsaved = 0)
  BY SaveOutcome
<1>2. OneEnd'
  <2> SUFFICES ASSUME ~(unsaved' > 0 /\ htlcRestarts' > 0), NEW l \in Locks \ remade
               PROVE  /\ l \in fulfilled' =>
                           l \notin refunded' /\ (records'[l] = NoValue \/ records'[l].state = "Fulfilled")
                      /\ l \in refunded' => records'[l] = NoValue \/ records'[l].state = "Refunded"
                      /\ records'[l] # NoValue \/ l \in fulfilled' \cup refunded' => l \in used
    BY DEF OneEnd
  <2>1. ~(unsaved > 0 /\ htlcRestarts > 0)
    BY <1>1
  <2>2. /\ l \in fulfilled =>
             l \notin refunded /\ (records[l] = NoValue \/ records[l].state = "Fulfilled")
        /\ l \in refunded => records[l] = NoValue \/ records[l].state = "Refunded"
        /\ records[l] # NoValue \/ l \in fulfilled \cup refunded => l \in used
    BY <2>1 DEF OneEnd
  <2> QED
    BY <2>2 DEF Moves, Same
<1> QED
  BY <1>1, <1>2

LEMMA HtlcStep ==
    ASSUME HtlcInv, [Htlcs!Next]_htlcVars
    PROVE  HtlcInv'
<1>0. /\ records \in [Locks -> Records \cup {NoValue}] /\ htlcSlot \in Nat
      /\ fulfilled \subseteq Locks /\ refunded \subseteq Locks
  BY DEF HtlcInv, HtlcTyped
<1>1. CASE UNCHANGED htlcVars
  BY <1>1 DEF htlcVars, HtlcInv, HtlcTyped, SavedIsCurrent, OneEnd
<1>2. ASSUME NEW l \in Locks, NEW d \in Durations,
             Htlcs!CreateHtlc(l, d) \/ Htlcs!CreateHtlcWithPreimage(l, d)
      PROVE  HtlcInv'
  BY <1>2, InsertStep DEF Htlcs!CreateHtlc, Htlcs!CreateHtlcWithPreimage
<1>3. ASSUME NEW k \in Locks, NEW from, NEW to \in {"Revealed", "Fulfilled", "Refunded"},
             Htlcs!Mark(k, from, to)
      PROVE  /\ records' \in [Locks -> Records \cup {NoValue}]
             /\ records[k] # NoValue /\ records[k].state = from
             /\ \A l \in Locks \ {k} : records'[l] = records[l]
             /\ records'[k].state = to
             /\ Htlcs!PersistToDb /\ UNCHANGED <<htlcSlot, htlcRestarts, used, remade>>
  <2>1. records[k] \in Records
    BY <1>0, <1>3 DEF Htlcs!Mark
  <2>2. [records[k] EXCEPT !.state = to] \in Records /\ [records[k] EXCEPT !.state = to].state = to
    BY <2>1 DEF Records
  <2>3. records' = [records EXCEPT ![k] = [records[k] EXCEPT !.state = to]]
    BY <1>3 DEF Htlcs!Mark
  <2> QED
    BY <1>0, <1>3, <2>2, <2>3 DEF Htlcs!Mark
<1>4. ASSUME NEW k \in Locks, NEW p \in Locks, Htlcs!RevealPreimage(k, p)
      PROVE  HtlcInv'
  <2>1. Htlcs!Mark(k, "Pending", "Revealed") /\ UNCHANGED <<fulfilled, refunded>>
    BY <1>4 DEF Htlcs!RevealPreimage
  <2>2. \A l \in Locks : Moves(l)
    BY <1>3, <2>1 DEF Moves, Same
  <2> QED
    BY <1>0, <1>3, <2>1, <2>2, MoveStep
<1>5. ASSUME NEW k \in Locks, Htlcs!MarkFulfilled(k)
      PROVE  HtlcInv'
  <2>1. Htlcs!Mark(k, "Revealed", "Fulfilled") /\ fulfilled' = fulfilled \cup {k}
        /\ UNCHANGED refunded
    BY <1>5 DEF Htlcs!MarkFulfilled
  <2>2. \A l \in Locks : Moves(l)
    BY <1>3, <2>1 DEF Moves, Same
  <2>3. fulfilled' \subseteq Locks /\ refunded' \subseteq Locks
    BY <1>0, <2>1
  <2> QED
    BY <1>3, <2>1, <2>2, <2>3, MoveStep
<1>6. ASSUME NEW k \in Locks, Htlcs!MarkRefunded(k)
      PROVE  HtlcInv'
  <2>1. Htlcs!Mark(k, "Expired", "Refunded") /\ refunded' = refunded \cup {k}
        /\ UNCHANGED fulfilled
    BY <1>6 DEF Htlcs!MarkRefunded
  <2>2. \A l \in Locks : Moves(l)
    BY <1>3, <2>1 DEF Moves, Same
  <2>3. fulfilled' \subseteq Locks /\ refunded' \subseteq Locks
    BY <1>0, <2>1
  <2> QED
    BY <1>3, <2>1, <2>2, <2>3, MoveStep
<1>7. CASE Htlcs!CheckExpiry
  <2> USE <1>7 DEF Htlcs!CheckExpiry
  <2>1. ASSUME NEW l \in Locks
        PROVE  records'[l] \in Records \cup {NoValue} /\ Moves(l)
    <3>1. CASE Htlcs!Expires(l)
      <4>1. records[l] \in Records /\ records[l] # NoValue /\ records[l].state = "Pending"
        BY <1>0, <3>1 DEF Htlcs!Expires, Htlcs!Overdue
      <4>2. records'[l] = [records[l] EXCEPT !.state = "Expired"]
        BY <3>1
      <4> QED
        BY <4>1, <4>2 DEF Moves, Same, Records
    <3>2. CASE ~Htlcs!Expires(l)
      BY <1>0, <3>2 DEF Moves, Same
    <3> QED
      BY <3>1, <3>2
  <2>2. records' \in [Locks -> Records \cup {NoValue}]
    BY <2>1
  <2> QED
    BY <1>0, <2>1, <2>2, MoveStep
<1>8. CASE Htlcs!Cleanup
  <2>1. records' \in [Locks -> Records \cup {NoValue}] /\ \A l \in Locks : Moves(l)
    BY <1>0, <1>8 DEF Htlcs!Cleanup, Moves, Same
  <2> QED
    BY <1>0, <1>8, <2>1, MoveStep DEF Htlcs!Cleanup
<1>9. CASE Htlcs!Tick
  BY <1>9 DEF Htlcs!Tick, HtlcInv, HtlcTyped, SavedIsCurrent, OneEnd
<1>10. CASE Htlcs!Restart
  <2>1. HtlcTyped' /\ SavedIsCurrent'
    BY <1>10 DEF Htlcs!Restart, HtlcInv, HtlcTyped, SavedIsCurrent
  <2>2. CASE unsaved = 0
    BY <1>10, <2>2 DEF Htlcs!Restart, HtlcInv, HtlcTyped, SavedIsCurrent, OneEnd
  <2>3. CASE unsaved # 0
    <3>1. unsaved' > 0 /\ htlcRestarts' > 0
      BY <1>10, <2>3 DEF Htlcs!Restart, HtlcInv, HtlcTyped
    <3>2. OneEnd'
      BY <3>1 DEF OneEnd
    <3> QED
      BY <2>1, <3>2 DEF HtlcInv
  <2> QED
    BY <2>1, <2>2, <2>3 DEF HtlcInv
<1> QED
  BY <1>1, <1>2, <1>4, <1>5, <1>6, <1>7, <1>8, <1>9, <1>10 DEF Htlcs!Next

LEMMA HtlcInit == Htlcs!Init => HtlcInv
BY DEF Htlcs!Init, HtlcInv, HtlcTyped, SavedIsCurrent, OneEnd

LEMMA OneEndPays == HtlcInv => Htlcs!HtlcPaysOneWay
BY DEF HtlcInv, HtlcTyped, OneEnd, Htlcs!HtlcPaysOneWay

-----------------------------------------------------------------------------
(* Payments over several channels.                                          *)

LEMMA HopConstants ==
    /\ GivenAmounts \subseteq Nat /\ RequestedDurations \subseteq Nat /\ MaxHops \in Nat
    /\ HopMargin \in Nat /\ SlotStep \in Nat
    /\ NoValue \notin Nat /\ NoValue \notin Hops!Payments
<1>1. Hops!MultiHopAssumption
  BY PartsAssumption
<1> QED
  BY <1>1 DEF Hops!MultiHopAssumption

PaymentTyped(p) == p \in Hops!Payments /\ p.hops # <<>>

HopsTyped ==
    /\ payment # NoValue => PaymentTyped(payment)
    /\ call \in [Callers -> Nat \cup {NoValue}]
    /\ hopSlot \in Nat /\ revealed \in BOOLEAN

\* A caller of resolve_hop has read a hop of the payment, which never goes away.
CallsHaveHops ==
    \A c \in Callers : call[c] # NoValue =>
        payment # NoValue /\ call[c] \in 1 .. Len(payment.hops)

\* The hops are what create_payment planned: every hub has its margin.
Planned(p) ==
    LET n == Len(p.hops)
    IN  /\ p.hops[n].timelock >= p.created + 3 * HopMargin
        /\ \A i \in 1 .. n - 1 : p.hops[i].timelock >= p.hops[i + 1].timelock + HopMargin

\* The status says how far the payment got.
Progress(p, shown) ==
    /\ p.status = "Completed" <=> \A i \in 1 .. Len(p.hops) : p.hops[i].resolved
    /\ p.status \in {"Resolving", "Completed"} \/ (\E i \in 1 .. Len(p.hops) : p.hops[i].resolved)
           => shown

HopsInv ==
    /\ HopsTyped /\ CallsHaveHops
    /\ payment # NoValue => Planned(payment) /\ Progress(payment, revealed)

\* The length of a sequence given by its domain.
LEMMA LengthIs ==
    ASSUME NEW S, NEW n \in Nat, NEW s \in [1 .. n -> S]
    PROVE  s \in Seq(S) /\ Len(s) = n /\ DOMAIN s = 1 .. n
<1>1. s \in Seq(S)
  BY SeqDef
<1>2. Len(s) \in Nat /\ DOMAIN s = 1 .. Len(s)
  BY <1>1, LenProperties
<1>3. 1 .. Len(s) = 1 .. n
  BY <1>2
<1>4. Len(s) = n
  <2> DEFINE l == Len(s)
  <2>1. l \in Nat /\ (1 .. l) = 1 .. n
    BY <1>2, <1>3
  <2> HIDE DEF l
  <2>2. l >= 1 => l \in 1 .. n
    BY <2>1
  <2>3. n >= 1 => n \in 1 .. l
    BY <2>1
  <2>4. l = n
    BY <2>1, <2>2, <2>3
  <2> QED
    BY <2>4 DEF l
<1> QED
  BY <1>1, <1>2, <1>4

Later(base, i) == base - (i - 1) * HopMargin

LEMMA CreatePaymentStep ==
    ASSUME HopsInv, NEW n \in 1 .. MaxHops, NEW duration \in RequestedDurations,
           NEW A \in [1 .. n -> GivenAmounts], Hops!CreatePayment(A, duration)
    PROVE  HopsInv'
<1> DEFINE hops == [i \in DOMAIN A |-> Hops!Hop(i, A, duration)]
           M == Hops!MinTimelock(duration)
           p == [status |-> "Pending", created |-> hopSlot, hops |-> hops]
<1>1. payment' = p /\ UNCHANGED <<call, revealed, hopSlot, hopRestarts>> /\ payment = NoValue
  BY DEF Hops!CreatePayment
<1>2. n \in Nat \ {0} /\ duration \in Nat /\ hopSlot \in Nat
  BY HopConstants DEF HopsInv, HopsTyped
<1>3. \A i \in 1 .. n : A[i] \in Nat
  BY HopConstants
<1>5. A \in [1 .. n -> Nat] /\ DOMAIN A = 1 .. n
  BY HopConstants
<1>6. Len(A) = n
  BY <1>2, <1>5, LengthIs
<1> DEFINE late(i) == Later(Hops!BaseTimelock(Len(A), duration), i)
<1>7. \A i \in 1 .. n : /\ hops[i].amount = A[i] /\ hops[i].timelock = late(i)
                        /\ hops[i].resolved = FALSE
                        /\ late(i) \in Nat => hops[i] \in Hops!HopRecord
  <2> SUFFICES ASSUME NEW i \in 1 .. n
               PROVE  /\ hops[i].amount = A[i] /\ hops[i].timelock = late(i)
                      /\ hops[i].resolved = FALSE
                      /\ late(i) \in Nat => hops[i] \in Hops!HopRecord
    OBVIOUS
  <2>1. hops[i] = Hops!Hop(i, A, duration)
    BY <1>5
  <2>2. Hops!Hop(i, A, duration) = [amount |-> A[i], timelock |-> late(i), resolved |-> FALSE]
    BY Zenon DEF Hops!Hop, Later
  <2>3. A[i] \in Nat
    BY <1>3
  <2> HIDE DEF late, hops
  <2> QED
    BY <2>1, <2>2, <2>3 DEF Hops!HopRecord
<1>8. /\ M \in Nat /\ M >= 3 * HopMargin
      /\ \A i \in 1 .. n : late(i) = Later(hopSlot + M + (n - 1) * HopMargin, i)
  <2>1. M \in Nat /\ M >= 3 * HopMargin
    BY <1>2, HopConstants DEF Hops!MinTimelock
  <2>2. Hops!BaseTimelock(Len(A), duration) = hopSlot + M + (n - 1) * HopMargin
    BY <1>6 DEF Hops!BaseTimelock
  <2>3. \A i \in 1 .. n : late(i) = Later(hopSlot + M + (n - 1) * HopMargin, i)
    BY <2>2
  <2> QED
    BY <2>1, <2>3
<1> HIDE DEF late, M
<1>9. \A i \in 1 .. n : (i - 1) * HopMargin \in Nat /\ (n - i) * HopMargin \in Nat
                        /\ (n - 1) * HopMargin = (n - i) * HopMargin + (i - 1) * HopMargin
  <2> SUFFICES ASSUME NEW i \in 1 .. n
               PROVE  (i - 1) * HopMargin \in Nat /\ (n - i) * HopMargin \in Nat
                      /\ (n - 1) * HopMargin = (n - i) * HopMargin + (i - 1) * HopMargin
    OBVIOUS
  <2>1. i - 1 \in Nat /\ n - i \in Nat /\ n - 1 = (n - i) + (i - 1) /\ HopMargin \in Nat
    BY HopConstants
  <2>2. \A a, b, c \in Nat : a * c \in Nat /\ (a + b) * c = a * c + b * c
    OBVIOUS
  <2> QED
    BY <2>1, <2>2
<1>10. \A i \in 1 .. n : /\ late(i) = hopSlot + M + (n - i) * HopMargin
                         /\ late(i) \in Nat
  <2> SUFFICES ASSUME NEW i \in 1 .. n
               PROVE  late(i) = hopSlot + M + (n - i) * HopMargin /\ late(i) \in Nat
    OBVIOUS
  <2> DEFINE x == (i - 1) * HopMargin
             y == (n - i) * HopMargin
             z == (n - 1) * HopMargin
  <2>1. x \in Nat /\ y \in Nat /\ z = y + x
    BY <1>9
  <2>2. late(i) = Later(hopSlot + M + z, i)
    BY <1>8
  <2>3. \A b : Later(b, i) = b - x
    BY DEF Later
  <2> HIDE DEF x, y, z
  <2>4. late(i) = (hopSlot + M + z) - x
    BY <2>2, <2>3, Zenon
  <2>5. late(i) = hopSlot + M + y /\ late(i) \in Nat
    BY <1>2, <1>8, <2>1, <2>4
  <2> QED
    BY <2>5 DEF y
<1>11. hops \in [1 .. n -> Hops!HopRecord]
  <2>1. \A i \in 1 .. n : hops[i] \in Hops!HopRecord
    BY <1>7, <1>10
  <2>2. hops = [i \in 1 .. n |-> hops[i]]
    BY <1>5
  <2> HIDE DEF hops
  <2> QED
    BY <2>1, <2>2
<1> HIDE DEF hops
<1>12. hops \in Seq(Hops!HopRecord) /\ Len(hops) = n /\ hops # <<>>
  BY <1>2, <1>11, LengthIs
<1>13. p \in Hops!Payments /\ p.hops = hops /\ p.created = hopSlot /\ p.status = "Pending"
  BY <1>2, <1>12 DEF Hops!Payments
<1> HIDE DEF p
<1>14. HopsTyped'
  BY <1>1, <1>12, <1>13, HopConstants DEF HopsInv, HopsTyped, PaymentTyped
<1>15. CallsHaveHops'
  BY <1>1 DEF HopsInv, CallsHaveHops
<1>16. Planned(p)
  <2>1. hops[n].timelock >= hopSlot + 3 * HopMargin
    <3>1. n \in 1 .. n /\ hops[n].timelock = late(n)
      BY <1>2, <1>7
    <3>2. late(n) = hopSlot + M + (n - n) * HopMargin /\ (n - n) * HopMargin \in Nat
      BY <1>9, <1>10, <3>1
    <3> DEFINE y == (n - n) * HopMargin
    <3> HIDE DEF y
    <3>3. y \in Nat /\ hops[n].timelock = hopSlot + M + y
      BY <3>1, <3>2 DEF y
    <3> QED
      BY <1>2, <1>8, <3>3, HopConstants
  <2>2. ASSUME NEW i \in 1 .. n - 1
        PROVE  hops[i].timelock >= hops[i + 1].timelock + HopMargin
    <3>1. i \in 1 .. n /\ i + 1 \in 1 .. n /\ n - (i + 1) \in Nat /\ n - i = (n - (i + 1)) + 1
      BY <1>2
    <3>2. hops[i].timelock = late(i) /\ hops[i + 1].timelock = late(i + 1)
      BY <1>7, <3>1
    <3>3. (n - i) * HopMargin = (n - (i + 1)) * HopMargin + HopMargin
      <4>1. \A a, c \in Nat : (a + 1) * c = a * c + c
        OBVIOUS
      <4> QED
        BY <3>1, <4>1, HopConstants
    <3> DEFINE y == (n - (i + 1)) * HopMargin
               z == (n - i) * HopMargin
    <3>4. z = y + HopMargin /\ y \in Nat /\ late(i) = hopSlot + M + z
          /\ late(i + 1) = hopSlot + M + y
      BY <1>9, <1>10, <3>1, <3>3
    <3> HIDE DEF y, z
    <3> QED
      BY <1>2, <1>8, <3>2, <3>4, HopConstants
  <2> QED
    BY <1>12, <1>13, <2>1, <2>2 DEF Planned
<1>17. Progress(p, revealed)
  <2>1. \A i \in 1 .. n : ~hops[i].resolved
    BY <1>7
  <2>2. 1 \in 1 .. n
    BY <1>2
  <2> QED
    BY <1>12, <1>13, <2>1, <2>2 DEF Progress
<1>18. Progress(payment, revealed)'
  BY <1>1, <1>17 DEF Progress
<1>19. Planned(payment)'
  BY <1>1, <1>16 DEF Planned
<1> QED
  BY <1>14, <1>15, <1>18, <1>19 DEF HopsInv

\* A hop is resolved once the preimage was shown; the plan of the payment stays.
LEMMA ResolveHopStep ==
    ASSUME HopsInv, payment # NoValue, NEW i \in 1 .. Len(payment.hops), Hops!ResolveHop(i),
           revealed' = revealed
    PROVE  /\ payment' # NoValue /\ Len(payment'.hops) = Len(payment.hops)
           /\ PaymentTyped(payment)' /\ Planned(payment)' /\ Progress(payment, revealed)'
<1> DEFINE n == Len(payment.hops)
<1>1. PaymentTyped(payment) /\ Planned(payment) /\ Progress(payment, revealed)
  BY DEF HopsInv, HopsTyped
<1>2. n \in Nat \ {0} /\ payment.hops \in [1 .. n -> Hops!HopRecord] /\ DOMAIN payment.hops = 1 .. n
  BY <1>1 DEF PaymentTyped, Hops!Payments
<1>3. CASE payment.status # "Resolving"
  <2>1. payment' = payment
    BY <1>3 DEF Hops!ResolveHop
  <2> QED
    BY <1>1, <2>1 DEF PaymentTyped, Planned, Progress
<1>4. CASE payment.status = "Resolving"
  <2> DEFINE hops == [payment.hops EXCEPT ![i].resolved = TRUE]
             status == IF Hops!AllResolved(hops) THEN "Completed" ELSE payment.status
             p == [payment EXCEPT !.hops = hops, !.status = status]
  <2>1. payment' = p
    BY <1>4 DEF Hops!ResolveHop, Hops!Resolved
  <2>2. hops \in [1 .. n -> Hops!HopRecord]
    BY <1>2 DEF Hops!HopRecord
  <2>3. \A j \in 1 .. n : /\ hops[j].amount = payment.hops[j].amount
                          /\ hops[j].timelock = payment.hops[j].timelock
                          /\ hops[j].resolved = (j = i \/ payment.hops[j].resolved)
    BY <1>2 DEF Hops!HopRecord
  <2>4. hops \in Seq(Hops!HopRecord) /\ Len(hops) = n /\ hops # <<>> /\ DOMAIN hops = 1 .. n
    <3> HIDE DEF hops
    <3> QED BY <1>2, <2>2, LengthIs
  <2>5. Hops!AllResolved(hops) <=> \A j \in 1 .. n : hops[j].resolved
    BY <2>4 DEF Hops!AllResolved
  <2> HIDE DEF hops
  <2>6. status \in {"Resolving", "Completed"}
        /\ (status = "Completed" <=> \A j \in 1 .. n : hops[j].resolved)
    BY <1>4, <2>5
  <2> HIDE DEF status
  <2>7. /\ p \in Hops!Payments /\ p.hops = hops /\ p.status = status
        /\ p.created = payment.created
    BY <1>1, <2>4, <2>6 DEF PaymentTyped, Hops!Payments
  <2> HIDE DEF p
  <2>8. p # NoValue /\ PaymentTyped(p) /\ Len(p.hops) = n
    BY <1>1, <2>4, <2>7, HopConstants DEF PaymentTyped
  <2>9. Planned(p)
    <3>1. n \in 1 .. n /\ \A j \in 1 .. n - 1 : j \in 1 .. n /\ j + 1 \in 1 .. n
      BY <1>2
    <3> QED
      BY <1>1, <2>3, <2>4, <2>7, <3>1 DEF Planned
  <2>10. revealed /\ Progress(p, revealed)
    BY <1>1, <1>4, <2>4, <2>6, <2>7 DEF Progress
  <2> QED
    BY <2>1, <2>8, <2>9, <2>10 DEF PaymentTyped, Planned, Progress
<1> QED
  BY <1>3, <1>4

LEMMA HopsStep ==
    ASSUME HopsInv, [Hops!Next]_hopVars
    PROVE  HopsInv'
<1>0. HopsTyped /\ CallsHaveHops
  BY DEF HopsInv
<1>1. CASE \E n \in 1 .. MaxHops, duration \in RequestedDurations :
               \E A \in [1 .. n -> GivenAmounts] : Hops!CreatePayment(A, duration)
  BY <1>1, CreatePaymentStep
<1>2. CASE Hops!RevealPreimage
  <2> DEFINE p == [payment EXCEPT !.status = "Resolving"]
  <2>1. payment' = p /\ revealed' /\ UNCHANGED <<call, hopSlot>> /\ payment # NoValue
        /\ payment.status = "Pending"
    BY <1>2 DEF Hops!RevealPreimage
  <2>2. PaymentTyped(payment) /\ Planned(payment) /\ Progress(payment, revealed)
    BY <2>1 DEF HopsInv, HopsTyped
  <2>3. /\ p \in Hops!Payments /\ p.hops = payment.hops /\ p.status = "Resolving"
        /\ p.created = payment.created
    BY <2>2 DEF PaymentTyped, Hops!Payments
  <2> HIDE DEF p
  <2>4. p # NoValue /\ PaymentTyped(p) /\ Planned(p) /\ Progress(p, revealed')
    BY <2>1, <2>2, <2>3, HopConstants DEF PaymentTyped, Planned, Progress
  <2>5. HopsTyped' /\ CallsHaveHops'
    BY <1>0, <2>1, <2>3, <2>4 DEF HopsTyped, CallsHaveHops, PaymentTyped
  <2>6. Planned(payment)' /\ Progress(payment, revealed)'
    BY <2>1, <2>4 DEF Planned, Progress
  <2> QED
    BY <2>5, <2>6 DEF HopsInv
<1>3. CASE Hops!CheckExpiry
  <2> DEFINE p == [payment EXCEPT !.status = "Failed"]
  <2>1. payment' = p /\ UNCHANGED <<call, hopSlot, revealed>> /\ payment # NoValue
    BY <1>3 DEF Hops!CheckExpiry
  <2>2. PaymentTyped(payment) /\ Planned(payment) /\ Progress(payment, revealed)
    BY <2>1 DEF HopsInv, HopsTyped
  <2>3. \E i \in 1 .. Len(payment.hops) : ~payment.hops[i].resolved
    <3>1. DOMAIN payment.hops = 1 .. Len(payment.hops)
      BY <2>2 DEF PaymentTyped, Hops!Payments
    <3> QED
      BY <1>3, <3>1 DEF Hops!CheckExpiry
  <2>4. /\ p \in Hops!Payments /\ p.hops = payment.hops /\ p.status = "Failed"
        /\ p.created = payment.created
    BY <2>2 DEF PaymentTyped, Hops!Payments
  <2> HIDE DEF p
  <2>5. p # NoValue /\ PaymentTyped(p) /\ Planned(p) /\ Progress(p, revealed)
    BY <2>1, <2>2, <2>3, <2>4, HopConstants DEF PaymentTyped, Planned, Progress
  <2>6. HopsTyped' /\ CallsHaveHops'
    BY <1>0, <2>1, <2>4, <2>5 DEF HopsTyped, CallsHaveHops, PaymentTyped
  <2>7. Planned(payment)' /\ Progress(payment, revealed)'
    BY <2>1, <2>5 DEF Planned, Progress
  <2> QED
    BY <2>6, <2>7 DEF HopsInv
<1>4. ASSUME NEW c \in Callers, Hops!ReadFirstUnresolved(c)
      PROVE  HopsInv'
  <2>1. payment # NoValue /\ UNCHANGED <<payment, hopSlot, revealed>>
    BY <1>4 DEF Hops!ReadFirstUnresolved
  <2>2. DOMAIN payment.hops = 1 .. Len(payment.hops)
    BY <1>0, <2>1 DEF HopsTyped, PaymentTyped, Hops!Payments
  <2>3. PICK i \in 1 .. Len(payment.hops) : call' = [call EXCEPT ![c] = i]
    BY <1>4, <2>2 DEF Hops!ReadFirstUnresolved
  <2>4. HopsTyped'
    BY <1>0, <2>1, <2>3 DEF HopsTyped, PaymentTyped
  <2>5. CallsHaveHops'
    BY <1>0, <2>1, <2>3 DEF HopsTyped, CallsHaveHops
  <2> QED
    BY <2>1, <2>4, <2>5 DEF HopsInv, Planned, Progress
<1>5. ASSUME NEW c \in Callers, Hops!ResolveRead(c)
      PROVE  HopsInv'
  <2>1. /\ call[c] # NoValue /\ UNCHANGED <<hopSlot, revealed>> /\ Hops!ResolveHop(call[c])
        /\ call' = [call EXCEPT ![c] = NoValue]
    BY <1>5 DEF Hops!ResolveRead
  <2>2. payment # NoValue /\ call[c] \in 1 .. Len(payment.hops)
    BY <1>0, <2>1 DEF CallsHaveHops
  <2>3. /\ payment' # NoValue /\ Len(payment'.hops) = Len(payment.hops)
        /\ PaymentTyped(payment)' /\ Planned(payment)' /\ Progress(payment, revealed)'
    BY <2>1, <2>2, ResolveHopStep
  <2>4. HopsTyped'
    BY <1>0, <2>1, <2>3 DEF HopsTyped
  <2>5. CallsHaveHops'
    BY <1>0, <2>1, <2>2, <2>3 DEF HopsTyped, CallsHaveHops
  <2> QED
    BY <2>3, <2>4, <2>5 DEF HopsInv
<1>6. ASSUME NEW i \in 1 .. MaxHops, Hops!RelayHop(i)
      PROVE  HopsInv'
  <2>1. payment # NoValue /\ UNCHANGED <<call, hopSlot, revealed>> /\ Hops!ResolveHop(i)
        /\ i \in DOMAIN payment.hops
    BY <1>6 DEF Hops!RelayHop
  <2>2. i \in 1 .. Len(payment.hops)
    BY <1>0, <2>1 DEF HopsTyped, PaymentTyped, Hops!Payments
  <2>3. /\ payment' # NoValue /\ Len(payment'.hops) = Len(payment.hops)
        /\ PaymentTyped(payment)' /\ Planned(payment)' /\ Progress(payment, revealed)'
    BY <2>1, <2>2, ResolveHopStep
  <2> QED
    BY <1>0, <2>1, <2>3 DEF HopsInv, HopsTyped, CallsHaveHops
<1>7. CASE Hops!Tick
  BY <1>7, HopConstants
     DEF Hops!Tick, HopsInv, HopsTyped, CallsHaveHops, PaymentTyped, Planned, Progress
<1>8. CASE Hops!Restart
  BY <1>8 DEF Hops!Restart, HopsInv, HopsTyped, CallsHaveHops, PaymentTyped, Planned, Progress
<1>9. CASE UNCHANGED hopVars
  BY <1>9 DEF hopVars, HopsInv, HopsTyped, CallsHaveHops, PaymentTyped, Planned, Progress
<1> QED
  BY <1>1, <1>2, <1>3, <1>4, <1>5, <1>6, <1>7, <1>8, <1>9 DEF Hops!Next

LEMMA HopsInit == Hops!Init => HopsInv
<1> SUFFICES ASSUME Hops!Init
             PROVE  HopsInv
  OBVIOUS
<1>1. payment = NoValue /\ hopSlot \in Nat /\ revealed \in BOOLEAN
  BY DEF Hops!Init
<1>2. call \in [Callers -> Nat \cup {NoValue}] /\ \A c \in Callers : call[c] = NoValue
  BY DEF Hops!Init
<1> QED
  BY <1>1, <1>2 DEF HopsInv, HopsTyped, CallsHaveHops

LEMMA HopsInvCovers == HopsInv => Hops!HopsAreCovered
BY SMTT(30) DEF HopsInv, Planned, Progress, Hops!HopsAreCovered

\* A non-empty set of numbers up to n has a smallest one.
LEMMA SmallestNumber ==
    ASSUME NEW n \in Nat, NEW Q \in SUBSET (0 .. n), Q # {}
    PROVE  \E k \in Q : \A j \in Q : j >= k
<1> DEFINE R == 0 .. n
           T == {0 .. k : k \in Q}
<1>1. IsFiniteSet(R)
  BY FS_Interval
<1>2. T \in SUBSET SUBSET R /\ T # {}
  <2>1. \A k \in Q : (0 .. k) \subseteq R
    OBVIOUS
  <2> HIDE DEF R
  <2> QED BY <2>1
<1>3. PICK t \in T : \A u \in T : u \subseteq t => u = t
  <2> HIDE DEF T, R
  <2> QED BY <1>1, <1>2, SmallestSet
<1>4. PICK k \in Q : t = 0 .. k
  BY <1>3
<1>5. ASSUME NEW j \in Q, ~(j >= k)
      PROVE  FALSE
  <2>1. j \in Nat /\ k \in Nat /\ j < k
    BY <1>5
  <2>2. (0 .. j) \subseteq (0 .. k) /\ (0 .. j) \in T
    BY <2>1
  <2>3. (0 .. j) = 0 .. k
    <3> HIDE DEF T
    <3> QED BY <1>3, <1>4, <2>2
  <2>4. k \in 0 .. k /\ k \notin 0 .. j
    BY <2>1
  <2> QED
    BY <2>3, <2>4
<1> QED
  BY <1>5

\* What a hub that hands on an amount keeps of it, up to rounding.
KeepsFee(fee, amount, rate) == 10000 * fee + 9999 >= amount * rate

\* compute_hop_amounts goes backwards: hop i takes what hop i + 1 takes and its fee.
LEMMA FeeType == \A a, r \in Nat : Hops!Fee(a, r) \in Nat /\ KeepsFee(Hops!Fee(a, r), a, r)
<1> SUFFICES ASSUME NEW a \in Nat, NEW r \in Nat
             PROVE  Hops!Fee(a, r) \in Nat /\ KeepsFee(Hops!Fee(a, r), a, r)
  OBVIOUS
<1> DEFINE y == a * r
<1>1. y \in Nat
  OBVIOUS
<1>2. Hops!Fee(a, r) = y \div 10000
  BY DEF Hops!Fee
<1>3. \A f : KeepsFee(f, a, r) <=> 10000 * f + 9999 >= y
  BY DEF KeepsFee
<1> HIDE DEF y
<1>4. y \div 10000 \in Nat /\ 10000 * (y \div 10000) + 9999 >= y
  BY <1>1
<1> QED
  BY <1>2, <1>3, <1>4

LEMMA FeeIsNat ==
    ASSUME NEW a \in Nat, NEW r \in Nat
    PROVE  Hops!Fee(a, r) \in Nat
BY FeeType

LEMMA BackwardsFrom ==
    ASSUME NEW d \in Nat, NEW rates \in Seq(Nat), NEW n \in Nat \ {0}, n = Len(rates)
    PROVE  LET A == Hops!Backwards(d, rates)
           IN  \A k \in 0 .. n - 1 :
                   A[k] = IF k = 0 THEN d ELSE A[k - 1] + Hops!Fee(A[k - 1], rates[n - k])
<1> DEFINE Link(f, k) == IF k = 0 THEN d ELSE f[k - 1] + Hops!Fee(f[k - 1], rates[n - k])
           Upto(f, m) == f = [k \in 0 .. m |-> Link(f, k)]
           A == CHOOSE f : Upto(f, n - 1)
           Q == {m \in 0 .. n - 1 : ~ \E f : Upto(f, m)}
<1>1. Hops!Backwards(d, rates) = A
  BY DEF Hops!Backwards
<1>2. Q = {}
  <2> SUFFICES ASSUME Q # {} PROVE FALSE
    OBVIOUS
  <2>1. n - 1 \in Nat /\ Q \in SUBSET (0 .. n - 1)
    OBVIOUS
  <2>2. PICK m \in Q : \A j \in Q : j >= m
    <3> HIDE DEF Q
    <3> QED BY <2>1, SmallestNumber
  <2>3. CASE m = 0
    <3>1. Upto([k \in 0 .. m |-> d], m)
      BY <2>3
    <3> QED
      BY <2>2, <3>1
  <2>4. CASE m # 0
    <3>1. m - 1 \in 0 .. n - 1 /\ m - 1 \notin Q /\ m \in Nat
      <4>1. m \in 0 .. n - 1
        BY <2>2
      <4> HIDE DEF Q
      <4> QED BY <2>2, <2>4, <4>1
    <3>2. PICK f : Upto(f, m - 1)
      BY <3>1
    <3> DEFINE g == [k \in 0 .. m |-> IF k = m THEN f[m - 1] + Hops!Fee(f[m - 1], rates[n - m])
                                      ELSE f[k]]
    <3>3. ASSUME NEW k \in 0 .. m
          PROVE  g[k] = Link(g, k)
      <4>1. CASE k = m
        BY <2>4, <3>1, <4>1
      <4>2. CASE k # m
        <5>0. k \in 0 .. m - 1
          <6> HIDE DEF Q
          <6> QED BY <3>1, <4>2
        <5>1. k \in 0 .. m - 1 /\ f[k] = Link(f, k) /\ g[k] = f[k]
          <6>1. f = [i \in 0 .. m - 1 |-> Link(f, i)]
            BY <3>2
          <6>2. f[k] = Link(f, k)
            <7> HIDE DEF Link
            <7> QED BY <5>0, <6>1
          <6>3. g[k] = f[k]
            <7> HIDE DEF Q
            <7> QED BY <4>2
          <6> QED
            BY <5>0, <6>2, <6>3
        <5>2. k # 0 => k - 1 \in 0 .. m - 1 /\ k - 1 # m /\ g[k - 1] = f[k - 1]
          BY <3>1, <5>1
        <5> HIDE DEF g
        <5> QED
          BY <5>1, <5>2
      <4> QED
        BY <4>1, <4>2
    <3>4. g = [k \in 0 .. m |-> Link(g, k)]
      <4>1. g = [k \in 0 .. m |-> g[k]]
        OBVIOUS
      <4> HIDE DEF g, Link
      <4> QED
        BY <3>3, <4>1
    <3>5. Upto(g, m)
      <4> HIDE DEF g, Link
      <4> QED BY <3>4
    <3> HIDE DEF g, Upto
    <3> QED
      BY <2>2, <3>5
  <2> QED
    BY <2>3, <2>4
<1>3. \E f : Upto(f, n - 1)
  <2>1. n - 1 \in 0 .. n - 1
    OBVIOUS
  <2> HIDE DEF Upto
  <2> QED BY <1>2, <2>1
<1>4. Upto(A, n - 1)
  <2> HIDE DEF Upto
  <2> QED BY <1>3
<1> HIDE DEF A
<1> QED
  BY <1>1, <1>4

LEMMA HopAmountsPlanned ==
    ASSUME NEW d \in Nat, NEW rates \in Seq(Nat), NEW n \in Nat \ {0}, n = Len(rates)
    PROVE  LET A == Hops!HopAmounts(d, rates)
           IN  /\ A[n] = d /\ \A i \in 1 .. n : A[i] \in Nat
               /\ \A i \in 1 .. n - 1 : A[i] = A[i + 1] + Hops!Fee(A[i + 1], rates[i])
<1> DEFINE B == Hops!Backwards(d, rates)
           A == Hops!HopAmounts(d, rates)
           Q == {k \in 0 .. n - 1 : B[k] \notin Nat}
<1>1. \A k \in 0 .. n - 1 :
          B[k] = IF k = 0 THEN d ELSE B[k - 1] + Hops!Fee(B[k - 1], rates[n - k])
  BY BackwardsFrom
<1>2. A = [i \in 1 .. n |-> B[n - i]]
  BY DEF Hops!HopAmounts
<1> HIDE DEF A, B
<1>3. \A i \in 1 .. n : rates[i] \in Nat
  OBVIOUS
<1>4. Q = {}
  <2> SUFFICES ASSUME Q # {} PROVE FALSE
    OBVIOUS
  <2>1. n - 1 \in Nat /\ Q \in SUBSET (0 .. n - 1)
    OBVIOUS
  <2>2. PICK m \in Q : \A j \in Q : j >= m
    <3> HIDE DEF Q
    <3> QED BY <2>1, SmallestNumber
  <2>3. m \in 0 .. n - 1 /\ B[m] \notin Nat
    BY <2>2
  <2>4. m # 0
    BY <1>1, <2>3
  <2>5. m - 1 \in 0 .. n - 1 /\ m - 1 \notin Q /\ n - m \in 1 .. n
    <3> HIDE DEF Q
    <3> QED BY <2>2, <2>3, <2>4
  <2>6. B[m - 1] \in Nat
    BY <2>5
  <2>7. B[m] = B[m - 1] + Hops!Fee(B[m - 1], rates[n - m])
    BY <1>1, <2>3, <2>4
  <2>8. rates[n - m] \in Nat
    BY <1>3, <2>5
  <2>9. Hops!Fee(B[m - 1], rates[n - m]) \in Nat
    <3> DEFINE a == B[m - 1]
               r == rates[n - m]
    <3>1. a \in Nat /\ r \in Nat
      BY <2>6, <2>8
    <3> HIDE DEF a, r, Q
    <3>2. Hops!Fee(a, r) \in Nat
      BY <3>1, FeeIsNat
    <3> QED
      BY <3>2 DEF a, r
  <2> HIDE DEF Q
  <2> QED
    BY <2>3, <2>6, <2>7, <2>9
<1>5. \A i \in 1 .. n : A[i] \in Nat
  <2> SUFFICES ASSUME NEW i \in 1 .. n PROVE A[i] \in Nat
    OBVIOUS
  <2>1. n - i \in 0 .. n - 1
    OBVIOUS
  <2> QED
    BY <1>2, <1>4, <2>1
<1>6. ASSUME NEW i \in 1 .. n - 1
      PROVE  A[i] = A[i + 1] + Hops!Fee(A[i + 1], rates[i])
  <2>1. /\ n - i \in 0 .. n - 1 /\ n - i # 0 /\ (n - i) - 1 = n - (i + 1) /\ n - (n - i) = i
        /\ i \in 1 .. n /\ i + 1 \in 1 .. n
    OBVIOUS
  <2>2. A[i] = B[n - i] /\ A[i + 1] = B[n - (i + 1)]
    BY <1>2, <2>1
  <2>3. B[n - i] = B[(n - i) - 1] + Hops!Fee(B[(n - i) - 1], rates[n - (n - i)])
    BY <1>1, <2>1
  <2> QED
    BY <2>1, <2>2, <2>3
<1>7. A[n] = d
  <2>1. n \in 1 .. n /\ n - n = 0 /\ 0 \in 0 .. n - 1
    OBVIOUS
  <2> QED
    BY <1>1, <1>2, <2>1
<1> QED
  BY <1>5, <1>6, <1>7 DEF A

LEMMA ComputedFees ==
    ASSUME NEW d \in Nat, NEW rates \in Seq(Nat), rates # <<>>, d <= MaxU64,
           Hops!Computable(d, rates)
    PROVE  Hops!FeesAreKept(d, rates)
<1> DEFINE n == Len(rates)
           A == Hops!HopAmounts(d, rates)
<1>1. n \in Nat \ {0}
  OBVIOUS
<1>2. /\ A[n] = d /\ \A i \in 1 .. n : A[i] \in Nat
      /\ \A i \in 1 .. n - 1 : A[i] = A[i + 1] + Hops!Fee(A[i + 1], rates[i])
  BY <1>1, HopAmountsPlanned
<1>3. \A i \in 1 .. n - 1 : A[i] <= MaxU64
  BY DEF Hops!Computable
<1> HIDE DEF A
<1>4. \A i \in 1 .. n : A[i] <= MaxU64
  <2> SUFFICES ASSUME NEW i \in 1 .. n
               PROVE  A[i] <= MaxU64
    OBVIOUS
  <2>1. i = n \/ i \in 1 .. n - 1
    BY <1>1
  <2> QED
    BY <1>2, <1>3, <2>1
<1>5. ASSUME NEW i \in 1 .. n - 1
      PROVE  /\ A[i] >= A[i + 1]
             /\ KeepsFee(A[i] - A[i + 1], A[i + 1], rates[i])
  <2> DEFINE a == A[i + 1]
             r == rates[i]
             f == Hops!Fee(a, r)
  <2>1. i \in 1 .. n /\ i + 1 \in 1 .. n
    BY <1>1
  <2>2. a \in Nat /\ r \in Nat /\ A[i] = a + f
    BY <1>2, <2>1
  <2>3. f \in Nat /\ KeepsFee(f, a, r)
    <3> HIDE DEF a, r
    <3> QED BY <2>2, FeeType
  <2> HIDE DEF a, f
  <2>4. A[i] >= a /\ A[i] - a = f
    BY <2>2, <2>3
  <2> HIDE DEF r
  <2>5. A[i] >= a /\ KeepsFee(A[i] - a, a, r)
    BY <2>3, <2>4
  <2> QED
    BY <2>5 DEF a, r
<1> QED
  BY <1>2, <1>4, <1>5 DEF Hops!FeesAreKept, A, KeepsFee

-----------------------------------------------------------------------------
(* The spending limits.                                                      *)

LEMMA LimitConstants ==
    /\ PaymentAmounts \subseteq Nat \ {0} /\ MaxBatch \in Nat
    /\ Threshold \in Nat /\ PerChannel \in Nat /\ WindowSlots \in Nat
<1>1. Limits!ComplianceAssumption
  BY PartsAssumption
<1> QED
  BY <1>1 DEF Limits!ComplianceAssumption

LimitsTyped ==
    /\ state \in [cumulative : Nat, hold : BOOLEAN, window : SUBSET spent]
    /\ IsFiniteSet(spent)
    /\ \A p \in spent :
          p.number \in 1 .. Cardinality(spent) /\ p.slot \in 1 .. limitSlot /\ p.amount \in Nat
    /\ limitSlot \in Nat \ {0} /\ applied \in Nat /\ clears \in Nat

\* What a payment recorded now will look at has not been dropped.
WindowKept == \A p \in spent : p.slot + WindowSlots >= limitSlot => p \in state.window

\* One payment may pass the threshold while nothing is held and makes it held;
\* lifting the hold allows one more.
Credit == IF state.hold THEN clears + 1 ELSE clears
Allowed(n) == Threshold + n * PerChannel

InWindow(from) == {p \in spent : p.slot >= from /\ p.slot <= from + WindowSlots}

EngineWithin == applied <= state.cumulative /\ applied < Allowed(Credit)
OthersWithin == \A from \in Nat : Limits!AmountOf(InWindow(from)) < Allowed(Credit)

LimitsInv == LimitsTyped /\ WindowKept /\ EngineWithin /\ OthersWithin

\* What a set of payments amounts to.
LEMMA AmountSum ==
    ASSUME NEW S, NEW F, IsFiniteSet(S), \A p \in S : F[p] = p.amount
    PROVE  Limits!AmountOf(S) = SumFunctionOnSet(F, S)
<1> DEFINE G == [p \in S |-> p.amount]
<1>1. Limits!AmountOf(S) = Limits!SumFunctionOnSet(G, S)
  BY DEF Limits!AmountOf
<1>2. Limits!SumFunctionOnSet(G, S) = SumFunctionOnSet(G, S)
  BY DEF Limits!SumFunctionOnSet, Limits!FoldFunctionOnSet, Limits!MapThenFoldSet,
         SumFunctionOnSet, FoldFunctionOnSet, MapThenFoldSet
<1>3. \A p \in S : G[p] = F[p]
  OBVIOUS
<1>4. SumFunctionOnSet(G, S) = SumFunctionOnSet(F, S)
  <2> HIDE DEF G
  <2> QED BY <1>3, SumSame
<1> QED
  BY <1>1, <1>2, <1>4

LEMMA PaymentsType ==
    ASSUME NEW S, IsFiniteSet(S), \A p \in S : p.amount \in Nat
    PROVE  Limits!AmountOf(S) \in Nat
<1> DEFINE F == [p \in S |-> p.amount]
<1>1. \A p \in S : F[p] = p.amount /\ F[p] \in Nat
  OBVIOUS
<1> HIDE DEF F
<1> QED
  BY <1>1, AmountSum, SumType


\* More payments amount to no less.
LEMMA AmountGrows ==
    ASSUME NEW T, IsFiniteSet(T), \A p \in T : p.amount \in Nat, NEW S \in SUBSET T
    PROVE  Limits!AmountOf(S) <= Limits!AmountOf(T)
<1> DEFINE F == [p \in T |-> p.amount]
<1>1. \A p \in T : F[p] = p.amount /\ F[p] \in Nat
  OBVIOUS
<1> HIDE DEF F
<1>2. IsFiniteSet(S) /\ IsFiniteSet(T \ S)
  BY FS_Subset
<1>3. /\ Limits!AmountOf(S) = SumFunctionOnSet(F, S)
      /\ Limits!AmountOf(T) = SumFunctionOnSet(F, T)
  BY <1>1, <1>2, AmountSum
<1>4. SumFunctionOnSet(F, T) = SumFunctionOnSet(F, S) + SumFunctionOnSet(F, T \ S)
  BY <1>1, SumParts
<1>5. SumFunctionOnSet(F, S) \in Nat /\ SumFunctionOnSet(F, T \ S) \in Nat
  BY <1>1, <1>2, SumType
<1> QED
  BY <1>3, <1>4, <1>5

LEMMA AmountAdd ==
    ASSUME NEW S, IsFiniteSet(S), \A p \in S : p.amount \in Nat,
           NEW x, x.amount \in Nat, x \notin S
    PROVE  Limits!AmountOf(S \cup {x}) = Limits!AmountOf(S) + x.amount
<1> DEFINE T == S \cup {x}
           F == [p \in T |-> p.amount]
<1>1. IsFiniteSet(T) /\ x \in T /\ T \ {x} = S /\ S \subseteq T
  BY FS_AddElement
<1>2. \A p \in T : F[p] = p.amount /\ F[p] \in Nat
  OBVIOUS
<1> HIDE DEF F, T
<1>3. /\ Limits!AmountOf(S) = SumFunctionOnSet(F, S)
      /\ Limits!AmountOf(T) = SumFunctionOnSet(F, T)
  BY <1>1, <1>2, AmountSum
<1>4. SumFunctionOnSet(F, T) = F[x] + SumFunctionOnSet(F, S)
  BY <1>1, <1>2, SumTakeOut
<1>5. SumFunctionOnSet(F, S) \in Nat
  BY <1>1, <1>2, SumType
<1> QED
  BY <1>1, <1>2, <1>3, <1>4, <1>5 DEF T

LEMMA Room ==
    ASSUME NEW n \in Nat
    PROVE  /\ Allowed(n) \in Nat /\ Threshold <= Allowed(n)
           /\ Allowed(n + 1) = Allowed(n) + PerChannel
<1>1. Threshold \in Nat /\ PerChannel \in Nat
  BY LimitConstants
<1> DEFINE y == n * PerChannel
           z == (n + 1) * PerChannel
<1>2. y \in Nat /\ z = y + PerChannel
  BY <1>1
<1>3. Allowed(n) = Threshold + y /\ Allowed(n + 1) = Threshold + z
  BY DEF Allowed
<1> HIDE DEF y, z
<1> QED
  BY <1>1, <1>2, <1>3

LEMMA LimitCardinality == \A S : Limits!Cardinality(S) = Cardinality(S)
BY DEF Limits!Cardinality, Cardinality, Limits!IsFiniteSet, IsFiniteSet

\* Nothing recorded is within every limit.
LEMMA FreshLimits ==
    ASSUME Threshold > 0, state' = [cumulative |-> 0, hold |-> FALSE, window |-> {}],
           applied' = 0, spent' = {}, clears' = 0, limitSlot' \in Nat \ {0}
    PROVE  LimitsInv'
<1>1. Allowed(0) \in Nat /\ Threshold <= Allowed(0) /\ Threshold \in Nat
  BY Room, LimitConstants
<1>2. Credit' = 0
  BY DEF Credit
<1>3. 0 < Allowed(0)
  BY <1>1
<1>4. LimitsTyped'
  BY FS_EmptySet DEF LimitsTyped
<1>5. WindowKept' /\ EngineWithin'
  BY <1>2, <1>3 DEF WindowKept, EngineWithin
<1>6. OthersWithin'
  <2> SUFFICES ASSUME NEW from \in Nat
               PROVE  Limits!AmountOf(InWindow(from)') < Allowed(Credit')
    BY DEF OthersWithin
  <2>1. InWindow(from)' = {}
    BY DEF InWindow
  <2>2. Limits!AmountOf({}) = 0
    <3> DEFINE F == [p \in {} |-> 0]
    <3>1. SumFunctionOnSet(F, {}) = 0
      BY SumEmpty
    <3> HIDE DEF F
    <3> QED BY <3>1, AmountSum, FS_EmptySet
  <2> QED
    BY <1>2, <1>3, <2>1, <2>2
<1> QED
  BY <1>4, <1>5, <1>6 DEF LimitsInv

\* A payment at a slot: the window it is held by has all the payments of every
\* window that it is in.
LEMMA RecordPaymentStep ==
    ASSUME LimitsInv, Threshold > 0, NEW a \in PaymentAmounts, Limits!RecordPayment(a)
    PROVE  LimitsInv'
<1> DEFINE p == Limits!Payment(Cardinality(spent) + 1, limitSlot, a)
           n == Cardinality(spent)
           W == Limits!Window(state, p)
<1>0. LimitsTyped /\ WindowKept /\ EngineWithin /\ OthersWithin
  BY DEF LimitsInv
<1>1. /\ ~state.hold /\ a <= PerChannel
      /\ state' = Limits!Recorded(state, p) /\ spent' = spent \cup {p}
      /\ limitSlot' = limitSlot /\ clears' = clears /\ applied' = applied
  BY LimitCardinality DEF Limits!RecordPayment, Limits!Accepts
<1>2. /\ p.number = n + 1 /\ p.slot = limitSlot /\ p.amount = a
      /\ n \in Nat /\ a \in Nat /\ p \notin spent
      /\ limitSlot \in Nat \ {0} /\ applied \in Nat /\ clears \in Nat
      /\ Threshold \in Nat /\ PerChannel \in Nat /\ WindowSlots \in Nat
  <2>1. p.number = n + 1 /\ p.slot = limitSlot /\ p.amount = a
    BY DEF Limits!Payment
  <2>2. n \in Nat
    BY <1>0, FS_CardinalityType DEF LimitsTyped
  <2>3. a \in Nat /\ Threshold \in Nat /\ PerChannel \in Nat /\ WindowSlots \in Nat
    BY LimitConstants
  <2>4. \A q \in spent : q.number \in 1 .. n
    BY <1>0 DEF LimitsTyped
  <2>5. p \notin spent
    <3> HIDE DEF p, n
    <3> QED BY <2>1, <2>2, <2>4
  <2>6. limitSlot \in Nat \ {0} /\ applied \in Nat /\ clears \in Nat
    BY <1>0 DEF LimitsTyped
  <2> QED
    BY <2>1, <2>2, <2>3, <2>5, <2>6
<1> HIDE DEF p
<1>3. W = {r \in state.window \cup {p} :
               WindowSlots > 0 /\ limitSlot >= WindowSlots => r.slot >= limitSlot - WindowSlots}
  BY <1>2 DEF Limits!Window
<1>4. /\ state'.cumulative = state.cumulative + a /\ state'.window = W
      /\ state'.hold = (Limits!AmountOf(W) >= Threshold)
      /\ state' = [cumulative |-> state'.cumulative, hold |-> state'.hold, window |-> state'.window]
  BY <1>1, <1>2 DEF Limits!Recorded, Limits!EffectiveSpend
<1>5. IsFiniteSet(spent') /\ Cardinality(spent') = n + 1
  BY <1>0, <1>1, <1>2, FS_AddElement DEF LimitsTyped
<1>6. LimitsTyped'
  <2>1. state.cumulative \in Nat /\ state.window \subseteq spent
    BY <1>0 DEF LimitsTyped
  <2>2. W \subseteq spent'
    BY <1>1, <1>3, <2>1
  <2>3. state' \in [cumulative : Nat, hold : BOOLEAN, window : SUBSET spent']
    <3>1. state.cumulative + a \in Nat
      BY <1>2, <2>1
    <3>2. (Limits!AmountOf(W) >= Threshold) \in BOOLEAN
      OBVIOUS
    <3> HIDE DEF W
    <3> QED BY <1>4, <2>2, <3>1, <3>2
  <2>4. ASSUME NEW q \in spent'
        PROVE  q.number \in 1 .. (n + 1) /\ q.slot \in 1 .. limitSlot /\ q.amount \in Nat
    <3>1. CASE q = p
      BY <1>2, <3>1
    <3>2. CASE q # p
      <4>1. q \in spent /\ q.number \in 1 .. n /\ q.slot \in 1 .. limitSlot /\ q.amount \in Nat
        BY <1>0, <1>1, <2>4, <3>2 DEF LimitsTyped
      <4> HIDE DEF n
      <4> QED BY <1>2, <4>1
    <3> QED BY <3>1, <3>2
  <2> HIDE DEF n, W
  <2> QED
    BY <1>1, <1>2, <1>5, <2>3, <2>4 DEF LimitsTyped
<1>7. \A q \in spent' : q.slot \in 1 .. limitSlot /\ q.amount \in Nat
  BY <1>1, <1>6 DEF LimitsTyped
<1>8. \A q \in spent' : q.slot + WindowSlots >= limitSlot => q \in W
  <2> SUFFICES ASSUME NEW q \in spent', q.slot + WindowSlots >= limitSlot
               PROVE  q \in W
    OBVIOUS
  <2>1. q \in state.window \cup {p}
    BY <1>0, <1>1 DEF WindowKept
  <2>2. q.slot \in Nat
    BY <1>7
  <2>3. q.slot >= limitSlot - WindowSlots
    BY <1>2, <2>2
  <2> QED
    BY <1>3, <2>1, <2>3
<1>9. WindowKept'
  BY <1>1, <1>4, <1>8 DEF WindowKept
<1>10. /\ Allowed(clears) \in Nat /\ Allowed(clears + 1) = Allowed(clears) + PerChannel
       /\ Threshold <= Allowed(clears)
  BY <1>2, Room
<1>11. Credit = clears /\ Credit' = IF state'.hold THEN clears + 1 ELSE clears
  BY <1>0, <1>1, <1>4 DEF Credit
<1>12. Allowed(clears) <= Allowed(Credit') /\ Allowed(Credit') \in Nat
  <2>1. Allowed(Credit') = Allowed(clears) \/ Allowed(Credit') = Allowed(clears + 1)
    BY <1>11
  <2> QED
    BY <1>2, <1>10, <2>1
<1>14. EngineWithin'
  <2>1. applied <= state.cumulative /\ state.cumulative \in Nat /\ applied < Allowed(clears)
    BY <1>0, <1>11 DEF EngineWithin, LimitsTyped
  <2>2. applied <= state'.cumulative
    BY <1>2, <1>4, <2>1
  <2>3. applied < Allowed(Credit')
    BY <1>2, <1>10, <1>12, <2>1
  <2> QED
    BY <1>1, <2>2, <2>3 DEF EngineWithin
<1>15. ASSUME NEW from \in Nat
       PROVE  Limits!AmountOf(InWindow(from)') < Allowed(Credit')
  <2> DEFINE S == InWindow(from)
             T == InWindow(from)'
  <2>1. T = {q \in spent' : q.slot >= from /\ q.slot <= from + WindowSlots}
    BY DEF InWindow
  <2>2. S = {q \in spent : q.slot >= from /\ q.slot <= from + WindowSlots}
    BY DEF InWindow
  <2>3. IsFiniteSet(S) /\ S \subseteq spent /\ \A q \in S : q.amount \in Nat
    <3>1. S \subseteq spent /\ IsFiniteSet(spent)
      BY <1>0, <2>2 DEF LimitsTyped
    <3>2. \A q \in S : q.amount \in Nat
      BY <1>1, <1>7, <3>1
    <3> HIDE DEF S
    <3> QED BY <3>1, <3>2, FS_Subset
  <2>4. Limits!AmountOf(S) \in Nat /\ Limits!AmountOf(S) < Allowed(clears)
    <3>1. Limits!AmountOf(S) < Allowed(clears)
      BY <1>0, <1>11 DEF OthersWithin
    <3> HIDE DEF S
    <3> QED BY <2>3, <3>1, PaymentsType
  <2> HIDE DEF S, T
  <2>5. T = S => Limits!AmountOf(T) < Allowed(Credit')
    BY <1>10, <1>12, <2>4
  <2>6. T # S => T = S \cup {p} /\ p.slot >= from /\ p.slot <= from + WindowSlots
    BY <1>1, <2>1, <2>2
  <2>7. T # S => Limits!AmountOf(T) = Limits!AmountOf(S) + a
    BY <1>2, <2>3, <2>6, AmountAdd
  <2>8. T # S /\ state'.hold => Limits!AmountOf(T) < Allowed(Credit')
    BY <1>1, <1>2, <1>10, <1>11, <2>4, <2>7
  <2>9. ASSUME T # S, ~state'.hold
        PROVE  Limits!AmountOf(T) < Allowed(Credit')
    <3>1. T \subseteq W
      <4>1. \A q \in T : q \in spent' /\ q.slot \in Nat /\ q.slot >= from
        BY <1>7, <2>1
      <4>2. limitSlot <= from + WindowSlots
        BY <1>2, <2>6, <2>9
      <4>3. \A q \in T : q.slot + WindowSlots >= limitSlot
        BY <1>2, <4>1, <4>2
      <4> HIDE DEF W
      <4> QED BY <1>8, <4>1, <4>3
    <3>2. IsFiniteSet(W) /\ \A q \in W : q.amount \in Nat
      <4>1. W \subseteq spent'
        BY <1>4, <1>6 DEF LimitsTyped
      <4> HIDE DEF W
      <4> QED BY <1>5, <1>7, <4>1, FS_Subset
    <3> HIDE DEF W
    <3>3. Limits!AmountOf(T) <= Limits!AmountOf(W) /\ Limits!AmountOf(W) \in Nat
      BY <3>1, <3>2, AmountGrows, PaymentsType
    <3>4. Limits!AmountOf(W) < Threshold
      <4>1. ~(Limits!AmountOf(W) >= Threshold)
        BY <1>4, <2>9
      <4> QED BY <1>2, <3>3, <4>1
    <3>5. Limits!AmountOf(T) \in Nat
      BY <1>2, <2>4, <2>7, <2>9
    <3> QED
      BY <1>2, <1>10, <1>12, <3>3, <3>4, <3>5
  <2> QED
    BY <2>5, <2>8, <2>9 DEF T
<1>16. OthersWithin'
  BY <1>1, <1>15 DEF OthersWithin
<1> QED
  BY <1>6, <1>9, <1>14, <1>16 DEF LimitsInv

\* What the payments of a batch that have been recorded so far amount to.
BatchWithin(r) ==
    /\ r.state \in [cumulative : Nat, hold : BOOLEAN, window : {state.window}]
    /\ r.total \in Nat /\ r.ok \in BOOLEAN
    /\ r = [state |-> r.state, total |-> r.total, ok |-> r.ok]
    /\ applied + r.total <= r.state.cumulative
    /\ state.hold => r.state.hold
    /\ applied + r.total < Allowed(IF r.state.hold THEN clears + 1 ELSE clears)

LEMMA RecordNextStep ==
    ASSUME LimitsInv, Threshold > 0, NEW r, BatchWithin(r), NEW a \in PaymentAmounts
    PROVE  BatchWithin(Limits!RecordNext(r, a))
<1> DEFINE q == Limits!RecordNext(r, a)
           p == Limits!Payment(0, 0, a)
           c == r.state.cumulative
<1>0. /\ c \in Nat /\ r.total \in Nat /\ applied \in Nat /\ clears \in Nat /\ a \in Nat
      /\ Threshold \in Nat /\ PerChannel \in Nat
  BY LimitConstants DEF BatchWithin, LimitsInv, LimitsTyped
<1>1. CASE r.ok /\ Limits!Accepts(r.state, a)
  <2>1. q = [state |-> Limits!Recorded(r.state, p), total |-> r.total + a, ok |-> TRUE]
    BY <1>1 DEF Limits!RecordNext
  <2>2. p.slot = 0 /\ p.amount = a
    BY DEF Limits!Payment
  <2>3. Limits!Recorded(r.state, p) =
            [cumulative |-> c + a, hold |-> c + a >= Threshold, window |-> state.window]
    <3> HIDE DEF p
    <3>1. r.state.window = state.window
      BY DEF BatchWithin
    <3> QED
      BY <2>2, <3>1 DEF Limits!Recorded, Limits!EffectiveSpend, Limits!Window
  <2>4. ~r.state.hold /\ a <= PerChannel
    BY <1>1 DEF Limits!Accepts
  <2>5. applied + r.total < Allowed(clears) /\ applied + r.total <= c /\ ~state.hold
    BY <2>4 DEF BatchWithin
  <2>6. /\ Allowed(clears) \in Nat /\ Allowed(clears + 1) = Allowed(clears) + PerChannel
        /\ Threshold <= Allowed(clears)
    BY <1>0, Room
  <2>7. applied + (r.total + a) <= c + a
    BY <1>0, <2>5
  <2>8. c + a >= Threshold => applied + (r.total + a) < Allowed(clears + 1)
    BY <1>0, <2>4, <2>5, <2>6
  <2>9. ~(c + a >= Threshold) => applied + (r.total + a) < Allowed(clears)
    BY <1>0, <2>6, <2>7
  <2>10. /\ q.state = [cumulative |-> c + a, hold |-> c + a >= Threshold, window |-> state.window]
         /\ q.total = r.total + a /\ q.ok = TRUE
         /\ q = [state |-> q.state, total |-> q.total, ok |-> q.ok]
    BY <2>1, <2>3
  <2>11. c + a \in Nat /\ r.total + a \in Nat /\ (c + a >= Threshold) \in BOOLEAN
    BY <1>0
  <2> HIDE DEF q, c
  <2>12. q.state \in [cumulative : Nat, hold : BOOLEAN, window : {state.window}]
    BY <2>10, <2>11
  <2>13. q.state.cumulative = c + a /\ (q.state.hold <=> c + a >= Threshold)
    <3>1. q.state.cumulative = c + a
      BY <2>10
    <3>2. q.state.hold = (c + a >= Threshold)
      BY <2>10
    <3> QED
      BY <3>1, <3>2
  <2>14. applied + q.total < Allowed(IF q.state.hold THEN clears + 1 ELSE clears)
    <3>1. CASE q.state.hold
      BY <2>8, <2>10, <2>13, <3>1
    <3>2. CASE ~q.state.hold
      BY <2>9, <2>10, <2>13, <3>2
    <3> QED BY <3>1, <3>2
  <2>15. BatchWithin(q)
    BY <2>5, <2>7, <2>10, <2>11, <2>12, <2>13, <2>14 DEF BatchWithin
  <2> QED
    BY <2>15 DEF q
<1>2. CASE ~(r.ok /\ Limits!Accepts(r.state, a))
  <2>1. q = [r EXCEPT !.ok = FALSE]
    BY <1>2 DEF Limits!RecordNext
  <2>2. r = [state |-> r.state, total |-> r.total, ok |-> r.ok]
    BY DEF BatchWithin
  <2>3. /\ q.state = r.state /\ q.total = r.total /\ q.ok = FALSE
        /\ q = [state |-> q.state, total |-> q.total, ok |-> q.ok]
    BY <2>1, <2>2
  <2> HIDE DEF q
  <2>4. BatchWithin(q)
    BY <2>3 DEF BatchWithin
  <2> QED
    BY <2>4 DEF q
<1> QED
  BY <1>1, <1>2

\* The recursion over a batch is defined for batches of every length.
LEMMA RecordAllFrom ==
    ASSUME NEW b, Len(b) \in Nat
    PROVE  \E f : /\ Limits!RecordAll(b) = f[Len(b)]
                  /\ f[0] = [state |-> state, total |-> 0, ok |-> TRUE]
                  /\ \A k \in 1 .. Len(b) : f[k] = Limits!RecordNext(f[k - 1], b[k])
<1> DEFINE n == Len(b)
           start == [state |-> state, total |-> 0, ok |-> TRUE]
           Link(f, k) == IF k = 0 THEN start ELSE Limits!RecordNext(f[k - 1], b[k])
           Upto(f, m) == f = [k \in 0 .. m |-> Link(f, k)]
           A == CHOOSE f : Upto(f, n)
           Q == {m \in 0 .. n : ~ \E f : Upto(f, m)}
<1>0. n \in Nat
  OBVIOUS
<1>1. Limits!RecordAll(b) = A[n]
  BY DEF Limits!RecordAll
<1> HIDE DEF n
<1>2. Q = {}
  <2> SUFFICES ASSUME Q # {} PROVE FALSE
    OBVIOUS
  <2>1. Q \in SUBSET (0 .. n)
    OBVIOUS
  <2>2. PICK m \in Q : \A j \in Q : j >= m
    <3> HIDE DEF Q
    <3> QED BY <1>0, <2>1, SmallestNumber
  <2>3. CASE m = 0
    <3>1. Upto([k \in 0 .. m |-> start], m)
      BY <2>3
    <3> QED
      BY <2>2, <3>1
  <2>4. CASE m # 0
    <3>1. m - 1 \in 0 .. n /\ m - 1 \notin Q /\ m \in Nat
      <4>1. m \in 0 .. n
        BY <2>2
      <4> HIDE DEF Q
      <4> QED BY <1>0, <2>2, <2>4, <4>1
    <3>2. PICK f : Upto(f, m - 1)
      BY <3>1
    <3> DEFINE g == [k \in 0 .. m |-> IF k = m THEN Limits!RecordNext(f[m - 1], b[m]) ELSE f[k]]
    <3>3. ASSUME NEW k \in 0 .. m
          PROVE  g[k] = Link(g, k)
      <4>1. CASE k = m
        BY <2>4, <3>1, <4>1
      <4>2. CASE k # m
        <5>1. k \in 0 .. m - 1
          <6> HIDE DEF Q
          <6> QED BY <3>1, <4>2
        <5>2. f[k] = Link(f, k)
          <6>1. f = [i \in 0 .. m - 1 |-> Link(f, i)]
            BY <3>2
          <6> HIDE DEF Link
          <6> QED BY <5>1, <6>1
        <5>3. g[k] = f[k]
          <6> HIDE DEF Q
          <6> QED BY <4>2
        <5>4. k # 0 => k - 1 \in 0 .. m /\ k - 1 # m /\ g[k - 1] = f[k - 1]
          BY <3>1, <5>1
        <5> HIDE DEF g
        <5> QED
          BY <5>2, <5>3, <5>4
      <4> QED
        BY <4>1, <4>2
    <3>4. g = [k \in 0 .. m |-> Link(g, k)]
      <4>1. g = [k \in 0 .. m |-> g[k]]
        OBVIOUS
      <4> HIDE DEF g, Link
      <4> QED
        BY <3>3, <4>1
    <3>5. Upto(g, m)
      <4> HIDE DEF g, Link
      <4> QED BY <3>4
    <3> HIDE DEF g, Upto
    <3> QED
      BY <2>2, <3>5
  <2> QED
    BY <2>3, <2>4
<1>3. \E f : Upto(f, n)
  <2>1. n \in 0 .. n
    BY <1>0
  <2> HIDE DEF Upto
  <2> QED BY <1>2, <2>1
<1>4. Upto(A, n)
  <2> HIDE DEF Upto
  <2> QED BY <1>3
<1> HIDE DEF A
<1>5. \A k \in 0 .. n : A[k] = Link(A, k)
  <2>1. A = [k \in 0 .. n |-> Link(A, k)]
    BY <1>4
  <2> HIDE DEF Link
  <2> QED BY <2>1
<1>6. A[0] = start /\ \A k \in 1 .. n : A[k] = Limits!RecordNext(A[k - 1], b[k])
  <2>1. 0 \in 0 .. n /\ \A k \in 1 .. n : k \in 0 .. n /\ k # 0
    BY <1>0
  <2> HIDE DEF start
  <2>2. A[0] = start
    BY <1>5, <2>1
  <2>3. ASSUME NEW k \in 1 .. n
        PROVE  A[k] = Limits!RecordNext(A[k - 1], b[k])
    BY <1>5, <2>1
  <2> QED
    BY <2>2, <2>3
<1> QED
  BY <1>1, <1>6 DEF n

LEMMA ApplyBatchStep ==
    ASSUME LimitsInv, Threshold > 0, NEW m \in 0 .. MaxBatch, NEW b \in [1 .. m -> PaymentAmounts],
           Limits!ApplyLeafUpdateBatch(b)
    PROVE  LimitsInv'
<1> DEFINE result == Limits!RecordAll(b)
           c == state.cumulative
<1>0. /\ c \in Nat /\ applied \in Nat /\ clears \in Nat /\ PerChannel \in Nat
      /\ state \in [cumulative : Nat, hold : BOOLEAN, window : SUBSET spent]
  BY LimitConstants DEF LimitsInv, LimitsTyped
<1>1. m \in Nat /\ m = Len(b)
  BY LengthIs, LimitConstants
<1>2. PICK f : /\ result = f[m] /\ f[0] = [state |-> state, total |-> 0, ok |-> TRUE]
               /\ \A k \in 1 .. m : f[k] = Limits!RecordNext(f[k - 1], b[k])
  <2>1. Len(b) = m /\ Len(b) \in Nat
    BY <1>1
  <2>2. \E f : /\ Limits!RecordAll(b) = f[Len(b)]
               /\ f[0] = [state |-> state, total |-> 0, ok |-> TRUE]
               /\ \A k \in 1 .. Len(b) : f[k] = Limits!RecordNext(f[k - 1], b[k])
    BY <2>1, RecordAllFrom
  <2> QED
    BY <2>1, <2>2
<1> HIDE DEF result
<1>3. BatchWithin(f[0])
  <2>1. /\ f[0].state = state /\ f[0].total = 0 /\ f[0].ok = TRUE
        /\ f[0] = [state |-> f[0].state, total |-> f[0].total, ok |-> f[0].ok]
    BY <1>2
  <2>2. state \in [cumulative : Nat, hold : BOOLEAN, window : {state.window}]
    BY <1>0
  <2>3. applied <= c /\ applied < Allowed(IF state.hold THEN clears + 1 ELSE clears)
    BY DEF LimitsInv, EngineWithin, Credit
  <2>4. applied + 0 = applied /\ 0 \in Nat /\ TRUE \in BOOLEAN
    BY <1>0
  <2> DEFINE first == f[0]
  <2> HIDE DEF first
  <2>5. /\ first.state = state /\ first.total = 0 /\ first.ok = TRUE
        /\ first = [state |-> first.state, total |-> first.total, ok |-> first.ok]
    BY <2>1 DEF first
  <2>6. applied + first.total = applied /\ first.total \in Nat /\ first.ok \in BOOLEAN
    BY <2>4, <2>5
  <2>7. applied + first.total <= first.state.cumulative
    BY <2>3, <2>5, <2>6
  <2>8. applied + first.total < Allowed(IF first.state.hold THEN clears + 1 ELSE clears)
    BY <2>3, <2>5, <2>6
  <2>9. BatchWithin(first)
    BY <2>2, <2>5, <2>6, <2>7, <2>8 DEF BatchWithin
  <2> QED
    BY <2>9 DEF first
<1>4. BatchWithin(result)
  <2> DEFINE Q == {k \in 0 .. m : ~BatchWithin(f[k])}
  <2>1. SUFFICES ASSUME Q # {} PROVE FALSE
    <3>1. m \in 0 .. m
      BY <1>1
    <3> QED BY <1>2, <3>1
  <2>2. Q \in SUBSET (0 .. m)
    OBVIOUS
  <2>3. PICK k \in Q : \A j \in Q : j >= k
    <3> HIDE DEF Q
    <3> QED BY <1>1, <2>1, <2>2, SmallestNumber
  <2>4. k # 0 /\ k \in 0 .. m
    BY <1>3, <2>3
  <2>5. k \in 1 .. m /\ k - 1 \in 0 .. m /\ ~(k - 1 >= k)
    BY <1>1, <2>4
  <2>6. BatchWithin(f[k - 1])
    BY <2>3, <2>5
  <2>7. b[k] \in PaymentAmounts /\ f[k] = Limits!RecordNext(f[k - 1], b[k])
    BY <1>2, <2>5
  <2>8. BatchWithin(f[k])
    BY <2>6, <2>7, RecordNextStep
  <2> QED
    BY <2>3, <2>8
<1>5. /\ state' = result.state
      /\ applied' = applied + result.total \/ applied' = applied
      /\ spent' = spent /\ clears' = clears /\ limitSlot' = limitSlot
  BY DEF Limits!ApplyLeafUpdateBatch, result
<1>6. /\ state' \in [cumulative : Nat, hold : BOOLEAN, window : {state.window}]
      /\ result.total \in Nat /\ applied + result.total <= state'.cumulative
      /\ state.hold => state'.hold
      /\ applied + result.total < Allowed(Credit')
  BY <1>4, <1>5 DEF BatchWithin, Credit
<1>7. LimitsTyped'
  <2>1. applied' \in Nat
    BY <1>0, <1>5, <1>6
  <2>2. state' \in [cumulative : Nat, hold : BOOLEAN, window : SUBSET spent']
    BY <1>0, <1>5, <1>6
  <2>3. LimitsTyped
    BY DEF LimitsInv
  <2> QED
    BY <1>5, <2>1, <2>2, <2>3 DEF LimitsTyped
<1>8. WindowKept'
  BY <1>5, <1>6 DEF LimitsInv, WindowKept
<1>9. Credit' \in {clears, clears + 1} /\ Credit \in {clears, clears + 1} /\ Credit <= Credit'
  BY <1>0, <1>5, <1>6 DEF Credit
<1>10. Allowed(Credit) <= Allowed(Credit') /\ Allowed(Credit) \in Nat /\ Allowed(Credit') \in Nat
  <2>1. Allowed(clears) \in Nat /\ Allowed(clears + 1) = Allowed(clears) + PerChannel
    BY <1>0, Room
  <2>2. Allowed(clears + 1) \in Nat /\ Allowed(clears) <= Allowed(clears + 1)
    BY <1>0, <2>1
  <2>3. CASE Credit' = Credit
    <3>1. Allowed(Credit') = Allowed(Credit)
      BY <2>3
    <3>2. Allowed(Credit) = Allowed(clears) \/ Allowed(Credit) = Allowed(clears + 1)
      BY <1>9
    <3> QED BY <2>1, <2>2, <3>1, <3>2
  <2>4. CASE Credit' # Credit
    <3>1. Credit = clears /\ Credit' = clears + 1
      BY <1>0, <1>9, <2>4
    <3> QED BY <2>1, <2>2, <3>1
  <2> QED BY <2>3, <2>4
<1>11. EngineWithin'
  <2>1. applied' <= applied + result.total
    BY <1>0, <1>5, <1>6
  <2>2. applied' \in Nat /\ state'.cumulative \in Nat
    BY <1>0, <1>5, <1>6
  <2>3. applied' <= state'.cumulative /\ applied' < Allowed(Credit')
    BY <1>0, <1>6, <1>10, <2>1, <2>2
  <2> QED
    BY <2>3 DEF EngineWithin
<1>12. OthersWithin'
  <2> SUFFICES ASSUME NEW from \in Nat
               PROVE  Limits!AmountOf(InWindow(from)') < Allowed(Credit')
    BY DEF OthersWithin
  <2>1. InWindow(from)' = InWindow(from)
    BY <1>5 DEF InWindow
  <2>2. IsFiniteSet(InWindow(from)) /\ \A p \in InWindow(from) : p.amount \in Nat
    BY FS_Subset DEF LimitsInv, LimitsTyped, InWindow
  <2>3. Limits!AmountOf(InWindow(from)) \in Nat
    BY <2>2, PaymentsType
  <2>4. Limits!AmountOf(InWindow(from)) < Allowed(Credit)
    BY DEF LimitsInv, OthersWithin
  <2> QED
    BY <1>10, <2>1, <2>3, <2>4
<1> QED
  BY <1>7, <1>8, <1>11, <1>12 DEF LimitsInv

LEMMA LimitsStep == Threshold > 0 /\ LimitsInv /\ [Limits!Next]_complianceVars => LimitsInv'
<1> SUFFICES ASSUME Threshold > 0, LimitsInv, [Limits!Next]_complianceVars
             PROVE  LimitsInv'
  OBVIOUS
<1>0. LimitsTyped /\ WindowKept /\ EngineWithin /\ OthersWithin
  BY DEF LimitsInv
<1>1. ASSUME NEW a \in PaymentAmounts, Limits!RecordPayment(a)
      PROVE  LimitsInv'
  BY <1>1, RecordPaymentStep
<1>2. CASE Limits!ClearHold
  <2>1. /\ state.hold /\ state' = [state EXCEPT !.hold = FALSE] /\ clears' = clears + 1
        /\ applied' = applied /\ spent' = spent /\ limitSlot' = limitSlot
    BY <1>2 DEF Limits!ClearHold, Limits!auditVars
  <2>2. /\ state'.cumulative = state.cumulative /\ state'.window = state.window /\ ~state'.hold
        /\ state' \in [cumulative : Nat, hold : BOOLEAN, window : SUBSET spent']
        /\ clears \in Nat
    BY <1>0, <2>1 DEF LimitsTyped
  <2>3. Credit' = Credit
    BY <2>1, <2>2 DEF Credit
  <2>4. LimitsTyped' /\ WindowKept'
    BY <1>0, <2>1, <2>2 DEF LimitsTyped, WindowKept
  <2>5. EngineWithin'
    BY <1>0, <2>1, <2>2, <2>3 DEF EngineWithin
  <2>6. OthersWithin'
    BY <1>0, <2>1, <2>3 DEF OthersWithin, InWindow
  <2> QED
    BY <2>4, <2>5, <2>6 DEF LimitsInv
<1>3. CASE Limits!InitChannelCompliance
  <2>1. /\ state' = [cumulative |-> 0, hold |-> FALSE, window |-> {}]
        /\ applied' = 0 /\ spent' = {} /\ clears' = 0 /\ limitSlot' = limitSlot
    BY <1>3 DEF Limits!InitChannelCompliance
  <2> QED
    BY <1>0, <2>1, FreshLimits DEF LimitsTyped
<1>4. ASSUME NEW b \in Limits!BoundedSeq(PaymentAmounts, MaxBatch), Limits!ApplyLeafUpdateBatch(b)
      PROVE  LimitsInv'
  <2>1. PICK m \in 0 .. MaxBatch : b \in [1 .. m -> PaymentAmounts]
    BY <1>4 DEF Limits!BoundedSeq, Limits!SeqOf
  <2> QED
    BY <1>4, <2>1, ApplyBatchStep
<1>5. CASE Limits!RecordAudit \/ Limits!CrashInAudit \/ UNCHANGED complianceVars
  <2>1. UNCHANGED <<state, applied, spent, clears, limitSlot>>
    BY <1>5 DEF Limits!RecordAudit, Limits!CrashInAudit, Limits!limitVars, complianceVars
  <2> QED
    BY <1>0, <2>1
    DEF LimitsInv, LimitsTyped, WindowKept, EngineWithin, OthersWithin, Credit, InWindow
<1>6. CASE Limits!Tick
  <2>1. UNCHANGED <<state, applied, spent, clears>> /\ limitSlot' = limitSlot + 1
    BY <1>6 DEF Limits!Tick, Limits!limitVars
  <2>2. LimitsTyped'
    BY <1>0, <2>1 DEF LimitsTyped
  <2>3. WindowKept'
    BY <1>0, <2>1, LimitConstants DEF LimitsTyped, WindowKept
  <2>4. EngineWithin' /\ OthersWithin'
    BY <1>0, <2>1 DEF EngineWithin, OthersWithin, Credit, InWindow
  <2> QED
    BY <2>2, <2>3, <2>4 DEF LimitsInv
<1> QED
  BY <1>1, <1>2, <1>3, <1>4, <1>5, <1>6 DEF Limits!Next

LEMMA LimitsInit == Threshold > 0 /\ Limits!Init => LimitsInv
<1> SUFFICES ASSUME Threshold > 0, Limits!Init
             PROVE  LimitsInv
  OBVIOUS
<1>1. /\ state = [cumulative |-> 0, hold |-> FALSE, window |-> {}]
      /\ applied = 0 /\ spent = {} /\ clears = 0 /\ limitSlot = 1
  BY DEF Limits!Init
<1>2. Allowed(0) \in Nat /\ Threshold <= Allowed(0) /\ Threshold \in Nat
  BY Room, LimitConstants
<1>3. Credit = 0 /\ 0 < Allowed(0)
  BY <1>1, <1>2 DEF Credit
<1>4. LimitsTyped /\ WindowKept /\ EngineWithin
  BY <1>1, <1>3, FS_EmptySet DEF LimitsTyped, WindowKept, EngineWithin
<1>5. Limits!AmountOf({}) = 0
  <2> DEFINE F == [p \in {} |-> 0]
  <2>1. SumFunctionOnSet(F, {}) = 0
    BY SumEmpty
  <2> HIDE DEF F
  <2> QED BY <2>1, AmountSum, FS_EmptySet
<1>6. OthersWithin
  <2>1. \A from \in Nat : InWindow(from) = {}
    BY <1>1 DEF InWindow
  <2> QED
    BY <1>3, <1>5, <2>1 DEF OthersWithin
<1> QED
  BY <1>4, <1>6 DEF LimitsInv

LEMMA LimitsInvHolds == LimitsInv => Limits!SpendingIsHeld
<1> SUFFICES ASSUME LimitsInv
             PROVE  Limits!SpendingIsHeld
  OBVIOUS
<1> DEFINE slack == (clears + 1) * PerChannel
<1>1. clears \in Nat /\ applied \in Nat /\ PerChannel \in Nat
  BY LimitConstants DEF LimitsInv, LimitsTyped
<1>2. Credit = clears \/ Credit = clears + 1
  BY DEF Credit
<1>3. Allowed(clears + 1) = Threshold + slack
  BY DEF Allowed
<1> HIDE DEF slack
<1>4. /\ Allowed(clears) \in Nat /\ Allowed(clears + 1) \in Nat
      /\ Allowed(clears + 1) = Allowed(clears) + PerChannel
  BY <1>1, Room
<1>5. Allowed(Credit) <= Threshold + slack /\ Allowed(Credit) \in Nat
  <2>1. Allowed(Credit) = Allowed(clears) \/ Allowed(Credit) = Allowed(clears + 1)
    BY <1>2
  <2> QED
    BY <1>1, <1>3, <1>4, <2>1
<1>6. Threshold + slack \in Nat
  BY <1>3, <1>4
<1>7. applied < Threshold + slack
  BY <1>1, <1>5, <1>6 DEF LimitsInv, EngineWithin
<1>8. ASSUME NEW from \in Nat
      PROVE  Limits!AmountOf(InWindow(from)) < Threshold + slack
  <2>1. IsFiniteSet(InWindow(from)) /\ \A p \in InWindow(from) : p.amount \in Nat
    BY FS_Subset DEF LimitsInv, LimitsTyped, InWindow
  <2>2. Limits!AmountOf(InWindow(from)) \in Nat
    BY <2>1, PaymentsType
  <2>3. Limits!AmountOf(InWindow(from)) < Allowed(Credit)
    BY DEF LimitsInv, OthersWithin
  <2> QED
    BY <1>5, <1>6, <2>2, <2>3
<1>9. \A from \in 1 .. MaxLimitSlot : from \in Nat
  OBVIOUS
<1> QED
  BY <1>7, <1>8, <1>9 DEF Limits!SpendingIsHeld, InWindow, slack

-----------------------------------------------------------------------------
(* More of sums: bounds, renamings of the summands, sequences of them.       *)

LEMMA SumAtMost ==
    ASSUME NEW F, NEW G, NEW S, IsFiniteSet(S),
           \A i \in S : F[i] \in Int /\ G[i] \in Int /\ F[i] <= G[i]
    PROVE  SumFunctionOnSet(F, S) <= SumFunctionOnSet(G, S)
<1> DEFINE Q == {T \in SUBSET S : ~(SumFunctionOnSet(F, T) <= SumFunctionOnSet(G, T))}
<1>1. SUFFICES ASSUME Q # {} PROVE FALSE
  OBVIOUS
<1>2. PICK T \in Q : \A U \in Q : U \subseteq T => U = T
  <2> HIDE DEF Q
  <2>1. Q \in SUBSET SUBSET S
    BY DEF Q
  <2> QED
    BY <1>1, <2>1, SmallestSet
<1>3. T # {}
  BY SumEmpty
<1> DEFINE x == Some(T)
           rest == T \ {x}
<1>4. x \in T /\ rest \in SUBSET S /\ rest \subseteq T /\ rest # T
  BY <1>3, SomeIn
<1>5. SumFunctionOnSet(F, rest) <= SumFunctionOnSet(G, rest)
  BY <1>2, <1>4
<1>6. IsFiniteSet(T) /\ IsFiniteSet(rest)
  BY FS_Subset
<1>7. SumFunctionOnSet(F, rest) \in Int /\ SumFunctionOnSet(G, rest) \in Int
  BY <1>4, <1>6, SumType
<1>8. /\ SumFunctionOnSet(F, T) = F[x] + SumFunctionOnSet(F, rest)
      /\ SumFunctionOnSet(G, T) = G[x] + SumFunctionOnSet(G, rest)
  BY <1>3, <1>6, SumSome
<1>9. F[x] \in Int /\ G[x] \in Int /\ F[x] <= G[x]
  BY <1>4
<1>10. ~(SumFunctionOnSet(F, T) <= SumFunctionOnSet(G, T))
  OBVIOUS
<1> QED
  <2> HIDE DEF x, rest, Q
  <2> QED BY <1>5, <1>7, <1>8, <1>9, <1>10

\* The summands may be renamed.
LEMMA SumImage ==
    ASSUME NEW F, NEW G, NEW h, NEW S, IsFiniteSet(S),
           \A x \in S : G[x] = F[h[x]] /\ F[h[x]] \in Int,
           \A x, y \in S : h[x] = h[y] => x = y
    PROVE  SumFunctionOnSet(G, S) = SumFunctionOnSet(F, {h[x] : x \in S})
<1> DEFINE Im(T) == {h[x] : x \in T}
           Q == {T \in SUBSET S :
                   ~(IsFiniteSet(Im(T)) /\ SumFunctionOnSet(G, T) = SumFunctionOnSet(F, Im(T)))}
<1>1. SUFFICES ASSUME Q # {} PROVE FALSE
  OBVIOUS
<1>2. PICK T \in Q : \A U \in Q : U \subseteq T => U = T
  <2> HIDE DEF Q
  <2>1. Q \in SUBSET SUBSET S
    BY DEF Q
  <2> QED
    BY <1>1, <2>1, SmallestSet
<1>3. T # {}
  <2>1. Im({}) = {}
    OBVIOUS
  <2>2. IsFiniteSet(Im({})) /\ SumFunctionOnSet(G, {}) = SumFunctionOnSet(F, Im({}))
    BY <2>1, SumEmpty, FS_EmptySet
  <2> HIDE DEF Im
  <2> QED BY <2>2
<1> DEFINE x == Some(T)
           rest == T \ {x}
<1>4. x \in T /\ rest \in SUBSET S /\ rest \subseteq T /\ rest # T
  BY <1>3, SomeIn
<1>5. IsFiniteSet(Im(rest)) /\ SumFunctionOnSet(G, rest) = SumFunctionOnSet(F, Im(rest))
  <2> HIDE DEF rest, Im, x
  <2> QED BY <1>2, <1>4
<1>6. IsFiniteSet(T)
  BY FS_Subset
<1>7. Im(T) = Im(rest) \cup {h[x]} /\ Im(T) \ {h[x]} = Im(rest) /\ h[x] \in Im(T)
  <2> HIDE DEF x
  <2> QED BY <1>4
<1>8. IsFiniteSet(Im(T))
  <2> HIDE DEF Im, rest, x
  <2> QED BY <1>5, <1>7, FS_AddElement
<1>9. \A i \in Im(T) : F[i] \in Int
  OBVIOUS
<1>10. SumFunctionOnSet(F, Im(T)) = F[h[x]] + SumFunctionOnSet(F, Im(rest))
  <2> HIDE DEF Im, rest, x
  <2> QED BY <1>7, <1>8, <1>9, SumTakeOut
<1>11. SumFunctionOnSet(G, T) = G[x] + SumFunctionOnSet(G, rest)
  BY <1>3, <1>6, SumSome
<1>12. G[x] = F[h[x]]
  BY <1>4
<1> QED
  <2> HIDE DEF Im, rest, x
  <2> QED BY <1>5, <1>8, <1>10, <1>11, <1>12

\* n times the same summand.
LEMMA SumConstant ==
    ASSUME NEW F, NEW n \in Nat, NEW c \in Nat, \A i \in 1 .. n : F[i] = c
    PROVE  SumFunctionOnSet(F, 1 .. n) = n * c
<1> DEFINE Q == {k \in 0 .. n : SumFunctionOnSet(F, 1 .. k) # k * c}
<1>1. SUFFICES ASSUME Q # {} PROVE FALSE
  <2>1. n \in 0 .. n
    OBVIOUS
  <2> QED BY <2>1
<1>2. PICK k \in Q : \A j \in Q : j >= k
  <2> HIDE DEF Q
  <2>1. Q \in SUBSET (0 .. n)
    BY DEF Q
  <2> QED BY <1>1, <2>1, SmallestNumber
<1>3. k # 0
  <2>1. 1 .. 0 = {} /\ 0 * c = 0
    OBVIOUS
  <2> QED BY <2>1, SumEmpty
<1>4. k \in 1 .. n /\ k - 1 \in 0 .. n /\ k - 1 \notin Q
  BY <1>2, <1>3
<1>5. SumFunctionOnSet(F, 1 .. k - 1) = (k - 1) * c
  BY <1>4
<1> DEFINE K == 1 .. k
<1>6. K \ {k} = 1 .. k - 1 /\ k \in K
  BY <1>4
<1>7. \A i \in K : F[i] \in Int
  BY <1>4
<1>8. SumFunctionOnSet(F, K) = F[k] + SumFunctionOnSet(F, 1 .. k - 1)
  <2>1. IsFiniteSet(K)
    BY <1>4, FS_Interval
  <2> HIDE DEF K
  <2>2. SumFunctionOnSet(F, K) = F[k] + SumFunctionOnSet(F, K \ {k})
    BY <1>6, <1>7, <2>1, SumTakeOut
  <2> QED BY <1>6, <2>2
<1>9. F[k] = c /\ c + (k - 1) * c = k * c
  BY <1>4
<1> QED
  BY <1>5, <1>8, <1>9

\* The places up to p + q are those up to p and, shifted, q more.
UpTo(n) == 1 .. n
Shift(p, q) == [i \in 1 .. q |-> p + i]

LEMMA Places ==
    ASSUME NEW p \in Nat, NEW q \in Nat
    PROVE  /\ IsFiniteSet(UpTo(p + q)) /\ IsFiniteSet(UpTo(p)) /\ IsFiniteSet(UpTo(q))
           /\ UpTo(p) \in SUBSET UpTo(p + q)
           /\ UpTo(p + q) \ UpTo(p) = {Shift(p, q)[i] : i \in UpTo(q)}
           /\ \A i, j \in UpTo(q) : Shift(p, q)[i] = Shift(p, q)[j] => i = j
           /\ \A i \in UpTo(q) : Shift(p, q)[i] = p + i
<1>1. \A i \in 1 .. p + q : i \in 1 .. p \/ (i - p \in 1 .. q /\ p + (i - p) = i)
  OBVIOUS
<1>2. \A i \in 1 .. q : Shift(p, q)[i] = p + i
  BY DEF Shift
<1>3. (1 .. p + q) \ (1 .. p) = {p + i : i \in 1 .. q}
  BY <1>1
<1>4. {p + i : i \in 1 .. q} = {Shift(p, q)[i] : i \in 1 .. q}
  BY <1>2
<1>5. IsFiniteSet(1 .. p + q) /\ IsFiniteSet(1 .. p) /\ IsFiniteSet(1 .. q)
  BY FS_Interval
<1>6. \A i, j \in 1 .. q : p + i = p + j => i = j
  OBVIOUS
<1>7. (1 .. p) \in SUBSET (1 .. p + q)
  OBVIOUS
<1> QED
  BY <1>2, <1>3, <1>4, <1>5, <1>6, <1>7 DEF UpTo

\* Two families of summands side by side.
LEMMA SumJoined ==
    ASSUME NEW F, NEW A, NEW B, NEW h, NEW P, NEW R, NEW W,
           IsFiniteSet(W), IsFiniteSet(R), P \in SUBSET W, W \ P = {h[i] : i \in R},
           \A i, j \in R : h[i] = h[j] => i = j,
           \A i \in P : F[i] = A[i] /\ A[i] \in Int,
           \A i \in R : F[h[i]] = B[i] /\ B[i] \in Int
    PROVE  SumFunctionOnSet(F, W) = SumFunctionOnSet(A, P) + SumFunctionOnSet(B, R)
<1>1. IsFiniteSet(P)
  BY FS_Subset
<1>2. \A i \in W : F[i] \in Int
  OBVIOUS
<1>3. SumFunctionOnSet(B, R) = SumFunctionOnSet(F, {h[i] : i \in R})
  BY SumImage
<1>4. SumFunctionOnSet(A, P) = SumFunctionOnSet(F, P)
  BY <1>1, SumSame
<1>5. SumFunctionOnSet(F, W) = SumFunctionOnSet(F, P) + SumFunctionOnSet(F, W \ P)
  BY <1>2, SumParts
<1> QED
  BY <1>3, <1>4, <1>5

-----------------------------------------------------------------------------
(* The helpers of the library: leaves split off, merged and handed over.     *)

HelperLeaf == [owner : Signers \cup {Nobody}, amount : Nat]
HelperTree == [1 .. TreeSize -> HelperLeaf]
HelperUpdate == [index : 1 .. TreeSize, leaf : HelperLeaf]

LEMMA HelperConstants ==
    /\ Nobody \notin Signers /\ Deposit \in Nat /\ TreeSize \in Nat
    /\ Counts \subseteq Nat /\ TierAmounts \subseteq Nat /\ SplitAmounts \subseteq Nat \ {0}
    /\ IsFiniteSet(1 .. TreeSize)
<1>1. Helpers!LeafHelpersAssumption
  BY PartsAssumption
<1>2. Deposit \in Nat /\ TreeSize \in Nat
  BY <1>1 DEF Helpers!LeafHelpersAssumption
<1>3. IsFiniteSet(1 .. TreeSize)
  BY <1>2, FS_Interval
<1> QED
  BY <1>1, <1>2, <1>3 DEF Helpers!LeafHelpersAssumption

LEMMA HelperSum == \A F, S : Helpers!SumFunctionOnSet(F, S) = SumFunctionOnSet(F, S)
BY DEF Helpers!SumFunctionOnSet, Helpers!FoldFunctionOnSet, Helpers!MapThenFoldSet,
       SumFunctionOnSet, FoldFunctionOnSet, MapThenFoldSet

\* Leaves of one owner that are worth a total.
Amounts(ls) == [i \in 1 .. Len(ls) |-> ls[i].amount]
OfOwner(ls, owner, total) ==
    /\ ls \in Seq(HelperLeaf) /\ \A i \in 1 .. Len(ls) : ls[i].owner = owner
    /\ SumFunctionOnSet(Amounts(ls), 1 .. Len(ls)) = total

LEMMA SameLeaves ==
    ASSUME NEW owner \in Signers, NEW n \in Nat, NEW a \in Nat
    PROVE  OfOwner([i \in 1 .. n |-> Helpers!Standard(owner, a)], owner, n * a)
<1> DEFINE ls == [i \in 1 .. n |-> Helpers!Standard(owner, a)]
<1>1. ls \in Seq(HelperLeaf) /\ Len(ls) = n /\ \A i \in 1 .. n : ls[i].owner = owner /\ ls[i].amount = a
  BY DEF HelperLeaf, Helpers!Standard
<1> HIDE DEF ls
<1>2. \A i \in 1 .. n : Amounts(ls)[i] = a
  BY <1>1 DEF Amounts
<1>3. SumFunctionOnSet(Amounts(ls), 1 .. n) = n * a
  BY <1>2, SumConstant
<1> QED
  BY <1>1, <1>3 DEF OfOwner, ls

LEMMA JoinedLeaves ==
    ASSUME NEW owner, NEW m, NEW n, NEW ls, NEW ms, OfOwner(ls, owner, m), OfOwner(ms, owner, n)
    PROVE  OfOwner(ls \o ms, owner, m + n)
<1> DEFINE js == ls \o ms
           p == Len(ls)
           q == Len(ms)
<1>1. ls \in Seq(HelperLeaf) /\ ms \in Seq(HelperLeaf) /\ p \in Nat /\ q \in Nat
  BY DEF OfOwner
<1>2. /\ js \in Seq(HelperLeaf) /\ Len(js) = p + q
      /\ \A i \in 1 .. p : js[i] = ls[i]
      /\ \A i \in 1 .. q : js[p + i] = ms[i]
  BY <1>1
<1>3. \A i \in 1 .. p + q : i \in 1 .. p \/ (i - p \in 1 .. q /\ p + (i - p) = i)
  BY <1>1
<1> HIDE DEF js, p, q
<1>4. \A i \in 1 .. p + q : js[i].owner = owner
  <2>1. /\ \A i \in 1 .. p : ls[i].owner = owner
        /\ \A i \in 1 .. q : ms[i].owner = owner
    BY DEF OfOwner, p, q
  <2> SUFFICES ASSUME NEW i \in 1 .. p + q PROVE js[i].owner = owner
    OBVIOUS
  <2>2. CASE i \in 1 .. p
    BY <1>2, <2>1, <2>2
  <2>3. CASE i - p \in 1 .. q /\ p + (i - p) = i
    <3>1. js[p + (i - p)] = ms[i - p]
      BY <1>2, <2>3
    <3> QED BY <2>1, <2>3, <3>1
  <2> QED BY <1>3, <2>2, <2>3
<1>5. /\ \A i \in 1 .. p : ls[i].amount \in Int
      /\ \A i \in 1 .. q : ms[i].amount \in Int
  <2>1. \A l \in HelperLeaf : l.amount \in Int
    BY DEF HelperLeaf
  <2>2. /\ \A i \in 1 .. p : ls[i] \in HelperLeaf
        /\ \A i \in 1 .. q : ms[i] \in HelperLeaf
    BY <1>1 DEF p, q
  <2> QED BY <2>1, <2>2
<1>6. /\ \A i \in 1 .. p : Amounts(js)[i] = Amounts(ls)[i] /\ Amounts(ls)[i] \in Int
      /\ \A i \in 1 .. q : Amounts(js)[p + i] = Amounts(ms)[i] /\ Amounts(ms)[i] \in Int
  <2>1. /\ \A i \in 1 .. p : Amounts(ls)[i] = ls[i].amount
        /\ \A i \in 1 .. q : Amounts(ms)[i] = ms[i].amount
        /\ \A i \in 1 .. p + q : Amounts(js)[i] = js[i].amount
    BY <1>2 DEF Amounts, p, q
  <2>2. /\ \A i \in 1 .. p : i \in 1 .. p + q
        /\ \A i \in 1 .. q : p + i \in 1 .. p + q
    BY <1>1
  <2> QED BY <1>2, <1>5, <2>1, <2>2
<1>7. SumFunctionOnSet(Amounts(js), 1 .. p + q)
        = SumFunctionOnSet(Amounts(ls), 1 .. p) + SumFunctionOnSet(Amounts(ms), 1 .. q)
  <2>1. PICK h, P, R, W : h = Shift(p, q) /\ P = UpTo(p) /\ R = UpTo(q) /\ W = UpTo(p + q)
    OBVIOUS
  <2>2. /\ IsFiniteSet(W) /\ IsFiniteSet(R) /\ P \in SUBSET W /\ W \ P = {h[i] : i \in R}
        /\ \A i, j \in R : h[i] = h[j] => i = j
        /\ \A i \in R : h[i] = p + i
    <3>1. /\ IsFiniteSet(UpTo(p + q)) /\ IsFiniteSet(UpTo(q))
          /\ UpTo(p) \in SUBSET UpTo(p + q)
          /\ UpTo(p + q) \ UpTo(p) = {Shift(p, q)[i] : i \in UpTo(q)}
          /\ \A i, j \in UpTo(q) : Shift(p, q)[i] = Shift(p, q)[j] => i = j
          /\ \A i \in UpTo(q) : Shift(p, q)[i] = p + i
      BY <1>1, Places, Zenon
    <3> QED BY <2>1, <3>1, Zenon
  <2>3. /\ \A i \in P : Amounts(js)[i] = Amounts(ls)[i] /\ Amounts(ls)[i] \in Int
        /\ \A i \in R : Amounts(js)[h[i]] = Amounts(ms)[i] /\ Amounts(ms)[i] \in Int
    BY <1>6, <2>1, <2>2 DEF UpTo
  <2>4. SumFunctionOnSet(Amounts(js), W)
          = SumFunctionOnSet(Amounts(ls), P) + SumFunctionOnSet(Amounts(ms), R)
    BY <2>2, <2>3, SumJoined
  <2> QED BY <2>1, <2>4 DEF UpTo
<1>8. SumFunctionOnSet(Amounts(js), 1 .. Len(js)) = m + n
  BY <1>2, <1>7 DEF OfOwner, p, q
<1> QED
  BY <1>2, <1>4, <1>8 DEF OfOwner, js

\* The recursion of FlattenSeq is defined for sequences of every length.
Flattens(f, s, n) == f = [i \in 1 .. n |-> IF i = 1 THEN s[i] ELSE f[i - 1] \o s[i]]

LEMMA FlattenIs ==
    ASSUME NEW n \in Nat \ {0}, NEW s, Len(s) = n
    PROVE  \E f : Flattens(f, s, n) /\ Helpers!FlattenSeq(s) = f[n]
<1> DEFINE Q == {k \in 0 .. n : ~\E f : Flattens(f, s, k)}
<1>1. Q = {}
  <2> SUFFICES ASSUME Q # {} PROVE FALSE
    OBVIOUS
  <2>1. PICK k \in Q : \A j \in Q : j >= k
    <3> HIDE DEF Q
    <3>1. Q \in SUBSET (0 .. n)
      BY DEF Q
    <3> QED BY <2>1, <3>1, SmallestNumber
  <2>2. k \in 0 .. n /\ ~\E f : Flattens(f, s, k)
    OBVIOUS
  <2>3. k # 0
    <3>1. Flattens(<<>>, s, 0)
      BY DEF Flattens
    <3> QED BY <2>2, <3>1
  <2>4. k - 1 \in 0 .. n /\ k - 1 \notin Q
    BY <2>1, <2>2, <2>3
  <2>5. PICK f : Flattens(f, s, k - 1)
    BY <2>4
  <2> DEFINE g == [i \in 1 .. k |-> IF i < k THEN f[i] ELSE IF k = 1 THEN s[k] ELSE f[k - 1] \o s[k]]
             h == [i \in 1 .. k |-> IF i = 1 THEN s[i] ELSE g[i - 1] \o s[i]]
  <2>6. \A i \in 1 .. k : g[i] = h[i]
    <3> SUFFICES ASSUME NEW i \in 1 .. k PROVE g[i] = h[i]
      OBVIOUS
    <3>1. k \in Nat /\ i \in Nat /\ i <= k
      BY <2>2
    <3>2. CASE i = k
      BY <2>2, <3>1, <3>2
    <3>3. CASE i < k
      <4>1. i \in 1 .. k - 1 /\ (i # 1 => i - 1 \in 1 .. k - 1 /\ i - 1 \in 1 .. k /\ i - 1 < k)
        BY <3>1, <3>3
      <4>2. f[i] = IF i = 1 THEN s[i] ELSE f[i - 1] \o s[i]
        BY <2>5, <4>1 DEF Flattens
      <4> QED BY <3>3, <4>1, <4>2
    <3> QED BY <3>1, <3>2, <3>3
  <2>7. g = h
    BY <2>6
  <2>8. Flattens(g, s, k)
    BY <2>7 DEF Flattens
  <2> QED BY <2>2, <2>8
<1>2. \E f : Flattens(f, s, n)
  <2>1. n \in 0 .. n
    OBVIOUS
  <2> QED BY <1>1, <2>1
<1>3. Helpers!FlattenSeq(s) = (CHOOSE f : Flattens(f, s, n))[n]
  BY DEF Helpers!FlattenSeq, Flattens
<1> QED
  BY <1>2, <1>3

\* The leaves of a strategy are its owner's and worth the deposit.
LEMMA TiersAre ==
    ASSUME NEW owner \in Signers, NEW tiers \in Helpers!Strategies
    PROVE  /\ OfOwner(Helpers!TierLeaves(owner, tiers), owner, Helpers!TierTotal(tiers))
           /\ Helpers!TierTotal(tiers) \in Nat
<1> DEFINE n == Len(tiers)
           F == [k \in DOMAIN tiers |-> tiers[k].count * tiers[k].amount]
           s == [k \in DOMAIN tiers |->
                    [i \in 1 .. tiers[k].count |-> Helpers!Standard(owner, tiers[k].amount)]]
<1>1. PICK m \in 0 .. MaxTiers : tiers \in [1 .. m -> [count : Counts, amount : TierAmounts]]
  BY DEF Helpers!Strategies, Helpers!BoundedSeq, Helpers!SeqOf
<1>2. m \in Nat /\ n = m /\ DOMAIN tiers = 1 .. n /\ n \in Nat
  BY <1>1
<1>3. \A k \in 1 .. n : tiers[k].count \in Nat /\ tiers[k].amount \in Nat
  <2>1. \A k \in 1 .. n : tiers[k] \in [count : Counts, amount : TierAmounts]
    BY <1>1, <1>2
  <2> QED BY <2>1, HelperConstants
<1>4. \A k \in 1 .. n : F[k] \in Nat /\ OfOwner(s[k], owner, F[k])
  <2> SUFFICES ASSUME NEW k \in 1 .. n PROVE F[k] \in Nat /\ OfOwner(s[k], owner, F[k])
    OBVIOUS
  <2>1. PICK c, a \in Nat : c = tiers[k].count /\ a = tiers[k].amount
    BY <1>3
  <2>2. F[k] = c * a /\ s[k] = [i \in 1 .. c |-> Helpers!Standard(owner, a)]
    BY <1>2, <2>1
  <2>3. c * a \in Nat
    BY <2>1
  <2>4. OfOwner([i \in 1 .. c |-> Helpers!Standard(owner, a)], owner, c * a)
    BY <2>1, SameLeaves
  <2> HIDE DEF F, s
  <2> QED BY <2>2, <2>3, <2>4
<1>5. Len(s) = n /\ DOMAIN F = 1 .. n
  BY <1>2
<1>6. Helpers!TierTotal(tiers) = SumFunctionOnSet(F, 1 .. n)
  BY <1>2, HelperSum DEF Helpers!TierTotal, Helpers!SumFunction
<1>7. Helpers!TierLeaves(owner, tiers) = Helpers!FlattenSeq(s)
  BY DEF Helpers!TierLeaves
<1>8. SumFunctionOnSet(F, 1 .. n) \in Nat
  <2> HIDE DEF F
  <2>1. IsFiniteSet(1 .. n)
    BY <1>2, FS_Interval
  <2> DEFINE N == 1 .. n
  <2>2. \A i \in N : F[i] \in Nat
    BY <1>4
  <2> HIDE DEF N
  <2>3. SumFunctionOnSet(F, N) \in Nat
    BY <2>1, <2>2, SumType DEF N
  <2> QED BY <2>3 DEF N
<1> HIDE DEF F, s, n
<1>9. CASE n = 0
  <2>1. SumFunctionOnSet(F, 1 .. n) = 0
    <3>1. 1 .. 0 = {}
      OBVIOUS
    <3> QED BY <1>9, <3>1, SumEmpty
  <2>2. s = <<>> /\ Helpers!FlattenSeq(s) = <<>>
    BY <1>2, <1>9 DEF Helpers!FlattenSeq, s
  <2>3. OfOwner(<<>>, owner, 0)
    <3>1. 1 .. Len(<<>>) = {} /\ <<>> \in Seq(HelperLeaf)
      OBVIOUS
    <3> QED BY <3>1, SumEmpty DEF OfOwner
  <2> QED BY <1>6, <1>7, <2>1, <2>2, <2>3
<1>10. CASE n # 0
  <2>1. PICK f : Flattens(f, s, n) /\ Helpers!FlattenSeq(s) = f[n]
    BY <1>2, <1>5, <1>10, FlattenIs
  <2>2. \A i \in 1 .. n : f[i] = IF i = 1 THEN s[i] ELSE f[i - 1] \o s[i]
    BY <2>1 DEF Flattens
  <2> DEFINE Q == {k \in 0 .. n : k > 0 /\ ~OfOwner(f[k], owner, SumFunctionOnSet(F, 1 .. k))}
  <2>3. Q = {}
    <3> SUFFICES ASSUME Q # {} PROVE FALSE
      OBVIOUS
    <3>1. PICK k \in Q : \A j \in Q : j >= k
      <4> HIDE DEF Q
      <4>1. Q \in SUBSET (0 .. n)
        BY DEF Q
      <4> QED BY <1>2, <3>1, <4>1, SmallestNumber
    <3>2. k \in 1 .. n /\ ~OfOwner(f[k], owner, SumFunctionOnSet(F, 1 .. k))
      BY <1>2
    <3> DEFINE K == 1 .. k
    <3>3. IsFiniteSet(K) /\ k \in K /\ K \ {k} = 1 .. k - 1
      <4>1. IsFiniteSet(K)
        BY <3>2, FS_Interval
      <4>2. k \in Nat \ {0}
        <5> HIDE DEF Q
        <5> QED BY <1>2, <3>2
      <4>3. k \in K /\ K \ {k} = 1 .. k - 1
        <5> HIDE DEF Q
        <5> QED BY <4>2
      <4> QED BY <4>1, <4>3
    <3>4. \A i \in K : F[i] \in Int
      BY <1>2, <1>4, <3>2
    <3>5. SumFunctionOnSet(F, K) = F[k] + SumFunctionOnSet(F, 1 .. k - 1)
      <4> HIDE DEF K, Q
      <4>1. IsFiniteSet(K) /\ k \in K
        BY <3>3
      <4>2. SumFunctionOnSet(F, K) = F[k] + SumFunctionOnSet(F, K \ {k})
        BY <3>4, <4>1, SumTakeOut
      <4> QED BY <3>3, <4>2
    <3>6. OfOwner(s[k], owner, F[k]) /\ F[k] \in Nat
      BY <1>4, <3>2
    <3>7. CASE k = 1
      <4>1. f[k] = s[k] /\ 1 .. k - 1 = {}
        BY <2>2, <3>2, <3>7
      <4>2. SumFunctionOnSet(F, K) = F[k]
        <5>1. SumFunctionOnSet(F, 1 .. k - 1) = 0
          BY <4>1, SumEmpty
        <5> HIDE DEF K
        <5> QED BY <3>5, <3>6, <5>1
      <4> QED BY <3>2, <3>6, <4>1, <4>2
    <3>8. CASE k # 1
      <4> DEFINE j == k - 1
      <4>1. j \in 1 .. n /\ j < k /\ k > 1
        BY <1>2, <3>2, <3>8
      <4>2. j \notin Q
        <5> HIDE DEF Q, j
        <5>1. ~(j >= k)
          BY <1>2, <3>2, <4>1
        <5> QED BY <3>1, <5>1, Zenon
      <4>3. f[k] = f[k - 1] \o s[k]
        <5> HIDE DEF Q, j
        <5> QED BY <2>2, <3>2, <3>8
      <4>4. k - 1 \in 1 .. n /\ k - 1 \notin Q /\ f[k] = f[k - 1] \o s[k]
        <5> HIDE DEF Q
        <5> QED BY <4>1, <4>2, <4>3 DEF j
      <4>5. OfOwner(f[k - 1], owner, SumFunctionOnSet(F, 1 .. k - 1))
        BY <1>2, <4>4
      <4>6. SumFunctionOnSet(F, 1 .. k - 1) \in Nat
        <5> DEFINE J == 1 .. k - 1
        <5>1. IsFiniteSet(J)
          BY <4>4, FS_Interval
        <5>2. \A i \in J : F[i] \in Nat
          BY <1>2, <1>4, <4>4
        <5> HIDE DEF J
        <5>3. SumFunctionOnSet(F, J) \in Nat
          BY <5>1, <5>2, SumType
        <5> QED BY <5>3 DEF J
      <4>7. OfOwner(f[k - 1] \o s[k], owner, SumFunctionOnSet(F, 1 .. k - 1) + F[k])
        BY <3>6, <4>5, JoinedLeaves
      <4>8. SumFunctionOnSet(F, K) = SumFunctionOnSet(F, 1 .. k - 1) + F[k]
        <5> HIDE DEF K
        <5> QED BY <3>5, <3>6, <4>6
      <4> QED BY <3>2, <4>4, <4>7, <4>8
    <3> QED BY <3>7, <3>8
  <2>4. n \in 0 .. n /\ n > 0
    BY <1>2, <1>10
  <2>5. OfOwner(f[n], owner, SumFunctionOnSet(F, 1 .. n))
    BY <2>3, <2>4
  <2> QED BY <1>6, <1>7, <1>8, <2>1, <2>5
<1> QED
  BY <1>9, <1>10

LEMMA GeneratedAre ==
    ASSUME NEW owner \in Signers, NEW tiers \in Helpers!Strategies,
           NEW ls, ls = Helpers!GenerateLeaves(tiers, owner, Deposit), ls # <<>>
    PROVE  OfOwner(ls, owner, Deposit)
<1> DEFINE total == Helpers!TierTotal(tiers)
           rest == Helpers!Standard(owner, Deposit - total)
           tl == Helpers!TierLeaves(owner, tiers)
<1>1. total \in Nat /\ Deposit \in Nat /\ OfOwner(tl, owner, total)
  BY TiersAre, HelperConstants
<1>2. ~(total > Deposit) /\ ls = Append(tl, rest)
  BY DEF Helpers!GenerateLeaves
<1>3. Deposit - total \in Nat /\ total + (Deposit - total) = Deposit /\ 1 * (Deposit - total) = Deposit - total
  <2> HIDE DEF total
  <2> QED BY <1>1, <1>2
<1>4. OfOwner([i \in 1 .. 1 |-> rest], owner, 1 * (Deposit - total))
  <2> HIDE DEF total
  <2> QED BY <1>3, SameLeaves
<1>5. ls = tl \o [i \in 1 .. 1 |-> rest]
  <2>1. tl \in Seq(HelperLeaf)
    BY <1>1 DEF OfOwner
  <2>2. rest \in HelperLeaf
    <3> HIDE DEF total
    <3> QED BY <1>3 DEF HelperLeaf, Helpers!Standard
  <2> HIDE DEF tl, rest
  <2>3. [i \in 1 .. 1 |-> rest] = <<rest>>
    OBVIOUS
  <2>4. Append(tl, rest) = tl \o <<rest>>
    BY <2>1, <2>2
  <2> QED BY <1>2, <2>3, <2>4
<1>6. OfOwner(tl \o [i \in 1 .. 1 |-> rest], owner, total + 1 * (Deposit - total))
  <2> HIDE DEF total, rest, tl
  <2> QED BY <1>1, <1>4, JoinedLeaves
<1> QED
  <2> HIDE DEF total, rest, tl
  <2> QED BY <1>3, <1>5, <1>6

\* What the owners of a set own of a tree.
Everyone == Signers \cup {Nobody}
HelperShare(t, os) == [i \in 1 .. TreeSize |-> IF t[i].owner \in os THEN t[i].amount ELSE 0]
HelperWorth(t, os) == SumFunctionOnSet(HelperShare(t, os), UpTo(TreeSize))

LEMMA HelperWorthIs ==
    ASSUME NEW t \in HelperTree
    PROVE  /\ Helpers!SumOf(t) = HelperWorth(t, Everyone)
           /\ \A o : Helpers!OwnedBy(t, o) = HelperWorth(t, {o})
           /\ \A os : /\ HelperWorth(t, os) \in Nat
                      /\ \A i \in UpTo(TreeSize) : HelperShare(t, os)[i] \in Nat
<1>1. DOMAIN t = 1 .. TreeSize /\ \A i \in 1 .. TreeSize : t[i].amount \in Nat /\ t[i].owner \in Everyone
  BY DEF HelperTree, HelperLeaf, Everyone
<1>2. HelperShare(t, Everyone) = [i \in DOMAIN t |-> t[i].amount]
  BY <1>1 DEF HelperShare
<1>3. \A o : HelperShare(t, {o}) = [i \in DOMAIN t |-> IF t[i].owner = o THEN t[i].amount ELSE 0]
  BY <1>1 DEF HelperShare
<1>4. Helpers!SumOf(t) = HelperWorth(t, Everyone)
  BY <1>1, <1>2, HelperSum DEF Helpers!SumOf, Helpers!SumFunction, HelperWorth, UpTo
<1>5. ASSUME NEW o PROVE Helpers!OwnedBy(t, o) = HelperWorth(t, {o})
  <2>1. HelperShare(t, {o}) = [i \in DOMAIN t |-> IF t[i].owner = o THEN t[i].amount ELSE 0]
    BY <1>3
  <2> QED
    BY <1>1, <2>1, HelperSum DEF Helpers!OwnedBy, Helpers!SumFunction, HelperWorth, UpTo
<1>6. ASSUME NEW os
      PROVE  HelperWorth(t, os) \in Nat /\ \A i \in UpTo(TreeSize) : HelperShare(t, os)[i] \in Nat
  <2>1. \A i \in UpTo(TreeSize) : HelperShare(t, os)[i] \in Nat
    BY <1>1 DEF HelperShare, UpTo
  <2>2. IsFiniteSet(UpTo(TreeSize))
    BY HelperConstants DEF UpTo
  <2>3. SumFunctionOnSet(HelperShare(t, os), UpTo(TreeSize)) \in Nat
    BY <2>1, <2>2, SumType
  <2> QED BY <2>1, <2>3 DEF HelperWorth
<1> QED
  BY <1>4, <1>5, <1>6

LEMMA HelperWorthChange ==
    ASSUME NEW t \in HelperTree, NEW u \in HelperTree, NEW x \in UpTo(TreeSize),
           \A i \in UpTo(TreeSize) : i # x => u[i] = t[i],
           NEW os
    PROVE  HelperWorth(u, os) = HelperWorth(t, os)
             - (IF t[x].owner \in os THEN t[x].amount ELSE 0)
             + (IF u[x].owner \in os THEN u[x].amount ELSE 0)
<1> DEFINE F == HelperShare(t, os)
           G == HelperShare(u, os)
<1>1. x \in UpTo(TreeSize) /\ IsFiniteSet(UpTo(TreeSize))
  BY HelperConstants DEF UpTo
<1>2. \A i \in UpTo(TreeSize) : F[i] \in Int /\ G[i] \in Int
  <2>1. \A i \in UpTo(TreeSize) : F[i] \in Nat /\ G[i] \in Nat
    BY HelperWorthIs
  <2> HIDE DEF F, G
  <2> QED BY <2>1
<1>3. \A i \in UpTo(TreeSize) \ {x} : F[i] = G[i]
  BY DEF HelperShare, UpTo
<1>4. /\ x \in 1 .. TreeSize
      /\ F[x] = IF t[x].owner \in os THEN t[x].amount ELSE 0
      /\ G[x] = IF u[x].owner \in os THEN u[x].amount ELSE 0
  BY DEF HelperShare, UpTo
<1> HIDE DEF F, G
<1>5. SumFunctionOnSet(G, UpTo(TreeSize)) = SumFunctionOnSet(F, UpTo(TreeSize)) - F[x] + G[x]
  <2>1. PICK W, y : W = UpTo(TreeSize) /\ y = x
    OBVIOUS
  <2>2. /\ IsFiniteSet(W) /\ y \in W
        /\ \A i \in W : F[i] \in Int /\ G[i] \in Int
        /\ \A i \in W \ {y} : F[i] = G[i]
    BY <1>1, <1>2, <1>3, <2>1, Zenon
  <2>3. SumFunctionOnSet(G, W) = SumFunctionOnSet(F, W) - F[y] + G[y]
    BY <2>2, SumChange
  <2> QED BY <2>1, <2>3, Zenon
<1> QED
  BY <1>4, <1>5 DEF HelperWorth, F, G

LEMMA HelperWorthAtMost ==
    ASSUME NEW t \in HelperTree, NEW u \in HelperTree,
           \A i \in 1 .. TreeSize : t[i].amount <= u[i].amount
    PROVE  HelperWorth(t, Everyone) <= HelperWorth(u, Everyone)
<1> DEFINE F == HelperShare(t, Everyone)
           G == HelperShare(u, Everyone)
<1>1. \A i \in UpTo(TreeSize) : /\ F[i] = t[i].amount /\ G[i] = u[i].amount
                                /\ t[i].amount \in Nat /\ u[i].amount \in Nat
  BY DEF HelperShare, UpTo, HelperTree, HelperLeaf, Everyone
<1>2. \A i \in UpTo(TreeSize) : t[i].amount <= u[i].amount
  BY DEF UpTo
<1>3. IsFiniteSet(UpTo(TreeSize))
  BY HelperConstants DEF UpTo
<1> HIDE DEF F, G
<1>4. \A i \in UpTo(TreeSize) : F[i] \in Int /\ G[i] \in Int /\ F[i] <= G[i]
  BY <1>1, <1>2
<1>5. SumFunctionOnSet(F, UpTo(TreeSize)) <= SumFunctionOnSet(G, UpTo(TreeSize))
  BY <1>3, <1>4, SumAtMost
<1> QED
  BY <1>5 DEF HelperWorth, F, G

\* A call signs the updates that turn the leaves into a goal: every leaf is the
\* goal's or is about to be.  The owners of the goal own what they were given.
HelperGoal(goal) ==
    /\ goal \in HelperTree
    /\ \A i \in 1 .. TreeSize : goal[i].amount > 0 => goal[i].owner \in Signers
    /\ \A s \in Signers : HelperWorth(goal, {s}) = given[s]
    /\ HelperWorth(goal, Everyone) = Deposit \/ (updates = <<>> /\ tree = Helpers!Padded(<<>>))

HelperApplies(goal) ==
    /\ \A k \in 1 .. Len(updates) : updates[k].leaf = goal[updates[k].index]
    /\ \A i \in 1 .. TreeSize : tree[i] = goal[i] \/ \E k \in 1 .. Len(updates) : updates[k].index = i

\* A split ends by filling an empty leaf, and has at most one update before it.
HelperSplitting ==
    LET last == updates[Len(updates)]
    IN  updates # <<>> /\ last.leaf.amount # 0 =>
          /\ Len(updates) <= 2 /\ tree[last.index].amount = 0
          /\ Len(updates) = 2 => updates[1].index # updates[2].index

\* A merge fills its target first and empties leaves from then on.
HelperMerging(goal) ==
    updates # <<>> /\ updates[Len(updates)].leaf.amount = 0 =>
      /\ \A k \in 2 .. Len(updates) : updates[k].leaf.amount = 0
      /\ \/ HelperWorth(tree, Everyone) = Deposit
         \/ \A i \in 1 .. TreeSize : goal[i].amount <= tree[i].amount

HelperInv ==
    /\ tree \in HelperTree /\ updates \in Seq(HelperUpdate) /\ given \in [Signers -> Int]
    /\ \E goal : HelperGoal(goal) /\ HelperApplies(goal) /\ HelperMerging(goal)
    /\ HelperSplitting

\* Between calls the leaves are the goal.
LEMMA HelperSettled ==
    ASSUME HelperInv, updates = <<>>
    PROVE  HelperGoal(tree)
<1>1. PICK goal : HelperGoal(goal) /\ HelperApplies(goal)
  BY DEF HelperInv
<1>2. 1 .. Len(updates) = {}
  OBVIOUS
<1>3. \A i \in 1 .. TreeSize : tree[i] = goal[i]
  BY <1>1, <1>2 DEF HelperApplies
<1>4. tree \in HelperTree /\ goal \in HelperTree
  BY <1>1 DEF HelperInv, HelperGoal
<1>5. tree = goal
  <2>1. PICK D : D = 1 .. TreeSize
    OBVIOUS
  <2>2. tree \in [D -> HelperLeaf] /\ goal \in [D -> HelperLeaf]
    BY <1>4, <2>1 DEF HelperTree
  <2>3. \A i \in D : tree[i] = goal[i]
    BY <1>3, <2>1
  <2> QED BY <2>2, <2>3
<1> QED
  BY <1>1, <1>5

\* A tree that no update changes is its own goal.
LEMMA HelperRests ==
    ASSUME updates = <<>>, HelperGoal(tree), given \in [Signers -> Int]
    PROVE  HelperInv
<1>1. HelperApplies(tree) /\ HelperMerging(tree) /\ HelperSplitting
  BY DEF HelperApplies, HelperMerging, HelperSplitting
<1>2. updates \in Seq(HelperUpdate) /\ tree \in HelperTree
  BY DEF HelperGoal
<1> QED
  BY <1>1, <1>2 DEF HelperInv

LEMMA HelpersKept == HelperInv => Helpers!HelpersKeepTheMoney
<1> SUFFICES ASSUME HelperInv
             PROVE  Helpers!HelpersKeepTheMoney
  OBVIOUS
<1>1. tree \in HelperTree /\ updates \in Seq(HelperUpdate)
  BY DEF HelperInv
<1>2. PICK goal : HelperGoal(goal) /\ HelperApplies(goal) /\ HelperMerging(goal)
  BY DEF HelperInv
<1>3. goal \in HelperTree /\ Deposit \in Nat
  BY <1>2, HelperConstants DEF HelperGoal
<1>4. updates # <<>> => HelperWorth(goal, Everyone) = Deposit
  BY <1>2 DEF HelperGoal
<1>5. Helpers!SumOf(tree) = HelperWorth(tree, Everyone) /\ HelperWorth(tree, Everyone) \in Nat
  BY <1>1, HelperWorthIs
<1>6. ASSUME updates = <<>>, NEW s \in Signers
      PROVE  Helpers!OwnedBy(tree, s) = given[s]
  <2>1. HelperGoal(tree)
    BY <1>6, HelperSettled
  <2>2. Helpers!OwnedBy(tree, s) = HelperWorth(tree, {s})
    BY <1>1, HelperWorthIs
  <2> QED BY <2>1, <2>2 DEF HelperGoal
<1>7. ASSUME Len(updates) = 1, ~Helpers!IsEmpty(updates[1].leaf)
      PROVE  Helpers!SumOf(tree) <= Deposit
  <2>1. updates # <<>> /\ updates[1].leaf.amount # 0
    BY <1>1, <1>7 DEF Helpers!IsEmpty
  <2>2. tree[updates[1].index].amount = 0
    BY <1>7, <2>1 DEF HelperInv, HelperSplitting
  <2>3. \A i \in 1 .. TreeSize : tree[i] = goal[i] \/ i = updates[1].index
    BY <1>2, <1>7 DEF HelperApplies
  <2>4. \A i \in 1 .. TreeSize : tree[i].amount \in Nat /\ goal[i].amount \in Nat
    BY <1>1, <1>3 DEF HelperTree, HelperLeaf
  <2>5. \A i \in 1 .. TreeSize : tree[i].amount <= goal[i].amount
    BY <2>2, <2>3, <2>4
  <2>6. HelperWorth(tree, Everyone) <= HelperWorth(goal, Everyone)
    BY <1>1, <1>3, <2>5, HelperWorthAtMost
  <2> QED BY <1>4, <1>5, <2>1, <2>6
<1>8. ASSUME updates # <<>>, Helpers!IsEmpty(updates[Len(updates)].leaf)
      PROVE  Helpers!SumOf(tree) >= Deposit
  <2>1. \/ HelperWorth(tree, Everyone) = Deposit
        \/ \A i \in 1 .. TreeSize : goal[i].amount <= tree[i].amount
    BY <1>2, <1>8 DEF HelperMerging, Helpers!IsEmpty
  <2>2. CASE HelperWorth(tree, Everyone) = Deposit
    BY <1>3, <1>5, <2>2
  <2>3. CASE \A i \in 1 .. TreeSize : goal[i].amount <= tree[i].amount
    <3>1. HelperWorth(goal, Everyone) <= HelperWorth(tree, Everyone)
      BY <1>1, <1>3, <2>3, HelperWorthAtMost
    <3> QED BY <1>3, <1>4, <1>5, <1>8, <3>1
  <2> QED BY <2>1, <2>2, <2>3
<1> QED
  BY <1>6, <1>7, <1>8 DEF Helpers!HelpersKeepTheMoney

\* Before the channel is opened every leaf is empty.
LEMMA HelperUnopened ==
    /\ Helpers!Padded(<<>>) \in HelperTree
    /\ \A i \in 1 .. TreeSize : /\ Helpers!Padded(<<>>)[i].amount = 0
                                /\ Helpers!Padded(<<>>)[i].owner = Nobody
    /\ \A os : HelperWorth(Helpers!Padded(<<>>), os) = 0
<1> DEFINE t == Helpers!Padded(<<>>)
<1>1. t = [i \in 1 .. TreeSize |-> [owner |-> Nobody, amount |-> 0]]
  BY DEF Helpers!Padded, Helpers!Empty, Helpers!Standard
<1> HIDE DEF t
<1>2. t \in HelperTree /\ \A i \in 1 .. TreeSize : t[i].amount = 0 /\ t[i].owner = Nobody
  BY <1>1 DEF HelperTree, HelperLeaf
<1>3. ASSUME NEW os PROVE HelperWorth(t, os) = 0
  <2>1. \A i \in 1 .. TreeSize : HelperShare(t, os)[i] = 0
    BY <1>2 DEF HelperShare
  <2>2. TreeSize \in Nat /\ TreeSize * 0 = 0
    BY HelperConstants
  <2>3. SumFunctionOnSet(HelperShare(t, os), 1 .. TreeSize) = TreeSize * 0
    BY <2>1, <2>2, SumConstant
  <2> QED BY <2>2, <2>3 DEF HelperWorth, UpTo
<1> QED
  BY <1>2, <1>3 DEF t

LEMMA HelperInit == Helpers!Init => HelperInv
<1> SUFFICES ASSUME Helpers!Init
             PROVE  HelperInv
  OBVIOUS
<1>1. tree = Helpers!Padded(<<>>) /\ updates = <<>> /\ given = [s \in Signers |-> 0]
  BY DEF Helpers!Init
<1>2. given \in [Signers -> Int] /\ \A s \in Signers : given[s] = 0
  BY <1>1
<1>3. HelperGoal(tree)
  <2>1. tree \in HelperTree /\ \A s : HelperWorth(tree, {s}) = 0
    BY <1>1, HelperUnopened
  <2>2. \A i \in 1 .. TreeSize : ~(tree[i].amount > 0)
    BY <1>1, HelperUnopened
  <2> QED BY <1>1, <1>2, <2>1, <2>2 DEF HelperGoal
<1> QED
  BY <1>1, <1>2, <1>3, HelperRests

\* The channel applies the next update: the goal stays.
LEMMA HelperApplied == HelperInv /\ Helpers!UpdateLeaf => HelperInv'
<1> SUFFICES ASSUME HelperInv, Helpers!UpdateLeaf
             PROVE  HelperInv'
  OBVIOUS
<1> DEFINE n == Len(updates)
           x == updates[1].index
           leaf == updates[1].leaf
<1>1. /\ updates # <<>> /\ updates' = Tail(updates) /\ given' = given
      /\ tree' = [tree EXCEPT ![x] = leaf]
  <2>1. updates \in Seq(HelperUpdate) /\ updates # <<>>
    BY DEF HelperInv, Helpers!UpdateLeaf
  <2>2. Head(updates) = updates[1]
    BY <2>1
  <2> QED BY <2>1, <2>2 DEF Helpers!UpdateLeaf
<1>2. PICK goal : HelperGoal(goal) /\ HelperApplies(goal) /\ HelperMerging(goal)
  BY DEF HelperInv
<1>3. tree \in HelperTree /\ updates \in Seq(HelperUpdate) /\ given \in [Signers -> Int]
  BY DEF HelperInv
<1>4. /\ n \in Nat \ {0} /\ Len(updates') = n - 1 /\ updates' \in Seq(HelperUpdate)
      /\ \A k \in 1 .. n - 1 : updates'[k] = updates[k + 1]
      /\ updates[1] \in HelperUpdate
  BY <1>1, <1>3
<1>5. x \in 1 .. TreeSize /\ leaf \in HelperLeaf
  BY <1>4 DEF HelperUpdate
<1>6. /\ tree' \in HelperTree /\ tree'[x] = leaf
      /\ \A i \in 1 .. TreeSize : i # x => tree'[i] = tree[i]
  <2> HIDE DEF x, leaf
  <2> QED BY <1>1, <1>3, <1>5 DEF HelperTree
<1>7. tree'[x] = goal[x]
  BY <1>2, <1>4, <1>6 DEF HelperApplies
<1>8. \A i \in 1 .. TreeSize : tree'[i] = goal[i] \/ \E k \in 2 .. n : updates[k].index = i
  <2> SUFFICES ASSUME NEW i \in 1 .. TreeSize, tree'[i] # goal[i]
               PROVE  \E k \in 2 .. n : updates[k].index = i
    OBVIOUS
  <2>1. i # x /\ tree[i] # goal[i]
    <3> HIDE DEF x, leaf, n
    <3> QED BY <1>6, <1>7
  <2>2. PICK k \in 1 .. n : updates[k].index = i
    BY <1>2, <2>1 DEF HelperApplies
  <2>3. k # 1
    BY <2>1, <2>2
  <2> QED BY <1>4, <2>2, <2>3
<1>9. HelperApplies(goal)'
  <2>1. \A k \in 2 .. n : k - 1 \in 1 .. n - 1 /\ updates'[k - 1] = updates[k]
    BY <1>4
  <2>2. \A k \in 1 .. n - 1 : updates'[k].leaf = goal[updates'[k].index]
    BY <1>2, <1>4 DEF HelperApplies
  <2>3. \A i \in 1 .. TreeSize : tree'[i] = goal[i] \/ \E k \in 1 .. n - 1 : updates'[k].index = i
    BY <1>8, <2>1
  <2> QED BY <1>4, <2>2, <2>3 DEF HelperApplies
<1>10. HelperGoal(goal)'
  BY <1>1, <1>2 DEF HelperGoal
<1>11. updates' # <<>> => /\ n >= 2 /\ updates'[Len(updates')] = updates[n]
  BY <1>4
<1>12. HelperMerging(goal)'
  <2> SUFFICES ASSUME updates' # <<>>, updates'[Len(updates')].leaf.amount = 0
               PROVE  /\ \A k \in 2 .. Len(updates') : updates'[k].leaf.amount = 0
                      /\ \A i \in 1 .. TreeSize : goal[i].amount <= tree'[i].amount
    BY DEF HelperMerging
  <2>1. \A k \in 2 .. n : updates[k].leaf.amount = 0
    BY <1>1, <1>2, <1>11 DEF HelperMerging
  <2>2. \A k \in 2 .. n - 1 : updates'[k].leaf.amount = 0
    BY <1>4, <2>1
  <2>3. ASSUME NEW i \in 1 .. TreeSize PROVE goal[i].amount <= tree'[i].amount
    <3>1. goal[i].amount \in Nat /\ tree'[i].amount \in Nat
      BY <1>2, <1>6 DEF HelperGoal, HelperTree, HelperLeaf
    <3>2. CASE tree'[i] = goal[i]
      BY <3>1, <3>2
    <3>3. CASE \E k \in 2 .. n : updates[k].index = i
      <4>1. PICK k \in 2 .. n : updates[k].index = i
        BY <3>3
      <4>2. k \in 1 .. n
        BY <1>4
      <4>3. goal[i].amount = 0
        BY <1>2, <2>1, <4>1, <4>2 DEF HelperApplies
      <4> QED BY <3>1, <4>3
    <3> QED BY <1>8, <3>2, <3>3
  <2> QED BY <1>4, <2>2, <2>3
<1>13. HelperSplitting'
  <2> SUFFICES ASSUME updates' # <<>>, updates'[Len(updates')].leaf.amount # 0
               PROVE  /\ Len(updates') <= 2
                      /\ tree'[updates'[Len(updates')].index].amount = 0
                      /\ Len(updates') = 2 => updates'[1].index # updates'[2].index
    BY DEF HelperSplitting
  <2>1. /\ n <= 2 /\ tree[updates[n].index].amount = 0
        /\ n = 2 => updates[1].index # updates[2].index
    BY <1>1, <1>11 DEF HelperInv, HelperSplitting
  <2>2. n = 2 /\ Len(updates') = 1 /\ updates'[1] = updates[2]
    BY <1>4, <1>11, <2>1
  <2>3. updates[2].index \in 1 .. TreeSize
    <3>1. \A k \in 1 .. n : updates[k] \in HelperUpdate
      BY <1>3
    <3>2. 2 \in 1 .. n
      BY <2>2
    <3> QED BY <3>1, <3>2 DEF HelperUpdate
  <2>4. tree'[updates[2].index] = tree[updates[2].index]
    BY <1>6, <2>1, <2>2, <2>3
  <2> QED BY <2>1, <2>2, <2>4
<1> QED
  BY <1>1, <1>3, <1>4, <1>6, <1>9, <1>10, <1>12, <1>13 DEF HelperInv

\* A step that leaves no updates: the new leaves are the goal.
LEMMA HelperAtRest ==
    ASSUME updates' = <<>>, given' \in [Signers -> Int], NEW u, u = tree', HelperGoal(u)'
    PROVE  HelperInv'
<1>1. HelperApplies(u)' /\ HelperMerging(u)' /\ HelperSplitting'
  <2>1. Len(updates') = 0 /\ 1 .. 0 = {}
    OBVIOUS
  <2> QED BY <2>1 DEF HelperApplies, HelperMerging, HelperSplitting
<1>2. updates' \in Seq(HelperUpdate)
  OBVIOUS
<1>3. tree' \in HelperTree
  BY DEF HelperGoal
<1> QED
  BY <1>1, <1>2, <1>3 DEF HelperInv

\* A leaf handed over is given by the one and to the other.
LEMMA HelperTransfer ==
    ASSUME HelperInv, NEW signer \in Signers, NEW to \in Signers, NEW i \in 1 .. TreeSize,
           Helpers!Transfer(i, signer, to)
    PROVE  HelperInv'
<1> DEFINE a == tree[i].amount
<1>1. /\ updates = <<>> /\ updates' = <<>> /\ to # signer
      /\ tree[i].owner = signer /\ a # 0
      /\ tree' = [tree EXCEPT ![i].owner = to]
      /\ given' = [given EXCEPT ![signer] = @ - a, ![to] = @ + a]
  BY DEF Helpers!Transfer, Helpers!Call, Helpers!IsEmpty
<1>2. HelperGoal(tree) /\ given \in [Signers -> Int]
  BY <1>1, HelperSettled DEF HelperInv
<1>3. PICK u : u = tree'
  OBVIOUS
<1>4. tree \in HelperTree /\ tree[i] \in HelperLeaf /\ a \in Nat
  BY <1>2 DEF HelperGoal, HelperTree, HelperLeaf
<1>5. /\ u \in HelperTree /\ u[i] = [tree[i] EXCEPT !.owner = to]
      /\ \A j \in 1 .. TreeSize : j # i => u[j] = tree[j]
  <2>1. [tree[i] EXCEPT !.owner = to] \in HelperLeaf
    BY <1>4 DEF HelperLeaf
  <2>2. u = [tree EXCEPT ![i] = [tree[i] EXCEPT !.owner = to]]
    BY <1>1, <1>3
  <2> QED BY <1>4, <2>1, <2>2 DEF HelperTree
<1>6. u[i].owner = to /\ u[i].amount = a
  BY <1>4, <1>5 DEF HelperLeaf
<1>7. ASSUME NEW os
      PROVE  /\ HelperWorth(u, os) = HelperWorth(tree, os) - (IF signer \in os THEN a ELSE 0)
                                                           + (IF to \in os THEN a ELSE 0)
             /\ HelperWorth(tree, os) \in Nat
  <2>1. HelperWorth(u, os) = HelperWorth(tree, os)
          - (IF tree[i].owner \in os THEN tree[i].amount ELSE 0)
          + (IF u[i].owner \in os THEN u[i].amount ELSE 0)
    <3>1. i \in UpTo(TreeSize) /\ \A j \in UpTo(TreeSize) : j # i => u[j] = tree[j]
      BY <1>5 DEF UpTo
    <3>2. tree \in HelperTree /\ u \in HelperTree
      BY <1>4, <1>5
    <3> QED BY <3>1, <3>2, HelperWorthChange
  <2>2. HelperWorth(tree, os) \in Nat
    BY <1>4, HelperWorthIs
  <2> QED BY <1>1, <1>6, <2>1, <2>2
<1>8. /\ given' \in [Signers -> Int]
      /\ given'[signer] = given[signer] - a /\ given'[to] = given[to] + a
      /\ \A s \in Signers : s # signer /\ s # to => given'[s] = given[s]
  BY <1>1, <1>2, <1>4
<1> HIDE DEF a
<1>9. ASSUME NEW s \in Signers PROVE HelperWorth(u, {s}) = given'[s]
  <2>1. HelperWorth(tree, {s}) = given[s]
    BY <1>2 DEF HelperGoal
  <2>2. /\ HelperWorth(u, {s}) = HelperWorth(tree, {s}) - (IF signer \in {s} THEN a ELSE 0)
                                                        + (IF to \in {s} THEN a ELSE 0)
        /\ HelperWorth(tree, {s}) \in Nat
    BY <1>7
  <2> QED BY <1>1, <1>4, <1>8, <2>1, <2>2
<1>10. HelperWorth(u, Everyone) = Deposit
  <2>1. /\ HelperWorth(u, Everyone) = HelperWorth(tree, Everyone) - (IF signer \in Everyone THEN a ELSE 0)
                                                        + (IF to \in Everyone THEN a ELSE 0)
        /\ HelperWorth(tree, Everyone) \in Nat
    BY <1>7
  <2>2. signer \in Everyone /\ to \in Everyone
    BY DEF Everyone
  <2>3. HelperWorth(tree, Everyone) = Deposit
    <3>1. tree # Helpers!Padded(<<>>)
      BY <1>1, HelperUnopened DEF a
    <3> QED BY <1>2, <3>1 DEF HelperGoal
  <2> QED BY <1>4, <2>1, <2>2, <2>3
<1>11. \A j \in 1 .. TreeSize : u[j].amount > 0 => u[j].owner \in Signers
  BY <1>2, <1>5, <1>6 DEF HelperGoal
<1>12. HelperGoal(u)'
  BY <1>5, <1>9, <1>10, <1>11 DEF HelperGoal
<1> QED
  BY <1>1, <1>3, <1>8, <1>12, HelperAtRest

\* The leaves a channel opens with are worth the deposit, and all its opener's.
LEMMA HelperOpen ==
    ASSUME HelperInv, NEW owner \in Signers, NEW tiers \in Helpers!Strategies,
           Helpers!Open(owner, tiers)
    PROVE  HelperInv'
<1> DEFINE ls == Helpers!GenerateLeaves(tiers, owner, Deposit)
           p == Len(ls)
           q == TreeSize - p
<1>1. /\ updates = <<>> /\ updates' = <<>> /\ tree = Helpers!Padded(<<>>)
      /\ ls # <<>> /\ p <= TreeSize
      /\ tree' = Helpers!Padded(ls)
      /\ given' = [given EXCEPT ![owner] = Deposit]
  BY DEF Helpers!Open
<1>2. OfOwner(ls, owner, Deposit)
  <2>1. PICK gs : gs = ls
    OBVIOUS
  <2> HIDE DEF ls
  <2>2. OfOwner(gs, owner, Deposit)
    BY <1>1, <2>1, GeneratedAre DEF ls
  <2> QED BY <2>1, <2>2
<1> HIDE DEF ls
<1>3. /\ ls \in Seq(HelperLeaf) /\ \A i \in 1 .. p : ls[i].owner = owner
      /\ SumFunctionOnSet(Amounts(ls), 1 .. p) = Deposit
  BY <1>2 DEF OfOwner
<1>4. p \in Nat /\ q \in Nat /\ p + q = TreeSize /\ TreeSize \in Nat /\ Deposit \in Nat
  BY <1>1, <1>3, HelperConstants
<1>5. HelperGoal(tree) /\ given \in [Signers -> Int]
  BY <1>1, HelperSettled DEF HelperInv
<1>6. PICK u : u = tree'
  OBVIOUS
<1>7. /\ \A i \in 1 .. p : u[i] = ls[i] /\ u[i] \in HelperLeaf
      /\ \A i \in 1 .. TreeSize : ~(i \in 1 .. p) => u[i] = [owner |-> Nobody, amount |-> 0]
      /\ u \in HelperTree
  <2>1. u = [i \in 1 .. TreeSize |-> IF i \in DOMAIN ls THEN ls[i] ELSE [owner |-> Nobody, amount |-> 0]]
    BY <1>1, <1>6 DEF Helpers!Padded, Helpers!Empty, Helpers!Standard
  <2>2. DOMAIN ls = 1 .. p /\ \A i \in 1 .. p : ls[i] \in HelperLeaf /\ i \in 1 .. TreeSize
    BY <1>3, <1>4
  <2>3. [owner |-> Nobody, amount |-> 0] \in HelperLeaf
    BY DEF HelperLeaf
  <2> HIDE DEF p
  <2>4. /\ \A i \in 1 .. p : u[i] = ls[i]
        /\ \A i \in 1 .. TreeSize : ~(i \in 1 .. p) => u[i] = [owner |-> Nobody, amount |-> 0]
    BY <2>1, <2>2
  <2>5. u \in HelperTree
    BY <2>1, <2>2, <2>3 DEF HelperTree
  <2> QED BY <2>2, <2>4, <2>5
<1> HIDE DEF p, q
<1>8. ASSUME NEW os
      PROVE  HelperWorth(u, os) = IF owner \in os THEN Deposit ELSE 0
  <2> DEFINE F == HelperShare(u, os)
             A == IF owner \in os THEN Amounts(ls) ELSE [i \in 1 .. p |-> 0]
             B == [i \in 1 .. q |-> 0]
  <2>1. /\ \A i \in UpTo(p) : F[i] = A[i] /\ A[i] \in Int
        /\ \A i \in UpTo(q) : F[p + i] = B[i] /\ B[i] \in Int
    <3>1. \A i \in 1 .. p : F[i] = A[i] /\ A[i] \in Int
      <4> SUFFICES ASSUME NEW i \in 1 .. p PROVE F[i] = A[i] /\ A[i] \in Int
        OBVIOUS
      <4>1. i \in 1 .. TreeSize
        BY <1>4
      <4>2. u[i] = ls[i] /\ ls[i].owner = owner /\ ls[i].amount \in Nat
        BY <1>3, <1>7 DEF HelperLeaf
      <4>3. Amounts(ls)[i] = ls[i].amount
        BY DEF Amounts, p
      <4> QED BY <4>1, <4>2, <4>3 DEF HelperShare
    <3>2. \A i \in 1 .. q : F[p + i] = B[i] /\ B[i] \in Int
      <4> SUFFICES ASSUME NEW i \in 1 .. q PROVE F[p + i] = 0
        OBVIOUS
      <4>1. p + i \in 1 .. TreeSize /\ ~(p + i \in 1 .. p)
        BY <1>4
      <4>2. u[p + i].amount = 0
        BY <1>7, <4>1
      <4> QED BY <4>1, <4>2 DEF HelperShare
    <3> QED BY <3>1, <3>2 DEF UpTo
  <2> HIDE DEF F, A, B
  <2>2. PICK h, P, R, W : h = Shift(p, q) /\ P = UpTo(p) /\ R = UpTo(q) /\ W = UpTo(TreeSize)
    OBVIOUS
  <2>3. /\ IsFiniteSet(W) /\ IsFiniteSet(R) /\ P \in SUBSET W /\ W \ P = {h[i] : i \in R}
        /\ \A i, j \in R : h[i] = h[j] => i = j
        /\ \A i \in R : h[i] = p + i
    <3>1. /\ IsFiniteSet(UpTo(p + q)) /\ IsFiniteSet(UpTo(q))
          /\ UpTo(p) \in SUBSET UpTo(p + q)
          /\ UpTo(p + q) \ UpTo(p) = {Shift(p, q)[i] : i \in UpTo(q)}
          /\ \A i, j \in UpTo(q) : Shift(p, q)[i] = Shift(p, q)[j] => i = j
          /\ \A i \in UpTo(q) : Shift(p, q)[i] = p + i
      <4>1. p \in Nat /\ q \in Nat
        BY <1>4
      <4> QED BY <4>1, Places, Zenon
    <3> QED BY <1>4, <2>2, <3>1, Zenon
  <2>4. /\ \A i \in P : F[i] = A[i] /\ A[i] \in Int
        /\ \A i \in R : F[h[i]] = B[i] /\ B[i] \in Int
    BY <2>1, <2>2, <2>3, Zenon
  <2>5. SumFunctionOnSet(F, W) = SumFunctionOnSet(A, P) + SumFunctionOnSet(B, R)
    BY <2>3, <2>4, SumJoined
  <2>6. SumFunctionOnSet(B, R) = 0
    <3>1. SumFunctionOnSet(B, 1 .. q) = q * 0
      BY <1>4, SumConstant DEF B
    <3>2. q * 0 = 0
      BY <1>4
    <3> QED BY <2>2, <3>1, <3>2 DEF UpTo
  <2>7. SumFunctionOnSet(A, P) = IF owner \in os THEN Deposit ELSE 0
    <3>1. CASE owner \in os
      BY <1>3, <2>2, <3>1 DEF UpTo, A, p
    <3>2. CASE owner \notin os
      <4>1. SumFunctionOnSet(A, 1 .. p) = p * 0
        <5>1. \A i \in 1 .. p : A[i] = 0
          BY <3>2 DEF A
        <5> QED BY <1>4, <5>1, SumConstant
      <4>2. p * 0 = 0
        BY <1>4
      <4> QED BY <2>2, <3>2, <4>1, <4>2 DEF UpTo
    <3> QED BY <3>1, <3>2
  <2> QED BY <1>4, <2>2, <2>5, <2>6, <2>7 DEF HelperWorth, F
<1>9. /\ given' \in [Signers -> Int]
      /\ \A s \in Signers : given'[s] = IF s = owner THEN Deposit ELSE 0
  <2>1. \A s \in Signers : given[s] = 0
    BY <1>1, <1>5, HelperUnopened DEF HelperGoal
  <2> QED BY <1>1, <1>4, <1>5, <2>1
<1>10. \A s \in Signers : HelperWorth(u, {s}) = given'[s]
  BY <1>8, <1>9
<1>11. HelperWorth(u, Everyone) = Deposit
  BY <1>8 DEF Everyone
<1>12. \A i \in 1 .. TreeSize : u[i].amount > 0 => u[i].owner \in Signers
  <2> SUFFICES ASSUME NEW i \in 1 .. TreeSize, u[i].amount > 0 PROVE u[i].owner \in Signers
    OBVIOUS
  <2>1. i \in 1 .. p
    BY <1>7
  <2> QED BY <1>3, <1>7, <2>1
<1>13. HelperGoal(u)'
  BY <1>7, <1>10, <1>11, <1>12 DEF HelperGoal
<1> QED
  BY <1>1, <1>6, <1>9, <1>13, HelperAtRest

\* A split takes from the change leaf what it puts in the empty one.
LEMMA HelperSplit ==
    ASSUME HelperInv, NEW signer \in Signers, NEW r \in 1 .. TreeSize, NEW t \in 1 .. TreeSize,
           NEW a \in SplitAmounts, Helpers!SplitFromRest(r, t, a, signer)
    PROVE  HelperInv'
<1> DEFINE change == [owner |-> signer, amount |-> tree[r].amount - a]
           target == [owner |-> signer, amount |-> a]
           us == << [index |-> r, leaf |-> change], [index |-> t, leaf |-> target] >>
<1>1. /\ updates = <<>> /\ updates' = us /\ tree' = tree /\ given' = given
      /\ tree[r].amount >= a /\ tree[r].owner = signer /\ tree[t].amount = 0
  BY DEF Helpers!SplitFromRest, Helpers!Call, Helpers!IsEmpty, Helpers!SplitUpdates,
         Helpers!Update, Helpers!Standard
<1>2. HelperGoal(tree) /\ given \in [Signers -> Int] /\ a \in Nat \ {0}
  BY <1>1, HelperSettled, HelperConstants DEF HelperInv
<1>3. /\ tree \in HelperTree /\ \A i \in 1 .. TreeSize : tree[i].amount \in Nat
      /\ r # t /\ tree[r].amount - a \in Nat
  <2>1. tree \in HelperTree /\ \A i \in 1 .. TreeSize : tree[i].amount \in Nat
    BY <1>2 DEF HelperGoal, HelperTree, HelperLeaf
  <2> QED BY <1>1, <1>2, <2>1
<1>4. change \in HelperLeaf /\ target \in HelperLeaf
  BY <1>2, <1>3 DEF HelperLeaf
<1>5. PICK mid, goal : mid = [tree EXCEPT ![r] = change] /\ goal = [mid EXCEPT ![t] = target]
  OBVIOUS
<1>6. /\ mid \in HelperTree /\ goal \in HelperTree
      /\ mid[r] = change /\ goal[r] = change /\ goal[t] = target
      /\ \A i \in 1 .. TreeSize : i # r => mid[i] = tree[i]
      /\ \A i \in 1 .. TreeSize : i # t => goal[i] = mid[i]
  <2> HIDE DEF change, target
  <2> QED BY <1>3, <1>4, <1>5 DEF HelperTree
<1>7. ASSUME NEW os PROVE HelperWorth(goal, os) = HelperWorth(tree, os)
  <2>1. r \in UpTo(TreeSize) /\ \A i \in UpTo(TreeSize) : i # r => mid[i] = tree[i]
    BY <1>6 DEF UpTo
  <2>2. t \in UpTo(TreeSize) /\ \A i \in UpTo(TreeSize) : i # t => goal[i] = mid[i]
    BY <1>6 DEF UpTo
  <2>3. tree \in HelperTree /\ mid \in HelperTree /\ goal \in HelperTree
    BY <1>3, <1>6
  <2>4. HelperWorth(mid, os) = HelperWorth(tree, os)
          - (IF tree[r].owner \in os THEN tree[r].amount ELSE 0)
          + (IF mid[r].owner \in os THEN mid[r].amount ELSE 0)
    BY <2>1, <2>3, HelperWorthChange
  <2>5. HelperWorth(goal, os) = HelperWorth(mid, os)
          - (IF mid[t].owner \in os THEN mid[t].amount ELSE 0)
          + (IF goal[t].owner \in os THEN goal[t].amount ELSE 0)
    BY <2>2, <2>3, HelperWorthChange
  <2>6. mid[t].amount = 0
    BY <1>1, <1>3, <1>6
  <2>7. HelperWorth(tree, os) \in Nat
    BY <2>3, HelperWorthIs
  <2>8. mid[r].owner = signer /\ mid[r].amount = tree[r].amount - a
    BY <1>6
  <2>9. goal[t].owner = signer /\ goal[t].amount = a
    BY <1>6
  <2>10. HelperWorth(mid, os) = HelperWorth(tree, os) - (IF signer \in os THEN a ELSE 0)
    BY <1>1, <1>2, <1>3, <2>4, <2>7, <2>8
  <2>11. HelperWorth(goal, os) = HelperWorth(mid, os) + (IF signer \in os THEN a ELSE 0)
    BY <1>2, <2>5, <2>6, <2>7, <2>9, <2>10
  <2> QED BY <1>2, <2>7, <2>10, <2>11
<1>8. HelperWorth(tree, Everyone) = Deposit
  <2>1. tree # Helpers!Padded(<<>>)
    BY <1>1, <1>2, HelperUnopened
  <2> QED BY <1>2, <2>1 DEF HelperGoal
<1>9. \A i \in 1 .. TreeSize : goal[i].amount > 0 => goal[i].owner \in Signers
  <2>1. \A i \in 1 .. TreeSize : i # r /\ i # t => goal[i] = tree[i]
    BY <1>6
  <2>2. goal[r].owner \in Signers /\ goal[t].owner \in Signers
    BY <1>6
  <2> QED BY <1>2, <2>1, <2>2 DEF HelperGoal
<1> HIDE DEF change, target
<1>10. /\ us \in Seq(HelperUpdate) /\ us # <<>> /\ Len(us) = 2
       /\ us[1] = [index |-> r, leaf |-> change] /\ us[2] = [index |-> t, leaf |-> target]
  <2>1. /\ [index |-> r, leaf |-> change] \in HelperUpdate
        /\ [index |-> t, leaf |-> target] \in HelperUpdate
    BY <1>4 DEF HelperUpdate
  <2> QED BY <2>1
<1> HIDE DEF us
<1>11. HelperGoal(goal)'
  <2>1. \A s \in Signers : HelperWorth(goal, {s}) = given'[s]
    BY <1>1, <1>2, <1>7 DEF HelperGoal
  <2> QED BY <1>6, <1>7, <1>8, <1>9, <2>1 DEF HelperGoal
<1>12. HelperApplies(goal)'
  <2>1. \A k \in 1 .. Len(us) : us[k].leaf = goal[us[k].index]
    BY <1>6, <1>10
  <2>2. \A i \in 1 .. TreeSize : tree[i] = goal[i] \/ \E k \in 1 .. Len(us) : us[k].index = i
    BY <1>6, <1>10
  <2> QED BY <1>1, <2>1, <2>2 DEF HelperApplies
<1>13. HelperMerging(goal)' /\ HelperSplitting'
  <2>1. us[Len(us)].leaf.amount # 0
    BY <1>2, <1>10 DEF target
  <2>2. tree[us[Len(us)].index].amount = 0 /\ us[1].index # us[2].index
    BY <1>1, <1>3, <1>10
  <2> QED BY <1>1, <1>10, <2>1, <2>2 DEF HelperMerging, HelperSplitting
<1> QED
  BY <1>1, <1>2, <1>3, <1>10, <1>11, <1>12, <1>13 DEF HelperInv

LEMMA SumRenamed ==
    ASSUME NEW F, NEW G, NEW h, NEW S, NEW A, IsFiniteSet(S), A = {h[x] : x \in S},
           \A x \in S : G[x] = F[h[x]] /\ F[h[x]] \in Int,
           \A x, y \in S : h[x] = h[y] => x = y
    PROVE  SumFunctionOnSet(G, S) = SumFunctionOnSet(F, A)
<1>1. SumFunctionOnSet(G, S) = SumFunctionOnSet(F, {h[x] : x \in S})
  BY SumImage
<1> QED
  BY <1>1

\* The leaves of A, named once each by h, are the signer's in t and empty in e.
Emptied(t, e, n, h, g, A, signer) ==
    /\ t \in HelperTree /\ e \in HelperTree /\ n \in Nat /\ signer \in Signers
    /\ \A k \in UpTo(n) : /\ h[k] \in UpTo(TreeSize) /\ t[h[k]].owner = signer
                          /\ g[k] = t[h[k]].amount
    /\ \A j, k \in UpTo(n) : h[j] = h[k] => j = k
    /\ A = {h[k] : k \in UpTo(n)}
    /\ \A i \in UpTo(TreeSize) : IF i \in A THEN e[i].amount = 0 ELSE e[i] = t[i]

\* Emptying leaves of one owner, each once, takes what they are worth from it.
LEMMA HelperEmptied ==
    ASSUME NEW t, NEW e, NEW n, NEW h, NEW g, NEW A, NEW signer, NEW m,
           Emptied(t, e, n, h, g, A, signer), m = SumFunctionOnSet(g, UpTo(n))
    PROVE  /\ m \in Nat
           /\ \A os : HelperWorth(e, os) = HelperWorth(t, os) - (IF signer \in os THEN m ELSE 0)
<1> USE DEF Emptied
<1>1. /\ IsFiniteSet(UpTo(n)) /\ IsFiniteSet(UpTo(TreeSize)) /\ A \in SUBSET UpTo(TreeSize)
  <2>1. IsFiniteSet(1 .. n)
    BY FS_Interval
  <2> QED BY <2>1, HelperConstants DEF UpTo
<1>2. \A i \in UpTo(TreeSize) : t[i] \in HelperLeaf /\ t[i].amount \in Nat
  BY DEF HelperTree, HelperLeaf, UpTo
<1>3. \A k \in UpTo(n) : g[k] = t[h[k]].amount /\ g[k] \in Nat
  BY <1>2
<1>4. /\ \A i \in A : e[i].amount = 0
      /\ \A i \in UpTo(TreeSize) : i \notin A => e[i] = t[i]
  BY <1>1
<1>5. m \in Nat
  <2>1. SumFunctionOnSet(g, UpTo(n)) \in Nat
    BY <1>1, <1>3, SumType
  <2> QED BY <2>1
<1>6. ASSUME NEW os
      PROVE  HelperWorth(e, os) = HelperWorth(t, os) - (IF signer \in os THEN m ELSE 0)
  <2> DEFINE F == HelperShare(t, os)
             G == HelperShare(e, os)
             c == [k \in 1 .. n |-> IF signer \in os THEN g[k] ELSE 0]
             z == [k \in 1 .. n |-> 0]
  <2>1. \A i \in UpTo(TreeSize) : F[i] \in Int /\ G[i] \in Int
    <3>1. \A i \in UpTo(TreeSize) : F[i] \in Nat /\ G[i] \in Nat
      BY <1>4, HelperWorthIs
    <3> HIDE DEF F, G
    <3> QED BY <3>1
  <2>2. \A i \in UpTo(TreeSize) \ A : F[i] = G[i]
    BY <1>4 DEF HelperShare, UpTo
  <2>3. \A k \in UpTo(n) : /\ c[k] = F[h[k]] /\ F[h[k]] \in Int
                           /\ z[k] = G[h[k]] /\ G[h[k]] \in Int
    <3> SUFFICES ASSUME NEW k \in UpTo(n)
                 PROVE  c[k] = F[h[k]] /\ F[h[k]] \in Int /\ z[k] = G[h[k]] /\ G[h[k]] \in Int
      OBVIOUS
    <3>1. k \in 1 .. n /\ h[k] \in A /\ h[k] \in 1 .. TreeSize /\ h[k] \in UpTo(TreeSize)
      BY <1>1 DEF UpTo
    <3>2. F[h[k]] = IF signer \in os THEN t[h[k]].amount ELSE 0
      BY <3>1 DEF HelperShare
    <3>3. G[h[k]] = 0
      BY <1>4, <3>1 DEF HelperShare
    <3>4. F[h[k]] \in Int /\ G[h[k]] \in Int
      BY <2>1, <3>1
    <3> HIDE DEF F, G
    <3> QED BY <1>3, <3>1, <3>2, <3>3, <3>4
  <2> HIDE DEF F, G
  <2>4. SumFunctionOnSet(c, UpTo(n)) = SumFunctionOnSet(F, A)
    <3> HIDE DEF c, z
    <3>1. IsFiniteSet(UpTo(n)) /\ \A k \in UpTo(n) : c[k] = F[h[k]] /\ F[h[k]] \in Int
      BY <1>1, <2>3
    <3> QED BY <3>1, SumRenamed
  <2>5. SumFunctionOnSet(z, UpTo(n)) = SumFunctionOnSet(G, A)
    <3> HIDE DEF c, z
    <3>1. IsFiniteSet(UpTo(n)) /\ \A k \in UpTo(n) : z[k] = G[h[k]] /\ G[h[k]] \in Int
      BY <1>1, <2>3
    <3> QED BY <3>1, SumRenamed
  <2>6. SumFunctionOnSet(z, UpTo(n)) = 0
    <3>1. SumFunctionOnSet(z, 1 .. n) = n * 0 /\ n * 0 = 0
      <4>1. \A k \in 1 .. n : z[k] = 0
        OBVIOUS
      <4> HIDE DEF z
      <4>2. SumFunctionOnSet(z, 1 .. n) = n * 0
        BY <4>1, SumConstant
      <4> QED BY <4>2
    <3> QED BY <3>1 DEF UpTo
  <2>7. SumFunctionOnSet(c, UpTo(n)) = IF signer \in os THEN m ELSE 0
    <3>1. CASE signer \in os
      <4>1. \A k \in UpTo(n) : c[k] = g[k]
        BY <3>1 DEF UpTo
      <4> HIDE DEF c
      <4>2. SumFunctionOnSet(c, UpTo(n)) = SumFunctionOnSet(g, UpTo(n))
        BY <1>1, <4>1, SumSame
      <4> QED BY <3>1, <4>2
    <3>2. CASE signer \notin os
      <4>1. \A k \in UpTo(n) : c[k] = z[k]
        BY <3>2 DEF UpTo
      <4> HIDE DEF c, z
      <4>2. SumFunctionOnSet(c, UpTo(n)) = SumFunctionOnSet(z, UpTo(n))
        BY <1>1, <4>1, SumSame
      <4> QED BY <2>6, <3>2, <4>2
    <3> QED BY <3>1, <3>2
  <2>8. SumFunctionOnSet(F, UpTo(TreeSize) \ A) = SumFunctionOnSet(G, UpTo(TreeSize) \ A)
    <3>1. IsFiniteSet(UpTo(TreeSize) \ A)
      BY <1>1, FS_Subset
    <3> QED BY <2>2, <3>1, SumSame
  <2>9. SumFunctionOnSet(F, UpTo(TreeSize)) = SumFunctionOnSet(F, A) + SumFunctionOnSet(F, UpTo(TreeSize) \ A)
    BY <1>1, <2>1, SumParts
  <2>10. SumFunctionOnSet(G, UpTo(TreeSize)) = SumFunctionOnSet(G, A) + SumFunctionOnSet(G, UpTo(TreeSize) \ A)
    BY <1>1, <2>1, SumParts
  <2>11. SumFunctionOnSet(F, UpTo(TreeSize) \ A) \in Int
    <3>1. IsFiniteSet(UpTo(TreeSize) \ A) /\ \A i \in UpTo(TreeSize) \ A : F[i] \in Int
      BY <1>1, <2>1, FS_Subset
    <3> QED BY <3>1, SumType
  <2> HIDE DEF c, z
  <2>12. SumFunctionOnSet(G, UpTo(TreeSize))
          = SumFunctionOnSet(F, UpTo(TreeSize)) - (IF signer \in os THEN m ELSE 0)
    <3>1. PICK f, b, d : /\ f = SumFunctionOnSet(F, UpTo(TreeSize))
                         /\ b = SumFunctionOnSet(F, UpTo(TreeSize) \ A)
                         /\ d = IF signer \in os THEN m ELSE 0
      OBVIOUS
    <3>2. b \in Int /\ d \in Int
      BY <1>5, <2>11, <3>1
    <3>3. f = d + b
      BY <2>4, <2>7, <2>9, <3>1, Zenon
    <3>4. SumFunctionOnSet(G, UpTo(TreeSize)) = 0 + b
      BY <2>5, <2>6, <2>8, <2>10, <3>1, Zenon
    <3>5. SumFunctionOnSet(G, UpTo(TreeSize)) = f - d
      BY <3>2, <3>3, <3>4
    <3> QED BY <3>1, <3>5, Zenon
  <2> QED BY <2>12 DEF HelperWorth, F, G
<1> QED
  BY <1>4, <1>5, <1>6

\* A merge gives its target what the leaves it empties were worth: a target of the
\* other signer is given that.
LEMMA HelperMerge ==
    ASSUME ~Repeats, HelperInv, NEW signer \in Signers, NEW sources \in Helpers!SourceLists,
           NEW t \in 1 .. TreeSize, Helpers!MergeSpentLeaves(sources, t, signer)
    PROVE  HelperInv'
<1> DEFINE n == Len(sources)
           empty == [owner |-> Nobody, amount |-> 0]
           owner == IF tree[t].amount = 0 THEN signer ELSE tree[t].owner
           g == [k \in DOMAIN sources |-> tree[sources[k]].amount]
           m == Helpers!Moved(sources)
           target == [owner |-> owner, amount |-> tree[t].amount + m]
           first == [index |-> t, leaf |-> target]
           rest == [k \in DOMAIN sources |-> [index |-> sources[k], leaf |-> empty]]
           us == <<first>> \o rest
           A == {sources[k] : k \in UpTo(n)}
<1>1. PICK b \in 0 .. MaxSources : sources \in [1 .. b -> 1 .. TreeSize]
  BY DEF Helpers!SourceLists, Helpers!BoundedSeq, Helpers!SeqOf
<1>2. /\ n \in Nat \ {0} /\ DOMAIN sources = 1 .. n
      /\ \A k \in 1 .. n : sources[k] \in 1 .. TreeSize
  <2>1. sources # <<>>
    BY DEF Helpers!SourceLists
  <2> QED BY <1>1, <2>1
<1>3. \A j, k \in 1 .. n : sources[j] = sources[k] => j = k
  BY <1>2 DEF Helpers!SourceLists, Helpers!IsInjective
<1>4. /\ updates = <<>> /\ updates' = us /\ tree' = tree
      /\ \A k \in 1 .. n : tree[sources[k]].owner = signer /\ sources[k] # t
      /\ given' = IF tree[t].amount = 0 \/ tree[t].owner = signer THEN given
                  ELSE [given EXCEPT ![tree[t].owner] = @ + m, ![signer] = @ - m]
  <2>1. t \notin {sources[k] : k \in 1 .. n}
    BY <1>2 DEF Helpers!MergeSpentLeaves, Helpers!Range
  <2>2. \A k \in 1 .. n : tree[sources[k]].owner = signer /\ sources[k] # t
    BY <1>2, <2>1 DEF Helpers!MergeSpentLeaves
  <2> HIDE DEF n
  <2> QED
    BY <2>2 DEF Helpers!MergeSpentLeaves, Helpers!Call, Helpers!IsEmpty, Helpers!MergeUpdates,
                Helpers!Update, Helpers!Standard, Helpers!Empty
<1>5. HelperGoal(tree) /\ given \in [Signers -> Int]
  BY <1>4, HelperSettled DEF HelperInv
<1>6. tree \in HelperTree /\ \A i \in 1 .. TreeSize : tree[i] \in HelperLeaf /\ tree[i].amount \in Nat
  BY <1>5 DEF HelperGoal, HelperTree, HelperLeaf
<1>7. owner \in Signers
  BY <1>5, <1>6 DEF HelperGoal
<1>8. /\ DOMAIN g = 1 .. n /\ m = SumFunctionOnSet(g, UpTo(n))
      /\ \A k \in UpTo(n) : g[k] = tree[sources[k]].amount
  BY <1>2, HelperSum DEF Helpers!Moved, Helpers!SumFunction, UpTo
<1>9. /\ \A k \in UpTo(n) : sources[k] \in UpTo(TreeSize) /\ tree[sources[k]].owner = signer
      /\ \A j, k \in UpTo(n) : sources[j] = sources[k] => j = k
  BY <1>2, <1>3, <1>4 DEF UpTo
<1>10. A \in SUBSET UpTo(TreeSize) /\ t \notin A /\ t \in UpTo(TreeSize)
  BY <1>2, <1>4 DEF UpTo
<1> HIDE DEF n, owner, g, m, A, target, first, rest
<1>11. PICK e : e = [i \in 1 .. TreeSize |-> IF i \in A THEN empty ELSE tree[i]]
  OBVIOUS
<1>12. /\ e \in HelperTree
       /\ \A i \in 1 .. TreeSize : e[i] = IF i \in A THEN empty ELSE tree[i]
  BY <1>6, <1>11 DEF HelperTree, HelperLeaf
<1>13. /\ m \in Nat
       /\ \A os : HelperWorth(e, os) = HelperWorth(tree, os) - (IF signer \in os THEN m ELSE 0)
  <2>1. \A i \in UpTo(TreeSize) : IF i \in A THEN e[i].amount = 0 ELSE e[i] = tree[i]
    BY <1>12 DEF UpTo
  <2>2. \A k \in UpTo(n) : /\ sources[k] \in UpTo(TreeSize) /\ tree[sources[k]].owner = signer
                           /\ g[k] = tree[sources[k]].amount
    BY <1>8, <1>9
  <2>3. A = {sources[k] : k \in UpTo(n)}
    BY DEF A
  <2>4. n \in Nat
    BY <1>2
  <2>5. tree \in HelperTree /\ e \in HelperTree /\ m = SumFunctionOnSet(g, UpTo(n))
    BY <1>6, <1>8, <1>12
  <2>6. \A j, k \in UpTo(n) : sources[j] = sources[k] => j = k
    BY <1>9
  <2>7. Emptied(tree, e, n, sources, g, A, signer)
    BY <2>1, <2>2, <2>3, <2>4, <2>5, <2>6 DEF Emptied
  <2>8. m = SumFunctionOnSet(g, UpTo(n))
    BY <2>5
  <2> QED BY <2>7, <2>8, HelperEmptied
<1>14. target \in HelperLeaf /\ target.owner = owner /\ target.amount = tree[t].amount + m
  BY <1>6, <1>7, <1>13 DEF target, HelperLeaf
<1>15. PICK goal : goal = [e EXCEPT ![t] = target]
  OBVIOUS
<1>16. /\ goal \in HelperTree /\ goal[t] = target
       /\ \A i \in 1 .. TreeSize : i # t => goal[i] = e[i]
  BY <1>12, <1>14, <1>15 DEF HelperTree
<1>17. e[t] = tree[t]
  BY <1>10, <1>12
<1>18. ASSUME NEW os
       PROVE  /\ HelperWorth(goal, os) = HelperWorth(tree, os)
                   - (IF signer \in os THEN m ELSE 0) + (IF owner \in os THEN m ELSE 0)
              /\ HelperWorth(tree, os) \in Nat
  <2>1. \A i \in UpTo(TreeSize) : i # t => goal[i] = e[i]
    BY <1>16 DEF UpTo
  <2>2. HelperWorth(goal, os) = HelperWorth(e, os)
          - (IF e[t].owner \in os THEN e[t].amount ELSE 0)
          + (IF goal[t].owner \in os THEN goal[t].amount ELSE 0)
    <3>1. e \in HelperTree /\ goal \in HelperTree /\ t \in UpTo(TreeSize)
      BY <1>10, <1>12, <1>16
    <3> QED BY <2>1, <3>1, HelperWorthChange
  <2>3. HelperWorth(tree, os) \in Nat
    BY <1>6, HelperWorthIs
  <2>4. tree[t].amount \in Nat /\ (tree[t].amount # 0 => owner = tree[t].owner)
    BY <1>6 DEF owner
  <2>5. HelperWorth(goal, os) = HelperWorth(e, os)
          - (IF tree[t].owner \in os THEN tree[t].amount ELSE 0)
          + (IF owner \in os THEN tree[t].amount + m ELSE 0)
    BY <1>14, <1>16, <1>17, <2>2
  <2>6. HelperWorth(e, os) = HelperWorth(tree, os) - (IF signer \in os THEN m ELSE 0)
    BY <1>13
  <2>7. HelperWorth(e, os) \in Int
    BY <1>13, <2>3, <2>6
  <2>8. HelperWorth(goal, os) = HelperWorth(e, os) + (IF owner \in os THEN m ELSE 0)
    <3>1. CASE tree[t].amount = 0
      BY <1>13, <2>4, <2>5, <2>7, <3>1
    <3>2. CASE tree[t].amount # 0
      BY <1>13, <2>4, <2>5, <2>7, <3>2
    <3> QED BY <3>1, <3>2
  <2> QED BY <2>3, <2>6, <2>8
<1>19. HelperWorth(tree, Everyone) = Deposit
  <2>1. 1 \in 1 .. n /\ Nobody \notin Signers
    BY <1>2, HelperConstants
  <2>2. sources[1] \in 1 .. TreeSize /\ tree[sources[1]].owner # Nobody
    BY <1>2, <1>4, <2>1
  <2>3. tree # Helpers!Padded(<<>>)
    BY <2>2, HelperUnopened
  <2> QED BY <1>5, <2>3 DEF HelperGoal
<1>20. HelperWorth(goal, Everyone) = Deposit
  <2>1. signer \in Everyone /\ owner \in Everyone
    BY <1>7 DEF Everyone
  <2>2. HelperWorth(goal, Everyone) = HelperWorth(tree, Everyone) - m + m
    BY <1>18, <2>1
  <2> QED BY <1>13, <1>18, <1>19, <2>2
<1>21. /\ given' \in [Signers -> Int]
       /\ \A s \in Signers : given'[s] = given[s] - (IF s = signer THEN m ELSE 0)
                                                  + (IF s = owner THEN m ELSE 0)
  <2>1. \A s \in Signers : given[s] \in Int
    BY <1>5
  <2>2. CASE tree[t].amount = 0 \/ tree[t].owner = signer
    <3>1. given' = given /\ owner = signer
      BY <1>4, <2>2 DEF owner
    <3> QED BY <1>5, <1>13, <2>1, <3>1
  <2>3. CASE ~(tree[t].amount = 0 \/ tree[t].owner = signer)
    <3>1. /\ owner = tree[t].owner /\ owner # signer
          /\ given' = [given EXCEPT ![owner] = @ + m, ![signer] = @ - m]
      BY <1>4, <2>3 DEF owner
    <3>2. /\ given'[owner] = given[owner] + m /\ given'[signer] = given[signer] - m
          /\ \A s \in Signers : s # owner /\ s # signer => given'[s] = given[s]
          /\ given' \in [Signers -> Int]
      BY <1>5, <1>7, <1>13, <2>1, <3>1
    <3> QED BY <1>7, <1>13, <2>1, <3>1, <3>2
  <2> QED BY <2>2, <2>3
<1>22. \A s \in Signers : HelperWorth(goal, {s}) = given'[s]
  <2> SUFFICES ASSUME NEW s \in Signers PROVE HelperWorth(goal, {s}) = given'[s]
    OBVIOUS
  <2>1. HelperWorth(tree, {s}) = given[s]
    BY <1>5 DEF HelperGoal
  <2>2. HelperWorth(goal, {s}) = HelperWorth(tree, {s})
          - (IF signer \in {s} THEN m ELSE 0) + (IF owner \in {s} THEN m ELSE 0)
    BY <1>18
  <2> QED BY <1>21, <2>1, <2>2
<1>23. \A i \in 1 .. TreeSize : goal[i].amount > 0 => goal[i].owner \in Signers
  <2> SUFFICES ASSUME NEW i \in 1 .. TreeSize, goal[i].amount > 0 PROVE goal[i].owner \in Signers
    OBVIOUS
  <2>1. CASE i = t
    BY <1>7, <1>14, <1>16, <2>1
  <2>2. CASE i # t
    <3>1. goal[i] = e[i] /\ i \notin A
      BY <1>12, <1>16, <2>2
    <3>2. goal[i] = tree[i]
      BY <1>12, <3>1
    <3> QED BY <1>5, <3>2 DEF HelperGoal
  <2> QED BY <2>1, <2>2
<1>24. /\ us \in Seq(HelperUpdate) /\ Len(us) = n + 1 /\ us # <<>> /\ us[1] = first
       /\ \A k \in 1 .. n : us[k + 1] = [index |-> sources[k], leaf |-> empty]
  <2>1. first \in HelperUpdate
    BY <1>14 DEF first, HelperUpdate
  <2>2. /\ rest \in Seq(HelperUpdate) /\ Len(rest) = n
        /\ \A k \in 1 .. n : rest[k] = [index |-> sources[k], leaf |-> empty]
    <3>1. rest = [k \in 1 .. n |-> [index |-> sources[k], leaf |-> empty]]
      BY <1>2 DEF rest
    <3>2. \A k \in 1 .. n : [index |-> sources[k], leaf |-> empty] \in HelperUpdate
      BY <1>2 DEF HelperUpdate, HelperLeaf
    <3> QED BY <1>2, <3>1, <3>2
  <2> QED BY <1>2, <2>1, <2>2
<1> HIDE DEF us
<1>25. /\ \A k \in 2 .. n + 1 : us[k].leaf = empty /\ us[k].index = sources[k - 1] /\ k - 1 \in 1 .. n
       /\ us[1].leaf = target /\ us[1].index = t
  <2>1. \A k \in 2 .. n + 1 : k - 1 \in 1 .. n /\ us[(k - 1) + 1] = us[k]
    BY <1>2
  <2>2. \A k \in 2 .. n + 1 : us[k] = [index |-> sources[k - 1], leaf |-> empty]
    BY <1>24, <2>1
  <2>3. \A k \in 2 .. n + 1 : us[k].leaf = empty /\ us[k].index = sources[k - 1]
    <3> HIDE DEF empty
    <3> SUFFICES ASSUME NEW k \in 2 .. n + 1
                 PROVE  us[k].leaf = empty /\ us[k].index = sources[k - 1]
      OBVIOUS
    <3>1. us[k] = [index |-> sources[k - 1], leaf |-> empty]
      BY <2>2
    <3> QED BY <3>1
  <2>4. us[1].leaf = target /\ us[1].index = t
    BY <1>24 DEF first
  <2> QED BY <2>1, <2>3, <2>4
<1>26. HelperGoal(goal)'
  BY <1>16, <1>20, <1>22, <1>23 DEF HelperGoal
<1>27. HelperApplies(goal)'
  <2>1. \A k \in 1 .. n : sources[k] \in A
    BY DEF A, UpTo
  <2>2. \A k \in 1 .. n : goal[sources[k]] = empty
    BY <1>2, <1>4, <1>12, <1>16, <2>1
  <2>3. \A k \in 1 .. Len(us) : us[k].leaf = goal[us[k].index]
    <3> SUFFICES ASSUME NEW k \in 1 .. n + 1 PROVE us[k].leaf = goal[us[k].index]
      BY <1>24
    <3>1. CASE k = 1
      BY <1>16, <1>25, <3>1
    <3>2. CASE k \in 2 .. n + 1
      BY <1>25, <2>2, <3>2
    <3> QED BY <1>2, <3>1, <3>2
  <2>4. \A i \in 1 .. TreeSize : tree[i] = goal[i] \/ \E k \in 1 .. Len(us) : us[k].index = i
    <3> SUFFICES ASSUME NEW i \in 1 .. TreeSize, tree[i] # goal[i]
                 PROVE  \E k \in 1 .. n + 1 : us[k].index = i
      BY <1>24
    <3>1. CASE i = t
      <4>1. 1 \in 1 .. n + 1
        BY <1>2
      <4> QED BY <1>25, <3>1, <4>1
    <3>2. CASE i # t
      <4>1. i \in A
        BY <1>12, <1>16, <3>2
      <4>2. PICK k \in 1 .. n : sources[k] = i
        BY <4>1 DEF A, UpTo
      <4>3. k + 1 \in 1 .. n + 1
        BY <1>2
      <4>4. us[k + 1] = [index |-> i, leaf |-> empty]
        BY <1>24, <4>2
      <4>5. us[k + 1].index = i
        BY <4>4
      <4> QED BY <4>3, <4>5
    <3> QED BY <3>1, <3>2
  <2> QED BY <1>4, <2>3, <2>4 DEF HelperApplies
<1>28. HelperMerging(goal)' /\ HelperSplitting'
  <2>1. n + 1 \in 2 .. n + 1 /\ \A k \in 2 .. Len(us) : us[k].leaf.amount = 0
    BY <1>2, <1>24, <1>25
  <2>2. us[Len(us)].leaf.amount = 0
    BY <1>24, <2>1
  <2> QED BY <1>4, <1>19, <2>1, <2>2 DEF HelperMerging, HelperSplitting
<1> QED
  BY <1>4, <1>6, <1>21, <1>24, <1>26, <1>27, <1>28 DEF HelperInv

LEMMA HelperStep == ~Repeats /\ HelperInv /\ [Helpers!Next]_helperVars => HelperInv'
<1> SUFFICES ASSUME ~Repeats, HelperInv, [Helpers!Next]_helperVars
             PROVE  HelperInv'
  OBVIOUS
<1>1. CASE UNCHANGED helperVars
  BY <1>1 DEF HelperInv, HelperGoal, HelperApplies, HelperMerging, HelperSplitting, helperVars
<1>2. CASE Helpers!UpdateLeaf
  BY <1>2, HelperApplied
<1>3. ASSUME NEW signer \in Signers, NEW tiers \in Helpers!Strategies, Helpers!Open(signer, tiers)
      PROVE  HelperInv'
  BY <1>3, HelperOpen
<1>4. ASSUME NEW signer \in Signers, NEW r \in 1 .. TreeSize, NEW t \in 1 .. TreeSize,
             NEW a \in SplitAmounts, Helpers!SplitFromRest(r, t, a, signer)
      PROVE  HelperInv'
  BY <1>4, HelperSplit
<1>5. ASSUME NEW signer \in Signers, NEW s \in Helpers!SourceLists, NEW t \in 1 .. TreeSize,
             Helpers!MergeSpentLeaves(s, t, signer)
      PROVE  HelperInv'
  BY <1>5, HelperMerge
<1>6. ASSUME NEW signer \in Signers, NEW to \in Signers, NEW i \in 1 .. TreeSize,
             Helpers!Transfer(i, signer, to)
      PROVE  HelperInv'
  BY <1>6, HelperTransfer
<1> QED
  BY <1>1, <1>2, <1>3, <1>4, <1>5, <1>6 DEF Helpers!Next

-----------------------------------------------------------------------------
(* The parts together: a behaviour of a part keeps the part's invariant.     *)

partsVars == <<part, vars, engineVars, helperVars, htlcVars, hopVars, complianceVars>>

PartsInv ==
    /\ part = "engine" => EngineInv
    /\ part = "helpers" /\ ~Repeats => HelperInv
    /\ part = "htlcs" => HtlcInv
    /\ part = "hops" => HopsInv
    /\ part = "limits" /\ Threshold > 0 => LimitsInv

LEMMA PartsStep == PartsInv /\ [PartsNext]_partsVars => PartsInv'
<1> SUFFICES ASSUME PartsInv, [PartsNext]_partsVars
             PROVE  PartsInv'
  OBVIOUS
<1>1. part' = part
  BY DEF PartsNext, partsVars
<1>2. CASE part = "engine"
  <2>1. [Engine!Next]_engineVars
    BY <1>2 DEF PartsNext, partsVars
  <2> QED
    BY <1>1, <1>2, <2>1, EngineStep DEF PartsInv
<1>3. CASE part = "helpers"
  <2>1. [Helpers!Next]_helperVars
    BY <1>3 DEF PartsNext, partsVars
  <2> QED
    BY <1>1, <1>3, <2>1, HelperStep DEF PartsInv
<1>4. CASE part = "htlcs"
  <2>1. [Htlcs!Next]_htlcVars
    BY <1>4 DEF PartsNext, partsVars
  <2> QED
    BY <1>1, <1>4, <2>1, HtlcStep DEF PartsInv
<1>5. CASE part = "hops"
  <2>1. [Hops!Next]_hopVars
    BY <1>5 DEF PartsNext, partsVars
  <2> QED
    BY <1>1, <1>5, <2>1, HopsStep DEF PartsInv
<1>6. CASE part = "limits"
  <2>1. [Limits!Next]_complianceVars
    BY <1>6 DEF PartsNext, partsVars
  <2> QED
    BY <1>1, <1>6, <2>1, LimitsStep DEF PartsInv
<1> QED
  BY <1>1, <1>2, <1>3, <1>4, <1>5, <1>6 DEF PartsInv

LEMMA PartsInvHolds == PartsSpec => []PartsInv
<1>1. PartsInit => PartsInv
  BY EngineInit, HelperInit, HtlcInit, HopsInit, LimitsInit DEF PartsInit, PartsInv
<1> QED
  BY <1>1, PartsStep, PTL DEF PartsSpec, partsVars

\* Every claim pays its leaf once, whatever operation pays it and wherever a
\* crash cuts the write: the claims add up to total_claimed and stay within the
\* deposits (claim_leaf, claim_leaf_with_proof, claim_htlc_*, persist_state).
THEOREM ClaimsOnce == PartsSpec => []EveryLeafPaidOnce
<1>1. PartsInv => EveryLeafPaidOnce
  BY DEF PartsInv, EngineInv, EveryLeafPaidOnce
<1> QED
  BY <1>1, PartsInvHolds, PTL

\* Until a crash cuts a write, no deposit drops out of the tree: the unclaimed
\* leaves cover what is left of the deposits, through pipelines, batches, splits,
\* disputes and claims in any order (Pipeline, apply_leaf_update_batch).
THEOREM DepositCovered == PartsSpec => []LeavesCoverDeposit
<1>1. PartsInv => LeavesCoverDeposit
  BY BackedCovers DEF PartsInv, LeavesCoverDeposit
<1> QED
  BY <1>1, PartsInvHolds, PTL

\* Splitting, merging and opening with a strategy move no money between the signers
\* but what a transfer or a merge into the other's leaf gives, and lose none; a
\* split half applied is worth no more than the deposit, a merge no less: for every
\* strategy, tree and number of calls, when a merge names each source once, as its
\* callers do (split_from_rest, merge_spent_leaves, generate_leaves).
THEOREM MoneyKept == ~Repeats /\ PartsSpec => []HelpersKeepTheMoney
<1>1. ~Repeats /\ PartsInv => HelpersKeepTheMoney
  BY HelpersKept DEF PartsInv, HelpersKeepTheMoney
<1>2. CASE Repeats
  BY <1>2, PTL
<1>3. CASE ~Repeats
  <2>1. PartsInv => HelpersKeepTheMoney
    BY <1>1, <1>3
  <2> QED
    BY <2>1, PartsInvHolds, PTL
<1> QED
  BY <1>2, <1>3

\* An HTLC is fulfilled or refunded and never both, across expiry, cleanup and
\* restarts: but for a lock that was created again, and for records that a restart
\* brought back after a save that failed (HtlcManager).
THEOREM HtlcOneWay == PartsSpec => []HtlcPaysOneWay
<1>1. PartsInv => HtlcPaysOneWay
  BY OneEndPays DEF PartsInv, HtlcPaysOneWay
<1> QED
  BY <1>1, PartsInvHolds, PTL

\* A payment over several channels is complete exactly when every hop is resolved,
\* no hop is before the preimage was shown, and every hub has a whole margin to
\* collect upstream, for any amounts and challenge period a caller asks for and any
\* number of hops, however the service's requests interleave with expiry and restarts
\* (multihop.rs).
THEOREM HopsCovered == PartsSpec => []HopsAreCovered
<1>1. PartsInv => HopsAreCovered
  BY HopsInvCovers DEF PartsInv, HopsAreCovered
<1> QED
  BY <1>1, PartsInvHolds, PTL

\* What compute_hop_amounts returns gives the destination its amount and leaves every
\* hub its fee, for every amount, every list of rates and every width of the amounts.
THEOREM ComputedFeesAreKept ==
    \A destination \in 0 .. MaxU64, rates \in Seq(Nat) :
        rates # <<>> /\ Hops!Computable(destination, rates)
            => Hops!FeesAreKept(destination, rates)
<1>1. MaxU64 \in Nat
  BY PartsAssumption DEF Hops!MultiHopAssumption
<1> QED
  BY <1>1, ComputedFees

\* What the engine applies, and what other callers record within any one window of
\* slots, stays below the threshold but for one payment that reaches it and one more
\* after each hold that was lifted, however batches, rollbacks, other callers and lifted
\* holds interleave, for batches of any length and every limit but a threshold of
\* 0, which the first payment reaches (ComplianceManager, apply_leaf_update_batch).
THEOREM SpendingHeld == Threshold > 0 /\ PartsSpec => []SpendingIsHeld
<1>1. Threshold > 0 /\ PartsInv => SpendingIsHeld
  BY LimitsInvHolds DEF PartsInv, SpendingIsHeld
<1>2. CASE ~(Threshold > 0)
  BY <1>2, PTL
<1>3. CASE Threshold > 0
  <2>1. PartsInv => SpendingIsHeld
    BY <1>1, <1>3
  <2> QED
    BY <2>1, PartsInvHolds, PTL
<1> QED
  BY <1>2, <1>3

=============================================================================
