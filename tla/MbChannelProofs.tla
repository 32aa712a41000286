-------------------------- MODULE MbChannelProofs --------------------------
(***************************************************************************)
(* Proofs about MbChannel for every set of merchants, mints, amounts,      *)
(* periods and roots, and every value of the bounds.                       *)
(***************************************************************************)
EXTENDS MbChannelProperties, FiniteSetTheorems, WellFoundedInduction, TLAPS

(* Sums over finite sets.  The induction is over the finite subsets of a set *)
(* ordered by inclusion, put as: of the subsets that break a claim one is    *)
(* the smallest.                                                             *)

\* Of the finite sets with a property, one has no proper subset with it.
LEMMA SmallestSet ==
    ASSUME NEW S, IsFiniteSet(S), NEW Q \in SUBSET SUBSET S, Q # {}
    PROVE  \E T \in Q : \A U \in Q : U \subseteq T => U = T
<1>1. Q \subseteq FiniteSubsetsOf(S)
  BY FS_FiniteSubsetsOfFinite
<1>2. PICK T \in Q : \A U \in Q : <<U, T>> \notin StrictSubsetOrdering(S)
  BY <1>1, FS_StrictSubsetOrderingWellFounded, WFMin
<1> QED
  BY <1>2 DEF StrictSubsetOrdering

Some(s) == CHOOSE x \in s : TRUE
Adds(g, F, S) ==
    g = [s \in SUBSET S |-> IF s = {} THEN 0 ELSE F[Some(s)] + g[s \ {Some(s)}]]

LEMMA SomeIn == \A s : s # {} => Some(s) \in s
  BY DEF Some

LEMMA AddsOnce ==
    ASSUME NEW F, NEW A, NEW B, NEW T, IsFiniteSet(T), T \subseteq A, T \subseteq B,
           NEW g, NEW h, Adds(g, F, A), Adds(h, F, B)
    PROVE  g[T] = h[T]
<1> DEFINE Q == {s \in SUBSET T : g[s] # h[s]}
<1>1. SUFFICES ASSUME Q # {} PROVE FALSE
  OBVIOUS
<1>2. PICK s \in Q : \A u \in Q : u \subseteq s => u = s
  <2> HIDE DEF Q
  <2>1. Q \in SUBSET SUBSET T
    BY DEF Q
  <2> QED
    BY <1>1, <2>1, SmallestSet
<1>3. s \in SUBSET A /\ s \in SUBSET B
  OBVIOUS
<1>4. /\ g[s] = IF s = {} THEN 0 ELSE F[Some(s)] + g[s \ {Some(s)}]
      /\ h[s] = IF s = {} THEN 0 ELSE F[Some(s)] + h[s \ {Some(s)}]
  BY <1>3 DEF Adds
<1>5. s # {}
  BY <1>4
<1>6. g[s \ {Some(s)}] = h[s \ {Some(s)}]
  BY <1>2, <1>5, SomeIn
<1> QED
  BY <1>2, <1>4, <1>5, <1>6

LEMMA AddsExists ==
    ASSUME NEW F, NEW S, IsFiniteSet(S)
    PROVE  \E g : Adds(g, F, S)
<1> DEFINE Q == {T \in SUBSET S : ~ \E g : Adds(g, F, T)}
<1>1. SUFFICES ASSUME Q # {} PROVE FALSE
  OBVIOUS
<1>2. PICK T \in Q : \A U \in Q : U \subseteq T => U = T
  <2> HIDE DEF Q
  <2>1. Q \in SUBSET SUBSET S
    BY DEF Q
  <2> QED
    BY <1>1, <2>1, SmallestSet
<1> DEFINE G(u) == CHOOSE g : Adds(g, F, u)
           Less(s) == s \ {Some(s)}
           f == [s \in SUBSET T |-> IF s = {} THEN 0 ELSE F[Some(s)] + G(Less(s))[Less(s)]]
<1>3. ASSUME NEW u \in SUBSET T, u # T PROVE Adds(G(u), F, u)
  BY <1>2, <1>3
<1>4. ASSUME NEW s \in SUBSET T, s # {}
      PROVE  Less(s) \in SUBSET T /\ Less(s) # T
  BY <1>4, SomeIn
<1>5. ASSUME NEW u \in SUBSET T, u # T PROVE f[u] = G(u)[u]
  <2>1. CASE u = {}
    <3>1. Adds(G(u), F, u)
      BY <1>3, <1>5
    <3>2. G(u)[u] = 0
      <4> HIDE DEF G
      <4> QED
        BY <2>1, <3>1 DEF Adds
    <3> QED
      BY <2>1, <3>2
  <2>2. CASE u # {}
    <3>1. G(u)[u] = F[Some(u)] + G(u)[Less(u)]
      <4>1. Adds(G(u), F, u)
        BY <1>3, <1>5
      <4> HIDE DEF G
      <4> QED
        BY <2>2, <4>1 DEF Adds
    <3>2. G(u)[Less(u)] = G(Less(u))[Less(u)]
      <4>1. Adds(G(u), F, u) /\ Adds(G(Less(u)), F, Less(u))
        BY <1>3, <1>4, <1>5, <2>2
      <4>2. Less(u) \subseteq u /\ Less(u) \subseteq Less(u) /\ Less(u) \in SUBSET S
        OBVIOUS
      <4>3. IsFiniteSet(Less(u))
        BY <4>2, FS_Subset
      <4> HIDE DEF G, Less
      <4> QED
        BY <4>1, <4>2, <4>3, AddsOnce
    <3> HIDE DEF G, Less
    <3> QED
      BY <2>2, <3>1, <3>2
  <2> QED
    BY <2>1, <2>2
<1>6. Adds(f, F, T)
  <2>1. \A s \in SUBSET T : s # {} => G(Less(s))[Less(s)] = f[Less(s)]
    <3> HIDE DEF G, Less, f
    <3> QED
      BY <1>4, <1>5
  <2> HIDE DEF G
  <2>2. f = [s \in SUBSET T |-> IF s = {} THEN 0 ELSE F[Some(s)] + f[Less(s)]]
    <3> DEFINE h == [s \in SUBSET T |-> IF s = {} THEN 0 ELSE F[Some(s)] + f[Less(s)]]
    <3>1. \A s \in SUBSET T : f[s] = h[s]
      BY <2>1
    <3> QED
      BY <3>1
  <2> QED
    BY <2>2 DEF Adds
<1> QED
  BY <1>2, <1>6


LEMMA SumAdds ==
    ASSUME NEW F, NEW S, IsFiniteSet(S)
    PROVE  \E g : Adds(g, F, S) /\ SumFunctionOnSet(F, S) = g[S]
<1>1. SumFunctionOnSet(F, S) = (CHOOSE g : Adds(g, F, S))[S]
  BY DEF Adds, Some, SumFunctionOnSet, FoldFunctionOnSet, MapThenFoldSet
<1> QED
  BY <1>1, AddsExists

LEMMA SumSome ==
    ASSUME NEW F, NEW S, IsFiniteSet(S)
    PROVE  SumFunctionOnSet(F, S) = IF S = {} THEN 0 ELSE F[Some(S)] + SumFunctionOnSet(F, S \ {Some(S)})
<1>1. PICK g : Adds(g, F, S) /\ SumFunctionOnSet(F, S) = g[S]
  BY SumAdds
<1>2. SumFunctionOnSet(F, S) = IF S = {} THEN 0 ELSE F[Some(S)] + g[S \ {Some(S)}]
  BY <1>1 DEF Adds
<1> DEFINE R == S \ {Some(S)}
<1>3. IsFiniteSet(R) /\ R \subseteq S
  BY FS_Subset
<1> HIDE DEF R
<1>4. PICK h : Adds(h, F, R) /\ SumFunctionOnSet(F, R) = h[R]
  BY <1>3, SumAdds
<1>5. g[R] = h[R]
  BY <1>1, <1>3, <1>4, AddsOnce
<1> QED
  BY <1>2, <1>4, <1>5 DEF R

LEMMA SumEmpty == ASSUME NEW F PROVE SumFunctionOnSet(F, {}) = 0
BY FS_EmptySet, SumSome

\* Sums of integers are integers, of naturals naturals.
LEMMA SumType ==
    ASSUME NEW D \in {Int, Nat}, NEW F, NEW S, IsFiniteSet(S), \A i \in S : F[i] \in D
    PROVE  SumFunctionOnSet(F, S) \in D
<1> DEFINE Q == {T \in SUBSET S : SumFunctionOnSet(F, T) \notin D}
<1>1. SUFFICES ASSUME Q # {} PROVE FALSE
  OBVIOUS
<1>2. PICK T \in Q : \A U \in Q : U \subseteq T => U = T
  <2> HIDE DEF Q
  <2>1. Q \in SUBSET SUBSET S
    BY DEF Q
  <2> QED
    BY <1>1, <2>1, SmallestSet
<1> DEFINE rest == T \ {Some(T)}
<1>3. IsFiniteSet(T)
  BY FS_Subset
<1>4. T # {}
  BY SumEmpty
<1>5. Some(T) \in T /\ rest \in SUBSET S /\ rest \subseteq T /\ rest # T
  BY <1>4, SomeIn
<1>6. SumFunctionOnSet(F, rest) \in D
  BY <1>2, <1>5
<1>7. SumFunctionOnSet(F, T) = F[Some(T)] + SumFunctionOnSet(F, rest)
  BY <1>3, <1>4, SumSome
<1>8. F[Some(T)] \in D /\ SumFunctionOnSet(F, T) \notin D
  BY <1>5
<1> QED
  <2> HIDE DEF rest, Q
  <2> QED BY <1>6, <1>7, <1>8

\* The order of the summands does not matter: any of them can be taken out.
LEMMA SumTakeOut ==
    ASSUME NEW F, NEW S, IsFiniteSet(S), \A i \in S : F[i] \in Int, NEW x \in S
    PROVE  SumFunctionOnSet(F, S) = F[x] + SumFunctionOnSet(F, S \ {x})
<1> DEFINE Sum(T) == SumFunctionOnSet(F, T)
           Q == {T \in SUBSET S : \E z \in T : Sum(T) # F[z] + Sum(T \ {z})}
<1>1. SUFFICES ASSUME Q # {} PROVE FALSE
  OBVIOUS
<1>2. PICK T \in Q : \A U \in Q : U \subseteq T => U = T
  <2> HIDE DEF Q
  <2>1. Q \in SUBSET SUBSET S
    BY DEF Q
  <2> QED
    BY <1>1, <2>1, SmallestSet
<1>3. PICK z \in T : Sum(T) # F[z] + Sum(T \ {z})
  OBVIOUS
<1> DEFINE y == Some(T)
<1>4. IsFiniteSet(T) /\ y \in T /\ Sum(T) = F[y] + Sum(T \ {y})
  BY FS_Subset, SumSome, SomeIn
<1>5. y # z
  BY <1>3, <1>4
<1>6. /\ Sum(T \ {y}) = F[z] + Sum((T \ {y}) \ {z})
      /\ Sum(T \ {z}) = F[y] + Sum((T \ {z}) \ {y})
  <2> HIDE DEF Sum, y
  <2> QED BY <1>2, <1>4, <1>5
<1>7. (T \ {y}) \ {z} = (T \ {z}) \ {y}
  OBVIOUS
<1>8. Sum((T \ {y}) \ {z}) \in Int
  <2>1. IsFiniteSet((T \ {y}) \ {z})
    BY FS_Subset
  <2> QED
    BY <2>1, SumType
<1>9. F[y] \in Int /\ F[z] \in Int
  BY <1>4
<1> DEFINE rest == Sum((T \ {y}) \ {z})
<1>10. Sum(T) = F[y] + (F[z] + rest) /\ Sum(T \ {z}) = F[y] + rest
  <2> HIDE DEF Sum, y
  <2> QED BY <1>4, <1>6, <1>7
<1>11. rest \in Int
  BY <1>8
<1> QED
  <2> HIDE DEF Sum, y, Q, rest
  <2> QED BY <1>3, <1>9, <1>10, <1>11

\* The sum depends only on the summands.
LEMMA SumSame ==
    ASSUME NEW F, NEW G, NEW S, IsFiniteSet(S), \A i \in S : F[i] = G[i]
    PROVE  SumFunctionOnSet(F, S) = SumFunctionOnSet(G, S)
<1> DEFINE Q == {T \in SUBSET S : SumFunctionOnSet(F, T) # SumFunctionOnSet(G, T)}
<1>1. SUFFICES ASSUME Q # {} PROVE FALSE
  OBVIOUS
<1>2. PICK T \in Q : \A U \in Q : U \subseteq T => U = T
  <2> HIDE DEF Q
  <2>1. Q \in SUBSET SUBSET S
    BY DEF Q
  <2> QED
    BY <1>1, <2>1, SmallestSet
<1>3. T # {}
  BY SumEmpty
<1> DEFINE rest == T \ {Some(T)}
<1>4. Some(T) \in T /\ rest \in SUBSET S /\ rest \subseteq T /\ rest # T
  BY <1>3, SomeIn
<1>5. SumFunctionOnSet(F, rest) = SumFunctionOnSet(G, rest)
  BY <1>2, <1>4
<1>6. IsFiniteSet(T)
  BY FS_Subset
<1> QED
  BY <1>2, <1>3, <1>4, <1>5, <1>6, SumSome

\* One summand changes.
LEMMA SumChange ==
    ASSUME NEW F, NEW G, NEW S, IsFiniteSet(S), NEW x \in S,
           \A i \in S : F[i] \in Int /\ G[i] \in Int,
           \A i \in S \ {x} : F[i] = G[i]
    PROVE  SumFunctionOnSet(G, S) = SumFunctionOnSet(F, S) - F[x] + G[x]
<1>1. IsFiniteSet(S \ {x})
  BY FS_Subset
<1>2. SumFunctionOnSet(F, S \ {x}) = SumFunctionOnSet(G, S \ {x})
  BY <1>1, SumSame
<1>3. SumFunctionOnSet(F, S \ {x}) \in Int
  BY <1>1, SumType
<1>4. /\ SumFunctionOnSet(F, S) = F[x] + SumFunctionOnSet(F, S \ {x})
      /\ SumFunctionOnSet(G, S) = G[x] + SumFunctionOnSet(G, S \ {x})
  BY SumTakeOut
<1> QED
  BY <1>2, <1>3, <1>4

\* The same for functions of naturals.
LEMMA SumRest ==
    ASSUME NEW S, IsFiniteSet(S), NEW F \in [S -> Nat], NEW G \in [S -> Nat], NEW x \in S,
           \A i \in S : i # x => G[i] = F[i]
    PROVE  /\ SumFunctionOnSet(F, S) \in Nat /\ SumFunctionOnSet(G, S) \in Nat
           /\ SumFunctionOnSet(G, S) = (SumFunctionOnSet(F, S) - F[x]) + G[x]
<1>1. SumFunctionOnSet(F, S) \in Nat /\ SumFunctionOnSet(G, S) \in Nat
  <2>1. \A i \in S : F[i] \in Nat /\ G[i] \in Nat
    OBVIOUS
  <2> QED BY <2>1, SumType
<1>2. SumFunctionOnSet(G, S) = SumFunctionOnSet(F, S) - F[x] + G[x]
  <2>1. /\ \A i \in S : F[i] \in Int /\ G[i] \in Int
        /\ \A i \in S \ {x} : F[i] = G[i]
    OBVIOUS
  <2> QED BY <2>1, SumChange
<1> QED BY <1>1, <1>2

\* Summing term by term.
LEMMA SumPlus ==
    ASSUME NEW S, IsFiniteSet(S), NEW F, NEW G, NEW H,
           \A i \in S : F[i] \in Nat /\ G[i] \in Nat /\ H[i] = F[i] + G[i]
    PROVE  SumFunctionOnSet(H, S) = SumFunctionOnSet(F, S) + SumFunctionOnSet(G, S)
<1> DEFINE Sum(K, T) == SumFunctionOnSet(K, T)
           Q == {T \in SUBSET S : Sum(H, T) # Sum(F, T) + Sum(G, T)}
<1>1. SUFFICES ASSUME Q # {} PROVE FALSE
  OBVIOUS
<1>2. PICK T \in Q : \A U \in Q : U \subseteq T => U = T
  <2> HIDE DEF Q
  <2>1. Q \in SUBSET SUBSET S
    BY DEF Q
  <2> QED
    BY <1>1, <2>1, SmallestSet
<1>3. T # {}
  <2>1. Sum(H, {}) = 0 /\ Sum(F, {}) = 0 /\ Sum(G, {}) = 0
    BY SumEmpty
  <2>2. Sum(H, {}) = Sum(F, {}) + Sum(G, {})
    <3> HIDE DEF Sum
    <3> QED BY <2>1
  <2> HIDE DEF Sum
  <2> QED BY <1>2, <2>2
<1> DEFINE x == Some(T)
           rest == T \ {x}
<1>4. x \in T /\ x \in S /\ rest \in SUBSET S /\ rest \subseteq T /\ rest # T
  BY <1>3, SomeIn
<1>5. IsFiniteSet(T) /\ IsFiniteSet(rest)
  BY FS_Subset
<1>6. Sum(H, T) = H[x] + Sum(H, rest) /\ Sum(F, T) = F[x] + Sum(F, rest)
      /\ Sum(G, T) = G[x] + Sum(G, rest)
  BY <1>3, <1>5, SumSome
<1>7. Sum(H, rest) = Sum(F, rest) + Sum(G, rest)
  <2> HIDE DEF Sum, rest
  <2> QED BY <1>2, <1>4
<1>8. Sum(F, rest) \in Nat /\ Sum(G, rest) \in Nat
  <2>1. \A i \in rest : F[i] \in Nat /\ G[i] \in Nat
    OBVIOUS
  <2> HIDE DEF rest
  <2> QED BY <1>5, <2>1, SumType
<1>9. F[x] \in Nat /\ G[x] \in Nat /\ H[x] = F[x] + G[x]
  BY <1>4
<1>10. Sum(H, T) = Sum(F, T) + Sum(G, T)
  <2> HIDE DEF Sum, rest, x
  <2> QED BY <1>6, <1>7, <1>8, <1>9
<1> QED BY <1>2, <1>10

\* Nothing adds up to nothing.
LEMMA SumZero ==
    ASSUME NEW S, IsFiniteSet(S), NEW F, \A i \in S : F[i] = 0
    PROVE  SumFunctionOnSet(F, S) = 0
<1> DEFINE n == SumFunctionOnSet(F, S)
<1>1. \A i \in S : F[i] \in Nat /\ F[i] = F[i] + F[i]
  OBVIOUS
<1>2. n \in Nat
  BY <1>1, SumType
<1>3. n = n + n
  BY <1>1, SumPlus
<1>4. n = 0
  <2> HIDE DEF n
  <2> QED BY <1>2, <1>3
<1> QED BY <1>4

-----------------------------------------------------------------------------
USE ConstantsAssumption

(* The parts of an escrow's address.                                         *)
LEMMA EscrowParts ==
    ASSUME NEW e \in Escrows
    PROVE  /\ e[1] \in Channels /\ e[2] \in Nonces /\ e = <<e[1], e[2]>>
           /\ MerchantOf(e[1]) \in Merchants /\ MintOf(e[1]) \in Mints
  BY DEF Escrows, Channels, MerchantOf, MintOf

LEMMA ChannelParts ==
    ASSUME NEW c \in Channels
    PROVE  /\ MerchantOf(c) \in Merchants /\ MintOf(c) \in Mints
           /\ \A n \in Nonces : <<c, n>> \in Escrows
  BY DEF Escrows, Channels, MerchantOf, MintOf

-----------------------------------------------------------------------------
(* Updates of one account keep the type of the accounts.                     *)
LEMMA GlobalUpdate ==
    ASSUME NEW g \in [Mints -> GlobalState], NEW t \in Mints, NEW n \in Nat
    PROVE  /\ [g EXCEPT ![t].open = TRUE] \in [Mints -> GlobalState]
           /\ [g EXCEPT ![t].total_deposited = n] \in [Mints -> GlobalState]
           /\ [g EXCEPT ![t].total_allocated = n] \in [Mints -> GlobalState]
  BY DEF GlobalState

\* A mint's global state is charged n.
LEMMA GlobalCharged ==
    ASSUME NEW f \in [Mints -> GlobalState], NEW m \in Mints, NEW n, NEW g,
           g = [f EXCEPT ![m].total_allocated = @ + n]
    PROVE  /\ \A t \in Mints : g[t].total_deposited = f[t].total_deposited
           /\ \A t \in Mints \ {m} : g[t] = f[t]
           /\ g[m].total_allocated = f[m].total_allocated + n
  <1>1. f[m] \in GlobalState
    OBVIOUS
  <1>2. g[m] = [f[m] EXCEPT !.total_allocated = @ + n]
    OBVIOUS
  <1>3. \A t \in Mints \ {m} : g[t] = f[t]
    OBVIOUS
  <1>4. g[m].total_deposited = f[m].total_deposited
        /\ g[m].total_allocated = f[m].total_allocated + n
    BY <1>1, <1>2 DEF GlobalState
  <1> QED
    BY <1>3, <1>4

LEMMA ChannelUpdate ==
    ASSUME NEW f \in [Channels -> Channel], NEW c \in Channels,
           NEW n \in Nat, NEW k \in Nat
    PROVE  /\ [f EXCEPT ![c].spending_cap = n] \in [Channels -> Channel]
           /\ [f EXCEPT ![c].settled_amount = n] \in [Channels -> Channel]
           /\ [f EXCEPT ![c].settled_amount = n, ![c].nonce = k]
                \in [Channels -> Channel]
  <1>1. f[c] \in Channel
    OBVIOUS
  <1>2. [f[c] EXCEPT !.spending_cap = n] \in Channel
    BY <1>1 DEF Channel
  <1>3. [f[c] EXCEPT !.settled_amount = n] \in Channel
    BY <1>1 DEF Channel
  <1>4. [f[c] EXCEPT !.settled_amount = n, !.nonce = k] \in Channel
    BY <1>1 DEF Channel
  <1>5. [f EXCEPT ![c].spending_cap = n] \in [Channels -> Channel]
    BY <1>2
  <1>6. [f EXCEPT ![c].settled_amount = n] \in [Channels -> Channel]
    BY <1>3
  <1>7. [f EXCEPT ![c].settled_amount = n, ![c].nonce = k] \in [Channels -> Channel]
    BY <1>4
  <1> QED
    BY <1>5, <1>6, <1>7

LEMMA EscrowUpdate ==
    ASSUME NEW f \in [Escrows -> SettlementEscrow], NEW e \in Escrows, NEW n \in Nat
    PROVE  /\ [f EXCEPT ![e].disputed = TRUE] \in [Escrows -> SettlementEscrow]
           /\ [f EXCEPT ![e].claimed = TRUE, ![e].lamports = n]
                \in [Escrows -> SettlementEscrow]
  <1>1. f[e] \in SettlementEscrow
    OBVIOUS
  <1>2. [f[e] EXCEPT !.disputed = TRUE] \in SettlementEscrow
    BY <1>1 DEF SettlementEscrow
  <1>3. [f[e] EXCEPT !.claimed = TRUE, !.lamports = n] \in SettlementEscrow
    BY <1>1 DEF SettlementEscrow
  <1>4. [f EXCEPT ![e].disputed = TRUE] \in [Escrows -> SettlementEscrow]
    BY <1>2
  <1>5. [f EXCEPT ![e].claimed = TRUE, ![e].lamports = n] \in [Escrows -> SettlementEscrow]
    BY <1>3
  <1> QED
    BY <1>4, <1>5

-----------------------------------------------------------------------------
(* Type correctness, one lemma per group of instructions.                    *)
LEMMA TypeInit == Init => TypeOK
  BY DEF Init, TypeOK, GlobalState, Channel, SettlementEscrow, Messages, Payout

LEMMA TypeGlobal ==
    ASSUME TypeOK, NEW t \in Mints
    PROVE  /\ InitializeGlobal(t) => TypeOK'
           /\ \A a \in Amounts : Deposit(t, a) \/ Withdraw(t, a) => TypeOK'
  <1>1. global[t].total_deposited \in Nat /\ global[t].total_allocated \in Nat
    BY DEF TypeOK, GlobalState
  <1>2. ASSUME InitializeGlobal(t) PROVE TypeOK'
    <2>1. global' \in [Mints -> GlobalState]
      BY <1>2, GlobalUpdate, 0 \in Nat DEF TypeOK, InitializeGlobal
    <2> QED
      BY <1>2, <2>1 DEF TypeOK, InitializeGlobal, history
  <1>3. ASSUME NEW a \in Amounts, Deposit(t, a) PROVE TypeOK'
    <2>1. a \in Nat
      OBVIOUS
    <2>2. global[t].total_deposited + a \in Nat
      BY <1>1, <2>1
    <2>3. global' \in [Mints -> GlobalState]
      BY <1>3, <2>2, GlobalUpdate DEF TypeOK, Deposit
    <2>4. vault' \in [Mints -> Nat] /\ wallet' \in [Merchants \cup {Buyer} -> Nat]
      BY <1>3, <2>1 DEF TypeOK, Deposit
    <2> QED
      BY <1>3, <2>3, <2>4 DEF TypeOK, Deposit, history
  <1>4. ASSUME NEW a \in Amounts, Withdraw(t, a) PROVE TypeOK'
    <2>1. a \in Nat /\ global[t].total_deposited - a \in Nat
      BY <1>1, <1>4 DEF Withdraw, Fits
    <2>2. global' \in [Mints -> GlobalState]
      BY <1>4, <2>1, GlobalUpdate DEF TypeOK, Withdraw
    <2>3. vault' \in [Mints -> Nat] /\ wallet' \in [Merchants \cup {Buyer} -> Nat]
      BY <1>4, <2>1, SMTT(30) DEF TypeOK, Withdraw
    <2> QED
      BY <1>4, <2>2, <2>3 DEF TypeOK, Withdraw, history
  <1> QED
    BY <1>2, <1>3, <1>4

LEMMA TypeInitializeChannel ==
    ASSUME TypeOK, NEW c \in Channels, NEW cap \in Amounts,
           NEW cp \in Periods, NEW dp \in Periods, InitializeChannel(c, cap, cp, dp)
    PROVE  TypeOK'
  <1>1. cap \in Nat /\ cp \in Int /\ dp \in Int /\ MintOf(c) \in Mints
    BY ChannelParts
  <1>2. global[MintOf(c)].total_allocated + cap \in Nat
    BY <1>1 DEF TypeOK, GlobalState
  <1>3. global' \in [Mints -> GlobalState]
    BY <1>1, <1>2, GlobalUpdate DEF TypeOK, InitializeChannel
  <1>4. channel' \in [Channels -> Channel]
    BY <1>1 DEF TypeOK, InitializeChannel, NewChannel, Channel
  <1> QED
    BY <1>3, <1>4 DEF TypeOK, InitializeChannel, history

LEMMA TypeUpdateSpendingCap ==
    ASSUME TypeOK, NEW t \in Mints, NEW c \in Channels, NEW cap \in Amounts,
           UpdateSpendingCap(t, c, cap)
    PROVE  TypeOK'
  <1>1. cap \in Nat /\ CapIncrease(c, cap) \in Nat
    BY DEF CapIncrease, TypeOK, Channel
  <1>2. global[t].total_allocated + CapIncrease(c, cap) \in Nat
    BY <1>1 DEF TypeOK, GlobalState
  <1>3. global' \in [Mints -> GlobalState]
    BY <1>2, GlobalUpdate DEF TypeOK, UpdateSpendingCap
  <1>4. channel' \in [Channels -> Channel]
    BY <1>1, ChannelUpdate DEF TypeOK, UpdateSpendingCap
  <1> QED
    BY <1>3, <1>4 DEF TypeOK, UpdateSpendingCap, history

LEMMA TypeSignSettlement ==
    ASSUME TypeOK, NEW c \in Channels, NEW root \in Roots, NEW total \in Amounts,
           NEW n \in Nonces, SignSettlement(c, root, total, n)
    PROVE  TypeOK'
  <1>1. root \in Seq(Nat) /\ total \in Nat /\ n \in Nat
    BY DEF Nonces
  <1>2. SettlementMessage(c, root, total, n) \in Messages
    BY <1>1 DEF SettlementMessage, Messages
  <1> QED
    BY <1>2 DEF TypeOK, SignSettlement, history

LEMMA TypeMoveToEscrow ==
    ASSUME TypeOK, NEW c \in Channels, NEW root \in Roots, NEW total \in Amounts,
           NEW optimistic \in BOOLEAN, MoveToEscrow(c, root, total, optimistic)
    PROVE  TypeOK'
  <1>1. total \in Nat /\ root \in Seq(Nat) /\ MintOf(c) \in Mints
    BY ChannelParts
  <1>2. <<c, channel[c].nonce>> \in Escrows
    BY ChannelParts DEF MoveToEscrow
  <1>3. vault' \in [Mints -> Nat]
    BY <1>1 DEF TypeOK, MoveToEscrow, CanSettle
  <1>4. channel[c].settled_amount + total \in Nat /\ channel[c].nonce + 1 \in Nat
    BY <1>1 DEF TypeOK, Channel
  <1>5. channel' \in [Channels -> Channel]
    BY <1>4, ChannelUpdate DEF TypeOK, MoveToEscrow
  <1>6. ASSUME NEW r, r = [open |-> TRUE, amount |-> total, merkle_root |-> root,
                 created_at |-> now, claimed |-> FALSE, disputed |-> FALSE,
                 optimistic |-> optimistic, lamports |-> total]
        PROVE  r \in SettlementEscrow
    BY <1>1, <1>6 DEF TypeOK, SettlementEscrow
  <1>7. escrow' \in [Escrows -> SettlementEscrow]
    BY <1>2, <1>6 DEF TypeOK, MoveToEscrow
  <1> QED
    BY <1>3, <1>5, <1>7 DEF TypeOK, MoveToEscrow, history

(* PayOut needs a funded escrow: subtracting the amount leaves exactly 0.    *)
LEMMA TypePayOut ==
    ASSUME TypeOK, EscrowFunded, NEW e \in Escrows, ~escrow[e].claimed,
           NEW payee \in Merchants \cup {Buyer}, PayOut(e, payee)
    PROVE  /\ escrow[e].lamports - escrow[e].amount = 0
           /\ escrow' \in [Escrows -> SettlementEscrow]
           /\ wallet' \in [Merchants \cup {Buyer} -> Nat]
           /\ paid' \in [Escrows -> Payout]
           /\ disputed_at' \in [Escrows -> Int]
  <1>1. escrow[e].amount \in Nat /\ escrow[e].lamports = escrow[e].amount
    BY DEF TypeOK, EscrowFunded, SettlementEscrow
  <1>2. escrow[e].lamports - escrow[e].amount = 0
    BY <1>1
  <1>3. escrow' \in [Escrows -> SettlementEscrow]
    <2>1. escrow[e].lamports - escrow[e].amount \in Nat
      BY <1>2
    <2>2. escrow' = [escrow EXCEPT ![e].claimed = TRUE,
                        ![e].lamports = escrow[e].lamports - escrow[e].amount]
      BY DEF PayOut
    <2> QED
      BY <2>1, <2>2, EscrowUpdate DEF TypeOK
  <1>4. wallet' \in [Merchants \cup {Buyer} -> Nat]
    BY <1>1 DEF TypeOK, PayOut
  <1>5. [to |-> payee, at |-> now] \in Payout
    BY DEF TypeOK, Payout
  <1>6. paid' \in [Escrows -> Payout] /\ disputed_at' \in [Escrows -> Int]
    BY <1>5 DEF TypeOK, PayOut
  <1> QED
    BY <1>2, <1>3, <1>4, <1>6

LEMMA TypeEscrow ==
    ASSUME TypeOK, EscrowFunded, NEW e \in Escrows
    PROVE  /\ ReleaseSettlement(e) \/ ForceRelease(e) \/ Dispute(e) => TypeOK'
           /\ \A a \in Amounts : ResolveDispute(e, a) => TypeOK'
  <1>1. MerchantOf(e[1]) \in Merchants \cup {Buyer} /\ e[1] \in Channels
    BY EscrowParts
  <1>2. ASSUME ReleaseSettlement(e) PROVE TypeOK'
    BY <1>1, <1>2, TypePayOut DEF TypeOK, ReleaseSettlement
  <1>3. ASSUME ForceRelease(e) PROVE TypeOK'
    BY <1>1, <1>3, TypePayOut DEF TypeOK, ForceRelease
  <1>4. ASSUME Dispute(e) PROVE TypeOK'
    <2>1. escrow' \in [Escrows -> SettlementEscrow]
      BY <1>4, EscrowUpdate DEF TypeOK, Dispute
    <2>2. disputed_at' \in [Escrows -> Int]
      BY <1>4 DEF TypeOK, Dispute
    <2> QED
      BY <1>4, <2>1, <2>2 DEF TypeOK, Dispute, accounts
  <1>5. ASSUME NEW a \in Amounts, ResolveDispute(e, a) PROVE TypeOK'
    <2> DEFINE n == channel[e[1]].settled_amount - escrow[e].amount
    <2>1. n \in Nat
      <3>1. channel[e[1]] \in Channel /\ escrow[e] \in SettlementEscrow
        BY <1>1 DEF TypeOK
      <3>2. channel[e[1]].settled_amount \in Nat /\ escrow[e].amount \in Nat
        BY <3>1 DEF Channel, SettlementEscrow
      <3>3. 0 <= n
        BY <1>5 DEF ResolveDispute, Fits
      <3> QED BY <3>2, <3>3
    <2>2. channel' \in [Channels -> Channel]
      <3>1. channel' = [channel EXCEPT ![e[1]].settled_amount = n]
        BY <1>5 DEF ResolveDispute
      <3>2. channel \in [Channels -> Channel]
        BY DEF TypeOK
      <3> HIDE DEF n
      <3> QED BY <1>1, <2>1, <3>1, <3>2, ChannelUpdate
    <2> QED
      BY <1>5, <2>2, TypePayOut DEF TypeOK, ResolveDispute
  <1> QED
    BY <1>2, <1>3, <1>4, <1>5

LEMMA TypeNext == TypeOK /\ EscrowFunded /\ [Next]_vars => TypeOK'
  <1> SUFFICES ASSUME TypeOK, EscrowFunded, [Next]_vars PROVE TypeOK'
    OBVIOUS
  <1>1. CASE BuyerStep
    BY <1>1, TypeGlobal, TypeInitializeChannel, TypeUpdateSpendingCap,
       TypeSignSettlement, TypeEscrow DEF BuyerStep
  <1>2. CASE MerchantStep
    <2>1. CASE \E e \in Escrows : ReleaseSettlement(e) \/ ForceRelease(e)
      BY <2>1, TypeEscrow
    <2>2. CASE \E c \in Channels, root \in Roots, total \in Amounts :
                 SettleBatch(c, root, total) \/ OptimisticSettle(c, root, total)
      BY <2>2, TypeMoveToEscrow DEF SettleBatch, OptimisticSettle
    <2> QED
      BY <1>2, <2>1, <2>2 DEF MerchantStep
  <1>3. CASE Tick
    BY <1>3 DEF Tick, TypeOK, accounts, history
  <1>4. CASE UNCHANGED vars
    BY <1>4 DEF vars, TypeOK, accounts, history
  <1> QED
    BY <1>1, <1>2, <1>3, <1>4 DEF Next

-----------------------------------------------------------------------------
(* The effect of a step on the escrows and on what an escrow depends on.     *)
(* Every instruction has one of five effects; the invariants and the         *)
(* refinement are proved from the effects, not from the instructions.        *)
SameEscrow(e) ==
    escrow'[e] = escrow[e] /\ paid'[e] = paid[e] /\ disputed_at'[e] = disputed_at[e]

SameWindow(c) ==
    /\ channel'[c].open = channel[c].open
    /\ channel'[c].nonce = channel[c].nonce
    /\ channel'[c].challenge_period = channel[c].challenge_period
    /\ channel'[c].dispute_period = channel[c].dispute_period

SameContract(e) ==
    /\ escrow'[e].open /\ escrow[e].open
    /\ escrow'[e].amount = escrow[e].amount
    /\ escrow'[e].merkle_root = escrow[e].merkle_root
    /\ escrow'[e].created_at = escrow[e].created_at
    /\ escrow'[e].optimistic = escrow[e].optimistic

SameWindows == \A c \in Channels : SameWindow(c)
Quiet == /\ \A e \in Escrows : SameEscrow(e)
         /\ \A m \in Merchants : wallet'[m] = wallet[m]
Only(e) == \A d \in Escrows : d # e => SameEscrow(d)

Opens(c) ==
    /\ Quiet
    /\ ~channel[c].open /\ channel'[c].open /\ channel'[c].nonce = 0
    /\ \A d \in Channels : d # c => SameWindow(d)

Creates(e) ==
    /\ Only(e)
    /\ \A m \in Merchants : wallet'[m] = wallet[m]
    /\ ~escrow[e].open /\ escrow'[e].open /\ channel[e[1]].open
    /\ escrow'[e].lamports = escrow'[e].amount /\ escrow'[e].amount \in Nat
    /\ ~escrow'[e].claimed /\ ~escrow'[e].disputed /\ escrow'[e].created_at = now
    /\ escrow'[e].optimistic => channel[e[1]].challenge_period > 0
    /\ ~escrow'[e].optimistic =>
         SettlementMessage(e[1], escrow'[e].merkle_root, escrow'[e].amount, e[2])
            \in cosigned
    /\ paid'[e] = paid[e] /\ disputed_at'[e] = disputed_at[e]
    /\ e[2] = channel[e[1]].nonce
    /\ \A c \in Channels :
         /\ channel'[c].open = channel[c].open
         /\ channel'[c].nonce = IF c = e[1] THEN channel[c].nonce + 1 ELSE channel[c].nonce
         /\ channel'[c].challenge_period = channel[c].challenge_period
         /\ channel'[c].dispute_period = channel[c].dispute_period
    /\ now' = now

Freezes(e) ==
    /\ Only(e) /\ SameWindows /\ SameContract(e)
    /\ \A m \in Merchants : wallet'[m] = wallet[m]
    /\ ~escrow[e].claimed /\ ~escrow'[e].claimed
    /\ ~escrow[e].disputed /\ escrow'[e].disputed
    /\ escrow'[e].lamports = escrow[e].lamports
    /\ paid'[e] = paid[e] /\ disputed_at'[e] = now
    /\ now < escrow[e].created_at + channel[e[1]].challenge_period
    /\ now' = now

Pays(e, payee) ==
    /\ Only(e) /\ SameWindows /\ SameContract(e)
    /\ \A m \in Merchants :
         wallet'[m] = IF m = payee THEN wallet[m] + escrow[e].amount ELSE wallet[m]
    /\ ~escrow[e].claimed /\ escrow'[e].claimed
    /\ escrow'[e].disputed = escrow[e].disputed
    /\ escrow'[e].lamports = escrow[e].lamports - escrow[e].amount
    /\ paid'[e] = [to |-> payee, at |-> now] /\ disputed_at'[e] = disputed_at[e]
    /\ IF payee = Buyer
         THEN escrow[e].disputed
         ELSE /\ payee = MerchantOf(e[1])
              /\ ~escrow[e].disputed =>
                   escrow[e].created_at + channel[e[1]].challenge_period <= now
    /\ now' = now

Effect ==
    /\ now <= now' /\ cosigned \subseteq cosigned'
    /\ \/ Quiet /\ SameWindows
       \/ \E c \in Channels : Opens(c)
       \/ \E e \in Escrows : Creates(e)
       \/ \E e \in Escrows : Freezes(e)
       \/ \E e \in Escrows, p \in Merchants \cup {Buyer} : Pays(e, p)

LEMMA EffectOfGlobal ==
    ASSUME TypeOK, NEW t \in Mints,
           \/ InitializeGlobal(t)
           \/ \E a \in Amounts : Deposit(t, a) \/ Withdraw(t, a)
    PROVE  Effect
  <1>1. \A m \in Merchants : m # Buyer
    OBVIOUS
  <1>2. UNCHANGED <<channel, escrow, cosigned, now, paid, disputed_at>>
    BY DEF InitializeGlobal, Deposit, Withdraw, history
  <1>3. \A m \in Merchants : wallet'[m] = wallet[m]
    BY <1>1 DEF TypeOK, InitializeGlobal, Deposit, Withdraw
  <1> QED
    BY <1>2, <1>3 DEF TypeOK, Effect, Quiet, SameEscrow, SameWindows, SameWindow

LEMMA EffectOfInitializeChannel ==
    ASSUME TypeOK, NEW c \in Channels, NEW cap \in Amounts,
           NEW cp \in Periods, NEW dp \in Periods, InitializeChannel(c, cap, cp, dp)
    PROVE  Effect
  <1>1. Quiet
    BY DEF InitializeChannel, Quiet, SameEscrow, history
  <1>2. channel'[c] = NewChannel(cap, cp, dp)
    BY DEF TypeOK, InitializeChannel
  <1>3. \A d \in Channels : d # c => channel'[d] = channel[d]
    BY DEF TypeOK, InitializeChannel
  <1>4. Opens(c)
    BY <1>1, <1>2, <1>3 DEF Opens, InitializeChannel, NewChannel, SameWindow
  <1> QED
    BY <1>4 DEF Effect, InitializeChannel, TypeOK

LEMMA EffectOfUpdateSpendingCap ==
    ASSUME TypeOK, NEW t \in Mints, NEW c \in Channels, NEW cap \in Amounts,
           UpdateSpendingCap(t, c, cap)
    PROVE  Effect
  <1>1. Quiet
    BY DEF UpdateSpendingCap, Quiet, SameEscrow, history
  <1>2. SameWindows
    BY DEF TypeOK, UpdateSpendingCap, SameWindows, SameWindow, Channel
  <1> QED
    BY <1>1, <1>2 DEF Effect, UpdateSpendingCap, TypeOK

LEMMA EffectOfMoveToEscrow ==
    ASSUME TypeOK, NEW c \in Channels, NEW root \in Roots, NEW total \in Amounts,
           NEW optimistic \in BOOLEAN, MoveToEscrow(c, root, total, optimistic),
           optimistic => channel[c].challenge_period > 0,
           ~optimistic => SettlementMessage(c, root, total, channel[c].nonce) \in cosigned
    PROVE  Effect
  <1> DEFINE e == <<c, channel[c].nonce>>
  <1>1. e \in Escrows /\ e[1] = c /\ e[2] = channel[c].nonce /\ total \in Nat
    BY ChannelParts DEF MoveToEscrow
  <1>2. escrow'[e] = [open |-> TRUE, amount |-> total, merkle_root |-> root,
                      created_at |-> now, claimed |-> FALSE, disputed |-> FALSE,
                      optimistic |-> optimistic, lamports |-> total]
    BY <1>1 DEF TypeOK, MoveToEscrow
  <1>3. Only(e) /\ \A m \in Merchants : wallet'[m] = wallet[m]
    BY <1>1 DEF TypeOK, MoveToEscrow, Only, SameEscrow, history
  <1>4. \A d \in Channels :
          /\ channel'[d].open = channel[d].open
          /\ channel'[d].nonce = IF d = c THEN channel[d].nonce + 1 ELSE channel[d].nonce
          /\ channel'[d].challenge_period = channel[d].challenge_period
          /\ channel'[d].dispute_period = channel[d].dispute_period
    BY DEF TypeOK, MoveToEscrow, Channel
  <1>5. UNCHANGED <<now, paid, disputed_at, cosigned>> /\ ~escrow[e].open /\ channel[c].open
    BY DEF MoveToEscrow, history
  <1>6. Creates(e)
    BY <1>1, <1>2, <1>3, <1>4, <1>5 DEF Creates
  <1> QED
    BY <1>1, <1>5, <1>6 DEF Effect, TypeOK

LEMMA EffectOfPayOut ==
    ASSUME TypeOK, NEW e \in Escrows, NEW p \in Merchants \cup {Buyer}, PayOut(e, p),
           escrow[e].open, ~escrow[e].claimed, SameWindows,
           UNCHANGED <<cosigned, now>>,
           IF p = Buyer
             THEN escrow[e].disputed
             ELSE /\ p = MerchantOf(e[1])
                  /\ ~escrow[e].disputed =>
                       escrow[e].created_at + channel[e[1]].challenge_period <= now
    PROVE  Effect
  <1>1. Only(e)
    BY DEF TypeOK, PayOut, Only, SameEscrow
  <1>2. SameContract(e) /\ escrow'[e].disputed = escrow[e].disputed
    BY DEF TypeOK, PayOut, SameContract, SettlementEscrow
  <1>3. escrow'[e].claimed /\ escrow'[e].lamports = escrow[e].lamports - escrow[e].amount
    BY DEF TypeOK, PayOut, SettlementEscrow
  <1>4. \A m \in Merchants :
          wallet'[m] = IF m = p THEN wallet[m] + escrow[e].amount ELSE wallet[m]
    BY DEF TypeOK, PayOut
  <1>5. paid'[e] = [to |-> p, at |-> now] /\ disputed_at'[e] = disputed_at[e]
    BY DEF TypeOK, PayOut
  <1>6. Pays(e, p)
    BY <1>1, <1>2, <1>3, <1>4, <1>5 DEF Pays
  <1> QED
    BY <1>6 DEF Effect, TypeOK

(* Writing settled_amount alone leaves the windows and nonces of channels.   *)
LEMMA RollbackKeepsWindows ==
    ASSUME TypeOK, NEW c \in Channels, NEW n,
           channel' = [channel EXCEPT ![c].settled_amount = n]
    PROVE  SameWindows
  <1>1. channel \in [Channels -> Channel]
    BY DEF TypeOK
  <1>2. ASSUME NEW d \in Channels, d # c PROVE SameWindow(d)
    BY <1>1, <1>2 DEF SameWindow
  <1>3. channel'[c] = [channel[c] EXCEPT !.settled_amount = n]
    BY <1>1
  <1>4. SameWindow(c)
    BY <1>1, <1>3 DEF SameWindow, Channel
  <1> QED
    BY <1>2, <1>4 DEF SameWindows

LEMMA EffectOfEscrow ==
    ASSUME TypeOK, NEW e \in Escrows,
           \/ ReleaseSettlement(e) \/ ForceRelease(e) \/ Dispute(e)
           \/ \E a \in Amounts : ResolveDispute(e, a)
    PROVE  Effect
  <1>1. MerchantOf(e[1]) \in Merchants /\ MerchantOf(e[1]) # Buyer /\ e[1] \in Channels
    BY EscrowParts
  <1>2. UNCHANGED channel => SameWindows
    BY DEF SameWindows, SameWindow
  <1>3. CASE ReleaseSettlement(e)
    <2>1. escrow[e].created_at + channel[e[1]].challenge_period <= now
      BY <1>1, <1>3 DEF ReleaseSettlement, HasElapsed, TypeOK, Channel, SettlementEscrow
    <2> QED
      BY <1>1, <1>2, <1>3, <2>1, EffectOfPayOut DEF ReleaseSettlement
  <1>4. CASE ForceRelease(e)
    BY <1>1, <1>2, <1>4, EffectOfPayOut DEF ForceRelease
  <1>5. CASE \E a \in Amounts : ResolveDispute(e, a)
    <2>1. channel' = [channel EXCEPT ![e[1]].settled_amount
                        = channel[e[1]].settled_amount - escrow[e].amount]
      BY <1>5 DEF ResolveDispute
    <2>2. SameWindows
      BY <1>1, <2>1, RollbackKeepsWindows
    <2> QED
      BY <1>1, <1>5, <2>2, EffectOfPayOut DEF ResolveDispute
  <1>6. CASE Dispute(e)
    <2>1. Only(e)
      BY <1>6 DEF TypeOK, Dispute, Only, SameEscrow
    <2>2. SameContract(e) /\ escrow'[e].lamports = escrow[e].lamports
      BY <1>6 DEF TypeOK, Dispute, SameContract, SettlementEscrow
    <2>3. escrow'[e].disputed /\ escrow'[e].claimed = escrow[e].claimed
      BY <1>6 DEF TypeOK, Dispute, SettlementEscrow
    <2>4. disputed_at'[e] = now
      BY <1>6 DEF TypeOK, Dispute
    <2>5. UNCHANGED <<channel, wallet, cosigned, now, paid>>
      BY <1>6 DEF Dispute, accounts
    <2>6. now < escrow[e].created_at + channel[e[1]].challenge_period
      BY <1>6 DEF Dispute, StillRuns
    <2>7. Freezes(e)
      BY <1>2, <1>6, <2>1, <2>2, <2>3, <2>4, <2>5, <2>6 DEF Freezes, Dispute
    <2> QED
      BY <2>5, <2>7 DEF Effect, TypeOK
  <1> QED
    BY <1>3, <1>4, <1>5, <1>6

LEMMA EffectOfQuietStep ==
    ASSUME TypeOK, UNCHANGED <<channel, escrow, wallet, paid, disputed_at>>,
           now <= now', cosigned \subseteq cosigned'
    PROVE  Effect
  BY DEF Effect, Quiet, SameEscrow, SameWindows, SameWindow

(* Every step of the program has one of the five effects.                    *)
LEMMA NextEffect == TypeOK /\ [Next]_vars => Effect
  <1> SUFFICES ASSUME TypeOK, [Next]_vars PROVE Effect
    OBVIOUS
  <1>1. CASE BuyerStep
    <2>1. ASSUME NEW c \in Channels, NEW root \in Roots, NEW total \in Amounts,
                 NEW n \in Nonces, SignSettlement(c, root, total, n)
          PROVE  Effect
      BY <2>1, EffectOfQuietStep DEF SignSettlement, history, TypeOK
    <2> QED
      BY <1>1, <2>1, EffectOfGlobal, EffectOfInitializeChannel,
         EffectOfUpdateSpendingCap, EffectOfEscrow DEF BuyerStep
  <1>2. CASE MerchantStep
    <2>1. ASSUME NEW c \in Channels, NEW root \in Roots, NEW total \in Amounts,
                 SettleBatch(c, root, total) \/ OptimisticSettle(c, root, total)
          PROVE  Effect
      BY <2>1, EffectOfMoveToEscrow DEF SettleBatch, OptimisticSettle
    <2> QED
      BY <1>2, <2>1, EffectOfEscrow DEF MerchantStep
  <1>3. CASE Tick
    BY <1>3, EffectOfQuietStep DEF Tick, accounts, history, TypeOK
  <1>4. CASE UNCHANGED vars
    BY <1>4, EffectOfQuietStep DEF vars, accounts, history, TypeOK
  <1> QED
    BY <1>1, <1>2, <1>3, <1>4 DEF Next

-----------------------------------------------------------------------------
(* The inductive invariant, one lemma per conjunct.                          *)
LEMMA InitIInv == Init => IInv
  <1> SUFFICES ASSUME Init PROVE IInv
    OBVIOUS
  <1>1. TypeOK
    BY TypeInit
  <1>2. EscrowFunded /\ EscrowHistory /\ CooperativeBatchWasSigned
        /\ RefundNeedsTimelyDispute /\ OptimisticBatchIsHeld
    BY EscrowParts DEF Init, EscrowFunded, EscrowHistory, Refunded, PaidMerchant,
       CooperativeBatchWasSigned, RefundNeedsTimelyDispute, OptimisticBatchIsHeld
  <1>3. AllocationWithinDeposit /\ UnopenedChannel
    BY DEF Init, AllocationWithinDeposit, UnopenedChannel
  <1>4. NextEscrowFree
    BY EscrowParts DEF Init, NextEscrowFree, Nonces
  <1> QED
    BY <1>1, <1>2, <1>3, <1>4 DEF IInv

(* What an effect is for one escrow.                                         *)
LEMMA EscrowCases ==
    ASSUME Effect, NEW e \in Escrows
    PROVE  SameEscrow(e) \/ Creates(e) \/ Freezes(e)
           \/ \E p \in Merchants \cup {Buyer} : Pays(e, p)
  <1>1. CASE Quiet
    BY <1>1 DEF Quiet
  <1>2. CASE \E c \in Channels : Opens(c)
    BY <1>2 DEF Opens, Quiet
  <1>3. CASE \E d \in Escrows : Creates(d)
    BY <1>3 DEF Creates, Only
  <1>4. CASE \E d \in Escrows : Freezes(d)
    BY <1>4 DEF Freezes, Only
  <1>5. CASE \E d \in Escrows, p \in Merchants \cup {Buyer} : Pays(d, p)
    <2>1. PICK d \in Escrows, p \in Merchants \cup {Buyer} : Pays(d, p)
      BY <1>5
    <2>2. CASE d = e
      BY <2>1, <2>2
    <2>3. CASE d # e
      BY <2>1, <2>3 DEF Pays, Only
    <2> QED
      BY <2>2, <2>3
  <1> QED
    BY <1>1, <1>2, <1>3, <1>4, <1>5 DEF Effect

(* The windows of a channel never move once it is open, and it stays open.   *)
LEMMA ChannelCases ==
    ASSUME Effect, NEW c \in Channels, channel[c].open
    PROVE  /\ channel'[c].open
           /\ channel'[c].challenge_period = channel[c].challenge_period
           /\ channel'[c].dispute_period = channel[c].dispute_period
  BY DEF Effect, SameWindows, SameWindow, Opens, Creates, Freezes, Pays

LEMMA FundedStep ==
    ASSUME TypeOK, EscrowFunded, EscrowHistory, Effect PROVE EscrowFunded'
  <1> DEFINE Funded(e) ==
        /\ escrow'[e].claimed =>
             escrow'[e].lamports = 0 /\ paid'[e].to \in {MerchantOf(e[1]), Buyer}
        /\ ~escrow'[e].claimed =>
             escrow'[e].lamports = escrow'[e].amount /\ paid'[e].to = Nobody
  <1>1. ASSUME NEW e \in Escrows, SameEscrow(e) PROVE Funded(e)
    BY <1>1 DEF SameEscrow, EscrowFunded
  <1>2. ASSUME NEW e \in Escrows, Creates(e) PROVE Funded(e)
    BY <1>2 DEF Creates, EscrowFunded, EscrowHistory
  <1>3. ASSUME NEW e \in Escrows, Freezes(e) PROVE Funded(e)
    BY <1>3 DEF Freezes, SameContract, EscrowFunded
  <1>4. ASSUME NEW e \in Escrows, NEW p \in Merchants \cup {Buyer}, Pays(e, p)
        PROVE  Funded(e)
    <2>1. escrow[e].amount \in Nat /\ escrow[e].lamports = escrow[e].amount
      BY <1>4 DEF TypeOK, SettlementEscrow, EscrowFunded, Pays
    <2>2. paid'[e].to = p /\ p \in {MerchantOf(e[1]), Buyer}
      BY <1>4 DEF Pays
    <2>3. escrow'[e].claimed /\ escrow'[e].lamports = escrow[e].lamports - escrow[e].amount
      BY <1>4 DEF Pays
    <2> QED
      BY <2>1, <2>2, <2>3
  <1>5. \A e \in Escrows : Funded(e)
    <2> HIDE DEF Funded
    <2> QED
      BY <1>1, <1>2, <1>3, <1>4, EscrowCases
  <1> QED
    BY <1>5 DEF EscrowFunded

LEMMA HistoryStep ==
    ASSUME TypeOK, TypeOK', EscrowFunded, EscrowHistory, Effect PROVE EscrowHistory'
  <1> DEFINE History(e) ==
        /\ escrow'[e].claimed => escrow'[e].open /\ paid'[e].at <= now'
        /\ escrow'[e].open => channel'[e[1]].open /\ escrow'[e].created_at <= now'
        /\ escrow'[e].disputed =>
             /\ escrow'[e].open
             /\ escrow'[e].created_at <= disputed_at'[e]
             /\ disputed_at'[e] <= now'
             /\ disputed_at'[e] < escrow'[e].created_at + channel'[e[1]].challenge_period
        /\ (paid'[e].to = Buyer) => escrow'[e].disputed
        /\ escrow'[e].optimistic =>
             escrow'[e].open /\ channel'[e[1]].challenge_period > 0
  <1> SUFFICES ASSUME NEW e \in Escrows PROVE History(e)
    BY DEF EscrowHistory, Refunded
  <1>1. /\ now \in Nat /\ now' \in Int /\ now <= now'
        /\ escrow[e].created_at \in Nat /\ disputed_at[e] \in Int /\ paid[e].at \in Int
        /\ e[1] \in Channels
    <2>1. now \in Nat /\ now' \in Nat /\ now <= now'
      BY DEF TypeOK, Effect
    <2>2. escrow[e] \in SettlementEscrow /\ paid[e] \in Payout /\ disputed_at[e] \in Int
      BY DEF TypeOK
    <2> QED
      BY <2>1, <2>2, EscrowParts, SMTT(30) DEF SettlementEscrow, Payout
  <1>2. escrow[e].open =>
          /\ channel'[e[1]].open
          /\ channel'[e[1]].challenge_period = channel[e[1]].challenge_period
    BY <1>1, ChannelCases DEF EscrowHistory
  <1>3. CASE SameEscrow(e)
    BY <1>1, <1>2, <1>3 DEF SameEscrow, EscrowHistory, Refunded
  <1>4. CASE Creates(e)
    BY <1>1, <1>4 DEF Creates, EscrowHistory, Refunded
  <1>5. CASE Freezes(e)
    <2>1. escrow[e].open /\ escrow'[e].open /\ ~escrow'[e].claimed /\ escrow'[e].disputed
      BY <1>5 DEF Freezes, SameContract
    <2>2. escrow'[e].created_at = escrow[e].created_at /\ disputed_at'[e] = now /\ now' = now
      BY <1>5 DEF Freezes, SameContract
    <2>3. channel'[e[1]].open /\ escrow[e].created_at <= now
      BY <1>2, <2>1 DEF EscrowHistory
    <2>4. now < escrow[e].created_at + channel'[e[1]].challenge_period
      BY <1>2, <1>5, <2>1 DEF Freezes
    <2>5. escrow'[e].optimistic => channel'[e[1]].challenge_period > 0
      BY <1>2, <1>5, <2>1 DEF Freezes, SameContract, EscrowHistory
    <2> QED
      BY <1>1, <2>1, <2>2, <2>3, <2>4, <2>5
  <1>6. ASSUME NEW p \in Merchants \cup {Buyer}, Pays(e, p) PROVE History(e)
    <2>1. paid'[e].to = p /\ paid'[e].at = now /\ disputed_at'[e] = disputed_at[e]
      BY <1>6 DEF Pays
    <2>2. p = Buyer => escrow'[e].disputed
      BY <1>6 DEF Pays
    <2> QED
      BY <1>1, <1>2, <1>6, <2>1, <2>2 DEF Pays, SameContract, EscrowHistory
  <1> HIDE DEF History
  <1> QED
    BY <1>3, <1>4, <1>5, <1>6, EscrowCases

LEMMA AllocationStep ==
    ASSUME TypeOK, AllocationWithinDeposit, [Next]_vars PROVE AllocationWithinDeposit'
  <1> DEFINE Covered(t) == global'[t].total_allocated <= global'[t].total_deposited
  <1> SUFFICES ASSUME NEW t \in Mints PROVE Covered(t)
    BY DEF AllocationWithinDeposit
  <1>1. /\ global[t].total_allocated \in Nat /\ global[t].total_deposited \in Nat
        /\ global[t].total_allocated <= global[t].total_deposited
    BY DEF TypeOK, GlobalState, AllocationWithinDeposit
  <1>2. ASSUME UNCHANGED global PROVE Covered(t)
    BY <1>1, <1>2
  <1>3. ASSUME NEW s \in Mints, InitializeGlobal(s) PROVE Covered(t)
    BY <1>1, <1>3 DEF InitializeGlobal, TypeOK, GlobalState
  <1>4. ASSUME NEW s \in Mints, NEW a \in Amounts, Deposit(s, a) PROVE Covered(t)
    BY <1>1, <1>4 DEF Deposit, TypeOK, GlobalState
  <1>5. ASSUME NEW s \in Mints, NEW a \in Amounts, Withdraw(s, a) PROVE Covered(t)
    BY <1>1, <1>5 DEF Withdraw, CanWithdraw, TypeOK, GlobalState
  <1>6. ASSUME NEW c \in Channels, NEW cap \in Amounts, NEW cp \in Periods,
               NEW dp \in Periods, InitializeChannel(c, cap, cp, dp)
        PROVE  Covered(t)
    <2> DEFINE m == MintOf(c)
    <2>1. m \in Mints /\ global \in [Mints -> GlobalState]
      BY ChannelParts DEF TypeOK
    <2>2. /\ global' = [global EXCEPT ![m].total_allocated = @ + cap]
          /\ global[m].total_allocated + cap <= global[m].total_deposited
      BY <1>6 DEF InitializeChannel, CanAllocate
    <2> HIDE DEF m
    <2> QED BY <1>1, <2>1, <2>2, GlobalCharged
  <1>7. ASSUME NEW s \in Mints, NEW c \in Channels, NEW cap \in Amounts,
               UpdateSpendingCap(s, c, cap)
        PROVE  Covered(t)
    <2> DEFINE n == CapIncrease(c, cap)
    <2>1. global \in [Mints -> GlobalState]
      BY DEF TypeOK
    <2>2. /\ global' = [global EXCEPT ![s].total_allocated = @ + n]
          /\ global[s].total_allocated + n <= global[s].total_deposited
      BY <1>7 DEF UpdateSpendingCap, CanAllocate
    <2> HIDE DEF n
    <2> QED BY <1>1, <2>1, <2>2, GlobalCharged
  <1> HIDE DEF Covered
  <1>8. CASE BuyerStep
    <2>1. ASSUME NEW c \in Channels, NEW root \in Roots, NEW total \in Amounts, NEW k \in Nonces,
                 SignSettlement(c, root, total, k)
          PROVE  UNCHANGED global
      BY <2>1 DEF SignSettlement, accounts
    <2>2. ASSUME NEW e \in Escrows, Dispute(e) PROVE UNCHANGED global
      BY <2>2 DEF Dispute, accounts
    <2>3. ASSUME NEW e \in Escrows, NEW a \in Amounts, ResolveDispute(e, a)
          PROVE  UNCHANGED global
      BY <2>3 DEF ResolveDispute
    <2> QED
      BY <1>2, <1>3, <1>4, <1>5, <1>6, <1>7, <1>8, <2>1, <2>2, <2>3 DEF BuyerStep
  <1>9. CASE MerchantStep
    <2>1. ASSUME NEW c \in Channels, NEW root \in Roots, NEW total \in Amounts,
                 SettleBatch(c, root, total) \/ OptimisticSettle(c, root, total)
          PROVE  UNCHANGED global
      BY <2>1 DEF SettleBatch, OptimisticSettle, MoveToEscrow
    <2>2. ASSUME NEW e \in Escrows, ReleaseSettlement(e) \/ ForceRelease(e)
          PROVE  UNCHANGED global
      BY <2>2 DEF ReleaseSettlement, ForceRelease
    <2>3. UNCHANGED global
      BY <1>9, <2>1, <2>2 DEF MerchantStep
    <2> QED
      BY <1>2, <2>3
  <1>10. CASE Tick \/ UNCHANGED vars
    <2>1. UNCHANGED global
      BY <1>10 DEF Tick, vars, accounts
    <2> QED
      BY <1>2, <2>1
  <1> QED
    BY <1>8, <1>9, <1>10 DEF Next

LEMMA FreshStep ==
    ASSUME TypeOK, NextEscrowFree, UnopenedChannel, EscrowHistory, Effect
    PROVE  NextEscrowFree' /\ UnopenedChannel'
  <1>1. \A c \in Channels : channel[c].nonce \in Nat
    BY DEF TypeOK, Channel
  <1>2. \A e \in Escrows : e[1] \in Channels /\ e[2] \in Nat
    BY EscrowParts DEF Nonces
  <1>3. CASE Quiet /\ SameWindows
    BY <1>2, <1>3 DEF Quiet, SameEscrow, SameWindows, SameWindow, NextEscrowFree,
                      UnopenedChannel
  <1>4. CASE \E c \in Channels : Opens(c)
    <2>1. PICK c \in Channels : Opens(c)
      BY <1>4
    <2>2. \A d \in Channels : channel'[d].nonce = channel[d].nonce
      BY <2>1 DEF Opens, SameWindow, UnopenedChannel
    <2>3. \A d \in Channels : ~channel'[d].open => ~channel[d].open
      BY <2>1 DEF Opens, SameWindow
    <2> QED
      BY <1>2, <2>1, <2>2, <2>3 DEF Opens, Quiet, SameEscrow, NextEscrowFree,
                                    UnopenedChannel
  <1>5. CASE \E e \in Escrows : Creates(e)
    <2>1. PICK e \in Escrows : Creates(e)
      BY <1>5
    <2>2. UnopenedChannel'
      BY <1>2, <2>1 DEF Creates, UnopenedChannel
    <2>3. ASSUME NEW d \in Escrows
          PROVE  escrow'[d].open <=> d[2] < channel'[d[1]].nonce
      <3>1. CASE d = e
        BY <1>1, <1>2, <2>1, <3>1 DEF Creates
      <3>2. CASE d[1] = e[1] /\ d # e
        <4>1. d[2] # e[2]
          BY <3>2, EscrowParts
        <4> QED
          BY <1>1, <1>2, <2>1, <3>2, <4>1 DEF Creates, Only, SameEscrow, NextEscrowFree
      <3>3. CASE d[1] # e[1]
        BY <1>1, <1>2, <2>1, <3>3 DEF Creates, Only, SameEscrow, NextEscrowFree
      <3> QED
        BY <3>1, <3>2, <3>3
    <2> QED
      BY <2>2, <2>3 DEF NextEscrowFree
  <1>6. ASSUME NEW e \in Escrows, Only(e), SameWindows, SameContract(e)
        PROVE  NextEscrowFree' /\ UnopenedChannel'
    BY <1>2, <1>6 DEF Only, SameContract, SameEscrow, SameWindows, SameWindow,
                      NextEscrowFree, UnopenedChannel
  <1>7. CASE \E e \in Escrows : Freezes(e)
    BY <1>6, <1>7 DEF Freezes
  <1>8. CASE \E e \in Escrows, p \in Merchants \cup {Buyer} : Pays(e, p)
    BY <1>6, <1>8 DEF Pays
  <1> QED
    BY <1>3, <1>4, <1>5, <1>7, <1>8 DEF Effect

LEMMA SignedStep ==
    ASSUME TypeOK, CooperativeBatchWasSigned, Effect PROVE CooperativeBatchWasSigned'
  <1> SUFFICES ASSUME NEW e \in Escrows, escrow'[e].open, ~escrow'[e].optimistic
               PROVE  SettlementMessage(e[1], escrow'[e].merkle_root,
                                        escrow'[e].amount, e[2]) \in cosigned'
    BY DEF CooperativeBatchWasSigned, SettlementMessage
  <1>1. cosigned \subseteq cosigned'
    BY DEF Effect
  <1>2. CASE SameEscrow(e)
    BY <1>1, <1>2 DEF SameEscrow, CooperativeBatchWasSigned
  <1>3. CASE Creates(e)
    BY <1>1, <1>3 DEF Creates
  <1>4. CASE SameContract(e)
    BY <1>1, <1>4 DEF SameContract, CooperativeBatchWasSigned
  <1> QED
    BY <1>2, <1>3, <1>4, EscrowCases DEF Freezes, Pays

LEMMA PayoutTimesStep ==
    ASSUME TypeOK, EscrowFunded, EscrowHistory, Effect,
           RefundNeedsTimelyDispute, OptimisticBatchIsHeld
    PROVE  RefundNeedsTimelyDispute' /\ OptimisticBatchIsHeld'
  <1> DEFINE Timely(e) ==
        (paid'[e].to = Buyer) =>
            /\ escrow'[e].created_at <= disputed_at'[e]
            /\ disputed_at'[e] <= paid'[e].at
            /\ disputed_at'[e] < escrow'[e].created_at + channel'[e[1]].challenge_period
      Held(e) ==
        escrow'[e].optimistic /\ ~escrow'[e].disputed /\ escrow'[e].claimed
            /\ paid'[e].to # Buyer => escrow'[e].created_at < paid'[e].at
  <1> SUFFICES ASSUME NEW e \in Escrows PROVE Timely(e) /\ Held(e)
    BY DEF RefundNeedsTimelyDispute, OptimisticBatchIsHeld, Refunded, PaidMerchant
  <1>1. /\ now \in Nat /\ escrow[e].created_at \in Nat /\ e[1] \in Channels
        /\ channel[e[1]].challenge_period \in Int
        /\ disputed_at[e] \in Int /\ paid[e].at \in Int
    BY EscrowParts DEF TypeOK, SettlementEscrow, Payout, Channel
  <1>2. escrow[e].open =>
          channel'[e[1]].challenge_period = channel[e[1]].challenge_period
    BY <1>1, ChannelCases DEF EscrowHistory
  <1>3. ~escrow[e].claimed => paid[e].to = Nobody
    BY DEF EscrowFunded
  <1>4. CASE SameEscrow(e)
    BY <1>1, <1>2, <1>4 DEF SameEscrow, EscrowHistory, RefundNeedsTimelyDispute,
       OptimisticBatchIsHeld, Refunded, PaidMerchant
  <1>5. CASE Creates(e)
    BY <1>1, <1>3, <1>5 DEF Creates, EscrowHistory
  <1>6. CASE Freezes(e)
    BY <1>1, <1>3, <1>6 DEF Freezes
  <1>7. ASSUME NEW p \in Merchants \cup {Buyer}, Pays(e, p) PROVE Timely(e) /\ Held(e)
    <2>1. paid'[e].to = p /\ paid'[e].at = now /\ disputed_at'[e] = disputed_at[e]
      BY <1>7 DEF Pays
    <2>2. CASE p = Buyer
      BY <1>1, <1>2, <1>7, <2>1, <2>2 DEF Pays, SameContract, EscrowHistory
    <2>3. CASE p # Buyer
      BY <1>1, <1>2, <1>7, <2>1, <2>3 DEF Pays, SameContract, EscrowHistory
    <2> QED
      BY <2>2, <2>3
  <1> HIDE DEF Timely, Held
  <1> QED
    BY <1>4, <1>5, <1>6, <1>7, EscrowCases

LEMMA IInvStep == IInv /\ [Next]_vars => IInv'
  <1> SUFFICES ASSUME IInv, [Next]_vars PROVE IInv'
    OBVIOUS
  <1>1. TypeOK' /\ Effect
    BY TypeNext, NextEffect DEF IInv
  <1>2. EscrowFunded' /\ EscrowHistory' /\ AllocationWithinDeposit'
    BY <1>1, FundedStep, HistoryStep, AllocationStep DEF IInv
  <1>3. NextEscrowFree' /\ UnopenedChannel' /\ CooperativeBatchWasSigned'
    BY <1>1, FreshStep, SignedStep DEF IInv
  <1>4. RefundNeedsTimelyDispute' /\ OptimisticBatchIsHeld'
    BY <1>1, PayoutTimesStep DEF IInv
  <1> QED
    BY <1>1, <1>2, <1>3, <1>4 DEF IInv

-----------------------------------------------------------------------------
(* The inductive invariant holds of every behaviour of the program, for any  *)
(* number of merchants, mints, batches and any amounts, periods and roots.   *)
THEOREM Invariance == Spec => []IInv
  <1>1. Init => IInv
    BY InitIInv
  <1>2. IInv /\ [Next]_vars => IInv'
    BY IInvStep
  <1> QED
    BY <1>1, <1>2, PTL DEF Spec

(* Accounts keep their shape and no unsigned field ever goes below zero.     *)
THEOREM TypeCorrect == Spec => []TypeOK
  <1>1. IInv => TypeOK
    BY DEF IInv
  <1> QED
    BY <1>1, Invariance, PTL

(* Every escrow holds its whole amount until it is claimed, by its merchant  *)
(* or for its buyer, and nothing afterwards.                                 *)
THEOREM EscrowsAreFunded == Spec => []EscrowFunded
  <1>1. IInv => EscrowFunded
    BY DEF IInv
  <1> QED
    BY <1>1, Invariance, PTL

(* Allocated caps never exceed the deposits of the global state they were    *)
(* charged to, through any mix of deposits, withdrawals, raises and lowers.  *)
THEOREM AllocationsAreCovered == Spec => []AllocationWithinDeposit
  <1>1. IInv => AllocationWithinDeposit
    BY DEF IInv
  <1> QED
    BY <1>1, Invariance, PTL

(* The escrow account of a channel's next batch never exists beforehand.     *)
THEOREM NextEscrowIsFree == Spec => []NextEscrowFree
  <1>1. IInv => NextEscrowFree
    BY DEF IInv
  <1> QED
    BY <1>1, Invariance, PTL

(* The buyer signed every cooperative batch for its own channel, root,       *)
(* total and nonce.                                                          *)
THEOREM CooperativeBatchesAreSigned == Spec => []CooperativeBatchWasSigned
  <1>1. IInv => CooperativeBatchWasSigned
    BY DEF IInv
  <1> QED
    BY <1>1, Invariance, PTL

(* Only a batch disputed inside its challenge window is ever refunded.       *)
THEOREM RefundsAreTimely == Spec => []RefundNeedsTimelyDispute
  <1>1. IInv => RefundNeedsTimelyDispute
    BY DEF IInv
  <1> QED
    BY <1>1, Invariance, PTL

(* An undisputed optimistic batch is never paid at the time it is settled.   *)
THEOREM OptimisticBatchesAreHeld == Spec => []OptimisticBatchIsHeld
  <1>1. IInv => OptimisticBatchIsHeld
    BY DEF IInv
  <1> QED
    BY <1>1, Invariance, PTL

(* A claimed escrow never changes again.                                     *)
THEOREM PayoutsAreFinal == Spec => PayoutIsFinal
  <1>1. IInv /\ [Next]_vars =>
          [\A e \in Escrows : escrow[e].claimed =>
              escrow'[e] = escrow[e] /\ paid'[e] = paid[e]]_vars
    <2> SUFFICES ASSUME IInv, [Next]_vars, NEW e \in Escrows, escrow[e].claimed
                 PROVE  escrow'[e] = escrow[e] /\ paid'[e] = paid[e]
      OBVIOUS
    <2>1. escrow[e].open /\ Effect
      BY NextEffect DEF IInv, EscrowHistory
    <2> QED
      BY <2>1, EscrowCases DEF SameEscrow, Creates, Freezes, Pays
  <1> QED
    BY <1>1, Invariance, PTL DEF Spec, PayoutIsFinal

(* A settled batch keeps its terms and its windows for ever.                 *)
THEOREM BatchesAreImmutable == Spec => BatchIsImmutable
  <1> DEFINE Kept(e) ==
        /\ escrow'[e].open
        /\ escrow'[e].amount = escrow[e].amount
        /\ escrow'[e].merkle_root = escrow[e].merkle_root
        /\ escrow'[e].created_at = escrow[e].created_at
        /\ escrow[e].disputed => escrow'[e].disputed
        /\ channel'[e[1]].challenge_period = channel[e[1]].challenge_period
        /\ channel'[e[1]].dispute_period = channel[e[1]].dispute_period
  <1>1. IInv /\ [Next]_vars => [\A e \in Escrows : escrow[e].open => Kept(e)]_vars
    <2> SUFFICES ASSUME IInv, [Next]_vars, NEW e \in Escrows, escrow[e].open
                 PROVE  Kept(e)
      OBVIOUS
    <2>1. Effect /\ e[1] \in Channels /\ channel[e[1]].open
      BY NextEffect, EscrowParts DEF IInv, EscrowHistory
    <2>2. /\ channel'[e[1]].challenge_period = channel[e[1]].challenge_period
          /\ channel'[e[1]].dispute_period = channel[e[1]].dispute_period
      BY <2>1, ChannelCases
    <2>3. CASE SameEscrow(e)
      BY <2>2, <2>3 DEF SameEscrow
    <2>4. CASE SameContract(e) /\ (escrow[e].disputed => escrow'[e].disputed)
      BY <2>2, <2>4 DEF SameContract
    <2> QED
      BY <2>1, <2>3, <2>4, EscrowCases DEF Creates, Freezes, Pays
  <1> QED
    BY <1>1, Invariance, PTL DEF Spec, BatchIsImmutable

-----------------------------------------------------------------------------
(* The refinement: every effect on the escrows is a step of MbEscrowSpec.    *)
LEMMA PhaseKept ==
    ASSUME NEW e \in Escrows, SameEscrow(e)
    PROVE  Phase(e)' = Phase(e) /\ escrow'[e].amount = escrow[e].amount
  BY DEF SameEscrow, Phase, Refunded

LEMMA PromiseInit == Init => Promise!Init
  BY DEF Init, Promise!Init, Phase, Refunded

LEMMA QuietStutters ==
    ASSUME Quiet PROVE UNCHANGED Promise!absVars
  <1>1. \A e \in Escrows : Phase(e)' = Phase(e) /\ escrow'[e].amount = escrow[e].amount
    BY PhaseKept DEF Quiet
  <1>2. \A m \in Merchants : wallet'[m] = wallet[m]
    BY DEF Quiet
  <1> QED
    BY <1>1, <1>2 DEF Promise!absVars

LEMMA CreatesSettles ==
    ASSUME IInv, NEW e \in Escrows, Creates(e) PROVE Promise!Settle(e)
  <1>1. \A d \in Escrows : d # e =>
            Phase(d)' = Phase(d) /\ escrow'[d].amount = escrow[d].amount
    BY PhaseKept DEF Creates, Only
  <1>2. Phase(e) = "none" /\ Phase(e)' = "held" /\ escrow'[e].amount \in Nat
    BY DEF Creates, Phase
  <1>3. \A m \in Merchants : wallet'[m] = wallet[m]
    BY DEF Creates
  <1> QED
    BY <1>1, <1>2, <1>3 DEF Promise!Settle

LEMMA FreezesFreezes ==
    ASSUME IInv, NEW e \in Escrows, Freezes(e) PROVE Promise!Freeze(e)
  <1>1. \A d \in Escrows : d # e =>
            Phase(d)' = Phase(d) /\ escrow'[d].amount = escrow[d].amount
    BY PhaseKept DEF Freezes, Only
  <1>2. Phase(e) = "held" /\ Phase(e)' = "frozen" /\ escrow'[e].amount = escrow[e].amount
    BY DEF Freezes, SameContract, Phase
  <1>3. \A m \in Merchants : wallet'[m] = wallet[m]
    BY DEF Freezes
  <1> QED
    BY <1>1, <1>2, <1>3 DEF Promise!Freeze

LEMMA PaysOrRefunds ==
    ASSUME IInv, NEW e \in Escrows, NEW p \in Merchants \cup {Buyer}, Pays(e, p)
    PROVE  Promise!Pay(e) \/ Promise!Refund(e)
  <1>1. \A d \in Escrows : d # e =>
            Phase(d)' = Phase(d) /\ escrow'[d].amount = escrow[d].amount
    BY PhaseKept DEF Pays, Only
  <1>2. /\ Phase(e) = IF escrow[e].disputed THEN "frozen" ELSE "held"
        /\ Phase(e)' = IF p = Buyer THEN "refunded" ELSE "paid"
        /\ escrow'[e].amount = escrow[e].amount
    BY DEF Pays, SameContract, Phase, Refunded
  <1>3. \A m \in Merchants :
            wallet'[m] = IF m = p THEN wallet[m] + escrow[e].amount ELSE wallet[m]
    BY DEF Pays
  <1>4. CASE p = Buyer
    <2>1. \A m \in Merchants : wallet'[m] = wallet[m]
      BY <1>3, <1>4, ConstantsAssumption
    <2>2. escrow[e].disputed
      BY <1>4 DEF Pays
    <2> QED
      BY <1>1, <1>2, <1>4, <2>1, <2>2 DEF Promise!Refund
  <1>5. CASE p # Buyer
    <2>1. p = MerchantOf(e[1]) /\ p \in Merchants
      BY <1>5 DEF Pays
    <2> QED
      BY <1>1, <1>2, <1>3, <1>5, <2>1 DEF Promise!Pay
  <1> QED
    BY <1>4, <1>5

(* Every behaviour of the program is, seen through the phases of its batches *)
(* and the merchants' wallets, a behaviour of the settlement promise: each   *)
(* batch is paid at most once, in full, and to its own merchant.             *)
THEOREM PromiseIsKept == Spec => ImplementsPromise
  <1>1. Init => Promise!Init
    BY PromiseInit
  <1>2. IInv /\ [Next]_vars => [Promise!Next]_(Promise!absVars)
    <2> SUFFICES ASSUME IInv, [Next]_vars PROVE [Promise!Next]_(Promise!absVars)
      OBVIOUS
    <2>1. Effect
      BY NextEffect DEF IInv
    <2>2. CASE Quiet
      BY <2>2, QuietStutters
    <2>3. CASE \E e \in Escrows : Creates(e)
      BY <2>3, CreatesSettles DEF Promise!Next
    <2>4. CASE \E e \in Escrows : Freezes(e)
      BY <2>4, FreezesFreezes DEF Promise!Next
    <2>5. CASE \E e \in Escrows, p \in Merchants \cup {Buyer} : Pays(e, p)
      BY <2>5, PaysOrRefunds DEF Promise!Next
    <2> QED
      BY <2>1, <2>2, <2>3, <2>4, <2>5 DEF Effect, Opens
  <1> QED
    BY <1>1, <1>2, Invariance, PTL DEF Spec, ImplementsPromise, Promise!Spec

-----------------------------------------------------------------------------
(* The books.  A step leaves them alone, moves lamports between the buyer    *)
(* and a vault, fills an escrow from its vault, or empties one.              *)
DepositOf == [t \in Mints |-> global[t].total_deposited]
Books == <<wallet, vault, AmountOf, HeldIn, SettledOf, DepositOf, paid>>

MovesIn(t, a) ==
    /\ wallet' = [wallet EXCEPT ![Buyer] = @ - a]
    /\ vault' = [vault EXCEPT ![t] = @ + a]
    /\ DepositOf' = [DepositOf EXCEPT ![t] = @ + a]
    /\ UNCHANGED <<AmountOf, HeldIn, SettledOf, paid>>

Fills(e, total) ==
    /\ AmountOf[e] = 0 /\ HeldIn[e] = 0 /\ paid[e].to = Nobody
    /\ vault' = [vault EXCEPT ![MintOf(e[1])] = @ - total]
    /\ AmountOf' = [AmountOf EXCEPT ![e] = total]
    /\ HeldIn' = [HeldIn EXCEPT ![e] = total]
    /\ SettledOf' = [SettledOf EXCEPT ![e[1]] = @ + total]
    /\ UNCHANGED <<wallet, DepositOf, paid>>

Empties(e, p) ==
    /\ HeldIn[e] = AmountOf[e] /\ paid[e].to = Nobody
    /\ wallet' = [wallet EXCEPT ![p] = @ + AmountOf[e]]
    /\ HeldIn' = [HeldIn EXCEPT ![e] = 0]
    /\ paid' = [paid EXCEPT ![e] = [to |-> p, at |-> now]]
    /\ SettledOf' = IF p = Buyer THEN [SettledOf EXCEPT ![e[1]] = @ - AmountOf[e]]
                                 ELSE SettledOf
    /\ UNCHANGED <<vault, AmountOf, DepositOf>>

MoneyEffect ==
    \/ UNCHANGED Books
    \/ \E t \in Mints, a \in Int : MovesIn(t, a)
    \/ \E e \in Escrows, total \in Nat : Fills(e, total)
    \/ \E e \in Escrows, p \in Merchants \cup {Buyer} : Empties(e, p)

LEMMA MoneyFinite ==
    /\ IsFiniteSet(Merchants \cup {Buyer}) /\ IsFiniteSet(Mints) /\ IsFiniteSet(Escrows)
    /\ \A t : IsFiniteSet(ChannelsOf(t)) /\ IsFiniteSet(EscrowsOn(t))
    /\ \A c : IsFiniteSet(EscrowsOf(c))
  <1>1. IsFiniteSet(Merchants \cup {Buyer})
    BY FS_Union, FS_Singleton
  <1>2. IsFiniteSet(Channels)
    BY FS_Product DEF Channels
  <1>3. IsFiniteSet(Nonces)
    BY FS_Interval DEF Nonces
  <1>4. IsFiniteSet(Escrows)
    BY <1>2, <1>3, FS_Product DEF Escrows
  <1>5. /\ \A t : ChannelsOf(t) \subseteq Channels /\ EscrowsOn(t) \subseteq Escrows
        /\ \A c : EscrowsOf(c) \subseteq Escrows
    BY DEF ChannelsOf, EscrowsOn, EscrowsOf
  <1> QED
    BY <1>1, <1>2, <1>4, <1>5, FS_Subset

LEMMA BooksType ==
    ASSUME TypeOK
    PROVE  /\ wallet \in [Merchants \cup {Buyer} -> Nat] /\ vault \in [Mints -> Nat]
           /\ AmountOf \in [Escrows -> Nat] /\ HeldIn \in [Escrows -> Nat]
           /\ SettledOf \in [Channels -> Nat] /\ DepositOf \in [Mints -> Nat]
  BY DEF TypeOK, AmountOf, HeldIn, SettledOf, DepositOf, SettlementEscrow, Channel, GlobalState

LEMMA MoneyOfGlobal ==
    ASSUME TypeOK, NEW t \in Mints
    PROVE  /\ InitializeGlobal(t) => UNCHANGED Books
           /\ \A a \in Amounts : Deposit(t, a) => MovesIn(t, a)
           /\ \A a \in Amounts : Withdraw(t, a) => MovesIn(t, 0 - a)
  <1>1. ASSUME InitializeGlobal(t) PROVE UNCHANGED Books
    <2>1. DepositOf' = DepositOf
      BY <1>1 DEF InitializeGlobal, DepositOf, TypeOK, GlobalState
    <2> QED BY <1>1, <2>1 DEF InitializeGlobal, Books, AmountOf, HeldIn, SettledOf, history
  <1>2. ASSUME NEW a \in Amounts, Deposit(t, a) PROVE MovesIn(t, a)
    <2>1. DepositOf' = [DepositOf EXCEPT ![t] = @ + a]
      BY <1>2 DEF Deposit, DepositOf, TypeOK, GlobalState
    <2> QED BY <1>2, <2>1 DEF Deposit, MovesIn, AmountOf, HeldIn, SettledOf, history
  <1>3. ASSUME NEW a \in Amounts, Withdraw(t, a) PROVE MovesIn(t, 0 - a)
    <2>1. a \in Nat /\ \A n \in Nat : n - a = n + (0 - a) /\ n + a = n - (0 - a)
      OBVIOUS
    <2>2. DepositOf' = [DepositOf EXCEPT ![t] = @ + (0 - a)]
      BY <1>3, <2>1 DEF Withdraw, DepositOf, TypeOK, GlobalState
    <2>3. /\ wallet' = [wallet EXCEPT ![Buyer] = @ - (0 - a)]
          /\ vault' = [vault EXCEPT ![t] = @ + (0 - a)]
      BY <1>3, <2>1, BooksType DEF Withdraw
    <2> QED BY <1>3, <2>2, <2>3 DEF Withdraw, MovesIn, AmountOf, HeldIn, SettledOf, history
  <1> QED BY <1>1, <1>2, <1>3

LEMMA MoneyOfCaps ==
    ASSUME TypeOK, UnopenedIsEmpty, NEW c \in Channels, NEW cap \in Amounts
    PROVE  /\ \A cp, dp \in Periods : InitializeChannel(c, cap, cp, dp) => UNCHANGED Books
           /\ \A t \in Mints : UpdateSpendingCap(t, c, cap) => UNCHANGED Books
  <1>1. ASSUME NEW cp \in Periods, NEW dp \in Periods, InitializeChannel(c, cap, cp, dp)
        PROVE  UNCHANGED Books
    <2>1. channel[c].settled_amount = 0
      BY <1>1 DEF InitializeChannel, UnopenedIsEmpty
    <2>2. SettledOf' = SettledOf
      BY <1>1, <2>1 DEF InitializeChannel, NewChannel, SettledOf, TypeOK
    <2>3. DepositOf' = DepositOf
      BY <1>1 DEF InitializeChannel, DepositOf, TypeOK, GlobalState
    <2> QED BY <1>1, <2>2, <2>3 DEF InitializeChannel, Books, AmountOf, HeldIn, history
  <1>2. ASSUME NEW t \in Mints, UpdateSpendingCap(t, c, cap) PROVE UNCHANGED Books
    <2>1. SettledOf' = SettledOf
      BY <1>2 DEF UpdateSpendingCap, SettledOf, TypeOK, Channel
    <2>2. DepositOf' = DepositOf
      BY <1>2 DEF UpdateSpendingCap, DepositOf, TypeOK, GlobalState
    <2> QED BY <1>2, <2>1, <2>2 DEF UpdateSpendingCap, Books, AmountOf, HeldIn, history
  <1> QED BY <1>1, <1>2

LEMMA MoneyOfMoveToEscrow ==
    ASSUME TypeOK, EscrowFunded, EscrowHistory, UnopenedIsEmpty, NEW c \in Channels,
           NEW root, NEW total \in Amounts, NEW optimistic, MoveToEscrow(c, root, total, optimistic)
    PROVE  Fills(<<c, channel[c].nonce>>, total)
  <1> DEFINE e == <<c, channel[c].nonce>>
  <1>1. e \in Escrows /\ e[1] = c /\ ~escrow[e].open
    BY ChannelParts DEF MoveToEscrow
  <1>2. escrow[e].amount = 0 /\ escrow[e].lamports = 0 /\ paid[e].to = Nobody
    BY <1>1 DEF UnopenedIsEmpty, EscrowHistory, EscrowFunded
  <1>3. AmountOf' = [AmountOf EXCEPT ![e] = total] /\ HeldIn' = [HeldIn EXCEPT ![e] = total]
    BY <1>1 DEF MoveToEscrow, AmountOf, HeldIn, TypeOK
  <1>4. SettledOf' = [SettledOf EXCEPT ![c] = @ + total]
    BY DEF MoveToEscrow, SettledOf, TypeOK, Channel
  <1>5. UNCHANGED <<wallet, DepositOf, paid>>
    BY DEF MoveToEscrow, DepositOf, history
  <1>6. AmountOf[e] = 0 /\ HeldIn[e] = 0
    BY <1>1, <1>2 DEF AmountOf, HeldIn
  <1> QED
    BY <1>1, <1>2, <1>3, <1>4, <1>5, <1>6 DEF Fills, MoveToEscrow

LEMMA SettledUpdate ==
    ASSUME TypeOK, NEW c \in Channels, NEW n,
           channel' = [channel EXCEPT ![c].settled_amount = n]
    PROVE  SettledOf' = [SettledOf EXCEPT ![c] = n]
  <1>1. \A d \in Channels : channel'[d].settled_amount =
            IF d = c THEN n ELSE channel[d].settled_amount
    BY DEF TypeOK, Channel
  <1> QED BY <1>1 DEF SettledOf

LEMMA MoneyOfEscrow ==
    ASSUME TypeOK, EscrowFunded, NEW e \in Escrows
    PROVE  /\ Dispute(e) => UNCHANGED Books
           /\ ReleaseSettlement(e) \/ ForceRelease(e) => Empties(e, MerchantOf(e[1]))
           /\ \A a \in Amounts : ResolveDispute(e, a) => Empties(e, Buyer)
  <1>1. MerchantOf(e[1]) \in Merchants /\ MerchantOf(e[1]) # Buyer /\ e[1] \in Channels
    BY EscrowParts
  <1>2. ASSUME Dispute(e) PROVE UNCHANGED Books
    <2>1. AmountOf' = AmountOf /\ HeldIn' = HeldIn
      BY <1>2 DEF Dispute, AmountOf, HeldIn, TypeOK, SettlementEscrow
    <2> QED BY <1>2, <2>1 DEF Dispute, accounts, Books, SettledOf, DepositOf
  <1>3. ASSUME NEW p, PayOut(e, p), ~escrow[e].claimed
        PROVE  /\ HeldIn[e] = AmountOf[e] /\ paid[e].to = Nobody
               /\ wallet' = [wallet EXCEPT ![p] = @ + AmountOf[e]]
               /\ HeldIn' = [HeldIn EXCEPT ![e] = 0]
               /\ paid' = [paid EXCEPT ![e] = [to |-> p, at |-> now]]
               /\ AmountOf' = AmountOf
    <2>1. escrow[e].lamports = escrow[e].amount /\ escrow[e].amount \in Nat /\ paid[e].to = Nobody
      BY <1>3 DEF EscrowFunded, TypeOK, SettlementEscrow
    <2>2. escrow[e].lamports - escrow[e].amount = 0
      BY <2>1
    <2>3. HeldIn' = [HeldIn EXCEPT ![e] = 0]
      <3>1. \A d \in Escrows : escrow'[d].lamports = IF d = e THEN 0 ELSE escrow[d].lamports
        BY <1>3, <2>2 DEF PayOut, TypeOK, SettlementEscrow
      <3> QED BY <3>1 DEF HeldIn
    <2>4. AmountOf' = AmountOf
      <3> DEFINE z == escrow[e].lamports - escrow[e].amount
      <3>1. escrow' = [escrow EXCEPT ![e].claimed = TRUE, ![e].lamports = z]
        BY <1>3 DEF PayOut
      <3>2. escrow \in [Escrows -> SettlementEscrow]
        BY DEF TypeOK
      <3>3. \A d \in Escrows : escrow'[d].amount = escrow[d].amount
        <4> HIDE DEF z
        <4> QED BY <3>1, <3>2 DEF SettlementEscrow
      <3> QED BY <3>3 DEF AmountOf
    <2> QED BY <1>3, <2>1, <2>3, <2>4 DEF PayOut, HeldIn, AmountOf
  <1>4. ASSUME ReleaseSettlement(e) \/ ForceRelease(e) PROVE Empties(e, MerchantOf(e[1]))
    <2>1. PayOut(e, MerchantOf(e[1])) /\ ~escrow[e].claimed
      BY <1>4 DEF ReleaseSettlement, ForceRelease
    <2>2. UNCHANGED <<vault, SettledOf, DepositOf>>
      BY <1>4 DEF ReleaseSettlement, ForceRelease, SettledOf, DepositOf
    <2> QED BY <1>1, <1>3, <2>1, <2>2 DEF Empties
  <1>5. ASSUME NEW a \in Amounts, ResolveDispute(e, a) PROVE Empties(e, Buyer)
    <2>1. PayOut(e, Buyer) /\ ~escrow[e].claimed
      BY <1>5 DEF ResolveDispute
    <2>2. SettledOf' = [SettledOf EXCEPT ![e[1]] = @ - AmountOf[e]]
      <3>1. AmountOf[e] = escrow[e].amount
        BY DEF AmountOf
      <3>2. channel' = [channel EXCEPT ![e[1]].settled_amount
                          = channel[e[1]].settled_amount - AmountOf[e]]
        BY <1>5, <3>1 DEF ResolveDispute
      <3>3. SettledOf' = [SettledOf EXCEPT ![e[1]] = channel[e[1]].settled_amount - AmountOf[e]]
        BY <1>1, <3>2, SettledUpdate
      <3>4. SettledOf[e[1]] = channel[e[1]].settled_amount
        BY <1>1 DEF SettledOf
      <3> QED BY <3>3, <3>4
    <2>3. UNCHANGED <<vault, DepositOf>>
      BY <1>5 DEF ResolveDispute, DepositOf
    <2> QED BY <1>3, <2>1, <2>2, <2>3 DEF Empties
  <1> QED BY <1>2, <1>4, <1>5

(* Every step of the program does one of the four things to the books.       *)
LEMMA NextMoney ==
    ASSUME IInv, UnopenedIsEmpty, [Next]_vars PROVE MoneyEffect
  <1>0. TypeOK /\ EscrowFunded /\ EscrowHistory
    BY DEF IInv
  <1>1. CASE BuyerStep
    <2>1. ASSUME NEW t \in Mints, NEW a \in Amounts, Deposit(t, a) \/ Withdraw(t, a)
          PROVE  MoneyEffect
      <3>1. a \in Int /\ 0 - a \in Int
        OBVIOUS
      <3> QED BY <1>0, <2>1, <3>1, MoneyOfGlobal DEF MoneyEffect
    <2>2. ASSUME NEW c \in Channels, NEW root \in Roots, NEW total \in Amounts,
                 NEW n \in Nonces, SignSettlement(c, root, total, n)
          PROVE  MoneyEffect
      BY <2>2 DEF SignSettlement, history, MoneyEffect, Books, AmountOf, HeldIn,
                  SettledOf, DepositOf
    <2>3. ASSUME NEW e \in Escrows, Dispute(e) \/ \E a \in Amounts : ResolveDispute(e, a)
          PROVE  MoneyEffect
      BY <1>0, <2>3, MoneyOfEscrow DEF MoneyEffect
    <2>4. ASSUME NEW t \in Mints, InitializeGlobal(t) PROVE MoneyEffect
      BY <1>0, <2>4, MoneyOfGlobal DEF MoneyEffect
    <2>5. ASSUME NEW c \in Channels, NEW cap \in Amounts,
                 \/ \E cp, dp \in Periods : InitializeChannel(c, cap, cp, dp)
                 \/ \E t \in Mints : UpdateSpendingCap(t, c, cap)
          PROVE  MoneyEffect
      BY <1>0, <2>5, MoneyOfCaps DEF MoneyEffect
    <2> QED BY <1>1, <2>1, <2>2, <2>3, <2>4, <2>5 DEF BuyerStep
  <1>2. CASE MerchantStep
    <2>1. ASSUME NEW c \in Channels, NEW root \in Roots, NEW total \in Amounts,
                 SettleBatch(c, root, total) \/ OptimisticSettle(c, root, total)
          PROVE  MoneyEffect
      <3>1. Fills(<<c, channel[c].nonce>>, total)
        BY <1>0, <2>1, MoneyOfMoveToEscrow DEF SettleBatch, OptimisticSettle
      <3>2. <<c, channel[c].nonce>> \in Escrows /\ total \in Nat
        BY <2>1, ChannelParts DEF SettleBatch, OptimisticSettle, MoveToEscrow
      <3> QED BY <3>1, <3>2 DEF MoneyEffect
    <2>2. ASSUME NEW e \in Escrows, ReleaseSettlement(e) \/ ForceRelease(e)
          PROVE  MoneyEffect
      BY <1>0, <2>2, MoneyOfEscrow, EscrowParts DEF MoneyEffect
    <2> QED BY <1>2, <2>1, <2>2 DEF MerchantStep
  <1>3. CASE Tick \/ UNCHANGED vars
    BY <1>3 DEF Tick, vars, accounts, history, MoneyEffect, Books, AmountOf, HeldIn,
                SettledOf, DepositOf
  <1> QED BY <1>1, <1>2, <1>3 DEF Next

LEMMA UnopenedStep ==
    ASSUME TypeOK, EscrowHistory, UnopenedIsEmpty, [Next]_vars PROVE UnopenedIsEmpty'
  <1> DEFINE Empty(e) == ~escrow'[e].open => escrow'[e].amount = 0
             Blank(c) == ~channel'[c].open =>
                channel'[c].settled_amount = 0 /\ channel'[c].spending_cap = 0
             Done == (\A e \in Escrows : Empty(e)) /\ \A c \in Channels : Blank(c)
  <1> SUFFICES Done
    BY DEF UnopenedIsEmpty
  <1>2. UNCHANGED escrow => \A e \in Escrows : Empty(e)
    BY DEF UnopenedIsEmpty
  <1>3. UNCHANGED channel => \A c \in Channels : Blank(c)
    BY DEF UnopenedIsEmpty
  <1>4. ASSUME NEW c \in Channels, channel'[c].open,
               \A d \in Channels : d # c => channel'[d] = channel[d]
        PROVE  \A d \in Channels : Blank(d)
    BY <1>4 DEF UnopenedIsEmpty
  <1>5. ASSUME NEW e \in Escrows, escrow'[e].open,
               \A d \in Escrows : d # e => escrow'[d] = escrow[d]
        PROVE  \A d \in Escrows : Empty(d)
    BY <1>5 DEF UnopenedIsEmpty
  <1>6. ASSUME NEW c \in Channels, NEW cap \in Amounts,
               \/ \E cp, dp \in Periods : InitializeChannel(c, cap, cp, dp)
               \/ \E t \in Mints : UpdateSpendingCap(t, c, cap)
        PROVE  Done
    <2>1. channel'[c].open /\ (\A d \in Channels : d # c => channel'[d] = channel[d])
      <3>1. CASE \E cp, dp \in Periods : InitializeChannel(c, cap, cp, dp)
        BY <3>1 DEF InitializeChannel, NewChannel, TypeOK
      <3>2. CASE \E t \in Mints : UpdateSpendingCap(t, c, cap)
        BY <3>2 DEF UpdateSpendingCap, TypeOK, Channel
      <3> QED BY <1>6, <3>1, <3>2
    <2>2. UNCHANGED escrow
      BY <1>6 DEF InitializeChannel, UpdateSpendingCap
    <2> QED BY <1>2, <1>4, <2>1, <2>2
  <1>7. ASSUME NEW c \in Channels, NEW root \in Roots, NEW total \in Amounts,
               SettleBatch(c, root, total) \/ OptimisticSettle(c, root, total)
        PROVE  Done
    <2>1. PICK o \in BOOLEAN : MoveToEscrow(c, root, total, o)
      BY <1>7 DEF SettleBatch, OptimisticSettle
    <2>2. channel'[c].open /\ (\A d \in Channels : d # c => channel'[d] = channel[d])
      BY <2>1 DEF MoveToEscrow, TypeOK, Channel
    <2>3. /\ <<c, channel[c].nonce>> \in Escrows /\ escrow'[<<c, channel[c].nonce>>].open
          /\ \A d \in Escrows : d # <<c, channel[c].nonce>> => escrow'[d] = escrow[d]
      BY <2>1, ChannelParts DEF MoveToEscrow, TypeOK
    <2> QED BY <1>4, <1>5, <2>2, <2>3
  <1>8. ASSUME NEW e \in Escrows, NEW p, PayOut(e, p), escrow[e].open PROVE \A d \in Escrows : Empty(d)
    <2>1. escrow'[e].open /\ \A d \in Escrows : d # e => escrow'[d] = escrow[d]
      BY <1>8 DEF PayOut, TypeOK, SettlementEscrow
    <2> QED BY <1>5, <2>1
  <1>9. ASSUME NEW e \in Escrows, NEW a \in Amounts, ResolveDispute(e, a) PROVE Done
    <2>1. e[1] \in Channels /\ channel[e[1]].open
      BY <1>9, EscrowParts DEF ResolveDispute, EscrowHistory
    <2>2. channel'[e[1]].open
      BY <1>9, <2>1 DEF ResolveDispute, TypeOK, Channel
    <2>3. \A d \in Channels : d # e[1] => channel'[d] = channel[d]
      BY <1>9, <2>1 DEF ResolveDispute, TypeOK
    <2> QED BY <1>4, <1>8, <1>9, <2>1, <2>2, <2>3 DEF ResolveDispute
  <1>10. ASSUME NEW e \in Escrows, ReleaseSettlement(e) \/ ForceRelease(e) PROVE Done
    BY <1>3, <1>8, <1>10 DEF ReleaseSettlement, ForceRelease
  <1>11. ASSUME NEW e \in Escrows, Dispute(e) PROVE Done
    <2>1. escrow'[e].open /\ \A d \in Escrows : d # e => escrow'[d] = escrow[d]
      BY <1>11 DEF Dispute, TypeOK, SettlementEscrow
    <2> QED BY <1>3, <1>5, <1>11, <2>1 DEF Dispute, accounts
  <1>12. ASSUME UNCHANGED <<channel, escrow>> PROVE Done
    BY <1>2, <1>3, <1>12
  <1> HIDE DEF Done
  <1>13. CASE BuyerStep
    BY <1>6, <1>9, <1>11, <1>12, <1>13
       DEF BuyerStep, InitializeGlobal, Deposit, Withdraw, SignSettlement
  <1>14. CASE MerchantStep
    BY <1>7, <1>10, <1>14 DEF MerchantStep
  <1>15. CASE Tick \/ UNCHANGED vars
    BY <1>12, <1>15 DEF Tick, vars, accounts
  <1> QED BY <1>13, <1>14, <1>15 DEF Next

LEMMA BooksTypeNext ==
    ASSUME TypeOK'
    PROVE  /\ wallet' \in [Merchants \cup {Buyer} -> Nat] /\ vault' \in [Mints -> Nat]
           /\ AmountOf' \in [Escrows -> Nat] /\ HeldIn' \in [Escrows -> Nat]
           /\ SettledOf' \in [Channels -> Nat] /\ DepositOf' \in [Mints -> Nat]
  BY DEF TypeOK, AmountOf, HeldIn, SettledOf, DepositOf, SettlementEscrow, Channel, GlobalState

(* The sums that make up the buyer's lamports, before and after a step.      *)
LEMMA ConservedStep ==
    ASSUME TypeOK, TypeOK', LamportsConserved, MoneyEffect PROVE LamportsConserved'
  <1> DEFINE People == Merchants \cup {Buyer}
             Sum(F, S) == SumFunctionOnSet(F, S)
  <1>1. /\ wallet \in [People -> Nat] /\ wallet' \in [People -> Nat]
        /\ vault \in [Mints -> Nat] /\ vault' \in [Mints -> Nat]
        /\ HeldIn \in [Escrows -> Nat] /\ HeldIn' \in [Escrows -> Nat]
        /\ AmountOf \in [Escrows -> Nat]
    BY BooksType, BooksTypeNext
  <1>2. /\ LamportsConserved <=>
             (Sum(wallet, People) + Sum(vault, Mints)) + Sum(HeldIn, Escrows) = Supply
        /\ LamportsConserved' <=>
             (Sum(wallet', People) + Sum(vault', Mints)) + Sum(HeldIn', Escrows) = Supply
    <2>1. /\ DOMAIN wallet = People /\ DOMAIN wallet' = People
          /\ DOMAIN vault = Mints /\ DOMAIN vault' = Mints
          /\ DOMAIN HeldIn = Escrows /\ DOMAIN HeldIn' = Escrows
      BY <1>1
    <2> QED BY <2>1 DEF LamportsConserved, SumFunction
  <1>3. IsFiniteSet(People) /\ IsFiniteSet(Mints) /\ IsFiniteSet(Escrows)
    BY MoneyFinite
  <1>4. /\ Sum(wallet, People) \in Nat /\ Sum(vault, Mints) \in Nat /\ Sum(HeldIn, Escrows) \in Nat
        /\ Sum(wallet', People) \in Nat /\ Sum(vault', Mints) \in Nat
        /\ Sum(HeldIn', Escrows) \in Nat
    <2>1. /\ \A p \in People : wallet[p] \in Nat /\ wallet'[p] \in Nat
          /\ \A t \in Mints : vault[t] \in Nat /\ vault'[t] \in Nat
          /\ \A e \in Escrows : HeldIn[e] \in Nat /\ HeldIn'[e] \in Nat
      BY <1>1
    <2> QED BY <1>3, <2>1, SumType
  <1>5. (Sum(wallet, People) + Sum(vault, Mints)) + Sum(HeldIn, Escrows) = Supply
    BY <1>2
  <1> DEFINE After == (Sum(wallet', People) + Sum(vault', Mints)) + Sum(HeldIn', Escrows)
  <1> SUFFICES After = Supply
    BY <1>2
  <1>9. CASE UNCHANGED Books
    BY <1>5, <1>9 DEF Books
  <1>6. ASSUME NEW t \in Mints, NEW a \in Int, MovesIn(t, a) PROVE After = Supply
    <2>1. Sum(wallet', People) = (Sum(wallet, People) - wallet[Buyer]) + wallet'[Buyer]
      <3>1. Buyer \in People /\ \A p \in People : p # Buyer => wallet'[p] = wallet[p]
        BY <1>1, <1>6 DEF MovesIn
      <3>2. wallet \in [People -> Nat] /\ wallet' \in [People -> Nat] /\ IsFiniteSet(People)
        BY <1>1, <1>3
      <3> HIDE DEF People
      <3> QED BY <3>1, <3>2, SumRest
    <2>2. Sum(vault', Mints) = (Sum(vault, Mints) - vault[t]) + vault'[t]
      <3>1. \A s \in Mints : s # t => vault'[s] = vault[s]
        BY <1>1, <1>6 DEF MovesIn
      <3>2. vault \in [Mints -> Nat] /\ vault' \in [Mints -> Nat] /\ IsFiniteSet(Mints)
        BY <1>1, <1>3
      <3> QED BY <3>1, <3>2, SumRest
    <2>3. /\ wallet'[Buyer] = wallet[Buyer] - a /\ vault'[t] = vault[t] + a
          /\ HeldIn' = HeldIn /\ wallet[Buyer] \in Nat /\ vault[t] \in Nat
      BY <1>1, <1>6 DEF MovesIn
    <2>4. Sum(HeldIn', Escrows) = Sum(HeldIn, Escrows)
      BY <2>3
    <2>5. /\ Sum(wallet', People) = Sum(wallet, People) - a
          /\ Sum(vault', Mints) = Sum(vault, Mints) + a
      <3> HIDE DEF Sum, People
      <3> QED BY <1>4, <2>1, <2>2, <2>3
    <2> HIDE DEF Sum, People
    <2> QED BY <1>4, <1>5, <2>4, <2>5
  <1>7. ASSUME NEW e \in Escrows, NEW total \in Nat, Fills(e, total) PROVE After = Supply
    <2> DEFINE t == MintOf(e[1])
    <2>0. t \in Mints
      BY EscrowParts
    <2> HIDE DEF t
    <2>1. Sum(vault', Mints) = (Sum(vault, Mints) - vault[t]) + vault'[t]
      <3>1. \A s \in Mints : s # t => vault'[s] = vault[s]
        BY <1>1, <1>7 DEF Fills, t
      <3>2. vault \in [Mints -> Nat] /\ vault' \in [Mints -> Nat] /\ IsFiniteSet(Mints)
        BY <1>1, <1>3
      <3> QED BY <2>0, <3>1, <3>2, SumRest
    <2>2. Sum(HeldIn', Escrows) = (Sum(HeldIn, Escrows) - HeldIn[e]) + HeldIn'[e]
      <3>1. \A d \in Escrows : d # e => HeldIn'[d] = HeldIn[d]
        BY <1>1, <1>7 DEF Fills
      <3>2. HeldIn \in [Escrows -> Nat] /\ HeldIn' \in [Escrows -> Nat] /\ IsFiniteSet(Escrows)
        BY <1>1, <1>3
      <3> QED BY <3>1, <3>2, SumRest
    <2>3. /\ vault'[t] = vault[t] - total /\ HeldIn[e] = 0 /\ HeldIn'[e] = total
          /\ wallet' = wallet /\ vault[t] \in Nat
      BY <1>1, <1>7, <2>0 DEF Fills, t
    <2>4. Sum(wallet', People) = Sum(wallet, People)
      BY <2>3
    <2>5. /\ Sum(vault', Mints) = Sum(vault, Mints) - total
          /\ Sum(HeldIn', Escrows) = Sum(HeldIn, Escrows) + total
      <3> HIDE DEF Sum, People
      <3> QED BY <1>4, <2>1, <2>2, <2>3
    <2> HIDE DEF Sum, People
    <2> QED BY <1>4, <1>5, <2>4, <2>5
  <1>8. ASSUME NEW e \in Escrows, NEW p \in People, Empties(e, p) PROVE After = Supply
    <2>1. Sum(wallet', People) = (Sum(wallet, People) - wallet[p]) + wallet'[p]
      <3>1. \A q \in People : q # p => wallet'[q] = wallet[q]
        BY <1>1, <1>8 DEF Empties
      <3>2. wallet \in [People -> Nat] /\ wallet' \in [People -> Nat] /\ IsFiniteSet(People)
        BY <1>1, <1>3
      <3> HIDE DEF People
      <3> QED BY <3>1, <3>2, SumRest
    <2>2. Sum(HeldIn', Escrows) = (Sum(HeldIn, Escrows) - HeldIn[e]) + HeldIn'[e]
      <3>1. \A d \in Escrows : d # e => HeldIn'[d] = HeldIn[d]
        BY <1>1, <1>8 DEF Empties
      <3>2. HeldIn \in [Escrows -> Nat] /\ HeldIn' \in [Escrows -> Nat] /\ IsFiniteSet(Escrows)
        BY <1>1, <1>3
      <3> QED BY <3>1, <3>2, SumRest
    <2>3. /\ wallet'[p] = wallet[p] + AmountOf[e] /\ HeldIn[e] = AmountOf[e] /\ HeldIn'[e] = 0
          /\ vault' = vault /\ wallet[p] \in Nat /\ AmountOf[e] \in Nat
      BY <1>1, <1>8 DEF Empties
    <2>4. Sum(vault', Mints) = Sum(vault, Mints)
      BY <2>3
    <2> DEFINE n == AmountOf[e]
    <2> HIDE DEF Sum, People
    <2>5. Sum(wallet', People) = Sum(wallet, People) + n
      BY <1>4, <2>1, <2>3
    <2>6. Sum(HeldIn', Escrows) = Sum(HeldIn, Escrows) - n
      BY <1>4, <2>2, <2>3
    <2>7. n \in Nat
      BY <2>3
    <2> HIDE DEF n
    <2> QED BY <1>4, <1>5, <2>4, <2>5, <2>6, <2>7
  <1> HIDE DEF After
  <1> QED BY <1>6, <1>7, <1>8, <1>9 DEF MoneyEffect

LEMMA VaultStep ==
    ASSUME TypeOK, TypeOK', VaultAccounting, MoneyEffect PROVE VaultAccounting'
  <1> DEFINE Sum(F, t) == SumFunctionOnSet(F, EscrowsOn(t))
  <1>1. /\ vault \in [Mints -> Nat] /\ DepositOf \in [Mints -> Nat]
        /\ AmountOf \in [Escrows -> Nat] /\ AmountOf' \in [Escrows -> Nat]
    BY BooksType, BooksTypeNext
  <1>2. /\ \A t \in Mints : vault[t] + Sum(AmountOf, t) = DepositOf[t]
        /\ VaultAccounting' <=> \A t \in Mints : vault'[t] + Sum(AmountOf', t) = DepositOf'[t]
    BY DEF VaultAccounting, SumAmounts, DepositOf
  <1>3. \A t \in Mints : IsFiniteSet(EscrowsOn(t)) /\ EscrowsOn(t) \subseteq Escrows
    BY MoneyFinite DEF EscrowsOn
  <1>4. ASSUME NEW t \in Mints PROVE Sum(AmountOf, t) \in Nat
    <2>1. \A e \in EscrowsOn(t) : AmountOf[e] \in Nat
      BY <1>1, <1>3
    <2> QED BY <1>3, <2>1, SumType
  <1> SUFFICES ASSUME NEW t \in Mints PROVE vault'[t] + Sum(AmountOf', t) = DepositOf'[t]
    BY <1>2
  <1>5. vault[t] \in Nat /\ DepositOf[t] \in Nat /\ Sum(AmountOf, t) \in Nat
        /\ vault[t] + Sum(AmountOf, t) = DepositOf[t]
    BY <1>1, <1>2, <1>4
  <1>6. CASE UNCHANGED <<vault, AmountOf, DepositOf>>
    BY <1>5, <1>6
  <1>7. ASSUME NEW s \in Mints, NEW a \in Int, MovesIn(s, a)
        PROVE  vault'[t] + Sum(AmountOf', t) = DepositOf'[t]
    <2>1. /\ AmountOf' = AmountOf
          /\ vault'[t] = IF t = s THEN vault[t] + a ELSE vault[t]
          /\ DepositOf'[t] = IF t = s THEN DepositOf[t] + a ELSE DepositOf[t]
      BY <1>1, <1>7 DEF MovesIn
    <2> HIDE DEF Sum
    <2> QED BY <1>5, <2>1
  <1>8. ASSUME NEW e \in Escrows, NEW total \in Nat, Fills(e, total)
        PROVE  vault'[t] + Sum(AmountOf', t) = DepositOf'[t]
    <2>1. /\ DepositOf' = DepositOf /\ AmountOf[e] = 0 /\ AmountOf'[e] = total
          /\ \A d \in Escrows \ {e} : AmountOf'[d] = AmountOf[d]
          /\ vault'[t] = IF t = MintOf(e[1]) THEN vault[t] - total ELSE vault[t]
      BY <1>1, <1>8, EscrowParts DEF Fills
    <2>2. CASE t = MintOf(e[1])
      <3>1. e \in EscrowsOn(t)
        BY <2>2 DEF EscrowsOn
      <3>2. /\ \A d \in EscrowsOn(t) : AmountOf[d] \in Int /\ AmountOf'[d] \in Int
            /\ \A d \in EscrowsOn(t) \ {e} : AmountOf[d] = AmountOf'[d]
        BY <1>1, <1>3, <2>1
      <3>3. Sum(AmountOf', t) = Sum(AmountOf, t) - AmountOf[e] + AmountOf'[e]
        BY <1>3, <3>1, <3>2, SumChange
      <3> HIDE DEF Sum
      <3> QED BY <1>5, <2>1, <2>2, <3>3
    <2>3. CASE t # MintOf(e[1])
      <3>1. \A d \in EscrowsOn(t) : AmountOf[d] = AmountOf'[d]
        BY <2>1, <2>3 DEF EscrowsOn
      <3>2. Sum(AmountOf', t) = Sum(AmountOf, t)
        BY <1>3, <3>1, SumSame
      <3> QED BY <1>5, <2>1, <2>3, <3>2
    <2> QED BY <2>2, <2>3
  <1> QED BY <1>6, <1>7, <1>8 DEF MoneyEffect, Books, Empties

LEMMA OutstandingStep ==
    ASSUME TypeOK, TypeOK', SettledIsOutstanding, MoneyEffect PROVE SettledIsOutstanding'
  <1> DEFINE Sum(F, S) == SumFunctionOnSet(F, S)
  <1>1. /\ SettledOf \in [Channels -> Nat] /\ AmountOf \in [Escrows -> Nat]
        /\ AmountOf' \in [Escrows -> Nat] /\ paid \in [Escrows -> Payout]
    BY BooksType, BooksTypeNext DEF TypeOK
  <1>2. /\ \A c \in Channels : SettledOf[c] = Sum(AmountOf, Outstanding(c))
        /\ SettledIsOutstanding' <=>
             \A c \in Channels : SettledOf'[c] = Sum(AmountOf', Outstanding(c)')
    BY DEF SettledIsOutstanding, SumAmounts, SettledOf
  <1>3. \A c \in Channels : Outstanding(c) \subseteq Escrows /\ IsFiniteSet(Outstanding(c))
    <2>1. \A c \in Channels : Outstanding(c) \subseteq EscrowsOf(c) /\ EscrowsOf(c) \subseteq Escrows
      BY DEF Outstanding, EscrowsOf
    <2> QED BY <2>1, MoneyFinite, FS_Subset
  <1> SUFFICES ASSUME NEW c \in Channels PROVE SettledOf'[c] = Sum(AmountOf', Outstanding(c)')
    BY <1>2
  <1>4. paid' = paid => Outstanding(c)' = Outstanding(c)
    BY DEF Outstanding, Refunded
  <1>5. SettledOf[c] = Sum(AmountOf, Outstanding(c)) /\ SettledOf[c] \in Nat
    BY <1>1, <1>2
  <1>6. CASE UNCHANGED <<AmountOf, SettledOf, paid>>
    BY <1>4, <1>5, <1>6
  <1>7. ASSUME NEW e \in Escrows, NEW total \in Nat, Fills(e, total)
        PROVE  SettledOf'[c] = Sum(AmountOf', Outstanding(c)')
    <2>1. /\ Outstanding(c)' = Outstanding(c) /\ e[1] \in Channels
          /\ AmountOf[e] = 0 /\ AmountOf'[e] = total
          /\ \A d \in Escrows \ {e} : AmountOf[d] = AmountOf'[d]
          /\ SettledOf'[c] = IF c = e[1] THEN SettledOf[c] + total ELSE SettledOf[c]
      BY <1>1, <1>4, <1>7, EscrowParts DEF Fills
    <2>2. CASE c = e[1]
      <3>1. e \in Outstanding(c)
        BY <1>7, <2>2 DEF Fills, Outstanding, EscrowsOf, Refunded
      <3>2. /\ \A d \in Outstanding(c) : AmountOf[d] \in Int /\ AmountOf'[d] \in Int
            /\ \A d \in Outstanding(c) \ {e} : AmountOf[d] = AmountOf'[d]
        BY <1>1, <1>3, <2>1
      <3>3. Sum(AmountOf', Outstanding(c)) = Sum(AmountOf, Outstanding(c)) - AmountOf[e] + AmountOf'[e]
        BY <1>3, <3>1, <3>2, SumChange
      <3>4. Sum(AmountOf', Outstanding(c)) = SettledOf[c] + total
        <4> HIDE DEF Sum
        <4> QED BY <1>5, <2>1, <3>3
      <3> QED BY <2>1, <2>2, <3>4
    <2>3. CASE c # e[1]
      <3>1. \A d \in Outstanding(c) : AmountOf[d] = AmountOf'[d]
        BY <2>1, <2>3 DEF Outstanding, EscrowsOf
      <3>2. Sum(AmountOf', Outstanding(c)) = Sum(AmountOf, Outstanding(c))
        BY <1>3, <3>1, SumSame
      <3> QED BY <1>5, <2>1, <2>3, <3>2
    <2> QED BY <2>2, <2>3
  <1>8. ASSUME NEW e \in Escrows, NEW p \in Merchants \cup {Buyer}, Empties(e, p)
        PROVE  SettledOf'[c] = Sum(AmountOf', Outstanding(c)')
    <2>1. /\ AmountOf' = AmountOf /\ paid[e].to = Nobody /\ paid'[e].to = p
          /\ \A d \in Escrows : d # e => paid'[d] = paid[d]
          /\ e[1] \in Channels
      BY <1>1, <1>8, EscrowParts DEF Empties
    <2>2. CASE p # Buyer \/ c # e[1]
      <3>1. Outstanding(c)' = Outstanding(c)
        BY <2>1, <2>2 DEF Outstanding, EscrowsOf, Refunded
      <3>2. SettledOf'[c] = SettledOf[c]
        BY <1>1, <1>8, <2>1, <2>2 DEF Empties
      <3> QED BY <1>5, <2>1, <3>1, <3>2
    <2>3. CASE p = Buyer /\ c = e[1]
      <3>1. e \in Outstanding(c) /\ Outstanding(c)' = Outstanding(c) \ {e}
        BY <2>1, <2>3 DEF Outstanding, EscrowsOf, Refunded
      <3>2. \A d \in Outstanding(c) : AmountOf[d] \in Int
        BY <1>1, <1>3
      <3>3. Sum(AmountOf, Outstanding(c)) = AmountOf[e] + Sum(AmountOf, Outstanding(c) \ {e})
        BY <1>3, <3>1, <3>2, SumTakeOut
      <3>4. Sum(AmountOf, Outstanding(c) \ {e}) \in Int /\ AmountOf[e] \in Int
        <4>1. IsFiniteSet(Outstanding(c) \ {e}) /\ Outstanding(c) \ {e} \subseteq Outstanding(c)
          BY <1>3, FS_Subset
        <4>2. \A d \in Outstanding(c) \ {e} : AmountOf[d] \in Int
          BY <3>2
        <4> QED BY <1>1, <4>1, <4>2, SumType
      <3>5. SettledOf'[c] = SettledOf[c] - AmountOf[e]
        BY <1>1, <1>8, <2>3 DEF Empties
      <3>6. SettledOf'[c] = Sum(AmountOf, Outstanding(c) \ {e})
        <4> HIDE DEF Sum
        <4> QED BY <1>5, <3>3, <3>4, <3>5
      <3> QED BY <2>1, <3>1, <3>6
    <2> QED BY <2>2, <2>3
  <1>9. ASSUME NEW t \in Mints, NEW a \in Int, MovesIn(t, a)
        PROVE  SettledOf'[c] = Sum(AmountOf', Outstanding(c)')
    BY <1>6, <1>9 DEF MovesIn
  <1> HIDE DEF Sum
  <1> QED BY <1>6, <1>7, <1>8, <1>9 DEF MoneyEffect, Books

LEMMA UntilRefundStep ==
    ASSUME TypeOK, TypeOK', SettledUntilRefund, MoneyEffect PROVE SettledUntilRefund'
  <1> DEFINE Sum(F, t) == SumFunctionOnSet(F, ChannelsOf(t))
  <1>1. /\ vault \in [Mints -> Nat] /\ DepositOf \in [Mints -> Nat]
        /\ SettledOf \in [Channels -> Nat] /\ SettledOf' \in [Channels -> Nat]
        /\ paid \in [Escrows -> Payout]
    BY BooksType, BooksTypeNext DEF TypeOK
  <1>2. /\ \A t \in Mints : (\A e \in EscrowsOn(t) : ~Refunded(e)) =>
             vault[t] + Sum(SettledOf, t) = DepositOf[t]
        /\ SettledUntilRefund' <=> \A t \in Mints : (\A e \in EscrowsOn(t) : ~Refunded(e)') =>
             vault'[t] + Sum(SettledOf', t) = DepositOf'[t]
    BY DEF SettledUntilRefund, DepositOf
  <1>3. \A t \in Mints : IsFiniteSet(ChannelsOf(t)) /\ ChannelsOf(t) \subseteq Channels
    BY MoneyFinite DEF ChannelsOf
  <1> SUFFICES ASSUME NEW t \in Mints, \A e \in EscrowsOn(t) : ~Refunded(e)'
               PROVE  vault'[t] + Sum(SettledOf', t) = DepositOf'[t]
    BY <1>2
  <1>4. \A e \in EscrowsOn(t) : ~Refunded(e)
    <2> SUFFICES ASSUME NEW e \in EscrowsOn(t), Refunded(e) PROVE FALSE
      OBVIOUS
    <2>1. e \in Escrows /\ paid[e].to = Buyer
      BY DEF EscrowsOn, Refunded
    <2>2. paid'[e] = paid[e]
      BY <1>1, <2>1 DEF MoneyEffect, Books, MovesIn, Fills, Empties
    <2> QED BY <2>1, <2>2 DEF Refunded
  <1>5. Sum(SettledOf, t) \in Nat
    <2>1. \A c \in ChannelsOf(t) : SettledOf[c] \in Nat
      BY <1>1, <1>3
    <2> QED BY <1>3, <2>1, SumType
  <1>6. vault[t] \in Nat /\ DepositOf[t] \in Nat /\ vault[t] + Sum(SettledOf, t) = DepositOf[t]
    BY <1>1, <1>2, <1>4
  <1>7. CASE UNCHANGED Books
    BY <1>6, <1>7 DEF Books
  <1>8. ASSUME NEW s \in Mints, NEW a \in Int, MovesIn(s, a)
        PROVE  vault'[t] + Sum(SettledOf', t) = DepositOf'[t]
    <2>1. /\ SettledOf' = SettledOf
          /\ vault'[t] = IF t = s THEN vault[t] + a ELSE vault[t]
          /\ DepositOf'[t] = IF t = s THEN DepositOf[t] + a ELSE DepositOf[t]
      BY <1>1, <1>8 DEF MovesIn
    <2>2. Sum(SettledOf', t) = Sum(SettledOf, t)
      BY <2>1
    <2> HIDE DEF Sum
    <2> QED BY <1>5, <1>6, <2>1, <2>2
  <1>9. ASSUME NEW e \in Escrows, NEW total \in Nat, Fills(e, total)
        PROVE  vault'[t] + Sum(SettledOf', t) = DepositOf'[t]
    <2> DEFINE c == e[1]
    <2>1. c \in Channels
      BY EscrowParts
    <2>2. /\ DepositOf' = DepositOf /\ SettledOf'[c] = SettledOf[c] + total
          /\ \A d \in Channels \ {c} : SettledOf[d] = SettledOf'[d]
          /\ vault'[t] = IF t = MintOf(c) THEN vault[t] - total ELSE vault[t]
      BY <1>1, <1>9, <2>1, ChannelParts DEF Fills
    <2> HIDE DEF c
    <2>3. CASE t = MintOf(c)
      <3>1. c \in ChannelsOf(t)
        BY <2>1, <2>3 DEF ChannelsOf
      <3>2. /\ \A d \in ChannelsOf(t) : SettledOf[d] \in Int /\ SettledOf'[d] \in Int
            /\ \A d \in ChannelsOf(t) \ {c} : SettledOf[d] = SettledOf'[d]
        BY <1>1, <1>3, <2>2
      <3>3. Sum(SettledOf', t) = Sum(SettledOf, t) - SettledOf[c] + SettledOf'[c]
        BY <1>3, <3>1, <3>2, SumChange
      <3>4. SettledOf[c] \in Nat
        BY <1>1, <2>1
      <3>5. Sum(SettledOf', t) = Sum(SettledOf, t) + total
        <4> HIDE DEF Sum
        <4> QED BY <1>5, <2>2, <3>3, <3>4
      <3> HIDE DEF Sum
      <3> QED BY <1>5, <1>6, <2>2, <2>3, <3>5
    <2>4. CASE t # MintOf(c)
      <3>1. \A d \in ChannelsOf(t) : SettledOf[d] = SettledOf'[d]
        BY <2>2, <2>4 DEF ChannelsOf
      <3>2. Sum(SettledOf', t) = Sum(SettledOf, t)
        BY <1>3, <3>1, SumSame
      <3> QED BY <1>6, <2>2, <2>4, <3>2
    <2> QED BY <2>3, <2>4
  <1>10. ASSUME NEW e \in Escrows, NEW p \in Merchants \cup {Buyer}, Empties(e, p)
         PROVE  vault'[t] + Sum(SettledOf', t) = DepositOf'[t]
    <2>1. vault' = vault /\ DepositOf' = DepositOf /\ paid'[e].to = p
      BY <1>1, <1>10 DEF Empties
    <2>2. \A d \in ChannelsOf(t) : SettledOf[d] = SettledOf'[d]
      <3>1. p = Buyer => MintOf(e[1]) # t
        BY <2>1 DEF EscrowsOn, Refunded
      <3> QED BY <1>1, <1>10, <3>1, EscrowParts DEF Empties, ChannelsOf
    <2>3. Sum(SettledOf', t) = Sum(SettledOf, t)
      BY <1>3, <2>2, SumSame
    <2> QED BY <1>6, <2>1, <2>3
  <1> HIDE DEF Sum
  <1> QED BY <1>7, <1>8, <1>9, <1>10 DEF MoneyEffect

LEMMA MoneyInit == Init => MoneyInv
  <1> SUFFICES ASSUME Init PROVE MoneyInv
    OBVIOUS
  <1>0. TypeOK
    BY TypeInit
  <1>1. /\ \A e \in Escrows : AmountOf[e] = 0 /\ HeldIn[e] = 0 /\ ~Refunded(e)
        /\ \A c \in Channels : SettledOf[c] = 0 /\ channel[c].settled_amount = 0
        /\ \A t \in Mints : vault[t] = 0 /\ global[t].total_deposited = 0
        /\ \A m \in Merchants : wallet[m] = 0
        /\ wallet[Buyer] = Supply
    BY DEF Init, AmountOf, HeldIn, SettledOf, Refunded
  <1>2. LamportsConserved
    <2> DEFINE People == Merchants \cup {Buyer}
    <2>1. SumFunctionOnSet(wallet, People) = Supply
      <3>1. IsFiniteSet(People) /\ People \ {Buyer} = Merchants /\ Buyer \in People
        BY MoneyFinite
      <3>2. \A p \in People : wallet[p] \in Int
        BY <1>0 DEF TypeOK
      <3> HIDE DEF People
      <3>3. SumFunctionOnSet(wallet, People) = wallet[Buyer] + SumFunctionOnSet(wallet, Merchants)
        BY <3>1, <3>2, SumTakeOut
      <3>4. SumFunctionOnSet(wallet, Merchants) = 0
        BY <1>1, SumZero
      <3> QED BY <1>1, <3>3, <3>4
    <2>2. SumFunctionOnSet(vault, Mints) = 0 /\ SumFunctionOnSet(HeldIn, Escrows) = 0
      BY <1>1, MoneyFinite, SumZero
    <2>3. DOMAIN wallet = People /\ DOMAIN vault = Mints /\ DOMAIN HeldIn = Escrows
      BY <1>0 DEF TypeOK, HeldIn
    <2> HIDE DEF People
    <2> QED BY <2>1, <2>2, <2>3 DEF LamportsConserved, SumFunction
  <1>3. VaultAccounting
    <2>1. \A t \in Mints : SumAmounts(EscrowsOn(t)) = 0
      BY <1>1, MoneyFinite, SumZero DEF SumAmounts, EscrowsOn
    <2> QED BY <1>1, <2>1 DEF VaultAccounting
  <1>4. SettledIsOutstanding
    <2>1. \A c : Outstanding(c) \subseteq EscrowsOf(c)
      BY DEF Outstanding
    <2>2. \A c : IsFiniteSet(Outstanding(c))
      BY <2>1, MoneyFinite, FS_Subset
    <2>3. \A c \in Channels : SumAmounts(Outstanding(c)) = 0
      BY <1>1, <2>2, SumZero DEF SumAmounts, Outstanding, EscrowsOf
    <2> QED BY <1>1, <2>3 DEF SettledIsOutstanding
  <1>5. UnopenedIsEmpty
    BY DEF Init, UnopenedIsEmpty
  <1>6. SettledUntilRefund
    <2>1. \A t \in Mints : SumFunctionOnSet(SettledOf, ChannelsOf(t)) = 0
      BY <1>1, MoneyFinite, SumZero DEF ChannelsOf
    <2> QED BY <1>1, <2>1 DEF SettledUntilRefund
  <1> QED BY <1>2, <1>3, <1>4, <1>5, <1>6 DEF MoneyInv

LEMMA MoneyStep == IInv /\ MoneyInv /\ [Next]_vars => IInv' /\ MoneyInv'
  <1> SUFFICES ASSUME IInv, MoneyInv, [Next]_vars PROVE IInv' /\ MoneyInv'
    OBVIOUS
  <1>1. IInv'
    BY IInvStep
  <1>2. TypeOK /\ TypeOK' /\ EscrowHistory
    BY <1>1 DEF IInv
  <1>3. MoneyEffect
    BY NextMoney DEF MoneyInv
  <1> QED
    BY <1>1, <1>2, <1>3, ConservedStep, VaultStep, OutstandingStep, UnopenedStep,
       UntilRefundStep DEF MoneyInv

(* The books balance in every behaviour.                                     *)
THEOREM BooksBalance == Spec => []MoneyInv
  <1>1. Init => IInv /\ MoneyInv
    BY InitIInv, MoneyInit
  <1> QED
    BY <1>1, MoneyStep, PTL DEF Spec

(* No instruction creates or destroys a lamport: what wallets, vaults and    *)
(* escrows hold is always what the buyer started with.                       *)
THEOREM NoLamportsLost == Spec => []LamportsConserved
  <1>1. MoneyInv => LamportsConserved
    BY DEF MoneyInv
  <1> QED
    BY <1>1, BooksBalance, PTL

(* A vault is short of the deposits counted for its mint by exactly the      *)
(* batches ever settled from it, refunded or not.                            *)
THEOREM VaultsAddUp == Spec => []VaultAccounting
  <1>1. MoneyInv => VaultAccounting
    BY DEF MoneyInv
  <1> QED
    BY <1>1, BooksBalance, PTL

(* A channel's settled_amount is the total of its batches not refunded, so   *)
(* that the rollback of resolve_dispute never underflows.                    *)
THEOREM SettledAddsUp == Spec => []SettledIsOutstanding
  <1>1. MoneyInv => SettledIsOutstanding
    BY DEF MoneyInv
  <1> QED
    BY <1>1, BooksBalance, PTL

-----------------------------------------------------------------------------
(* Caps.                                                                     *)

(* A step that changes what one channel reserves by no more than what is     *)
(* allocated for it.                                                         *)
Charges(c, n) ==
    /\ \A d \in Channels : d # c => Reserved(d)' = Reserved(d)
    /\ Reserved(c)' <= Reserved(c) + n
    /\ \A t \in Mints : global'[t].total_allocated =
            global[t].total_allocated + (IF t = MintOf(c) THEN n ELSE 0)

ChargesNothing ==
    /\ \A d \in Channels : Reserved(d)' = Reserved(d)
    /\ \A t \in Mints : global'[t].total_allocated = global[t].total_allocated

LEMMA ReservedType ==
    /\ TypeOK => \A c \in Channels : Reserved(c) \in Nat
    /\ TypeOK' => \A c \in Channels : Reserved(c)' \in Nat
  <1>1. TypeOK => \A c \in Channels :
            channel[c].spending_cap \in Nat /\ channel[c].settled_amount \in Nat
    BY DEF TypeOK, Channel
  <1>2. TypeOK' => \A c \in Channels :
            channel'[c].spending_cap \in Nat /\ channel'[c].settled_amount \in Nat
    BY DEF TypeOK, Channel
  <1> QED BY <1>1, <1>2 DEF Reserved

LEMMA ChargedStep ==
    ASSUME TypeOK, TypeOK', ReservedIsAllocated,
           ChargesNothing \/ \E c \in Channels, n \in Nat : Charges(c, n)
    PROVE  ReservedIsAllocated'
  <1> DEFINE Sum(F, t) == SumFunctionOnSet(F, ChannelsOf(t))
  <1>1. /\ \A c \in Channels : ReservedOf[c] = Reserved(c) /\ ReservedOf[c] \in Nat
        /\ \A c \in Channels : ReservedOf'[c] = Reserved(c)' /\ ReservedOf'[c] \in Nat
    BY ReservedType DEF ReservedOf
  <1> SUFFICES ASSUME NEW t \in Mints
               PROVE  Sum(ReservedOf', t) <= global'[t].total_allocated
    BY DEF ReservedIsAllocated
  <1>2. IsFiniteSet(ChannelsOf(t)) /\ ChannelsOf(t) \subseteq Channels
    BY MoneyFinite DEF ChannelsOf
  <1>3. Sum(ReservedOf, t) <= global[t].total_allocated /\ Sum(ReservedOf, t) \in Nat
        /\ global[t].total_allocated \in Nat
    <2>1. \A c \in ChannelsOf(t) : ReservedOf[c] \in Nat
      BY <1>1, <1>2
    <2> QED BY <1>2, <2>1, SumType DEF ReservedIsAllocated, TypeOK, GlobalState
  <1>4. CASE ChargesNothing
    <2>1. \A c \in ChannelsOf(t) : ReservedOf[c] = ReservedOf'[c]
      BY <1>1, <1>2, <1>4 DEF ChargesNothing
    <2>2. Sum(ReservedOf', t) = Sum(ReservedOf, t)
      BY <1>2, <2>1, SumSame
    <2> QED BY <1>3, <1>4, <2>2 DEF ChargesNothing
  <1>5. ASSUME NEW c \in Channels, NEW n \in Nat, Charges(c, n)
        PROVE  Sum(ReservedOf', t) <= global'[t].total_allocated
    <2>1. /\ \A d \in Channels : d # c => ReservedOf'[d] = ReservedOf[d]
          /\ ReservedOf'[c] <= ReservedOf[c] + n
          /\ ReservedOf[c] \in Nat /\ ReservedOf'[c] \in Nat
      BY <1>1, <1>5 DEF Charges
    <2>2. global'[t].total_allocated =
             global[t].total_allocated + (IF t = MintOf(c) THEN n ELSE 0)
      BY <1>5 DEF Charges
    <2>3. CASE t = MintOf(c)
      <3>1. c \in ChannelsOf(t)
        BY <2>3 DEF ChannelsOf
      <3>2. /\ \A d \in ChannelsOf(t) : ReservedOf[d] \in Int /\ ReservedOf'[d] \in Int
            /\ \A d \in ChannelsOf(t) \ {c} : ReservedOf[d] = ReservedOf'[d]
        BY <1>1, <1>2, <2>1
      <3>3. Sum(ReservedOf', t) = Sum(ReservedOf, t) - ReservedOf[c] + ReservedOf'[c]
        BY <1>2, <3>1, <3>2, SumChange
      <3> HIDE DEF Sum
      <3> QED BY <1>3, <2>1, <2>2, <2>3, <3>3
    <2>4. CASE t # MintOf(c)
      <3>1. \A d \in ChannelsOf(t) : ReservedOf[d] = ReservedOf'[d]
        BY <2>1, <2>4 DEF ChannelsOf
      <3>2. Sum(ReservedOf', t) = Sum(ReservedOf, t)
        BY <1>2, <3>1, SumSame
      <3> QED BY <1>3, <2>2, <2>4, <3>2
    <2> QED BY <2>3, <2>4
  <1> HIDE DEF Sum
  <1> QED BY <1>4, <1>5

LEMMA NextCharges ==
    ASSUME OneMint, TypeOK, UnopenedIsEmpty, [Next]_vars
    PROVE  ChargesNothing \/ \E c \in Channels, n \in Nat : Charges(c, n)
  <1> DEFINE Charged == ChargesNothing \/ \E c \in Channels, n \in Nat : Charges(c, n)
  <1> SUFFICES Charged
    OBVIOUS
  <1>1. /\ \A c \in Channels : channel[c].spending_cap \in Nat /\ channel[c].settled_amount \in Nat
        /\ \A t \in Mints : global[t].total_allocated \in Nat
    BY DEF TypeOK, Channel, GlobalState
  <1>2. ASSUME UNCHANGED channel,
               \A t \in Mints : global'[t].total_allocated = global[t].total_allocated
        PROVE  Charged
    BY <1>2 DEF ChargesNothing, Reserved
  <1>3. ASSUME NEW t \in Mints, NEW a \in Amounts,
               Deposit(t, a) \/ Withdraw(t, a)
        PROVE  Charged
    <2>1. CASE Deposit(t, a)
      <3>1. \A s \in Mints : global'[s].total_allocated = global[s].total_allocated
        BY <2>1 DEF Deposit, TypeOK, GlobalState
      <3> QED BY <1>2, <2>1, <3>1 DEF Deposit
    <2>2. CASE Withdraw(t, a)
      <3>1. \A s \in Mints : global'[s].total_allocated = global[s].total_allocated
        BY <2>2 DEF Withdraw, TypeOK, GlobalState
      <3> QED BY <1>2, <2>2, <3>1 DEF Withdraw
    <2> QED BY <1>3, <2>1, <2>2
  <1>4. ASSUME NEW t \in Mints, InitializeGlobal(t) PROVE Charged
    <2>1. \A s \in Mints : global'[s].total_allocated = global[s].total_allocated
      BY <1>4 DEF InitializeGlobal, TypeOK, GlobalState
    <2> QED BY <1>2, <1>4, <2>1 DEF InitializeGlobal
  <1>5. ASSUME NEW c \in Channels, NEW cap \in Amounts, NEW cp \in Periods, NEW dp \in Periods,
               InitializeChannel(c, cap, cp, dp)
        PROVE  Charged
    <2>1. channel[c].settled_amount = 0 /\ channel[c].spending_cap = 0 /\ cap \in Nat
      BY <1>5 DEF InitializeChannel, UnopenedIsEmpty
    <2>2. channel'[c].settled_amount = 0 /\ channel'[c].spending_cap = cap
          /\ \A d \in Channels : d # c => channel'[d] = channel[d]
      BY <1>5 DEF InitializeChannel, NewChannel, TypeOK
    <2>3. \A t \in Mints : global'[t].total_allocated =
            global[t].total_allocated + (IF t = MintOf(c) THEN cap ELSE 0)
      <3> DEFINE m == MintOf(c)
      <3>1. m \in Mints /\ global \in [Mints -> GlobalState]
        BY ChannelParts DEF TypeOK
      <3>2. global' = [global EXCEPT ![m].total_allocated = @ + cap]
        BY <1>5 DEF InitializeChannel
      <3> HIDE DEF m
      <3>3. /\ \A t \in Mints \ {m} : global'[t] = global[t]
            /\ global'[m].total_allocated = global[m].total_allocated + cap
        BY <3>1, <3>2, GlobalCharged
      <3>4. \A t \in Mints : global[t].total_allocated \in Nat
        BY <1>1
      <3>5. \A t \in Mints : global'[t].total_allocated =
                global[t].total_allocated + (IF t = m THEN cap ELSE 0)
        BY <3>3, <3>4
      <3> QED BY <3>5 DEF m
    <2>4. Charges(c, cap)
      BY <2>1, <2>2, <2>3 DEF Charges, Reserved
    <2> QED BY <2>1, <2>4
  <1>6. ASSUME NEW t \in Mints, NEW c \in Channels, NEW cap \in Amounts,
               UpdateSpendingCap(t, c, cap)
        PROVE  Charged
    <2> DEFINE n == CapIncrease(c, cap)
    <2>1. cap \in Nat /\ n \in Nat /\ cap <= channel[c].spending_cap + n
      <3>1. cap \in Nat /\ channel[c].spending_cap \in Nat
        BY <1>1
      <3> QED BY <3>1 DEF CapIncrease
    <2>2. t = MintOf(c)
      BY ChannelParts DEF OneMint
    <2>3. channel'[c].settled_amount = channel[c].settled_amount /\ channel'[c].spending_cap = cap
          /\ \A d \in Channels : d # c => channel'[d] = channel[d]
      BY <1>6 DEF UpdateSpendingCap, TypeOK, Channel
    <2> HIDE DEF n
    <2>4. \A s \in Mints : global'[s].total_allocated =
            global[s].total_allocated + (IF s = MintOf(c) THEN n ELSE 0)
      <3>1. global \in [Mints -> GlobalState]
        BY DEF TypeOK
      <3>2. global' = [global EXCEPT ![t].total_allocated = @ + n]
        BY <1>6 DEF UpdateSpendingCap, n
      <3>3. /\ \A s \in Mints \ {t} : global'[s] = global[s]
            /\ global'[t].total_allocated = global[t].total_allocated + n
        BY <3>1, <3>2, GlobalCharged
      <3>4. \A s \in Mints : global[s].total_allocated \in Nat
        BY <1>1
      <3> QED BY <2>2, <3>3, <3>4
    <2>5. Reserved(c)' <= Reserved(c) + n
      BY <1>1, <2>1, <2>3 DEF Reserved
    <2>6. Charges(c, n)
      BY <2>3, <2>4, <2>5 DEF Charges, Reserved
    <2> QED BY <2>1, <2>6
  <1>7. ASSUME NEW c \in Channels, NEW root \in Roots, NEW total \in Amounts,
               SettleBatch(c, root, total) \/ OptimisticSettle(c, root, total)
        PROVE  Charged
    <2>1. PICK o \in BOOLEAN : MoveToEscrow(c, root, total, o)
      BY <1>7 DEF SettleBatch, OptimisticSettle
    <2>2. /\ channel'[c].settled_amount = channel[c].settled_amount + total
          /\ channel'[c].spending_cap = channel[c].spending_cap
          /\ \A d \in Channels : d # c => channel'[d] = channel[d]
      BY <2>1 DEF MoveToEscrow, TypeOK, Channel
    <2>3. channel[c].settled_amount + total <= channel[c].spending_cap /\ total \in Nat
      BY <2>1 DEF MoveToEscrow, CanSettle
    <2>4. Reserved(c)' = Reserved(c)
      BY <1>1, <2>2, <2>3, SMTT(30) DEF Reserved
    <2>5. ChargesNothing
      <3>1. \A d \in Channels : Reserved(d)' = Reserved(d)
        <4>1. \A d \in Channels : d # c => Reserved(d)' = Reserved(d)
          BY <2>2 DEF Reserved
        <4> QED BY <2>4, <4>1
      <3> QED BY <2>1, <3>1 DEF ChargesNothing, MoveToEscrow
    <2> QED BY <2>5
  <1>8. ASSUME NEW e \in Escrows, NEW a \in Amounts, ResolveDispute(e, a) PROVE Charged
    <2> DEFINE c == e[1]
               left == channel[c].settled_amount - escrow[e].amount
    <2>1. c \in Channels /\ escrow[e].amount \in Nat
      BY EscrowParts DEF TypeOK, SettlementEscrow
    <2>2. channel' = [channel EXCEPT ![c].settled_amount = left] /\ UNCHANGED global
      BY <1>8 DEF ResolveDispute
    <2>3. left \in Int /\ left <= channel[c].settled_amount
      BY <1>1, <2>1
    <2> HIDE DEF c, left
    <2>4. /\ channel'[c].settled_amount = left
          /\ channel'[c].spending_cap = channel[c].spending_cap
          /\ \A d \in Channels : d # c => channel'[d] = channel[d]
      BY <2>1, <2>2 DEF TypeOK, Channel
    <2>5. Reserved(c)' <= Reserved(c) + 0
      BY <1>1, <2>1, <2>3, <2>4 DEF Reserved
    <2>6. Charges(c, 0)
      BY <1>1, <2>2, <2>4, <2>5 DEF Charges, Reserved
    <2> QED BY <2>1, <2>6
  <1>9. ASSUME UNCHANGED <<channel, global>> PROVE Charged
    BY <1>2, <1>9
  <1> HIDE DEF Charged
  <1>10. CASE BuyerStep
    BY <1>3, <1>4, <1>5, <1>6, <1>8, <1>9, <1>10 DEF BuyerStep, SignSettlement, Dispute, accounts
  <1>11. CASE MerchantStep
    BY <1>7, <1>9, <1>11 DEF MerchantStep, ReleaseSettlement, ForceRelease
  <1>12. CASE Tick \/ UNCHANGED vars
    BY <1>9, <1>12 DEF Tick, vars, accounts
  <1> QED BY <1>10, <1>11, <1>12 DEF Next

(* What the channels of the only mint reserve is allocated to them.          *)
THEOREM ReservedAllocated == OneMint /\ Spec => []ReservedIsAllocated
  <1>1. Init => ReservedIsAllocated
    <2> SUFFICES ASSUME Init, NEW t \in Mints
                 PROVE  SumFunctionOnSet(ReservedOf, ChannelsOf(t)) <= global[t].total_allocated
      BY DEF ReservedIsAllocated
    <2>1. global[t].total_allocated = 0 /\ \A c \in ChannelsOf(t) : ReservedOf[c] = 0
      BY DEF Init, ReservedOf, Reserved, ChannelsOf
    <2>2. SumFunctionOnSet(ReservedOf, ChannelsOf(t)) = 0
      BY <2>1, MoneyFinite, SumZero
    <2> QED BY <2>1, <2>2
  <1>2. OneMint /\ IInv /\ IInv' /\ MoneyInv /\ ReservedIsAllocated /\ [Next]_vars
            => ReservedIsAllocated'
    <2> SUFFICES ASSUME OneMint, IInv, IInv', MoneyInv, ReservedIsAllocated, [Next]_vars
                 PROVE  ReservedIsAllocated'
      OBVIOUS
    <2>1. TypeOK /\ TypeOK' /\ UnopenedIsEmpty
      BY DEF IInv, MoneyInv
    <2> QED BY <2>1, NextCharges, ChargedStep
  <1>3. CASE ~OneMint
    BY <1>3, PTL
  <1>4. CASE OneMint
    <2>1. IInv /\ IInv' /\ MoneyInv /\ ReservedIsAllocated /\ [Next]_vars
              => ReservedIsAllocated'
      BY <1>2, <1>4
    <2> QED
      BY <1>1, <2>1, Invariance, BooksBalance, PTL DEF Spec
  <1> QED
    BY <1>3, <1>4

(* What a channel reserves is its cap and what it settled beyond the cap, or *)
(* what it settled and what it may still settle.                             *)
LEMMA ReservedParts ==
    ASSUME TypeOK, NEW t \in Mints
    PROVE  /\ SumFunctionOnSet(ReservedOf, ChannelsOf(t)) =
                SumFunctionOnSet(SettledOf, ChannelsOf(t)) + UnspentCaps(t)
           /\ SumFunctionOnSet([c \in Channels |-> channel[c].spending_cap], ChannelsOf(t))
                <= SumFunctionOnSet(ReservedOf, ChannelsOf(t))
           /\ SumFunctionOnSet(SettledOf, ChannelsOf(t)) \in Nat
           /\ UnspentCaps(t) \in Nat
           /\ SumFunctionOnSet([c \in Channels |-> channel[c].spending_cap], ChannelsOf(t)) \in Nat
           /\ SumFunctionOnSet(ReservedOf, ChannelsOf(t)) \in Nat
  <1> DEFINE S == ChannelsOf(t)
             Sum(F) == SumFunctionOnSet(F, S)
             CapOf == [c \in Channels |-> channel[c].spending_cap]
             UnspentOf == [c \in Channels |-> Unspent(c)]
             OverOf == [c \in Channels |-> Reserved(c) - channel[c].spending_cap]
  <1>1. IsFiniteSet(S) /\ S \subseteq Channels
    BY MoneyFinite DEF ChannelsOf
  <1>2. \A c \in Channels :
            channel[c].spending_cap \in Nat /\ channel[c].settled_amount \in Nat
    BY DEF TypeOK, Channel
  <1>3. \A c \in S : /\ SettledOf[c] \in Nat /\ UnspentOf[c] \in Nat
                     /\ CapOf[c] \in Nat /\ OverOf[c] \in Nat /\ ReservedOf[c] \in Nat
                     /\ ReservedOf[c] = SettledOf[c] + UnspentOf[c]
                     /\ ReservedOf[c] = CapOf[c] + OverOf[c]
    BY <1>1, <1>2 DEF SettledOf, Unspent, Reserved, ReservedOf
  <1> HIDE DEF S, CapOf, UnspentOf, OverOf
  <1>4. Sum(ReservedOf) = Sum(SettledOf) + Sum(UnspentOf)
    <2>1. \A c \in S : SettledOf[c] \in Nat /\ UnspentOf[c] \in Nat
                       /\ ReservedOf[c] = SettledOf[c] + UnspentOf[c]
      BY <1>3
    <2> QED BY <1>1, <2>1, SumPlus
  <1>5. Sum(ReservedOf) = Sum(CapOf) + Sum(OverOf)
    <2>1. \A c \in S : CapOf[c] \in Nat /\ OverOf[c] \in Nat
                       /\ ReservedOf[c] = CapOf[c] + OverOf[c]
      BY <1>3
    <2> QED BY <1>1, <2>1, SumPlus
  <1>6. Sum(SettledOf) \in Nat /\ Sum(UnspentOf) \in Nat /\ Sum(CapOf) \in Nat
        /\ Sum(OverOf) \in Nat /\ Sum(ReservedOf) \in Nat
    <2>1. /\ \A c \in S : SettledOf[c] \in Nat
          /\ \A c \in S : UnspentOf[c] \in Nat
          /\ \A c \in S : CapOf[c] \in Nat
          /\ \A c \in S : OverOf[c] \in Nat
          /\ \A c \in S : ReservedOf[c] \in Nat
      BY <1>3
    <2> QED BY <1>1, <2>1, SumType
  <1>7. Sum(CapOf) <= Sum(ReservedOf)
    <2> HIDE DEF Sum
    <2> QED BY <1>5, <1>6
  <1> QED BY <1>4, <1>6, <1>7 DEF S, CapOf, UnspentOf, UnspentCaps

(* With one mint, no merchant's settlement fails for want of lamports in the *)
(* vault before the first refund, however many merchants share the vault and *)
(* whatever the buyer withdraws or does to their caps.                       *)
THEOREM CapsAreBacked == OneMint /\ Spec => []UnspentCapsBackedUntilRefund
  <1>1. TypeOK /\ SettledUntilRefund /\ ReservedIsAllocated => UnspentCapsBackedUntilRefund
    <2> SUFFICES ASSUME TypeOK, SettledUntilRefund, ReservedIsAllocated, NEW t \in Mints,
                        \A e \in EscrowsOn(t) : ~Refunded(e)
                 PROVE  UnspentCaps(t)
                          + (global[t].total_deposited - global[t].total_allocated) <= vault[t]
      BY DEF UnspentCapsBackedUntilRefund
    <2> DEFINE settled == SumFunctionOnSet(SettledOf, ChannelsOf(t))
               reserved == SumFunctionOnSet(ReservedOf, ChannelsOf(t))
    <2>1. vault[t] + settled = global[t].total_deposited
      BY DEF SettledUntilRefund
    <2>2. reserved <= global[t].total_allocated
      BY DEF ReservedIsAllocated
    <2>3. reserved = settled + UnspentCaps(t) /\ settled \in Nat /\ UnspentCaps(t) \in Nat
      BY ReservedParts
    <2>4. vault[t] \in Nat /\ global[t].total_allocated \in Nat /\ global[t].total_deposited \in Nat
      BY DEF TypeOK, GlobalState
    <2> HIDE DEF settled, reserved
    <2> QED BY <2>1, <2>2, <2>3, <2>4
  <1>2. MoneyInv => SettledUntilRefund
    BY DEF MoneyInv
  <1> QED
    BY <1>1, <1>2, TypeCorrect, BooksBalance, ReservedAllocated, PTL

(* With one mint, the caps never add up to more than the buyer deposited.    *)
THEOREM CapsAreDeposited == OneMint /\ Spec => []CapsWithinDeposit
  <1>1. TypeOK /\ ReservedIsAllocated /\ AllocationWithinDeposit => CapsWithinDeposit
    <2> SUFFICES ASSUME TypeOK, ReservedIsAllocated, AllocationWithinDeposit, NEW t \in Mints
                 PROVE  SumFunctionOnSet([c \in Channels |-> channel[c].spending_cap],
                                         ChannelsOf(t)) <= global[t].total_deposited
      BY DEF CapsWithinDeposit
    <2> DEFINE caps == SumFunctionOnSet([c \in Channels |-> channel[c].spending_cap], ChannelsOf(t))
               reserved == SumFunctionOnSet(ReservedOf, ChannelsOf(t))
    <2>1. caps \in Nat /\ reserved \in Nat /\ caps <= reserved
      BY ReservedParts
    <2>2. reserved <= global[t].total_allocated
      BY DEF ReservedIsAllocated
    <2>3. /\ global[t].total_allocated \in Nat /\ global[t].total_deposited \in Nat
          /\ global[t].total_allocated <= global[t].total_deposited
      BY DEF TypeOK, GlobalState, AllocationWithinDeposit
    <2> HIDE DEF caps, reserved
    <2>4. caps <= global[t].total_deposited
      BY <2>1, <2>2, <2>3
    <2> QED BY <2>4 DEF caps
  <1> QED
    BY <1>1, TypeCorrect, ReservedAllocated, AllocationsAreCovered, PTL
=============================================================================
