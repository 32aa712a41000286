--------------------------- MODULE MessagingProofs --------------------------
(***************************************************************************)
(* Proofs about the mediator, for any agents, connections, requests and    *)
(* bounds and for both stores of its queues; and, at the end, about the    *)
(* vouchers and batches that the MCP servers settle over it, for any       *)
(* orders, numbers, amounts, transfers, caps and any number of settlement  *)
(* tools at once.                                                          *)
(***************************************************************************)
EXTENDS MCMediator, SettlementProperties, Sequences, FiniteSetTheorems,
        WellFoundedInduction, TLAPS

Agents(i) == Setup[i].dids
Recipient(i, r) == Setup[i].recipientOf[r]
Names(i) == Med(i)!QueueNames

Out(c) == conn[c].out
Pick(c) == conn[c].picked
Who(c) == conn[c].did

LEMMA SetupFacts ==
    ASSUME NEW i \in Routers
    PROVE  /\ \A r \in Requests : Recipient(i, r) \in Agents(i)
           /\ DOMAIN Setup[i].idOf = Requests /\ Setup[i].expirable \subseteq Requests
           /\ Setup[i].websocketUsers \subseteq Agents(i)
           /\ Setup[i].removers \subseteq Agents(i)
           /\ Setup[i].maxRestarts \in Nat
           /\ NoOne \notin Agents(i) /\ NoOne \notin Conns
           /\ Setup[i].persistent \in BOOLEAN /\ Setup[i].maxQueued \in Nat \ {0}
BY SetupAssumption DEF Recipient, Agents, Med!MediatorAssumption, Med!MessageStoreAssumption

-----------------------------------------------------------------------------
(* The queues.                                                               *)

LEMMA SeqElements ==
    ASSUME NEW S, NEW s \in Seq(S)
    PROVE  /\ Len(s) \in Nat /\ DOMAIN s = 1 .. Len(s) /\ s \in [1 .. Len(s) -> S]
           /\ \A j \in 1 .. Len(s) : s[j] \in S
OBVIOUS

LEMMA Concatenation ==
    ASSUME NEW S, NEW s \in Seq(S), NEW t \in Seq(S)
    PROVE  /\ s \o t \in Seq(S) /\ Len(s \o t) = Len(s) + Len(t)
           /\ \A j \in 1 .. Len(s) : (s \o t)[j] = s[j]
           /\ \A j \in 1 .. Len(t) : (s \o t)[Len(s) + j] = t[j]
OBVIOUS

LEMMA SeqOf ==
    ASSUME NEW S, NEW n \in Nat, NEW s \in [1 .. n -> S]
    PROVE  s \in Seq(S) /\ Len(s) = n
OBVIOUS

\* Of the finite sets with a property, one has no proper subset with it.
LEMMA SmallestSet ==
    ASSUME NEW S, IsFiniteSet(S), NEW Q \in SUBSET SUBSET S, Q # {}
    PROVE  \E T \in Q : \A U \in Q : U \subseteq T => U = T
<1>1. Q \subseteq FiniteSubsetsOf(S)
  BY FS_FiniteSubsetsOfFinite
<1>2. PICK T \in Q : \A U \in Q : <<U, T>> \notin StrictSubsetOrdering(S)
  BY <1>1, FS_StrictSubsetOrderingWellFounded, WFMin
<1> QED
  BY <1>2 DEF StrictSubsetOrdering

\* A non-empty set of numbers up to n has a smallest one.
LEMMA SmallestNumber ==
    ASSUME NEW n \in Nat, NEW Q \in SUBSET (0 .. n), Q # {}
    PROVE  \E k \in Q : \A j \in Q : j >= k
<1> DEFINE R == 0 .. n
           T == {0 .. k : k \in Q}
<1>1. IsFiniteSet(R)
  BY FS_Interval
<1>2. T \in SUBSET SUBSET R /\ T # {}
  <2>1. \A k \in Q : (0 .. k) \subseteq R
    OBVIOUS
  <2> HIDE DEF R
  <2> QED BY <2>1
<1>3. PICK t \in T : \A u \in T : u \subseteq t => u = t
  <2> HIDE DEF T, R
  <2> QED BY <1>1, <1>2, SmallestSet
<1>4. PICK k \in Q : t = 0 .. k
  BY <1>3
<1>5. ASSUME NEW j \in Q, ~(j >= k)
      PROVE  FALSE
  <2>1. j \in Nat /\ k \in Nat /\ j < k
    BY <1>5
  <2>2. (0 .. j) \subseteq (0 .. k) /\ (0 .. j) \in T
    BY <2>1
  <2>3. (0 .. j) = 0 .. k
    <3> HIDE DEF T
    <3> QED BY <1>3, <1>4, <2>2
  <2>4. k \in 0 .. k /\ k \notin 0 .. j
    BY <2>1
  <2> QED
    BY <2>3, <2>4
<1> QED
  BY <1>5


\* The recursion of FreshPlaces is defined for queues of every length.
Scans(f, fresh, q, old) ==
    /\ fresh = f[Len(q)] /\ f[0] = <<>>
    /\ \A k \in 1 .. Len(q) : f[k] = IF q[k] \in old THEN f[k - 1] ELSE Append(f[k - 1], k)

LEMMA FreshPlacesFrom ==
    ASSUME NEW i \in Routers, NEW q, Len(q) \in Nat, NEW old
    PROVE  \E f : Scans(f, Med(i)!FreshPlaces(q, old), q, old)
<1> DEFINE n == Len(q)
           Next1(x, k) == IF q[k] \in old THEN x ELSE Append(x, k)
           Link(f, k) == IF k = 0 THEN <<>> ELSE Next1(f[k - 1], k)
           Upto(f, m) == f = [k \in 0 .. m |-> Link(f, k)]
           A == CHOOSE f : Upto(f, n)
           Q == {m \in 0 .. n : ~ \E f : Upto(f, m)}
<1>0. n \in Nat
  OBVIOUS
<1>1. Med(i)!FreshPlaces(q, old) = A[n]
  BY DEF Med!FreshPlaces
<1> HIDE DEF n, Next1
<1>2. Q = {}
  <2> SUFFICES ASSUME Q # {} PROVE FALSE
    OBVIOUS
  <2>1. Q \in SUBSET (0 .. n)
    OBVIOUS
  <2>2. PICK m \in Q : \A j \in Q : j >= m
    <3> HIDE DEF Q
    <3> QED BY <1>0, <2>1, SmallestNumber
  <2>3. CASE m = 0
    <3>1. Upto([k \in 0 .. m |-> <<>>], m)
      BY <2>3
    <3> QED
      BY <2>2, <3>1
  <2>4. CASE m # 0
    <3>1. m - 1 \in 0 .. n /\ m - 1 \notin Q /\ m \in Nat
      <4>1. m \in 0 .. n
        BY <2>2
      <4> HIDE DEF Q
      <4> QED BY <1>0, <2>2, <2>4, <4>1
    <3>2. PICK f : Upto(f, m - 1)
      BY <3>1
    <3> DEFINE g == [k \in 0 .. m |-> IF k = m THEN Next1(f[m - 1], m) ELSE f[k]]
    <3>3. ASSUME NEW k \in 0 .. m
          PROVE  g[k] = Link(g, k)
      <4>1. CASE k = m
        <5>1. g[m - 1] = f[m - 1] /\ g[m] = Next1(f[m - 1], m)
          BY <3>1
        <5> HIDE DEF g
        <5> QED BY <2>4, <4>1, <5>1
      <4>2. CASE k # m
        <5>1. k \in 0 .. m - 1
          <6> HIDE DEF Q
          <6> QED BY <3>1, <4>2
        <5>2. f[k] = Link(f, k)
          <6>1. f = [x \in 0 .. m - 1 |-> Link(f, x)]
            BY <3>2
          <6> HIDE DEF Link
          <6> QED BY <5>1, <6>1
        <5>3. g[k] = f[k]
          <6> HIDE DEF Q
          <6> QED BY <4>2
        <5>4. k # 0 => k - 1 \in 0 .. m /\ k - 1 # m /\ g[k - 1] = f[k - 1]
          BY <3>1, <5>1
        <5> HIDE DEF g
        <5> QED
          BY <5>2, <5>3, <5>4
      <4> QED
        BY <4>1, <4>2
    <3>4. g = [k \in 0 .. m |-> Link(g, k)]
      <4>1. g = [k \in 0 .. m |-> g[k]]
        OBVIOUS
      <4> HIDE DEF g, Link
      <4> QED
        BY <3>3, <4>1
    <3>5. Upto(g, m)
      <4> HIDE DEF g, Link
      <4> QED BY <3>4
    <3> HIDE DEF g, Upto
    <3> QED
      BY <2>2, <3>5
  <2> QED
    BY <2>3, <2>4
<1>3. \E f : Upto(f, n)
  <2>1. n \in 0 .. n
    BY <1>0
  <2> HIDE DEF Upto
  <2> QED BY <1>2, <2>1
<1>4. Upto(A, n)
  <2> HIDE DEF Upto
  <2> QED BY <1>3
<1> HIDE DEF A
<1>5. \A k \in 0 .. n : A[k] = Link(A, k)
  <2>1. A = [k \in 0 .. n |-> Link(A, k)]
    BY <1>4
  <2> HIDE DEF Link
  <2> QED BY <2>1
<1>6. A[0] = <<>> /\ \A k \in 1 .. n : A[k] = Next1(A[k - 1], k)
  <2>1. 0 \in 0 .. n /\ \A k \in 1 .. n : k \in 0 .. n /\ k # 0
    BY <1>0
  <2>2. A[0] = <<>>
    BY <1>5, <2>1
  <2>3. ASSUME NEW k \in 1 .. n
        PROVE  A[k] = Next1(A[k - 1], k)
    BY <1>5, <2>1
  <2> QED
    BY <2>2, <2>3
<1>7. Scans(A, Med(i)!FreshPlaces(q, old), q, old)
  BY <1>1, <1>6 DEF n, Next1, Scans
<1> QED
  BY <1>7

\* The places of the messages that are not expired, in order.
Enumerates(at, q, old, n) ==
    /\ at \in Seq(1 .. n)
    /\ \A m, k \in 1 .. Len(at) : m < k => at[m] < at[k]
    /\ \A k \in 1 .. n : q[k] \notin old <=> \E m \in 1 .. Len(at) : at[m] = k

LEMMA FreshPlacesAre ==
    ASSUME NEW i \in Routers, NEW q, Len(q) \in Nat, NEW old
    PROVE  Enumerates(Med(i)!FreshPlaces(q, old), q, old, Len(q))
<1>0. PICK f : Scans(f, Med(i)!FreshPlaces(q, old), q, old)
  BY FreshPlacesFrom
<1>1. /\ Med(i)!FreshPlaces(q, old) = f[Len(q)]
      /\ f[0] = <<>>
      /\ \A k \in 1 .. Len(q) :
            f[k] = IF q[k] \in old THEN f[k - 1] ELSE Append(f[k - 1], k)
  BY <1>0, Zenon DEF Scans
<1> DEFINE n == Len(q)
           Q == {m \in 0 .. n : ~Enumerates(f[m], q, old, m)}
<1>2. n \in Nat
  OBVIOUS
<1> HIDE DEF n
<1>3. ASSUME NEW m \in 1 .. n, Enumerates(f[m - 1], q, old, m - 1)
      PROVE  Enumerates(f[m], q, old, m)
  <2> DEFINE x == f[m - 1]
             y == f[m]
  <2>1. y = IF q[m] \in old THEN x ELSE Append(x, m)
    BY <1>1 DEF n
  <2>2. /\ x \in Seq(1 .. m - 1) /\ \A j, k \in 1 .. Len(x) : j < k => x[j] < x[k]
        /\ \A k \in 1 .. m - 1 : q[k] \notin old <=> \E j \in 1 .. Len(x) : x[j] = k
    BY <1>3 DEF Enumerates
  <2>3. m \in Nat \ {0} /\ \A k \in 1 .. m : k = m \/ k \in 1 .. m - 1
    BY <1>2
  <2> HIDE DEF x, y
  <2>4. Len(x) \in Nat /\ \A j \in 1 .. Len(x) : x[j] \in 1 .. m - 1
    BY <2>2
  <2>5. x \in Seq(1 .. m)
    <3>1. x \in [1 .. Len(x) -> 1 .. m]
      <4>1. x \in [1 .. Len(x) -> 1 .. m - 1]
        BY <2>2
      <4>2. (1 .. m - 1) \subseteq 1 .. m
        BY <2>3
      <4> QED BY <4>1, <4>2
    <3> QED BY <2>4, <3>1
  <2>6. CASE q[m] \in old
    <3>1. \A k \in 1 .. m : q[k] \notin old <=> \E j \in 1 .. Len(x) : x[j] = k
      BY <2>2, <2>3, <2>4, <2>6
    <3>2. Enumerates(x, q, old, m)
      BY <2>2, <2>5, <3>1 DEF Enumerates
    <3> QED BY <2>1, <2>6, <3>2 DEF y
  <2>7. CASE q[m] \notin old
    <3>1. /\ y = Append(x, m) /\ Len(y) = Len(x) + 1 /\ y[Len(x) + 1] = m
          /\ \A j \in 1 .. Len(x) : y[j] = x[j]
          /\ y \in Seq(1 .. m)
      BY <2>1, <2>3, <2>5, <2>7
    <3>2. ASSUME NEW j \in 1 .. Len(y), NEW k \in 1 .. Len(y), j < k
          PROVE  y[j] < y[k]
      <4> DEFINE l == Len(x)
      <4>0. l \in Nat /\ j \in 1 .. l + 1 /\ k \in 1 .. l + 1
        BY <2>4, <3>1
      <4> HIDE DEF l
      <4>1. j \in 1 .. l /\ (k \in 1 .. l \/ k = l + 1)
        BY <3>2, <4>0
      <4> USE DEF l
      <4> QED BY <2>2, <2>3, <2>4, <3>1, <3>2, <4>1
    <3>3. ASSUME NEW k \in 1 .. m
          PROVE  q[k] \notin old <=> \E j \in 1 .. Len(y) : y[j] = k
      <4>1. CASE k = m
        <5>1. Len(x) + 1 \in 1 .. Len(y)
          BY <2>4, <3>1
        <5> QED BY <2>7, <3>1, <4>1, <5>1
      <4>2. CASE k \in 1 .. m - 1
        <5>1. \A j \in 1 .. Len(y) : y[j] = k => j \in 1 .. Len(x)
          BY <2>3, <2>4, <3>1, <4>2
        <5>2. \A j \in 1 .. Len(x) : j \in 1 .. Len(y)
          BY <2>4, <3>1
        <5> QED BY <2>2, <3>1, <4>2, <5>1, <5>2
      <4> QED BY <2>3, <4>1, <4>2
    <3> QED BY <3>1, <3>2, <3>3 DEF Enumerates, y
  <2> QED BY <2>6, <2>7
<1>4. Enumerates(f[0], q, old, 0)
  <2>1. f[0] = <<>> /\ Len(<<>>) = 0 /\ 1 .. 0 = {}
    BY <1>1
  <2>2. f[0] \in Seq(1 .. 0) /\ 1 .. Len(f[0]) = {}
    BY <2>1
  <2> QED BY <2>1, <2>2 DEF Enumerates
<1>5. Q = {}
  <2> SUFFICES ASSUME Q # {} PROVE FALSE
    OBVIOUS
  <2>1. Q \in SUBSET (0 .. n)
    OBVIOUS
  <2>2. PICK m \in Q : \A j \in Q : j >= m
    <3> HIDE DEF Q
    <3> QED BY <1>2, <2>1, SmallestNumber
  <2>3. m \in 0 .. n /\ ~Enumerates(f[m], q, old, m)
    BY <2>2
  <2>4. m # 0
    BY <1>4, <2>3
  <2>5. m \in 1 .. n /\ m - 1 \in 0 .. n /\ ~(m - 1 >= m)
    BY <1>2, <2>3, <2>4
  <2>6. m - 1 \notin Q
    <3> HIDE DEF Q
    <3> QED BY <2>2, <2>5
  <2>7. Enumerates(f[m - 1], q, old, m - 1)
    BY <2>5, <2>6
  <2> QED BY <1>3, <2>3, <2>5, <2>7
<1>6. n \in 0 .. n
  BY <1>2
<1>7. Enumerates(f[n], q, old, n)
  BY <1>5, <1>6
<1> QED
  BY <1>1, <1>7 DEF n


\* f and g say where in q the messages of t and l come from: t and l share none
\* and what is in neither is expired.
Splits(f, g, q, t, l, old) ==
    /\ f \in [1 .. Len(t) -> 1 .. Len(q)] /\ g \in [1 .. Len(l) -> 1 .. Len(q)]
    /\ \A j \in 1 .. Len(t) : t[j] = q[f[j]]
    /\ \A j \in 1 .. Len(l) : l[j] = q[g[j]]
    /\ \A j, k \in 1 .. Len(t) : f[j] = f[k] => j = k
    /\ \A j, k \in 1 .. Len(l) : g[j] = g[k] => j = k
    /\ \A j \in 1 .. Len(t), k \in 1 .. Len(l) : f[j] # g[k]
    /\ \A n \in 1 .. Len(q) : \/ q[n] \in old
                              \/ \E j \in 1 .. Len(t) : f[j] = n
                              \/ \E j \in 1 .. Len(l) : g[j] = n

\* g places what is left beside the first m positions of at.
Fills(g, len, l, at, m, q, old) ==
    /\ l \in Seq(Requests) /\ Len(l) = len /\ g \in [1 .. len -> 1 .. Len(q)]
    /\ \A j \in 1 .. len : l[j] = q[g[j]]
    /\ \A j, k \in 1 .. len : g[j] = g[k] => j = k
    /\ \A j \in 1 .. m, k \in 1 .. len : at[j] # g[k]
    /\ \A k \in 1 .. Len(q) : \/ q[k] \in old
                              \/ \E j \in 1 .. m : at[j] = k
                              \/ \E j \in 1 .. len : g[j] = k

\* What is taken out of a queue is not left in it.
LEMMA TakenOrLeft ==
    ASSUME NEW i \in Routers, NEW q \in Seq(Requests), NEW old, NEW limit \in Nat
    PROVE  LET t == Med(i)!Taken(q, old, limit)
               l == Med(i)!Left(q, old, limit)
           IN  /\ t \in Seq(Requests) /\ l \in Seq(Requests)
               /\ \E f, g : Splits(f, g, q, t, l, old)
<1> DEFINE at == Med(i)!FreshPlaces(q, old)
           n == Len(q)
           a == Len(at)
           m == IF limit < a THEN limit ELSE a
           t == Med(i)!Taken(q, old, limit)
           l == Med(i)!Left(q, old, limit)
           f == [j \in 1 .. m |-> at[j]]
<1>1. n \in Nat /\ \A k \in 1 .. n : q[k] \in Requests
  OBVIOUS
<1>2. Enumerates(at, q, old, n)
  BY <1>1, FreshPlacesAre
<1>3. t = [j \in 1 .. m |-> q[at[j]]]
  BY DEF Med!Taken
<1>4. l = IF Setup[i].persistent /\ limit \in 1 .. a THEN SubSeq(q, at[limit] + 1, n)
          ELSE [j \in 1 .. a - limit |-> q[at[limit + j]]]
  BY DEF Med!Left
<1> HIDE DEF at, t, l, n
<1>5. /\ a \in Nat /\ \A j \in 1 .. a : at[j] \in 1 .. n
      /\ \A j, k \in 1 .. a : j < k => at[j] < at[k]
      /\ \A k \in 1 .. n : q[k] \notin old <=> \E j \in 1 .. a : at[j] = k
  <2>1. at \in Seq(1 .. n)
    BY <1>2 DEF Enumerates
  <2>2. Len(at) \in Nat /\ \A j \in 1 .. Len(at) : at[j] \in 1 .. n
    BY <2>1, SeqElements
  <2>3. \A j, k \in 1 .. Len(at) : j < k => at[j] < at[k]
    BY <1>2, Zenon DEF Enumerates
  <2>4. \A k \in 1 .. n : q[k] \notin old <=> \E j \in 1 .. Len(at) : at[j] = k
    BY <1>2, Zenon DEF Enumerates
  <2> QED BY <2>2, <2>3, <2>4
<1> HIDE DEF a
<1>6. m \in 0 .. a /\ m \in Nat /\ m =< limit
  BY <1>5
<1>7. \A j, k \in 1 .. a : at[j] = at[k] => j = k
  <2> SUFFICES ASSUME NEW j \in 1 .. a, NEW k \in 1 .. a, at[j] = at[k] PROVE j = k
    OBVIOUS
  <2>1. ~(j < k) /\ ~(k < j)
    <3>1. at[j] \in Int /\ at[k] \in Int
      BY <1>5
    <3> QED BY <1>5, <3>1
  <2> QED BY <2>1, <1>5
<1>8. \A j \in 1 .. m : j \in 1 .. a
  BY <1>5, <1>6
<1>m. m = limit \/ (m = a /\ ~(limit < a))
  OBVIOUS
<1> HIDE DEF m
<1>9. /\ t \in Seq(Requests) /\ Len(t) = m /\ f \in [1 .. m -> 1 .. n]
      /\ \A j \in 1 .. m : t[j] = q[f[j]] /\ f[j] = at[j]
  <2>1. \A j \in 1 .. m : q[at[j]] \in Requests
    BY <1>1, <1>5, <1>8
  <2>2. t \in [1 .. m -> Requests]
    BY <1>3, <2>1
  <2>3. t \in Seq(Requests) /\ Len(t) = m
    BY <1>6, <2>2
  <2> QED BY <1>3, <1>5, <1>8, <2>3
<1>10. \A j, k \in 1 .. m : f[j] = f[k] => j = k
  BY <1>7, <1>8, <1>9
<1> HIDE DEF f
<1>11. ASSUME NEW g, NEW len, Fills(g, len, l, at, m, q, old)
       PROVE  l \in Seq(Requests) /\ \E f1, g1 : Splits(f1, g1, q, t, l, old)
  <2>1. /\ l \in Seq(Requests) /\ Len(l) = len /\ g \in [1 .. len -> 1 .. n]
        /\ \A j \in 1 .. len : l[j] = q[g[j]]
        /\ \A j, k \in 1 .. len : g[j] = g[k] => j = k
    BY <1>11 DEF Fills, n
  <2>2. \A j \in 1 .. m, k \in 1 .. len : f[j] # g[k]
    <3>1. \A j \in 1 .. m : f[j] = at[j]
      BY <1>9
    <3>2. \A j \in 1 .. m, k \in 1 .. len : at[j] # g[k]
      BY <1>11 DEF Fills
    <3> QED BY <3>1, <3>2, Zenon
  <2>3. \A k \in 1 .. n : q[k] \in old \/ (\E j \in 1 .. m : f[j] = k)
                    \/ (\E j \in 1 .. len : g[j] = k)
    <3>1. \A j \in 1 .. m : f[j] = at[j]
      BY <1>9
    <3>2. \A k \in 1 .. n : q[k] \in old \/ (\E j \in 1 .. m : at[j] = k)
                    \/ (\E j \in 1 .. len : g[j] = k)
      BY <1>11 DEF Fills, n
    <3> QED BY <3>1, <3>2, Zenon
  <2>4. Splits(f, g, q, t, l, old)
    BY <1>9, <1>10, <2>1, <2>2, <2>3 DEF Splits, n
  <2> QED BY <2>1, <2>4
<1>12. ASSUME Setup[i].persistent /\ limit \in 1 .. a
       PROVE  l \in Seq(Requests) /\ \E f1, g1 : Splits(f1, g1, q, t, l, old)
  <2> DEFINE s == at[limit]
             g == [j \in 1 .. n - s |-> s + j]
  <2>1. l = SubSeq(q, s + 1, n) /\ s \in 1 .. n /\ m = limit
    <3>1. l = SubSeq(q, s + 1, n)
      BY <1>4, <1>12
    <3>2. s \in 1 .. n
      BY <1>5, <1>12
    <3>3. m = limit
      <4>1. a \in Nat /\ limit =< a
        BY <1>5, <1>12
      <4> QED BY <1>m, <4>1
    <3> QED BY <3>1, <3>2, <3>3
  <2>2. l \in Seq(Requests) /\ Len(l) = n - s /\ \A j \in 1 .. n - s : l[j] = q[s + j]
    <3>1. s + 1 \in 1 .. n + 1 /\ n \in Nat
      BY <1>1, <2>1
    <3> HIDE DEF s
    <3> QED BY <2>1, <3>1 DEF n
  <2>3. \A j \in 1 .. m : at[j] =< s
    <3> SUFFICES ASSUME NEW j \in 1 .. m PROVE at[j] =< s
      OBVIOUS
    <3>1. j = limit \/ j < limit
      BY <1>6, <2>1
    <3>2. j \in 1 .. a /\ at[j] \in 1 .. n
      BY <1>5, <1>8
    <3> QED BY <1>5, <1>12, <2>1, <3>1, <3>2
  <2>4. ASSUME NEW k \in 1 .. n
        PROVE  q[k] \in old \/ (\E j \in 1 .. m : at[j] = k) \/ \E j \in 1 .. n - s : g[j] = k
    <3>1. CASE k > s
      <4>1. k - s \in 1 .. n - s /\ s + (k - s) = k
        BY <1>1, <2>1, <3>1
      <4>2. g[k - s] = k
        BY <4>1
      <4> QED BY <4>1, <4>2
    <3>2. CASE ~(k > s) /\ q[k] \notin old
      <4>1. PICK j \in 1 .. a : at[j] = k
        BY <1>5, <3>2
      <4>2. ~(limit < j)
        <5>1. limit < j => s < at[j]
          BY <1>5, <1>12
        <5> QED BY <2>1, <3>2, <4>1, <5>1
      <4>3. j \in 1 .. m
        BY <1>5, <2>1, <4>2
      <4> QED BY <4>1, <4>3
    <3> QED BY <3>1, <3>2, Zenon
  <2>5. \A k \in 1 .. n - s : g[k] = s + k /\ s + k \in 1 .. n /\ s + k > s
    BY <1>1, <2>1
  <2>6. /\ g \in [1 .. n - s -> 1 .. n]
        /\ \A j, k \in 1 .. n - s : g[j] = g[k] => j = k
    <3>1. \A k \in 1 .. n - s : g[k] \in 1 .. n
      BY <2>5, Zenon
    <3>2. ASSUME NEW j \in 1 .. n - s, NEW k \in 1 .. n - s, g[j] = g[k]
          PROVE  j = k
      <4>1. s + j = s + k
        BY <2>5, <3>2, Zenon
      <4>2. s \in Int /\ j \in Int /\ k \in Int
        BY <1>1, <2>1
      <4> HIDE DEF s
      <4> QED BY <4>1, <4>2
    <3> QED BY <3>1, <3>2
  <2>7. ASSUME NEW j \in 1 .. m, NEW k \in 1 .. n - s PROVE at[j] # g[k]
    <3>1. at[j] \in 1 .. n
      BY <1>5, <1>8
    <3> QED BY <2>1, <2>3, <2>5, <3>1
  <2> DEFINE len == n - s
  <2>8. \A j \in 1 .. len : l[j] = q[g[j]]
    BY <2>2, <2>5
  <2> HIDE DEF g
  <2>9. Fills(g, len, l, at, m, q, old)
    BY <2>2, <2>4, <2>6, <2>7, <2>8 DEF Fills, n
  <2> QED BY <1>11, <2>9
<1>13. ASSUME ~(Setup[i].persistent /\ limit \in 1 .. a)
       PROVE  l \in Seq(Requests) /\ \E f1, g1 : Splits(f1, g1, q, t, l, old)
  <2> DEFINE b == IF limit < a THEN a - limit ELSE 0
             g == [j \in 1 .. b |-> at[limit + j]]
  <2>1. b \in Nat /\ 1 .. b = 1 .. a - limit /\ m + b = a
        /\ (\A j \in 1 .. b : limit + j \in 1 .. a /\ limit = m)
    <3>1. a \in Nat /\ limit \in Nat
      BY <1>5
    <3>2. CASE limit < a
      BY <1>m, <3>1, <3>2
    <3>3. CASE ~(limit < a)
      <4>1. m = a
        BY <1>6, <1>m, <3>1, <3>3
      <4>2. b = 0 /\ 1 .. b = {} /\ 1 .. a - limit = {}
        BY <3>1, <3>3
      <4> QED BY <3>1, <4>1, <4>2
    <3> QED BY <3>2, <3>3
  <2>2. l = [j \in 1 .. b |-> q[at[limit + j]]]
    BY <1>4, <1>13, <2>1
  <2> HIDE DEF b
  <2>3. \A j \in 1 .. b : q[at[limit + j]] \in Requests
    BY <1>1, <1>5, <2>1
  <2>4. l \in Seq(Requests) /\ Len(l) = b /\ \A j \in 1 .. b : l[j] = q[at[limit + j]]
    <3>1. l \in [1 .. b -> Requests] /\ b \in Nat
      BY <2>1, <2>2, <2>3
    <3>2. l \in Seq(Requests) /\ Len(l) = b
      BY <3>1
    <3> QED BY <2>2, <3>2
  <2>5. g \in [1 .. b -> 1 .. n]
    BY <1>5, <2>1
  <2>6. \A j, k \in 1 .. b : g[j] = g[k] => j = k
    <3> SUFFICES ASSUME NEW j \in 1 .. b, NEW k \in 1 .. b, g[j] = g[k] PROVE j = k
      OBVIOUS
    <3>1. limit + j = limit + k
      BY <1>7, <2>1
    <3> QED BY <2>1, <3>1
  <2>7. ASSUME NEW j \in 1 .. m, NEW k \in 1 .. b PROVE at[j] # g[k]
    <3>1. g[k] = at[limit + k] /\ limit + k \in 1 .. a /\ j \in 1 .. a /\ limit = m
      BY <1>8, <2>1
    <3>2. j # limit + k
      BY <1>6, <2>1, <3>1
    <3> QED BY <1>7, <3>1, <3>2
  <2>8. ASSUME NEW k \in 1 .. n
        PROVE  q[k] \in old \/ (\E j \in 1 .. m : at[j] = k) \/ \E j \in 1 .. b : g[j] = k
    <3> SUFFICES ASSUME q[k] \notin old PROVE (\E j \in 1 .. m : at[j] = k) \/ \E j \in 1 .. b : g[j] = k
      OBVIOUS
    <3>1. PICK j \in 1 .. a : at[j] = k
      BY <1>5
    <3>2. CASE j =< m
      <4>1. j \in 1 .. m
        BY <1>5, <1>6, <3>2
      <4> QED BY <3>1, <4>1
    <3>3. CASE ~(j =< m)
      <4>1. j - m \in 1 .. b /\ m + (j - m) = j
        BY <1>5, <1>6, <2>1, <3>3
      <4>2. limit = m /\ g[j - m] = at[j]
        BY <2>1, <4>1
      <4> QED BY <3>1, <4>1, <4>2
    <3> QED BY <3>2, <3>3
  <2>9. \A j \in 1 .. b : l[j] = q[g[j]]
    BY <2>4
  <2> HIDE DEF g
  <2>10. Fills(g, b, l, at, m, q, old)
    BY <2>4, <2>5, <2>6, <2>7, <2>8, <2>9 DEF Fills, n
  <2> QED BY <1>11, <2>10
<1> QED
  BY <1>9, <1>12, <1>13 DEF t, l


\* f says where in q the messages of p come from: 0 stands for the new message m.
Adds(f, q, p, m) ==
    /\ p \in Seq(Requests) /\ f \in [1 .. Len(p) -> 0 .. Len(q)]
    /\ \A j \in 1 .. Len(p) : p[j] = IF f[j] = 0 THEN m ELSE q[f[j]]
    /\ \A j, k \in 1 .. Len(p) : f[j] = f[k] => j = k

\* g says where in q the messages of r come from.
Copies(g, q, r) ==
    /\ r \in Seq(Requests) /\ g \in [1 .. Len(r) -> 1 .. Len(q)]
    /\ \A j \in 1 .. Len(r) : r[j] = q[g[j]]
    /\ \A j, k \in 1 .. Len(r) : g[j] = g[k] => j = k

LEMMA TailAdds ==
    ASSUME NEW q \in Seq(Requests), NEW m \in Requests, NEW p \in Seq(Requests), p # <<>>,
           NEW f, Adds(f, q, p, m)
    PROVE  \E g : Adds(g, q, Tail(p), m)
<1> DEFINE t == Tail(p)
           n == Len(p)
           g == [j \in 1 .. n - 1 |-> f[j + 1]]
<1>1. /\ n \in Nat \ {0} /\ t \in Seq(Requests) /\ Len(t) = n - 1
      /\ \A j \in 1 .. n - 1 : t[j] = p[j + 1]
  OBVIOUS
<1>2. /\ f \in [1 .. n -> 0 .. Len(q)]
      /\ \A j \in 1 .. n : p[j] = IF f[j] = 0 THEN m ELSE q[f[j]]
      /\ \A j, k \in 1 .. n : f[j] = f[k] => j = k
  BY DEF Adds
<1> HIDE DEF n, t
<1>3. \A j \in 1 .. n - 1 : j + 1 \in 1 .. n /\ g[j] = f[j + 1]
  BY <1>1
<1>4. g \in [1 .. n - 1 -> 0 .. Len(q)]
  BY <1>2, <1>3
<1>5. \A j \in 1 .. n - 1 : t[j] = IF g[j] = 0 THEN m ELSE q[g[j]]
  BY <1>1, <1>2, <1>3
<1>6. \A j, k \in 1 .. n - 1 : g[j] = g[k] => j = k
  <2> SUFFICES ASSUME NEW j \in 1 .. n - 1, NEW k \in 1 .. n - 1, g[j] = g[k] PROVE j = k
    OBVIOUS
  <2>1. j + 1 = k + 1
    BY <1>2, <1>3
  <2> QED BY <1>1, <2>1
<1> HIDE DEF g
<1>7. Adds(g, q, t, m)
  BY <1>1, <1>4, <1>5, <1>6 DEF Adds
<1> QED
  BY <1>7 DEF t

\* Storing a message keeps others of the queue, each once.
LEMMA StoreAdds ==
    ASSUME NEW i \in Routers, NEW q \in Seq(Requests), NEW m \in Requests,
           NEW p \in Med(i)!StoreForUser(q, m)
    PROVE  p \in Seq(Requests) /\ \E f : Adds(f, q, p, m)
<1> DEFINE n == Len(q)
<1>1. n \in Nat /\ Setup[i].maxQueued \in Nat \ {0}
  BY SetupFacts
<1>2. ASSUME NEW r \in Seq(Requests), NEW g, Copies(g, q, r)
      PROVE  \E f : Adds(f, q, Append(r, m), m)
  <2> DEFINE a == Append(r, m)
             l == Len(r)
             f == [j \in 1 .. l + 1 |-> IF j = l + 1 THEN 0 ELSE g[j]]
  <2>1. /\ l \in Nat /\ a \in Seq(Requests) /\ Len(a) = l + 1
        /\ a[l + 1] = m /\ \A j \in 1 .. l : a[j] = r[j]
    OBVIOUS
  <2>2. g \in [1 .. l -> 1 .. n] /\ (\A j \in 1 .. l : r[j] = q[g[j]])
        /\ (\A j, k \in 1 .. l : g[j] = g[k] => j = k)
    BY <1>2 DEF Copies
  <2> HIDE DEF l, a, n
  <2>3. \A j \in 1 .. l + 1 : j = l + 1 \/ j \in 1 .. l
    BY <2>1
  <2>4. f[l + 1] = 0 /\ \A j \in 1 .. l : f[j] = g[j] /\ f[j] \in 1 .. n
    BY <2>1, <2>2
  <2>5. f \in [1 .. l + 1 -> 0 .. n]
    BY <1>1, <2>2, <2>3
  <2> HIDE DEF f
  <2>6. \A j \in 1 .. l + 1 : a[j] = IF f[j] = 0 THEN m ELSE q[f[j]]
    BY <1>1, <2>1, <2>2, <2>3, <2>4
  <2>7. \A j, k \in 1 .. l + 1 : f[j] = f[k] => j = k
    BY <1>1, <2>2, <2>3, <2>4
  <2>8. Adds(f, q, a, m)
    BY <2>1, <2>5, <2>6, <2>7 DEF Adds, n
  <2> QED BY <2>8 DEF a
<1>3. ASSUME ~Setup[i].persistent
      PROVE  \E f : Adds(f, q, p, m)
  <2> DEFINE r == IF n >= Setup[i].maxQueued THEN Tail(q) ELSE q
  <2>1. p = Append(r, m)
    BY <1>3 DEF Med!StoreForUser, Med!Push
  <2>2. CASE n >= Setup[i].maxQueued
    <3> DEFINE g == [j \in 1 .. n - 1 |-> j + 1]
    <3>1. /\ r = Tail(q) /\ n >= 1 /\ r \in Seq(Requests) /\ Len(r) = n - 1
          /\ \A j \in 1 .. n - 1 : r[j] = q[j + 1]
      BY <1>1, <2>2
    <3> HIDE DEF r
    <3>2. Copies(g, q, r)
      <4>1. \A j \in 1 .. n - 1 : g[j] = j + 1 /\ g[j] \in 1 .. n
        BY <1>1
      <4>2. g \in [1 .. n - 1 -> 1 .. n] /\ \A j, k \in 1 .. n - 1 : g[j] = g[k] => j = k
        BY <1>1, <4>1
      <4> HIDE DEF g
      <4> QED BY <3>1, <4>1, <4>2 DEF Copies
    <3> HIDE DEF g
    <3> QED BY <1>2, <2>1, <3>1, <3>2
  <2>3. CASE ~(n >= Setup[i].maxQueued)
    <3> DEFINE g == [j \in 1 .. n |-> j]
    <3>1. r = q
      BY <2>3
    <3>2. Copies(g, q, q)
      <4>1. \A j \in 1 .. n : g[j] = j
        OBVIOUS
      <4>2. g \in [1 .. n -> 1 .. n] /\ \A j, k \in 1 .. n : g[j] = g[k] => j = k
        BY <1>1, <4>1
      <4> HIDE DEF g
      <4> QED BY <4>1, <4>2 DEF Copies
    <3> HIDE DEF g, r
    <3> QED BY <1>2, <2>1, <3>1, <3>2
  <2> QED BY <2>2, <2>3
<1>4. ASSUME Setup[i].persistent
      PROVE  \E f : Adds(f, q, p, m)
  <2>1. PICK x \in 0 .. n : p = Med(i)!EvictFirst(Med(i)!Inserted(q, x, m))
    BY <1>4 DEF Med!StoreForUser, Med!InsertSomewhere
  <2> DEFINE r == Med(i)!Inserted(q, x, m)
             g == [j \in 1 .. n + 1 |-> IF j =< x THEN j ELSE IF j = x + 1 THEN 0 ELSE j - 1]
  <2>2. /\ r \in Seq(Requests) /\ Len(r) = n + 1
        /\ \A j \in 1 .. n + 1 :
              r[j] = IF j =< x THEN q[j] ELSE IF j = x + 1 THEN m ELSE q[j - 1]
    <3> DEFINE u == SubSeq(q, 1, x)
               v == SubSeq(q, x + 1, n)
    <3>1. u \in Seq(Requests) /\ Len(u) = x /\ \A j \in 1 .. x : u[j] = q[j]
      BY <1>1
    <3>2. v \in Seq(Requests) /\ Len(v) = n - x /\ \A j \in 1 .. n - x : v[j] = q[x + j]
      BY <1>1
    <3>3. r = u \o <<m>> \o v
      BY DEF Med!Inserted
    <3> HIDE DEF u, v, r, n
    <3> DEFINE w == u \o <<m>>
    <3>4. /\ w \in Seq(Requests) /\ Len(w) = x + 1 /\ w[x + 1] = m
          /\ \A j \in 1 .. x : w[j] = q[j]
      BY <1>1, <3>1
    <3> HIDE DEF w
    <3>5. r = w \o v
      BY <3>3 DEF w
    <3>6. r \in Seq(Requests) /\ Len(r) = n + 1
      <4>1. w \in Seq(Requests) /\ v \in Seq(Requests)
        BY <3>2, <3>4
      <4>2. r \in Seq(Requests) /\ Len(r) = Len(w) + Len(v)
        BY <3>5, <4>1, Concatenation
      <4>3. Len(w) = x + 1 /\ Len(v) = n - x /\ x \in Nat /\ n \in Nat
        BY <1>1, <3>2, <3>4
      <4> QED BY <4>2, <4>3
    <3>7. ASSUME NEW j \in 1 .. n + 1
          PROVE  r[j] = IF j =< x THEN q[j] ELSE IF j = x + 1 THEN m ELSE q[j - 1]
      <4>1. CASE j =< x + 1
        <5>1. j \in 1 .. x + 1 /\ r[j] = w[j]
          BY <1>1, <3>2, <3>4, <3>5, <4>1
        <5> QED BY <1>1, <3>4, <4>1, <5>1
      <4>2. CASE ~(j =< x + 1)
        <5>1. /\ j - (x + 1) \in 1 .. n - x /\ x + (j - (x + 1)) = j - 1
              /\ x + 1 + (j - (x + 1)) = j
          BY <1>1, <4>2
        <5>2. r[j] = v[j - (x + 1)]
          BY <1>1, <3>2, <3>4, <3>5, <4>2, <5>1, Concatenation
        <5> QED BY <1>1, <3>2, <4>2, <5>1, <5>2
      <4> QED BY <4>1, <4>2
    <3> QED BY <3>6, <3>7
  <2> HIDE DEF r, n
  <2>3. g \in [1 .. n + 1 -> 0 .. n]
    BY <1>1
  <2>4. \A j, k \in 1 .. n + 1 : g[j] = g[k] => j = k
    BY <1>1
  <2>5. \A j \in 1 .. n + 1 : r[j] = IF g[j] = 0 THEN m ELSE q[g[j]]
    BY <1>1, <2>2
  <2> HIDE DEF g
  <2>6. Adds(g, q, r, m)
    BY <2>2, <2>3, <2>4, <2>5 DEF Adds, n
  <2>7. r # <<>>
    BY <1>1, <2>2
  <2>8. p = r \/ p = Tail(r)
    BY <2>1 DEF Med!EvictFirst, r
  <2> QED BY <2>2, <2>6, <2>7, <2>8, TailAdds
<1>5. \E f : Adds(f, q, p, m)
  BY <1>1, <1>3, <1>4
<1> QED
  BY <1>5 DEF Adds


-----------------------------------------------------------------------------
(* The invariant.                                                            *)

(* Who holds the keys, the sessions and the connections.                     *)
Keyed(i) ==
    \A d \in Agents(i) :
        /\ keylist[d] \subseteq {d} /\ reverse[d] \in {d, NoOne}
        /\ reverse[d] = d => d \in keylist[d]
        /\ sessions[d] # NoOne => conn[sessions[d]].did = d

Connected(i) ==
    \A c \in Conns :
        /\ conn[c].phase = "unused" =>
              /\ conn[c].did = NoOne /\ conn[c].out = <<>> /\ conn[c].inbox = <<>>
              /\ ~conn[c].picking /\ ~conn[c].up /\ ~conn[c].open
        /\ conn[c].phase # "unused" => conn[c].did \in Agents(i)
        /\ ~conn[c].picking => conn[c].picked = <<>>
        /\ \A n \in DOMAIN conn[c].inbox :
              conn[c].inbox[n].kind = "remove" => conn[c].did \in Setup[i].removers

(* A request's task knows its recipient's session only, and has one queue    *)
(* at most to store its message in; the keys it has seen stay.               *)
Routed(i) ==
    \A r \in Requests :
        /\ forward[r].owner \in {Recipient(i, r), NoOne}
        /\ \E k \in Names(i) : forward[r].left \subseteq {k}
        /\ ~Setup[i].persistent =>
              forward[r].left \subseteq {Med(i)!Key(Recipient(i, r)), Med(i)!Did(Recipient(i, r))}
        /\ forward[r].pc = "push" => Recipient(i, r) \in Setup[i].websocketUsers
        /\ forward[r].pc = "send" => forward[r].owner # NoOne
        /\ forward[r].pc \in {"online", "send", "keys"} /\ forward[r].owner # NoOne
             /\ Recipient(i, r) \notin Setup[i].removers
             => keylist[Recipient(i, r)] # {}

(* The places a message may be at.                                           *)
Places(i) ==
    [kind : {"queue", "out", "picked", "received"},
     of : Names(i) \cup Conns \cup Agents(i), n : Nat, j : Nat]

Place(kind, of, n, j) == [kind |-> kind, of |-> of, n |-> n, j |-> j]

InQueue(i, p, r) ==
    /\ p.kind = "queue" /\ p.of \in Names(i) /\ p.j = 0
    /\ p.n \in DOMAIN queue[p.of] /\ queue[p.of][p.n] = r
InOut(p, r) ==
    /\ p.kind = "out" /\ p.of \in Conns /\ p.n \in DOMAIN Out(p.of)
    /\ p.j \in DOMAIN Out(p.of)[p.n].msgs /\ Out(p.of)[p.n].msgs[p.j] = r
InPicked(p, r) ==
    /\ p.kind = "picked" /\ p.of \in Conns /\ p.j = 0
    /\ p.n \in DOMAIN Pick(p.of) /\ Pick(p.of)[p.n] = r
InReceived(i, p, r) ==
    /\ p.kind = "received" /\ p.of \in Agents(i) /\ p.j = 0
    /\ p.n \in DOMAIN received[p.of] /\ received[p.of][p.n] = r

At(i, p, r) == InQueue(i, p, r) \/ InOut(p, r) \/ InPicked(p, r) \/ InReceived(i, p, r)

(* The agent that has it there, or will.                                     *)
Holder(p) == IF p.kind = "received" THEN p.of ELSE Who(p.of)

(* A message pushed to an agent of the websocket channel is queued as well.  *)
Counts(i, p, r) ==
    \/ Recipient(i, r) \notin Setup[i].websocketUsers
    \/ p.kind = "queue"
    \/ Holder(p) \notin Setup[i].websocketUsers

Unstored(r) ==
    \/ forward[r].pc \in {"new", "mark", "resolve", "online", "send", "keys", "push"}
    \/ forward[r].pc = "store" /\ forward[r].left # {}

Once(i) ==
    \A r \in Requests : \A p, q \in Places(i) :
        /\ At(i, p, r) /\ Counts(i, p, r) => ~Unstored(r)
        /\ At(i, p, r) /\ Counts(i, p, r) /\ At(i, q, r) /\ Counts(i, q, r) => p = q

Rightful(i, p, r) ==
    IF p.kind = "queue" THEN p.of \in {Med(i)!Key(Recipient(i, r)), Med(i)!Did(Recipient(i, r))}
    ELSE Holder(p) = Recipient(i, r)

Addressed(i) ==
    ~Setup[i].persistent =>
        \A r \in Requests : \A p \in Places(i) : At(i, p, r) => Rightful(i, p, r)

Stored(r) ==
    \/ forward[r].pc = "ok"
    \/ forward[r].pc \in {"push", "store"} /\ forward[r].left = {}

Kept(i) ==
    \A r \in Requests :
        Stored(r) /\ Recipient(i, r) \notin Setup[i].removers =>
            r \in discarded \/ \E p \in Places(i) : At(i, p, r)

TypeOK(i) == Med(i)!TypeOK

-----------------------------------------------------------------------------
(* Types.                                                                    *)

\* A connection with one of its fields replaced is one.
LEMMA Fields ==
    ASSUME NEW i \in Routers, NEW x \in Med(i)!Connection
    PROVE  /\ \A y \in Agents(i) \cup {NoOne} : [x EXCEPT !.did = y] \in Med(i)!Connection
           /\ \A y \in BOOLEAN : /\ [x EXCEPT !.up = y] \in Med(i)!Connection
                                 /\ [x EXCEPT !.open = y] \in Med(i)!Connection
                                 /\ [x EXCEPT !.picking = y] \in Med(i)!Connection
           /\ \A y \in {"unused", "grant", "keylist", "status", "batch", "loop", "gone"} :
                 [x EXCEPT !.phase = y] \in Med(i)!Connection
           /\ \A y \in Seq(Med(i)!Request) : [x EXCEPT !.inbox = y] \in Med(i)!Connection
           /\ \A y \in Seq(Med(i)!Item) : [x EXCEPT !.out = y] \in Med(i)!Connection
           /\ \A y \in Seq(Requests) : [x EXCEPT !.picked = y] \in Med(i)!Connection
BY DEF Med!Connection, Agents

LEMMA Types ==
    ASSUME NEW i \in Routers, TypeOK(i)
    PROVE  /\ sessions \in [Agents(i) -> Conns \cup {NoOne}]
           /\ conn \in [Conns -> Med(i)!Connection]
           /\ keylist \in [Agents(i) -> SUBSET Agents(i)]
           /\ reverse \in [Agents(i) -> Agents(i) \cup {NoOne}]
           /\ queue \in [Names(i) -> Seq(Requests)]
           /\ forward \in [Requests -> Med(i)!Forward]
           /\ received \in [Agents(i) -> Seq(Requests)]
           /\ discarded \subseteq Requests /\ expired \subseteq Requests
BY DEF TypeOK, Med!TypeOK, Agents, Names

LEMMA ConnTypes ==
    ASSUME NEW i \in Routers, TypeOK(i), NEW c \in Conns
    PROVE  /\ conn[c].did \in Agents(i) \cup {NoOne} /\ conn[c].up \in BOOLEAN
           /\ conn[c].open \in BOOLEAN /\ conn[c].picking \in BOOLEAN
           /\ conn[c].inbox \in Seq(Med(i)!Request)
           /\ conn[c].out \in Seq(Med(i)!Item) /\ conn[c].picked \in Seq(Requests)
           /\ conn[c].phase \in {"unused", "grant", "keylist", "status", "batch", "loop", "gone"}
<1>1. conn[c] \in Med(i)!Connection
  BY Types
<1> QED
  BY <1>1 DEF Med!Connection, Agents

WithItem(x, item) == [x EXCEPT !.out = Append(x.out, item)]

LEMMA SendToIs ==
    ASSUME NEW i \in Routers, TypeOK(i), NEW cs \in [Conns -> Med(i)!Connection],
           NEW d \in Agents(i), NEW item \in Med(i)!Item
    PROVE  LET new == Med(i)!SendTo(cs, d, item)
           IN  /\ new \in [Conns -> Med(i)!Connection]
               /\ Med(i)!CanSendTo(d) => /\ sessions[d] \in Conns
                                         /\ conn[sessions[d]].open
               /\ \A b \in Conns :
                     new[b] = IF Med(i)!CanSendTo(d) /\ b = sessions[d]
                              THEN WithItem(cs[b], item) ELSE cs[b]
<1>1. Med(i)!CanSendTo(d) => sessions[d] \in Conns /\ conn[sessions[d]].open
  BY Types DEF Med!CanSendTo, Med!IsOnline
<1>2. \A b \in Conns : WithItem(cs[b], item) \in Med(i)!Connection
  <2> SUFFICES ASSUME NEW b \in Conns
               PROVE  WithItem(cs[b], item) \in Med(i)!Connection
    OBVIOUS
  <2>1. cs[b].out \in Seq(Med(i)!Item)
    <3>1. cs[b] \in Med(i)!Connection
      OBVIOUS
    <3> QED BY <3>1 DEF Med!Connection
  <2>2. Append(cs[b].out, item) \in Seq(Med(i)!Item)
    BY <2>1
  <2> QED BY <2>2, Fields DEF WithItem
<1>3. CASE Med(i)!CanSendTo(d)
  <2> DEFINE s == sessions[d]
             y == WithItem(cs[s], item)
  <2>1. Med(i)!SendTo(cs, d, item) = [cs EXCEPT ![s] = y]
    BY <1>3 DEF Med!SendTo, WithItem
  <2>2. s \in Conns /\ y \in Med(i)!Connection
    BY <1>1, <1>2, <1>3
  <2>3. \A b \in Conns : Med(i)!SendTo(cs, d, item)[b] = IF b = s THEN y ELSE cs[b]
    <3> HIDE DEF y, s
    <3> QED BY <2>1, <2>2
  <2>4. Med(i)!SendTo(cs, d, item) \in [Conns -> Med(i)!Connection]
    <3> HIDE DEF y, s
    <3> QED BY <2>1, <2>2
  <2> QED BY <1>1, <1>3, <2>3, <2>4
<1>4. CASE ~Med(i)!CanSendTo(d)
  BY <1>4 DEF Med!SendTo
<1> QED BY <1>3, <1>4


Basics(i) == TypeOK(i) /\ Keyed(i) /\ Connected(i) /\ Routed(i)

\* A step that moves no message: it may give agents answers without messages.
QuietLines(i) ==
    /\ queue' = queue /\ received' = received
    /\ \A b \in Conns :
         /\ Who(b)' = Who(b) \/ (Out(b) = <<>> /\ Pick(b) = <<>>)
         /\ Pick(b)' = Pick(b)
         /\ \/ Out(b)' = Out(b)
            \/ \E item \in Med(i)!Item : item.msgs = <<>> /\ Out(b)' = Append(Out(b), item)

ConnectionOK(i, x) ==
    /\ x.phase = "unused" => /\ x.did = NoOne /\ x.out = <<>> /\ x.inbox = <<>>
                             /\ ~x.picking /\ ~x.up /\ ~x.open
    /\ x.phase # "unused" => x.did \in Agents(i)
    /\ ~x.picking => x.picked = <<>>
    /\ \A n \in DOMAIN x.inbox : x.inbox[n].kind = "remove" => x.did \in Setup[i].removers

LEMMA ConnectedIs ==
    ASSUME NEW i \in Routers
    PROVE  /\ Connected(i) <=> \A c \in Conns : ConnectionOK(i, conn[c])
           /\ Connected(i)' <=> \A c \in Conns : ConnectionOK(i, conn'[c])
BY DEF Connected, ConnectionOK

\* The agents' side of a connection.
LEMMA ConnectStep ==
    ASSUME NEW i \in Routers, Basics(i), NEW c \in Conns, NEW d \in Agents(i), Med(i)!Connect(c, d)
    PROVE  Basics(i)' /\ QuietLines(i) /\ UNCHANGED <<forward, discarded>>
<1> DEFINE x == conn[c]
           y == [x EXCEPT !.did = d, !.up = TRUE, !.open = TRUE, !.phase = "grant",
                          !.inbox = <<Med(i)!Ask("mediate", 0)>>]
<1>1. /\ x.phase = "unused" /\ conn' = [conn EXCEPT ![c] = y]
      /\ sessions' = [sessions EXCEPT ![d] = c]
      /\ UNCHANGED <<keylist, reverse, queue, seen, forward, expired, received, discarded, restarts>>
  <2>1. conn' = Med(i)!Authenticated(c, d)
    BY DEF Med!Connect
  <2>2. Med(i)!Authenticated(c, d) = [conn EXCEPT ![c] = y]
    BY DEF Med!Authenticated
  <2> QED BY <2>1, <2>2 DEF Med!Connect
<1>2. x \in Med(i)!Connection /\ x.did = NoOne /\ x.out = <<>> /\ ~x.picking /\ x.picked = <<>>
  BY <1>1, Types DEF Basics, Connected
<1>3. Med(i)!Ask("mediate", 0) \in Med(i)!Request /\ Med(i)!Ask("mediate", 0).kind = "mediate"
  BY DEF Med!Ask, Med!Request
<1>4. <<Med(i)!Ask("mediate", 0)>> \in Seq(Med(i)!Request)
  BY <1>3
<1>5. /\ y.did = d /\ y.phase = "grant" /\ y.inbox = <<Med(i)!Ask("mediate", 0)>>
      /\ y.out = x.out /\ y.picking = x.picking /\ y.picked = x.picked
      /\ y \in Med(i)!Connection
  BY <1>2, <1>4 DEF Med!Connection, Agents
<1> HIDE DEF x, y
<1>6. conn' \in [Conns -> Med(i)!Connection] /\ conn'[c] = y /\ \A b \in Conns \ {c} : conn'[b] = conn[b]
  BY <1>1, <1>5, Types DEF Basics
<1>7. TypeOK(i)'
  <2>1. sessions' \in [Agents(i) -> Conns \cup {NoOne}]
    BY <1>1, Types DEF Basics
  <2> QED BY <1>1, <1>6, <2>1 DEF Basics, TypeOK, Med!TypeOK, Agents, Names
<1>8. Keyed(i)'
  <2> SUFFICES ASSUME NEW e \in Agents(i), sessions'[e] # NoOne
               PROVE  conn'[sessions'[e]].did = e
    BY <1>1 DEF Basics, Keyed
  <2>1. CASE e = d
    BY <1>1, <1>5, <1>6, <2>1, Types DEF Basics
  <2>2. CASE e # d
    <3>1. sessions'[e] = sessions[e] /\ sessions[e] \in Conns /\ conn[sessions[e]].did = e
      BY <1>1, <2>2, Types DEF Basics, Keyed
    <3>2. sessions[e] # c
      BY <1>2, <3>1, SetupFacts DEF x
    <3> QED BY <1>6, <3>1, <3>2
  <2> QED BY <2>1, <2>2
<1>9. Connected(i)'
  <2>1. ConnectionOK(i, y)
    BY <1>2, <1>3, <1>5 DEF ConnectionOK
  <2> QED BY <1>6, <2>1, ConnectedIs DEF Basics
<1>10. Routed(i)'
  BY <1>1 DEF Basics, Routed, Names, Med!QueueNames
<1>11. QuietLines(i)
  BY <1>1, <1>2, <1>5, <1>6 DEF QuietLines, Who, Out, Pick, x
<1> QED
  BY <1>1, <1>7, <1>8, <1>9, <1>10, <1>11 DEF Basics


\* A step that changes one connection and neither the agent's keys nor a request.
LEMMA OneConnection ==
    ASSUME NEW i \in Routers, Basics(i), NEW c \in Conns, NEW y \in Med(i)!Connection,
           y.did = conn[c].did, ConnectionOK(i, y), conn' = [conn EXCEPT ![c] = y],
           UNCHANGED <<keylist, reverse, seen, forward, expired, restarts>>,
           queue' \in [Names(i) -> Seq(Requests)], received' \in [Agents(i) -> Seq(Requests)],
           discarded' \subseteq Requests,
           sessions' = sessions \/ \E d : sessions' = [sessions EXCEPT ![d] = NoOne]
    PROVE  Basics(i)' /\ conn'[c] = y /\ \A b \in Conns \ {c} : conn'[b] = conn[b]
<1>1. conn' \in [Conns -> Med(i)!Connection] /\ conn'[c] = y /\ \A b \in Conns \ {c} : conn'[b] = conn[b]
  BY Types DEF Basics
<1>2. sessions' \in [Agents(i) -> Conns \cup {NoOne}]
      /\ \A d \in Agents(i) : sessions'[d] \in {sessions[d], NoOne}
  BY Types DEF Basics
<1>3. TypeOK(i)'
  BY <1>1, <1>2 DEF Basics, TypeOK, Med!TypeOK, Agents, Names
<1>4. Keyed(i)'
  <2> SUFFICES ASSUME NEW e \in Agents(i), sessions'[e] # NoOne
               PROVE  conn'[sessions'[e]].did = e
    BY DEF Basics, Keyed
  <2>1. sessions'[e] = sessions[e] /\ sessions[e] \in Conns /\ conn[sessions[e]].did = e
    BY <1>2, Types DEF Basics, Keyed
  <2> QED BY <1>1, <2>1
<1>5. Connected(i)'
  BY <1>1, ConnectedIs DEF Basics
<1>6. Routed(i)'
  BY DEF Basics, Routed, Names, Med!QueueNames
<1> QED
  BY <1>1, <1>3, <1>4, <1>5, <1>6 DEF Basics

\* ... and none of its messages.
LEMMA OneConnectionQuiet ==
    ASSUME NEW i \in Routers, Basics(i), NEW c \in Conns, NEW y \in Med(i)!Connection,
           y.did = conn[c].did, ConnectionOK(i, y), conn' = [conn EXCEPT ![c] = y],
           y.out = conn[c].out, y.picked = conn[c].picked,
           UNCHANGED <<keylist, reverse, queue, seen, forward, expired, received, discarded, restarts>>,
           sessions' = sessions \/ \E d : sessions' = [sessions EXCEPT ![d] = NoOne]
    PROVE  Basics(i)' /\ QuietLines(i) /\ UNCHANGED <<forward, discarded>>
<1>1. queue' \in [Names(i) -> Seq(Requests)] /\ received' \in [Agents(i) -> Seq(Requests)]
      /\ discarded' \subseteq Requests
  BY Types DEF Basics
<1>2. Basics(i)' /\ conn'[c] = y /\ \A b \in Conns \ {c} : conn'[b] = conn[b]
  BY <1>1, OneConnection
<1> QED
  BY <1>2 DEF QuietLines, Who, Out, Pick

LEMMA ConnectionIs ==
    ASSUME NEW i \in Routers, Basics(i), NEW c \in Conns
    PROVE  conn[c] \in Med(i)!Connection /\ ConnectionOK(i, conn[c])
BY Types, ConnectedIs DEF Basics

LEMMA EndSteps ==
    ASSUME NEW i \in Routers, Basics(i), NEW c \in Conns,
           Med(i)!Break(c) \/ Med(i)!ConnectionEnds(c) \/ Med(i)!AgentTimesOut(c)
             \/ Med(i)!AgentRemovesKey(c)
    PROVE  Basics(i)' /\ QuietLines(i) /\ UNCHANGED <<forward, discarded>>
<1> DEFINE x == conn[c]
<1>0. x \in Med(i)!Connection /\ ConnectionOK(i, x)
  BY ConnectionIs
<1>1. CASE Med(i)!Break(c)
  <2> DEFINE y == [x EXCEPT !.up = FALSE, !.phase = "gone"]
  <2>1. x.up /\ conn' = [conn EXCEPT ![c] = y]
        /\ UNCHANGED <<keylist, reverse, queue, seen, forward, expired, received, discarded, restarts>>
        /\ sessions' = sessions
    BY <1>1 DEF Med!Break
  <2>2. /\ y.did = x.did /\ y.out = x.out /\ y.picked = x.picked /\ y.picking = x.picking
        /\ y.inbox = x.inbox /\ y.phase = "gone" /\ y \in Med(i)!Connection
    BY <1>0 DEF Med!Connection
  <2>3. ConnectionOK(i, y)
    BY <1>0, <2>1, <2>2 DEF ConnectionOK
  <2> HIDE DEF y
  <2> QED BY <2>1, <2>2, <2>3, OneConnectionQuiet
<1>2. CASE Med(i)!ReceiveEnds(c) \/ Med(i)!SendFails(c)
  <2> DEFINE y == [x EXCEPT !.open = FALSE, !.inbox = <<>>]
  <2>1. x.open /\ conn' = [conn EXCEPT ![c] = y]
        /\ UNCHANGED <<keylist, reverse, queue, seen, forward, expired, received, discarded, restarts>>
        /\ (sessions' = sessions \/ \E d : sessions' = [sessions EXCEPT ![d] = NoOne])
    BY <1>2 DEF Med!ReceiveEnds, Med!SendFails, Med!Unregister
  <2>2. /\ y.did = x.did /\ y.out = x.out /\ y.picked = x.picked /\ y.picking = x.picking
        /\ y.inbox = <<>> /\ y.phase = x.phase /\ y \in Med(i)!Connection
    <3>1. <<>> \in Seq(Med(i)!Request)
      OBVIOUS
    <3> QED BY <1>0, <3>1 DEF Med!Connection
  <2>3. ConnectionOK(i, y)
    BY <1>0, <2>1, <2>2 DEF ConnectionOK
  <2> HIDE DEF y
  <2> QED BY <2>1, <2>2, <2>3, OneConnectionQuiet
<1>3. CASE Med(i)!AgentTimesOut(c)
  <2> DEFINE y == [x EXCEPT !.phase = "loop"]
  <2>1. x.up /\ conn' = [conn EXCEPT ![c] = y]
        /\ UNCHANGED <<keylist, reverse, queue, seen, forward, expired, received, discarded, restarts>>
        /\ sessions' = sessions
    BY <1>3 DEF Med!AgentTimesOut
  <2>2. /\ y.did = x.did /\ y.out = x.out /\ y.picked = x.picked /\ y.picking = x.picking
        /\ y.inbox = x.inbox /\ y.phase = "loop" /\ y \in Med(i)!Connection
    BY <1>0 DEF Med!Connection
  <2>3. ConnectionOK(i, y)
    BY <1>0, <2>1, <2>2 DEF ConnectionOK
  <2> HIDE DEF y
  <2> QED BY <2>1, <2>2, <2>3, OneConnectionQuiet
<1>4. CASE Med(i)!AgentRemovesKey(c)
  <2> DEFINE ask == Med(i)!Ask("remove", 0)
             y == [x EXCEPT !.inbox = <<ask>>]
  <2>1. x.up /\ x.did \in Setup[i].removers /\ conn' = [conn EXCEPT ![c] = y]
        /\ UNCHANGED <<keylist, reverse, queue, seen, forward, expired, received, discarded, restarts>>
        /\ sessions' = sessions
    BY <1>4 DEF Med!AgentRemovesKey
  <2>2. <<ask>> \in Seq(Med(i)!Request)
    BY DEF Med!Ask, Med!Request
  <2> HIDE DEF ask
  <2>3. /\ y.did = x.did /\ y.out = x.out /\ y.picked = x.picked /\ y.picking = x.picking
        /\ y.inbox = <<ask>> /\ y.phase = x.phase /\ y \in Med(i)!Connection
    BY <1>0, <2>2 DEF Med!Connection
  <2>4. ConnectionOK(i, y)
    BY <1>0, <2>1, <2>3 DEF ConnectionOK
  <2> HIDE DEF y
  <2> QED BY <2>1, <2>3, <2>4, OneConnectionQuiet
<1> QED
  BY <1>1, <1>2, <1>3, <1>4 DEF Med!ConnectionEnds


-----------------------------------------------------------------------------
(* The mediator's answers to requests.                                       *)

LEMMA AskedIs ==
    ASSUME NEW i \in Routers, Basics(i), NEW c \in Conns, NEW kind, Med(i)!Asked(c, kind)
    PROVE  /\ conn[c].open /\ ~conn[c].picking /\ conn[c].inbox # <<>>
           /\ Head(conn[c].inbox).kind = kind /\ Head(conn[c].inbox).n \in Nat
           /\ conn[c].did \in Agents(i) /\ conn[c].phase # "unused"
           /\ Tail(conn[c].inbox) \in Seq(Med(i)!Request)
           /\ Len(Tail(conn[c].inbox)) = Len(conn[c].inbox) - 1
           /\ \A n \in 1 .. Len(conn[c].inbox) - 1 : Tail(conn[c].inbox)[n] = conn[c].inbox[n + 1]
<1>1. conn[c].open /\ ~conn[c].picking /\ conn[c].inbox # <<>> /\ Head(conn[c].inbox).kind = kind
  BY DEF Med!Asked
<1>2. conn[c].inbox \in Seq(Med(i)!Request)
  BY ConnTypes DEF Basics
<1>3. Head(conn[c].inbox) \in Med(i)!Request
  BY <1>1, <1>2
<1>4. Head(conn[c].inbox).n \in Nat
  BY <1>3 DEF Med!Request
<1>5. conn[c].phase # "unused" /\ conn[c].did \in Agents(i)
  BY <1>1 DEF Basics, Connected
<1> QED
  BY <1>1, <1>2, <1>4, <1>5

\* A connection whose oldest request is taken, and which may be picking.
LEMMA InboxTail ==
    ASSUME NEW i \in Routers, Basics(i), NEW c \in Conns, NEW kind, Med(i)!Asked(c, kind),
           NEW y \in Med(i)!Connection, y.did = conn[c].did, y.inbox = Tail(conn[c].inbox),
           y.phase = conn[c].phase, y.picking \/ y.picked = <<>>
    PROVE  ConnectionOK(i, y)
<1> DEFINE x == conn[c]
<1>1. /\ x.phase # "unused" /\ x.did \in Agents(i) /\ x.inbox \in Seq(Med(i)!Request)
      /\ Len(y.inbox) = Len(x.inbox) - 1 /\ y.inbox \in Seq(Med(i)!Request)
      /\ \A n \in 1 .. Len(x.inbox) - 1 : y.inbox[n] = x.inbox[n + 1]
  BY AskedIs, ConnTypes DEF Basics
<1>2. \A n \in 1 .. Len(x.inbox) : x.inbox[n].kind = "remove" => x.did \in Setup[i].removers
  <2>1. DOMAIN x.inbox = 1 .. Len(x.inbox)
    BY <1>1, SeqElements
  <2> QED BY <2>1, ConnectionIs DEF ConnectionOK
<1>3. \A n \in DOMAIN y.inbox : y.inbox[n].kind = "remove" => x.did \in Setup[i].removers
  <2> SUFFICES ASSUME NEW n \in DOMAIN y.inbox PROVE y.inbox[n].kind = "remove" => x.did \in Setup[i].removers
    OBVIOUS
  <2>1. n \in 1 .. Len(x.inbox) - 1 /\ Len(x.inbox) \in Nat
    BY <1>1, SeqElements
  <2>2. n + 1 \in 1 .. Len(x.inbox)
    <3> DEFINE l == Len(x.inbox)
    <3>1. n \in 1 .. l - 1 /\ l \in Nat
      BY <2>1
    <3> HIDE DEF l
    <3>2. n + 1 \in 1 .. l
      BY <3>1
    <3> QED BY <3>2 DEF l
  <2>3. y.inbox[n] = x.inbox[n + 1]
    BY <1>1, <2>1, Zenon
  <2> QED BY <1>2, <2>2, <2>3, Zenon
<1> QED
  BY <1>1, <1>3 DEF ConnectionOK

\* The connections after a request was answered, where the answer goes somewhere.
Answered(i, c, item) ==
    \A b \in Conns :
        \E o \in {Out(b), Append(Out(b), item)} :
            conn'[b] = IF b = c THEN [conn[b] EXCEPT !.inbox = Tail(conn[c].inbox), !.out = o]
                       ELSE [conn[b] EXCEPT !.out = o]

LEMMA AnsweredIs ==
    ASSUME NEW i \in Routers, Basics(i), NEW c \in Conns, NEW kind, Med(i)!Asked(c, kind),
           NEW item \in Med(i)!Item, conn' = Med(i)!SendTo(Med(i)!Handled(c), conn[c].did, item)
    PROVE  conn' \in [Conns -> Med(i)!Connection] /\ Answered(i, c, item)
<1> DEFINE d == conn[c].did
           cs == Med(i)!Handled(c)
           t == Tail(conn[c].inbox)
           y == [conn[c] EXCEPT !.inbox = t]
<1>1. d \in Agents(i) /\ t \in Seq(Med(i)!Request) /\ conn \in [Conns -> Med(i)!Connection]
  BY AskedIs, Types DEF Basics
<1>2. cs = [conn EXCEPT ![c] = y]
  BY DEF Med!Handled
<1>3. y \in Med(i)!Connection
  BY <1>1, Fields
<1>4. cs \in [Conns -> Med(i)!Connection] /\ \A b \in Conns : cs[b] = IF b = c THEN y ELSE conn[b]
  <2> HIDE DEF y, cs
  <2> QED BY <1>1, <1>2, <1>3
<1> HIDE DEF cs
<1>5. /\ conn' \in [Conns -> Med(i)!Connection]
      /\ \A b \in Conns :
            conn'[b] = IF Med(i)!CanSendTo(d) /\ b = sessions[d]
                       THEN WithItem(cs[b], item) ELSE cs[b]
  <2> DEFINE new == Med(i)!SendTo(cs, d, item)
  <2>1. TypeOK(i) /\ conn' = new
    BY DEF Basics, cs
  <2> HIDE DEF d
  <2>2. /\ new \in [Conns -> Med(i)!Connection]
        /\ \A b \in Conns :
              new[b] = IF Med(i)!CanSendTo(d) /\ b = sessions[d]
                       THEN WithItem(cs[b], item) ELSE cs[b]
    BY <1>1, <1>4, <2>1, SendToIs
  <2> HIDE DEF new
  <2> QED BY <2>1, <2>2
<1>6. ASSUME NEW b \in Conns
      PROVE  \E o \in {Out(b), Append(Out(b), item)} :
                conn'[b] = IF b = c THEN [conn[b] EXCEPT !.inbox = t, !.out = o]
                           ELSE [conn[b] EXCEPT !.out = o]
  <2>1. cs[b].out = Out(b)
    <3>1. conn[c] \in Med(i)!Connection
      BY <1>1
    <3>2. y.out = conn[c].out
      BY <3>1 DEF Med!Connection
    <3> QED BY <1>4, <3>2, Zenon DEF Out
  <2>2. CASE Med(i)!CanSendTo(d) /\ b = sessions[d]
    <3>1. conn'[b] = [cs[b] EXCEPT !.out = Append(Out(b), item)]
      BY <1>5, <2>1, <2>2 DEF WithItem
    <3> QED BY <1>4, <3>1
  <2>3. CASE ~(Med(i)!CanSendTo(d) /\ b = sessions[d])
    <3>1. conn'[b] = cs[b]
      BY <1>5, <2>3
    <3>2. conn[b] \in Med(i)!Connection
      BY <1>1
    <3>3. [conn[b] EXCEPT !.out = Out(b)] = conn[b]
      BY <3>2 DEF Out, Med!Connection
    <3>4. [conn[b] EXCEPT !.inbox = t, !.out = Out(b)] = [conn[b] EXCEPT !.inbox = t]
      BY <3>2 DEF Out, Med!Connection
    <3>5. Out(b) \in {Out(b), Append(Out(b), item)}
      OBVIOUS
    <3>6. conn'[b] = IF b = c THEN [conn[b] EXCEPT !.inbox = t, !.out = Out(b)]
                     ELSE [conn[b] EXCEPT !.out = Out(b)]
      BY <1>4, <3>1, <3>3, <3>4
    <3> QED BY <3>5, <3>6, Zenon
  <2> QED BY <2>2, <2>3
<1> QED
  BY <1>5, <1>6, Zenon DEF Answered


\* An answer without messages changes the inbox of one connection and an out-box.
LEMMA AnsweredQuietly ==
    ASSUME NEW i \in Routers, Basics(i), NEW c \in Conns, NEW kind, Med(i)!Asked(c, kind),
           NEW item \in Med(i)!Item, item.msgs = <<>>,
           conn' = Med(i)!SendTo(Med(i)!Handled(c), conn[c].did, item),
           queue' = queue, received' = received
    PROVE  /\ conn' \in [Conns -> Med(i)!Connection] /\ Connected(i)' /\ QuietLines(i)
           /\ \A b \in Conns : conn'[b].did = conn[b].did
<1>1. conn' \in [Conns -> Med(i)!Connection] /\ Answered(i, c, item)
  BY AnsweredIs
<1>2. ASSUME NEW b \in Conns
      PROVE  /\ conn'[b].did = conn[b].did /\ Pick(b)' = Pick(b)
             /\ Out(b)' \in {Out(b), Append(Out(b), item)}
             /\ ConnectionOK(i, conn'[b])
  <2>1. PICK o \in {Out(b), Append(Out(b), item)} :
            conn'[b] = IF b = c THEN [conn[b] EXCEPT !.inbox = Tail(conn[c].inbox), !.out = o]
                       ELSE [conn[b] EXCEPT !.out = o]
    BY <1>1, Zenon DEF Answered
  <2>2. conn[b] \in Med(i)!Connection /\ ConnectionOK(i, conn[b])
    BY ConnectionIs
  <2>3. /\ conn'[b].did = conn[b].did /\ conn'[b].picked = conn[b].picked
        /\ conn'[b].out = o /\ conn'[b].phase = conn[b].phase
        /\ conn'[b].picking = conn[b].picking /\ conn'[b].up = conn[b].up
        /\ conn'[b].open = conn[b].open
        /\ conn'[b].inbox = IF b = c THEN Tail(conn[c].inbox) ELSE conn[b].inbox
    BY <2>1, <2>2 DEF Med!Connection
  <2>4. conn'[b] \in Med(i)!Connection
    BY <1>1
  <2>5. CASE b = c
    <3>1. conn'[b].picking \/ conn'[b].picked = <<>>
      BY <2>2, <2>3 DEF ConnectionOK
    <3> DEFINE y == conn'[b]
    <3>2. /\ y \in Med(i)!Connection /\ y.did = conn[c].did /\ y.inbox = Tail(conn[c].inbox)
          /\ y.phase = conn[c].phase /\ (y.picking \/ y.picked = <<>>)
      BY <2>3, <2>4, <2>5, <3>1
    <3> HIDE DEF y
    <3>3. ConnectionOK(i, y)
      BY <3>2, InboxTail
    <3> QED BY <2>1, <2>3, <3>3 DEF Pick, Out, y
  <2>6. CASE b # c /\ conn[b].phase # "unused"
    <3>1. ConnectionOK(i, conn'[b])
      BY <2>2, <2>3, <2>6 DEF ConnectionOK
    <3> QED BY <2>1, <2>3, <3>1 DEF Pick, Out
  <2>7. CASE b # c /\ conn[b].phase = "unused"
    <3>1. sessions[conn[c].did] # b
      <4>1. conn[c].did \in Agents(i) /\ conn[b].did = NoOne
        BY <2>2, <2>7, AskedIs DEF ConnectionOK
      <4>2. b # NoOne /\ conn[c].did # NoOne
        BY <4>1, SetupFacts
      <4> QED BY <4>1, <4>2 DEF Basics, Keyed
    <3>2. o = Out(b)
      <4> DEFINE d == conn[c].did
                 cs == Med(i)!Handled(c)
                 y == [conn[c] EXCEPT !.inbox = Tail(conn[c].inbox)]
      <4>1. conn'[b] = cs[b]
        BY <3>1 DEF Med!SendTo
      <4>2. cs[b] = conn[b]
        <5>1. cs = [conn EXCEPT ![c] = y]
          BY DEF Med!Handled
        <5>2. conn \in [Conns -> Med(i)!Connection]
          BY Types DEF Basics
        <5> HIDE DEF y, cs
        <5> QED BY <2>7, <5>1, <5>2
      <4> QED BY <2>3, <4>1, <4>2 DEF Out
    <3>3. conn'[b].out = conn[b].out
      BY <2>3, <3>2 DEF Out
    <3>4. ConnectionOK(i, conn'[b])
      BY <2>2, <2>3, <2>7, <3>3 DEF ConnectionOK
    <3> QED BY <2>1, <2>3, <3>4 DEF Pick, Out
  <2> QED BY <2>5, <2>6, <2>7
<1>3. Connected(i)'
  BY <1>2, ConnectedIs
<1>4. QuietLines(i)
  BY <1>2 DEF QuietLines, Who
<1> QED
  BY <1>1, <1>2, <1>3, <1>4


\* What a request's task has seen stays when no other agent's keys change.
LEMMA RoutedKept ==
    ASSUME NEW i \in Routers, Basics(i), forward' = forward,
           \A d \in Agents(i) \ Setup[i].removers : keylist[d] # {} => keylist'[d] # {}
    PROVE  Routed(i)'
BY SetupFacts DEF Basics, Routed, Names, Med!QueueNames

LEMMA HandleSteps ==
    ASSUME NEW i \in Routers, Basics(i), NEW c \in Conns,
           \/ Med(i)!HandleMediateRequest(c) \/ Med(i)!HandleKeylistAdd(c)
           \/ Med(i)!HandleKeylistRemove(c) \/ Med(i)!HandleStatusRequest(c)
    PROVE  Basics(i)' /\ QuietLines(i) /\ UNCHANGED <<forward, discarded>>
<1> DEFINE d == conn[c].did
           Reply(kind, n) == Med(i)!Reply(kind, <<>>, n)
<1>1. \A kind \in {"grant", "keylist", "status"}, n \in Nat :
          Reply(kind, n) \in Med(i)!Item /\ Reply(kind, n).msgs = <<>>
  BY DEF Med!Reply, Med!Item
<1>2. ASSUME NEW kind, Med(i)!Asked(c, kind), NEW item \in Med(i)!Item, item.msgs = <<>>,
             conn' = Med(i)!SendTo(Med(i)!Handled(c), d, item),
             UNCHANGED <<sessions, queue, seen, forward, expired, received, discarded, restarts>>,
             keylist' \in [Agents(i) -> SUBSET Agents(i)],
             reverse' \in [Agents(i) -> Agents(i) \cup {NoOne}],
             \A e \in Agents(i) : /\ keylist'[e] \subseteq {e} /\ reverse'[e] \in {e, NoOne}
                                  /\ reverse'[e] = e => e \in keylist'[e],
             \A e \in Agents(i) \ Setup[i].removers : keylist[e] # {} => keylist'[e] # {}
      PROVE  Basics(i)' /\ QuietLines(i) /\ UNCHANGED <<forward, discarded>>
  <2>1. /\ conn' \in [Conns -> Med(i)!Connection] /\ Connected(i)' /\ QuietLines(i)
        /\ \A b \in Conns : conn'[b].did = conn[b].did
    BY <1>2, AnsweredQuietly
  <2>2. TypeOK(i)'
    BY <1>2, <2>1 DEF Basics, TypeOK, Med!TypeOK, Agents, Names
  <2>3. Keyed(i)'
    <3> SUFFICES ASSUME NEW e \in Agents(i), sessions'[e] # NoOne
                 PROVE  conn'[sessions'[e]].did = e
      BY <1>2 DEF Keyed
    <3>1. sessions'[e] = sessions[e] /\ sessions[e] \in Conns /\ conn[sessions[e]].did = e
      BY <1>2, Types DEF Basics, Keyed
    <3> QED BY <2>1, <3>1
  <2>4. Routed(i)'
    BY <1>2, RoutedKept
  <2> QED BY <1>2, <2>1, <2>2, <2>3, <2>4 DEF Basics
<1> HIDE DEF Reply
<1>3. /\ keylist \in [Agents(i) -> SUBSET Agents(i)]
      /\ reverse \in [Agents(i) -> Agents(i) \cup {NoOne}]
      /\ \A e \in Agents(i) : /\ keylist[e] \subseteq {e} /\ reverse[e] \in {e, NoOne}
                              /\ reverse[e] = e => e \in keylist[e]
  BY Types DEF Basics, Keyed
<1>4. CASE Med(i)!HandleMediateRequest(c)
  <2>1. /\ Med(i)!Asked(c, "mediate") /\ UNCHANGED <<keylist, reverse>>
        /\ conn' = Med(i)!SendTo(Med(i)!Handled(c), d, Reply("grant", 0))
        /\ UNCHANGED <<sessions, queue, seen, forward, expired, received, discarded, restarts>>
    BY <1>4 DEF Med!HandleMediateRequest, Reply
  <2> QED BY <1>1, <1>2, <1>3, <2>1
<1>5. CASE Med(i)!HandleStatusRequest(c)
  <2> DEFINE count == Med(i)!MessageCount(d)
  <2>1. /\ Med(i)!Asked(c, "status") /\ UNCHANGED <<keylist, reverse>>
        /\ conn' = Med(i)!SendTo(Med(i)!Handled(c), d, Reply("status", count))
        /\ UNCHANGED <<sessions, queue, seen, forward, expired, received, discarded, restarts>>
    BY <1>5 DEF Med!HandleStatusRequest, Reply
  <2>2. count \in Nat
    <3>1. d \in Agents(i)
      BY <2>1, AskedIs
    <3>2. PICK k \in Names(i) : Med(i)!ListKeys(d) \subseteq {k}
      <4>1. keylist[d] \subseteq {d}
        BY <1>3, <3>1
      <4>2. Med(i)!ListKeys(d) \subseteq {IF Setup[i].persistent THEN Med(i)!MethodName ELSE Med(i)!Key(d)}
        BY <4>1 DEF Med!ListKeys
      <4>3. Med(i)!MethodName \in Names(i) /\ Med(i)!Key(d) \in Names(i)
        BY <3>1 DEF Names, Med!QueueNames, Agents
      <4> QED BY <4>2, <4>3
    <3> DEFINE S == UNION {{e} \X DOMAIN queue[e] : e \in Med(i)!ListKeys(d)}
    <3>3. IsFiniteSet({k} \X DOMAIN queue[k])
      <4>1. queue[k] \in Seq(Requests)
        BY Types DEF Basics
      <4>2. DOMAIN queue[k] = 1 .. Len(queue[k]) /\ Len(queue[k]) \in Nat
        BY <4>1, SeqElements
      <4>3. IsFiniteSet(DOMAIN queue[k])
        BY <4>2, FS_Interval
      <4>4. IsFiniteSet({k})
        BY FS_Singleton
      <4> QED BY <4>3, <4>4, FS_Product
    <3>4. S \subseteq {k} \X DOMAIN queue[k]
      BY <3>2
    <3>5. IsFiniteSet(S)
      BY <3>3, <3>4, FS_Subset
    <3> QED BY <3>5, FS_CardinalityType, Zenon DEF Med!MessageCount, Med!Cardinality, Cardinality
  <2> HIDE DEF count
  <2> QED BY <1>1, <1>2, <1>3, <2>1, <2>2
<1>6. CASE Med(i)!HandleKeylistAdd(c)
  <2>1. /\ Med(i)!Asked(c, "keylist")
        /\ keylist' = [keylist EXCEPT ![d] = keylist[d] \cup {d}]
        /\ reverse' = [reverse EXCEPT ![d] = d]
        /\ conn' = Med(i)!SendTo(Med(i)!Handled(c), d, Reply("keylist", 0))
        /\ UNCHANGED <<sessions, queue, seen, forward, expired, received, discarded, restarts>>
    BY <1>6 DEF Med!HandleKeylistAdd, Med!AddKey, Reply
  <2>2. d \in Agents(i)
    BY <2>1, AskedIs
  <2> HIDE DEF d
  <2>3. /\ keylist' \in [Agents(i) -> SUBSET Agents(i)]
        /\ reverse' \in [Agents(i) -> Agents(i) \cup {NoOne}]
        /\ \A e \in Agents(i) : /\ keylist'[e] \subseteq {e} /\ reverse'[e] \in {e, NoOne}
                                /\ reverse'[e] = e => e \in keylist'[e]
        /\ \A e \in Agents(i) \ Setup[i].removers : keylist[e] # {} => keylist'[e] # {}
    BY <1>3, <2>1, <2>2
  <2> QED BY <1>1, <1>2, <2>1, <2>3
<1>7. CASE Med(i)!HandleKeylistRemove(c)
  <2>1. /\ Med(i)!Asked(c, "remove")
        /\ keylist' = [keylist EXCEPT ![d] = keylist[d] \ {d}]
        /\ reverse' = [reverse EXCEPT ![d] = NoOne]
        /\ conn' = Med(i)!SendTo(Med(i)!Handled(c), d, Reply("keylist", 0))
        /\ UNCHANGED <<sessions, queue, seen, forward, expired, received, discarded, restarts>>
    BY <1>7 DEF Med!HandleKeylistRemove, Med!RemoveKey, Reply
  <2>2. d \in Agents(i) /\ d \in Setup[i].removers
    <3>1. d \in Agents(i) /\ conn[c].inbox # <<>> /\ Head(conn[c].inbox).kind = "remove"
      BY <2>1, AskedIs
    <3>2. conn[c].inbox \in Seq(Med(i)!Request)
      BY ConnTypes DEF Basics
    <3>3. 1 \in DOMAIN conn[c].inbox /\ conn[c].inbox[1].kind = "remove"
      BY <3>1, <3>2
    <3> QED BY <3>1, <3>3, ConnectionIs DEF ConnectionOK
  <2> HIDE DEF d
  <2>3. /\ keylist' \in [Agents(i) -> SUBSET Agents(i)]
        /\ reverse' \in [Agents(i) -> Agents(i) \cup {NoOne}]
        /\ \A e \in Agents(i) : /\ keylist'[e] \subseteq {e} /\ reverse'[e] \in {e, NoOne}
                                /\ reverse'[e] = e => e \in keylist'[e]
        /\ \A e \in Agents(i) \ Setup[i].removers : keylist[e] # {} => keylist'[e] # {}
    <3>1. NoOne \notin Agents(i)
      BY SetupFacts
    <3> QED BY <1>3, <2>1, <2>2, <3>1
  <2> QED BY <1>1, <1>2, <2>1, <2>3
<1> QED
  BY <1>4, <1>5, <1>6, <1>7


-----------------------------------------------------------------------------
(* The steps that move messages.                                             *)

\* The oldest message of a connection is read: processed, or dropped.
Reads(i, c) ==
    LET item == Head(Out(c))
    IN  /\ queue' = queue /\ forward' = forward
        /\ Out(c) # <<>> /\ Out(c)' = Tail(Out(c))
        /\ \A b \in Conns \ {c} : Out(b)' = Out(b)
        /\ \A b \in Conns : Pick(b)' = Pick(b) /\ Who(b)' = Who(b)
        /\ Who(c) \in Agents(i) /\ item \in Med(i)!Item
        /\ \/ received' = received /\ discarded' = discarded \cup Med(i)!Range(item.msgs)
           \/ /\ received' = [received EXCEPT ![Who(c)] = received[Who(c)] \o item.msgs]
              /\ discarded' = discarded

LEMMA ReadStep ==
    ASSUME NEW i \in Routers, Basics(i), NEW c \in Conns, Med(i)!AgentReads(c)
    PROVE  Basics(i)' /\ Reads(i, c)
<1> DEFINE x == conn[c]
           item == Head(x.out)
           Phases == {"grant", "keylist", "status", "batch", "loop", "gone"}
           Goes(phase, asks) == Med(i)!Goes(c, phase, asks)
           y(phase, asks) == [x EXCEPT !.out = Tail(x.out), !.phase = phase, !.inbox = x.inbox \o asks]
           NoRemove(asks) == asks = <<>> \/ \E kind \in {"keylist", "status", "batch"}, n \in Nat :
                                               asks = <<Med(i)!Ask(kind, n)>>
<1>1. x.up /\ x.out # <<>>
      /\ UNCHANGED <<sessions, keylist, reverse, queue, seen, forward, expired, restarts>>
  BY DEF Med!AgentReads
<1>2. x \in Med(i)!Connection /\ ConnectionOK(i, x) /\ x.out \in Seq(Med(i)!Item)
      /\ x.inbox \in Seq(Med(i)!Request)
  BY ConnectionIs, ConnTypes DEF Basics
<1>3. item \in Med(i)!Item /\ item.msgs \in Seq(Requests) /\ item.n \in Nat
      /\ Tail(x.out) \in Seq(Med(i)!Item)
  <2>1. item \in Med(i)!Item /\ Tail(x.out) \in Seq(Med(i)!Item)
    BY <1>1, <1>2
  <2> QED BY <2>1 DEF Med!Item
<1>4. x.phase # "unused" /\ x.did \in Agents(i)
  BY <1>1, <1>2 DEF ConnectionOK
<1>5. ASSUME NEW asks, NoRemove(asks)
      PROVE  /\ x.inbox \o asks \in Seq(Med(i)!Request)
             /\ \A n \in DOMAIN (x.inbox \o asks) :
                   (x.inbox \o asks)[n].kind = "remove" => x.did \in Setup[i].removers
  <2>1. asks \in Seq(Med(i)!Request) /\ \A n \in 1 .. Len(asks) : asks[n].kind # "remove"
    <3>1. CASE asks = <<>>
      BY <3>1
    <3>2. CASE asks # <<>>
      <4>1. PICK kind \in {"keylist", "status", "batch"}, n \in Nat : asks = <<Med(i)!Ask(kind, n)>>
        BY <1>5, <3>2
      <4>2. Med(i)!Ask(kind, n) \in Med(i)!Request /\ Med(i)!Ask(kind, n).kind = kind
        BY DEF Med!Ask, Med!Request
      <4> DEFINE a == Med(i)!Ask(kind, n)
      <4> HIDE DEF a
      <4>3. asks = <<a>> /\ a \in Med(i)!Request /\ a.kind # "remove"
        BY <4>1, <4>2 DEF a
      <4> QED BY <4>3
    <3> QED BY <3>1, <3>2
  <2> DEFINE b == x.inbox
             t == b \o asks
             l == Len(b)
             k == Len(asks)
  <2>2. /\ t \in Seq(Med(i)!Request) /\ Len(t) = l + k /\ l \in Nat /\ k \in Nat
        /\ DOMAIN t = 1 .. l + k
        /\ \A n \in 1 .. l : t[n] = b[n] /\ (b[n].kind = "remove" => x.did \in Setup[i].removers)
        /\ \A n \in 1 .. k : t[l + n] = asks[n]
    <3>1. b \in Seq(Med(i)!Request) /\ DOMAIN b = 1 .. Len(b)
      BY <1>2, SeqElements
    <3>2. /\ t \in Seq(Med(i)!Request) /\ Len(t) = Len(b) + Len(asks)
          /\ \A n \in 1 .. Len(b) : t[n] = b[n]
          /\ \A n \in 1 .. Len(asks) : t[Len(b) + n] = asks[n]
      <4> HIDE DEF b
      <4> QED BY <2>1, <3>1, Concatenation
    <3>3. \A n \in 1 .. Len(b) : b[n].kind = "remove" => x.did \in Setup[i].removers
      BY <1>2, <3>1 DEF ConnectionOK
    <3>4. DOMAIN t = 1 .. Len(t) /\ Len(b) \in Nat /\ Len(asks) \in Nat
      BY <2>1, <3>1, <3>2, SeqElements
    <3> HIDE DEF b, t
    <3> QED BY <3>2, <3>3, <3>4
  <2> HIDE DEF b, t, l, k
  <2>3. ASSUME NEW n \in DOMAIN t, t[n].kind = "remove"
        PROVE  x.did \in Setup[i].removers
    <3>1. n \in 1 .. l \/ (n - l \in 1 .. k /\ l + (n - l) = n)
      BY <2>2
    <3>2. CASE n \in 1 .. l
      BY <2>2, <2>3, <3>2
    <3>3. CASE n - l \in 1 .. k /\ l + (n - l) = n
      <4>1. t[n] = asks[n - l]
        <5> DEFINE j == n - l
        <5>1. j \in 1 .. k /\ l + j = n
          BY <3>3
        <5> HIDE DEF j
        <5>2. t[l + j] = asks[j]
          BY <2>2, <5>1, Zenon
        <5> QED BY <5>1, <5>2 DEF j
      <4>2. asks[n - l].kind # "remove"
        BY <2>1, <3>3 DEF k
      <4> QED BY <2>3, <4>1, <4>2
    <3> QED BY <3>1, <3>2, <3>3
  <2> QED BY <2>2, <2>3 DEF t, b
<1>6. ASSUME NEW phase \in Phases, NEW asks, NoRemove(asks), conn' = Goes(phase, asks),
             \/ Med(i)!Ignored(item) \/ Med(i)!Processed(c, item)
      PROVE  Basics(i)' /\ Reads(i, c)
  <2> DEFINE z == y(phase, asks)
  <2>1. conn' = [conn EXCEPT ![c] = z]
    BY <1>6 DEF Med!Goes
  <2>2. x.inbox \o asks \in Seq(Med(i)!Request)
        /\ \A n \in DOMAIN (x.inbox \o asks) :
                   (x.inbox \o asks)[n].kind = "remove" => x.did \in Setup[i].removers
    BY <1>5, <1>6
  <2>3. /\ z \in Med(i)!Connection /\ z.did = x.did /\ z.out = Tail(x.out) /\ z.picked = x.picked
        /\ z.picking = x.picking /\ z.phase = phase /\ z.inbox = x.inbox \o asks
    <3> DEFINE u == x.inbox \o asks
               v == Tail(x.out)
    <3>1. u \in Seq(Med(i)!Request) /\ phase \in Phases /\ v \in Seq(Med(i)!Item)
      BY <1>3, <2>2
    <3>2. z = [x EXCEPT !.out = v, !.phase = phase, !.inbox = u]
      OBVIOUS
    <3> HIDE DEF u, v, x, z
    <3>3. /\ z \in Med(i)!Connection /\ z.did = x.did /\ z.out = v /\ z.picked = x.picked
          /\ z.picking = x.picking /\ z.phase = phase /\ z.inbox = u
      BY <1>2, <3>1, <3>2 DEF Med!Connection
    <3> QED BY <3>3 DEF u, v, x
  <2>4. ConnectionOK(i, z)
    BY <1>2, <1>4, <2>2, <2>3 DEF ConnectionOK
  <2> HIDE DEF z
  <2>5. received' \in [Agents(i) -> Seq(Requests)] /\ discarded' \subseteq Requests
        /\ queue' \in [Names(i) -> Seq(Requests)] /\ sessions' = sessions
        /\ \/ received' = received /\ discarded' = discarded \cup Med(i)!Range(item.msgs)
           \/ /\ received' = [received EXCEPT ![x.did] = received[x.did] \o item.msgs]
              /\ discarded' = discarded
    <3>1. queue \in [Names(i) -> Seq(Requests)] /\ received \in [Agents(i) -> Seq(Requests)]
          /\ discarded \subseteq Requests
      BY Types DEF Basics
    <3>2. CASE Med(i)!Ignored(item)
      <4>1. Med(i)!Range(item.msgs) \subseteq Requests
        BY <1>3 DEF Med!Range
      <4> QED BY <1>1, <3>1, <3>2, <4>1 DEF Med!Ignored
    <3>3. CASE Med(i)!Processed(c, item)
      <4> DEFINE v == received[x.did] \o item.msgs
      <4>1. received' = [received EXCEPT ![x.did] = v] /\ discarded' = discarded
        BY <3>3 DEF Med!Processed
      <4>2. v \in Seq(Requests)
        BY <1>3, <1>4, <3>1, Concatenation
      <4>3. received' \in [Agents(i) -> Seq(Requests)]
        <5> HIDE DEF v
        <5> QED BY <1>4, <3>1, <4>1, <4>2
      <4> QED BY <1>1, <3>1, <4>1, <4>3
    <3> QED BY <1>6, <3>2, <3>3
  <2>6. Basics(i)' /\ conn'[c] = z /\ \A b \in Conns \ {c} : conn'[b] = conn[b]
    BY <1>1, <2>1, <2>3, <2>4, <2>5, OneConnection
  <2>7. /\ conn'[c].out = Tail(x.out) /\ conn'[c].picked = x.picked /\ conn'[c].did = x.did
    BY <2>3, <2>6
  <2>8. \A b \in Conns : Pick(b)' = Pick(b) /\ Who(b)' = Who(b)
    BY <2>6, <2>7 DEF Pick, Who
  <2> QED BY <1>1, <1>3, <1>4, <2>5, <2>6, <2>7, <2>8, Zenon DEF Reads, Out, Who
<1>7. \E phase \in Phases : \E asks :
          NoRemove(asks) /\ conn' = Goes(phase, asks)
            /\ (Med(i)!Ignored(item) \/ Med(i)!Processed(c, item))
  <2>1. \A kind \in {"keylist", "status", "batch"}, n \in Nat : NoRemove(<<Med(i)!Ask(kind, n)>>)
    OBVIOUS
  <2>2. NoRemove(<<>>)
    OBVIOUS
  <2> HIDE DEF NoRemove
  <2>3. Med(i)!Oldest(c) = item
    BY DEF Med!Oldest
  <2> HIDE DEF Goes, item
  <2> DEFINE Kinds == {"keylist", "status", "batch"}
             Reading == Med(i)!Ignored(item) \/ Med(i)!Processed(c, item)
             Read(phase, asks) == conn' = Goes(phase, asks) /\ Reading
  <2>4. ASSUME NEW phase \in Phases, Read(phase, <<>>)
        PROVE  \E p \in Phases : \E asks : NoRemove(asks) /\ conn' = Goes(p, asks) /\ Reading
    BY <2>2, <2>4, Zenon
  <2>5. ASSUME NEW phase \in Phases, NEW kind \in Kinds, NEW n \in Nat,
               Read(phase, <<Med(i)!Ask(kind, n)>>)
        PROVE  \E p \in Phases : \E asks : NoRemove(asks) /\ conn' = Goes(p, asks) /\ Reading
    BY <2>1, <2>5, Zenon
  <2>6. CASE Med(i)!ReadGrant(c)
    <3>1. Read("keylist", <<Med(i)!Ask("keylist", 0)>>)
      BY <2>3, <2>6, Zenon DEF Med!ReadGrant, Goes
    <3> QED BY <2>5, <3>1
  <2>7. CASE Med(i)!ReadKeylistResponse(c)
    <3>1. Read("status", <<Med(i)!Ask("status", 0)>>)
      BY <2>3, <2>7, Zenon DEF Med!ReadKeylistResponse, Goes
    <3> QED BY <2>5, <3>1
  <2>8. CASE Med(i)!ReadStatus(c)
    <3>1. Read("batch", <<Med(i)!Ask("batch", item.n)>>) \/ Read("loop", <<>>)
      BY <2>3, <2>8, Zenon DEF Med!ReadStatus, Goes
    <3>2. CASE Read("batch", <<Med(i)!Ask("batch", item.n)>>)
      <4>1. item.n \in Nat
        BY <1>3
      <4> QED BY <2>5, <3>2, <4>1
    <3> QED BY <2>4, <3>1, <3>2
  <2>9. CASE Med(i)!ReadBatch(c)
    <3>1. Read("loop", <<>>)
      BY <2>3, <2>9, Zenon DEF Med!ReadBatch, Goes
    <3> QED BY <2>4, <3>1
  <2>10. CASE Med(i)!ReadInLoop(c)
    <3>1. Read("loop", <<>>)
      BY <2>3, <2>10, Zenon DEF Med!ReadInLoop, Goes
    <3> QED BY <2>4, <3>1
  <2> QED BY <2>6, <2>7, <2>8, <2>9, <2>10, Zenon DEF Med!AgentReads
<1> QED
  BY <1>6, <1>7


\* A message is sent to the session of an agent, or nowhere.
Delivers(d, outs, item) ==
    \/ \E s \in Conns : /\ Who(s) = d /\ Out(s)' = Append(outs[s], item)
                        /\ \A b \in Conns \ {s} : Out(b)' = outs[b]
    \/ \A b \in Conns : Out(b)' = outs[b]

LEMMA Delivered ==
    ASSUME NEW i \in Routers, Basics(i), NEW cs \in [Conns -> Med(i)!Connection],
           \A b \in Conns : ConnectionOK(i, cs[b]) /\ cs[b].did = Who(b) /\ cs[b].out = Out(b),
           NEW d \in Agents(i), NEW item \in Med(i)!Item, conn' = Med(i)!SendTo(cs, d, item)
    PROVE  /\ conn' \in [Conns -> Med(i)!Connection] /\ Connected(i)'
           /\ \A b \in Conns : Who(b)' = Who(b) /\ Pick(b)' = cs[b].picked
           /\ Delivers(d, [b \in Conns |-> Out(b)], item)
           /\ Med(i)!CanSendTo(d) => \E s \in Conns : Out(s)' = Append(Out(s), item)
           /\ ~Med(i)!CanSendTo(d) => \A b \in Conns : Out(b)' = Out(b)
<1> DEFINE s == sessions[d]
           outs == [b \in Conns |-> Out(b)]
<1>1. /\ conn' \in [Conns -> Med(i)!Connection]
      /\ Med(i)!CanSendTo(d) => s \in Conns
      /\ \A b \in Conns :
            conn'[b] = IF Med(i)!CanSendTo(d) /\ b = s THEN WithItem(cs[b], item) ELSE cs[b]
  <2> DEFINE new == Med(i)!SendTo(cs, d, item)
  <2>1. TypeOK(i)
    BY DEF Basics
  <2>2. /\ new \in [Conns -> Med(i)!Connection]
        /\ Med(i)!CanSendTo(d) => s \in Conns
        /\ \A b \in Conns :
              new[b] = IF Med(i)!CanSendTo(d) /\ b = s THEN WithItem(cs[b], item) ELSE cs[b]
    BY <2>1, SendToIs
  <2> HIDE DEF new, s
  <2>3. conn' = new
    BY DEF new
  <2> QED BY <2>2, <2>3
<1>2. Med(i)!CanSendTo(d) => Who(s) = d
  BY SetupFacts DEF Med!CanSendTo, Med!IsOnline, Basics, Keyed, Who
<1> HIDE DEF s
<1>3. ASSUME NEW b \in Conns
      PROVE  /\ Who(b)' = Who(b) /\ Pick(b)' = cs[b].picked /\ ConnectionOK(i, conn'[b])
             /\ Out(b)' = IF Med(i)!CanSendTo(d) /\ b = s THEN Append(Out(b), item) ELSE Out(b)
  <2> DEFINE x == cs[b]
  <2>1. x \in Med(i)!Connection /\ ConnectionOK(i, x) /\ x.did = Who(b) /\ x.out = Out(b)
    OBVIOUS
  <2>2. CASE Med(i)!CanSendTo(d) /\ b = s
    <3>1. conn'[b] = WithItem(x, item)
      BY <1>1, <2>2
    <3> HIDE DEF x
    <3> DEFINE y == WithItem(x, item)
    <3>2. /\ y.did = x.did /\ y.picked = x.picked /\ y.out = Append(Out(b), item)
          /\ y.phase = x.phase /\ y.picking = x.picking /\ y.inbox = x.inbox
          /\ y.up = x.up /\ y.open = x.open
      BY <2>1 DEF WithItem, Med!Connection
    <3> HIDE DEF y
    <3>3. x.phase # "unused"
      BY <1>2, <2>1, <2>2, SetupFacts DEF ConnectionOK
    <3>4. ConnectionOK(i, y)
      BY <2>1, <3>2, <3>3 DEF ConnectionOK
    <3> QED BY <2>1, <2>2, <3>1, <3>2, <3>4 DEF Who, Pick, Out, y, x
  <2>3. CASE ~(Med(i)!CanSendTo(d) /\ b = s)
    <3>1. conn'[b] = x
      BY <1>1, <2>3
    <3> QED BY <2>1, <2>3, <3>1 DEF Who, Pick, Out
  <2> QED BY <2>2, <2>3
<1>4. Connected(i)'
  BY <1>3, ConnectedIs
<1>5. Delivers(d, outs, item)
  <2>1. \A b \in Conns : outs[b] = Out(b)
    OBVIOUS
  <2> HIDE DEF outs
  <2> QED BY <1>1, <1>2, <1>3, <2>1 DEF Delivers
<1> QED
  BY <1>1, <1>3, <1>4, <1>5

LEMMA BasicsKept ==
    ASSUME NEW i \in Routers, Basics(i), conn' \in [Conns -> Med(i)!Connection], Connected(i)',
           \A b \in Conns : Who(b)' = Who(b), UNCHANGED <<sessions, keylist, reverse>>,
           queue' \in [Names(i) -> Seq(Requests)], received' \in [Agents(i) -> Seq(Requests)],
           forward' \in [Requests -> Med(i)!Forward], Routed(i)',
           discarded' \subseteq Requests, expired' \subseteq Requests,
           seen' \subseteq Med(i)!Range(Setup[i].idOf), restarts' \in Nat
    PROVE  Basics(i)'
<1>1. TypeOK(i)'
  BY DEF Basics, TypeOK, Med!TypeOK, Agents, Names, Med!Range
<1>2. Keyed(i)'
  <2> SUFFICES ASSUME NEW e \in Agents(i), sessions'[e] # NoOne
               PROVE  conn'[sessions'[e]].did = e
    BY DEF Basics, Keyed
  <2>1. sessions'[e] = sessions[e] /\ sessions[e] \in Conns /\ conn[sessions[e]].did = e
    BY Types DEF Basics, Keyed
  <2> QED BY <2>1 DEF Who
<1> QED
  BY <1>1, <1>2 DEF Basics

\* The agent's batch leaves the mediator.
Sends(i, c) ==
    /\ queue' = queue /\ received' = received /\ forward' = forward
    /\ Pick(c)' = <<>> /\ \A b \in Conns \ {c} : Pick(b)' = Pick(b)
    /\ \A b \in Conns : Who(b)' = Who(b)
    /\ \E item \in Med(i)!Item :
         /\ item.msgs = Pick(c)
         /\ \/ discarded' = discarded /\ Delivers(Who(c), [b \in Conns |-> Out(b)], item)
            \/ /\ discarded' = discarded \cup Med(i)!Range(Pick(c))
               /\ \A b \in Conns : Out(b)' = Out(b)
         /\ discarded' = discarded => \/ \E s \in Conns : Out(s)' = Append(Out(s), item)
                                      \/ Med(i)!Range(Pick(c)) \subseteq discarded

LEMMA SendBatchStep ==
    ASSUME NEW i \in Routers, Basics(i), NEW c \in Conns, Med(i)!SendBatch(c)
    PROVE  Basics(i)' /\ Sends(i, c)
<1> DEFINE x == conn[c]
           d == x.did
           y == [x EXCEPT !.picking = FALSE, !.picked = <<>>]
           rest == [conn EXCEPT ![c] = y]
           item == Med(i)!Reply("batch", x.picked, 0)
<1>1. /\ x.picking /\ conn' = Med(i)!SendTo(rest, d, item)
      /\ discarded' = IF Med(i)!CanSendTo(d) THEN discarded
                      ELSE discarded \cup Med(i)!Range(x.picked)
      /\ UNCHANGED <<sessions, keylist, reverse, queue, seen, forward, expired, received, restarts>>
  BY DEF Med!SendBatch
<1>2. x \in Med(i)!Connection /\ ConnectionOK(i, x) /\ x.picked \in Seq(Requests)
  BY ConnectionIs, ConnTypes DEF Basics
<1>3. d \in Agents(i) /\ x.phase # "unused"
  BY <1>1, <1>2 DEF ConnectionOK
<1>4. item \in Med(i)!Item /\ item.msgs = x.picked
  BY <1>2 DEF Med!Reply, Med!Item
<1>5. /\ y \in Med(i)!Connection /\ y.did = d /\ y.out = x.out /\ y.picked = <<>> /\ ~y.picking
      /\ y.inbox = x.inbox /\ y.phase = x.phase
  <2>1. <<>> \in Seq(Requests)
    OBVIOUS
  <2> QED BY <1>2, <2>1 DEF Med!Connection
<1>6. ConnectionOK(i, y)
  BY <1>2, <1>3, <1>5 DEF ConnectionOK
<1>7. rest \in [Conns -> Med(i)!Connection] /\ \A b \in Conns : rest[b] = IF b = c THEN y ELSE conn[b]
  <2> HIDE DEF y
  <2> QED BY <1>5, Types DEF Basics
<1>8. \A b \in Conns : /\ ConnectionOK(i, rest[b]) /\ rest[b].did = Who(b) /\ rest[b].out = Out(b)
                       /\ rest[b].picked = IF b = c THEN <<>> ELSE Pick(b)
  BY <1>5, <1>6, <1>7, ConnectionIs DEF Who, Out, Pick
<1> HIDE DEF item, rest, y, d
<1>9. /\ conn' \in [Conns -> Med(i)!Connection] /\ Connected(i)'
      /\ \A b \in Conns : Who(b)' = Who(b) /\ Pick(b)' = rest[b].picked
      /\ Delivers(d, [b \in Conns |-> Out(b)], item)
      /\ Med(i)!CanSendTo(d) => \E s \in Conns : Out(s)' = Append(Out(s), item)
      /\ ~Med(i)!CanSendTo(d) => \A b \in Conns : Out(b)' = Out(b)
  BY <1>1, <1>3, <1>4, <1>7, <1>8, Delivered
<1>10. Med(i)!Range(x.picked) \subseteq Requests
  BY <1>2 DEF Med!Range
<1>11. Basics(i)'
  <2>1. Routed(i)'
    BY <1>1, RoutedKept
  <2> QED BY <1>1, <1>9, <1>10, <2>1, BasicsKept DEF Basics, TypeOK, Med!TypeOK, Agents, Names
<1>12. Sends(i, c)
  <2>1. /\ Pick(c)' = <<>> /\ \A b \in Conns \ {c} : Pick(b)' = Pick(b)
        /\ \A b \in Conns : Who(b)' = Who(b)
    BY <1>8, <1>9
  <2>2. item \in Med(i)!Item /\ item.msgs = Pick(c) /\ d = Who(c)
    BY <1>4 DEF Pick, Who, d
  <2>3. \/ discarded' = discarded /\ Delivers(Who(c), [b \in Conns |-> Out(b)], item)
        \/ /\ discarded' = discarded \cup Med(i)!Range(Pick(c))
           /\ \A b \in Conns : Out(b)' = Out(b)
    BY <1>1, <1>9, <2>2 DEF Pick
  <2>4. discarded' = discarded => \/ \E s \in Conns : Out(s)' = Append(Out(s), item)
                                  \/ Med(i)!Range(Pick(c)) \subseteq discarded
    BY <1>1, <1>9 DEF Pick
  <2> QED BY <1>1, <2>1, <2>2, <2>3, <2>4 DEF Sends
<1> QED
  BY <1>11, <1>12


-----------------------------------------------------------------------------
(* The task of a forward request.                                            *)

RequestOK(i, r, y) ==
    /\ y.owner \in {Recipient(i, r), NoOne}
    /\ \E k \in Names(i) : y.left \subseteq {k}
    /\ ~Setup[i].persistent =>
          y.left \subseteq {Med(i)!Key(Recipient(i, r)), Med(i)!Did(Recipient(i, r))}
    /\ y.pc = "push" => Recipient(i, r) \in Setup[i].websocketUsers
    /\ y.pc = "send" => y.owner # NoOne
    /\ y.pc \in {"online", "send", "keys"} /\ y.owner # NoOne
         /\ Recipient(i, r) \notin Setup[i].removers
         => keylist[Recipient(i, r)] # {}

LEMMA RequestIs ==
    ASSUME NEW i \in Routers, Basics(i), NEW r \in Requests
    PROVE  /\ forward[r] \in Med(i)!Forward /\ RequestOK(i, r, forward[r])
           /\ Recipient(i, r) \in Agents(i)
<1>1. forward[r] \in Med(i)!Forward /\ Recipient(i, r) \in Agents(i)
  BY Types, SetupFacts DEF Basics
<1> QED
  BY <1>1 DEF Basics, Routed, RequestOK

\* One request's task goes on: what it newly stores is what it stored.
Goes1(i, r, y) ==
    /\ forward' = [forward EXCEPT ![r] = y]
    /\ forward'[r] = y /\ \A s \in Requests \ {r} : forward'[s] = forward[s]

LEMMA OneRequest ==
    ASSUME NEW i \in Routers, Basics(i), NEW r \in Requests, NEW y \in Med(i)!Forward,
           forward' = [forward EXCEPT ![r] = y], RequestOK(i, r, y), keylist' = keylist
    PROVE  /\ Goes1(i, r, y) /\ forward' \in [Requests -> Med(i)!Forward] /\ Routed(i)'
<1>1. Goes1(i, r, y) /\ forward' \in [Requests -> Med(i)!Forward]
  BY Types DEF Basics, Goes1
<1>2. ASSUME NEW s \in Requests
      PROVE  RequestOK(i, s, forward'[s])
  BY <1>1, RequestIs DEF Goes1
<1>3. Routed(i)'
  <2>1. Names(i)' = Names(i) /\ \A s : Recipient(i, s)' = Recipient(i, s)
    BY DEF Names, Recipient, Med!QueueNames
  <2> QED BY <1>2, <2>1 DEF Routed, RequestOK
<1> QED
  BY <1>1, <1>3

\* No request gets unstored again, or counts as stored without being so.
Progress(i) ==
    \A s \in Requests :
        /\ Unstored(s)' => Unstored(s)
        /\ Stored(s)' /\ Recipient(i, s) \notin Setup[i].removers => Stored(s)

LEMMA OneRequestQuiet ==
    ASSUME NEW i \in Routers, Basics(i), NEW r \in Requests, NEW y \in Med(i)!Forward,
           forward' = [forward EXCEPT ![r] = y], RequestOK(i, r, y),
           UNCHANGED <<sessions, conn, keylist, reverse, queue, expired, received, discarded, restarts>>,
           seen' \subseteq Med(i)!Range(Setup[i].idOf),
           \/ y.pc \in {"new", "mark", "resolve", "online", "send", "keys", "push"}
           \/ y.pc = "store" /\ y.left # {}
           => Unstored(r),
           \/ y.pc = "ok"
           \/ y.pc \in {"push", "store"} /\ y.left = {}
           => Stored(r) \/ Recipient(i, r) \in Setup[i].removers
    PROVE  Basics(i)' /\ QuietLines(i) /\ discarded' = discarded /\ Progress(i)
<1>1. Goes1(i, r, y) /\ forward' \in [Requests -> Med(i)!Forward] /\ Routed(i)'
  BY OneRequest
<1>2. conn' \in [Conns -> Med(i)!Connection] /\ Connected(i)' /\ \A b \in Conns : Who(b)' = Who(b)
  BY Types DEF Basics, Connected, Who
<1>3. /\ queue' \in [Names(i) -> Seq(Requests)] /\ received' \in [Agents(i) -> Seq(Requests)]
      /\ discarded' \subseteq Requests /\ expired' \subseteq Requests /\ restarts' \in Nat
  BY Types DEF Basics, TypeOK, Med!TypeOK
<1>4. Basics(i)'
  BY <1>1, <1>2, <1>3, BasicsKept
<1>5. QuietLines(i)
  BY DEF QuietLines, Who, Out, Pick
<1>6. Progress(i)
  <2> SUFFICES ASSUME NEW s \in Requests
               PROVE  /\ Unstored(s)' => Unstored(s)
                      /\ Stored(s)' /\ Recipient(i, s) \notin Setup[i].removers => Stored(s)
    BY DEF Progress
  <2>1. CASE s = r
    BY <1>1, <2>1 DEF Goes1, Unstored, Stored
  <2>2. CASE s # r
    BY <1>1, <2>2 DEF Goes1, Unstored, Stored
  <2> QED BY <2>1, <2>2
<1> QED
  BY <1>4, <1>5, <1>6

LEMMA QuietRequestSteps ==
    ASSUME NEW i \in Routers, Basics(i), NEW r \in Requests,
           \/ Med(i)!CheckSeen(r) \/ Med(i)!MarkSeen(r) \/ Med(i)!Resolve(r)
           \/ Med(i)!CheckOnline(r) \/ Med(i)!StorageKeys(r) \/ Med(i)!Answer(r)
    PROVE  Basics(i)' /\ QuietLines(i) /\ discarded' = discarded /\ Progress(i)
<1> DEFINE x == forward[r]
           goto(pc) == [x EXCEPT !.pc = pc]
<1>1. x \in Med(i)!Forward /\ RequestOK(i, r, x) /\ Recipient(i, r) \in Agents(i)
  BY RequestIs
<1>2. \A pc \in {"new", "mark", "resolve", "online", "send", "keys", "push", "store",
                 "ok", "refused", "failed"} :
          /\ goto(pc) \in Med(i)!Forward /\ goto(pc).pc = pc /\ goto(pc).owner = x.owner
          /\ goto(pc).left = x.left
  BY <1>1 DEF Med!Forward
<1> HIDE DEF x
<1>3. seen \subseteq Med(i)!Range(Setup[i].idOf) /\ Setup[i].idOf[r] \in Med(i)!Range(Setup[i].idOf)
  BY SetupFacts DEF Basics, TypeOK, Med!TypeOK, Med!Range
<1>4. CASE Med(i)!CheckSeen(r)
  <2> DEFINE y == goto(IF Setup[i].idOf[r] \in seen THEN "refused" ELSE "mark")
  <2>1. /\ x.pc = "new" /\ forward' = [forward EXCEPT ![r] = y]
        /\ UNCHANGED <<sessions, conn, keylist, reverse, queue, seen, expired, received, discarded, restarts>>
    BY <1>4 DEF Med!CheckSeen, Med!At, Med!Goto, x
  <2>2. y \in Med(i)!Forward /\ y.pc \in {"refused", "mark"} /\ y.owner = x.owner /\ y.left = x.left
    BY <1>2
  <2> HIDE DEF y
  <2>3. RequestOK(i, r, y) /\ Unstored(r)
    BY <1>1, <2>1, <2>2 DEF RequestOK, Unstored, x
  <2> QED BY <1>3, <2>1, <2>2, <2>3, OneRequestQuiet
<1>5. CASE Med(i)!MarkSeen(r)
  <2> DEFINE y == goto("resolve")
  <2>1. /\ x.pc = "mark" /\ forward' = [forward EXCEPT ![r] = y]
        /\ seen' = seen \cup {Setup[i].idOf[r]}
        /\ UNCHANGED <<sessions, conn, keylist, reverse, queue, expired, received, discarded, restarts>>
    BY <1>5 DEF Med!MarkSeen, Med!At, Med!Goto, x
  <2>2. y \in Med(i)!Forward /\ y.pc = "resolve" /\ y.owner = x.owner /\ y.left = x.left
    BY <1>2
  <2> HIDE DEF y
  <2>3. RequestOK(i, r, y) /\ Unstored(r)
    BY <1>1, <2>1, <2>2 DEF RequestOK, Unstored, x
  <2>4. seen' \subseteq Med(i)!Range(Setup[i].idOf)
    BY <1>3, <2>1
  <2> QED BY <2>1, <2>2, <2>3, <2>4, OneRequestQuiet
<1>6. CASE Med(i)!Resolve(r)
  <2> DEFINE o == reverse[Recipient(i, r)]
             y == [x EXCEPT !.owner = o, !.pc = "online"]
  <2>1. /\ x.pc = "resolve" /\ forward' = [forward EXCEPT ![r] = y]
        /\ UNCHANGED <<sessions, conn, keylist, reverse, queue, seen, expired, received, discarded, restarts>>
    BY <1>6 DEF Med!Resolve, Med!At, Med!SessionOf, Recipient, x
  <2>2. o \in {Recipient(i, r), NoOne} /\ (o # NoOne => keylist[Recipient(i, r)] # {})
        /\ o \in Agents(i) \cup {NoOne}
    BY <1>1 DEF Basics, Keyed
  <2> HIDE DEF o
  <2>3. y \in Med(i)!Forward /\ y.pc = "online" /\ y.owner = o /\ y.left = x.left
    BY <1>1, <2>2 DEF Med!Forward, Agents
  <2> HIDE DEF y
  <2>4. RequestOK(i, r, y) /\ Unstored(r)
    BY <1>1, <2>1, <2>2, <2>3 DEF RequestOK, Unstored, x
  <2> QED BY <1>3, <2>1, <2>3, <2>4, OneRequestQuiet
<1>7. CASE Med(i)!CheckOnline(r)
  <2> DEFINE y == goto(IF x.owner # NoOne /\ Med(i)!IsOnline(x.owner) THEN "send" ELSE "keys")
  <2>1. /\ x.pc = "online" /\ forward' = [forward EXCEPT ![r] = y]
        /\ UNCHANGED <<sessions, conn, keylist, reverse, queue, seen, expired, received, discarded, restarts>>
    BY <1>7 DEF Med!CheckOnline, Med!At, Med!Goto, x
  <2>2. /\ y \in Med(i)!Forward /\ y.pc \in {"send", "keys"} /\ y.owner = x.owner /\ y.left = x.left
        /\ y.pc = "send" => x.owner # NoOne
    BY <1>2
  <2> HIDE DEF y
  <2>3. RequestOK(i, r, y) /\ Unstored(r)
    BY <1>1, <2>1, <2>2 DEF RequestOK, Unstored, x
  <2> QED BY <1>3, <2>1, <2>2, <2>3, OneRequestQuiet
<1>8. CASE Med(i)!StorageKeys(r)
  <2> DEFINE l == IF x.owner = NoOne THEN {Med(i)!Did(Recipient(i, r))} ELSE Med(i)!ListKeys(x.owner)
             pc == IF Recipient(i, r) \in Setup[i].websocketUsers THEN "push" ELSE "store"
             y == [x EXCEPT !.left = l, !.pc = pc]
  <2>1. /\ x.pc = "keys" /\ forward' = [forward EXCEPT ![r] = y]
        /\ UNCHANGED <<sessions, conn, keylist, reverse, queue, seen, expired, received, discarded, restarts>>
    BY <1>8 DEF Med!StorageKeys, Med!At, Recipient, x
  <2>2. /\ \E k \in Names(i) : l \subseteq {k}
        /\ ~Setup[i].persistent =>
              l \subseteq {Med(i)!Key(Recipient(i, r)), Med(i)!Did(Recipient(i, r))}
        /\ Recipient(i, r) \in Setup[i].removers \/ l # {}
    <3> DEFINE d == Recipient(i, r)
    <3>1. /\ Med(i)!Did(d) \in Names(i) /\ Med(i)!Key(d) \in Names(i)
          /\ Med(i)!MethodName \in Names(i)
      BY <1>1 DEF Names, Med!QueueNames, Agents
    <3>2. CASE x.owner = NoOne
      BY <3>1, <3>2
    <3>3. CASE x.owner # NoOne
      <4>1. x.owner = d /\ (d \in Setup[i].removers \/ keylist[d] # {}) /\ keylist[d] \subseteq {d}
        BY <1>1, <2>1, <3>3 DEF RequestOK, Basics, Keyed
      <4> HIDE DEF d
      <4>2. l = {IF Setup[i].persistent THEN Med(i)!MethodName ELSE Med(i)!Key(k) : k \in keylist[d]}
        BY <3>3, <4>1 DEF Med!ListKeys
      <4>3. /\ l \subseteq {IF Setup[i].persistent THEN Med(i)!MethodName ELSE Med(i)!Key(d)}
            /\ keylist[d] # {} => l # {}
        <5> HIDE DEF l
        <5> QED BY <4>1, <4>2
      <4> QED BY <3>1, <4>1, <4>3 DEF d
    <3> QED BY <3>2, <3>3
  <2> HIDE DEF l
  <2>3. l \subseteq Names(i) /\ pc \in {"push", "store"}
    BY <2>2
  <2>4. /\ y \in Med(i)!Forward /\ y.pc = pc /\ y.owner = x.owner /\ y.left = l
        /\ pc = "push" => Recipient(i, r) \in Setup[i].websocketUsers
    BY <1>1, <2>3 DEF Med!Forward, Names
  <2> HIDE DEF y, pc
  <2>5. RequestOK(i, r, y) /\ Unstored(r)
    BY <1>1, <2>1, <2>2, <2>3, <2>4 DEF RequestOK, Unstored, x
  <2>6. \/ y.pc = "ok"
        \/ y.pc \in {"push", "store"} /\ y.left = {}
        => Stored(r) \/ Recipient(i, r) \in Setup[i].removers
    BY <2>2, <2>3, <2>4
  <2> HIDE DEF goto
  <2>7. y \in Med(i)!Forward /\ seen' \subseteq Med(i)!Range(Setup[i].idOf)
    BY <1>3, <2>1, <2>4
  <2> QED BY <2>1, <2>5, <2>6, <2>7, OneRequestQuiet
<1>9. CASE Med(i)!Answer(r)
  <2> DEFINE y == goto("ok")
  <2>1. /\ x.pc = "store" /\ x.left = {} /\ forward' = [forward EXCEPT ![r] = y]
        /\ UNCHANGED <<sessions, conn, keylist, reverse, queue, seen, expired, received, discarded, restarts>>
    BY <1>9 DEF Med!Answer, Med!At, Med!Goto, x
  <2>2. y \in Med(i)!Forward /\ y.pc = "ok" /\ y.owner = x.owner /\ y.left = x.left
    BY <1>2
  <2> HIDE DEF y
  <2>3. RequestOK(i, r, y) /\ Stored(r)
    BY <1>1, <2>1, <2>2 DEF RequestOK, Stored, x
  <2> QED BY <1>3, <2>1, <2>2, <2>3, OneRequestQuiet
<1> QED
  BY <1>4, <1>5, <1>6, <1>7, <1>8, <1>9

\* The message of r is pushed, or it is not and the task goes on.
Pushes(i, r) ==
    /\ queue' = queue /\ received' = received /\ discarded' = discarded
    /\ \A b \in Conns : Who(b)' = Who(b) /\ Pick(b)' = Pick(b)
    /\ \A s \in Requests : Unstored(s)' => Unstored(s)
    /\ \E item \in Med(i)!Item :
         /\ item.msgs = <<r>> /\ Delivers(Recipient(i, r), [b \in Conns |-> Out(b)], item)
         /\ \A s \in Requests :
              Stored(s)' => Stored(s) \/ (s = r /\ \E b \in Conns : Out(b)' = Append(Out(b), item))
    /\ \/ \A b \in Conns : Out(b)' = Out(b)
       \/ Recipient(i, r) \in Setup[i].websocketUsers
       \/ Unstored(r) /\ ~Unstored(r)'

LEMMA PushSteps ==
    ASSUME NEW i \in Routers, Basics(i), NEW r \in Requests,
           Med(i)!PushToOwner(r) \/ Med(i)!PushToUser(r)
    PROVE  Basics(i)' /\ Pushes(i, r)
<1> DEFINE x == forward[r]
           d == Recipient(i, r)
           item == Med(i)!Reply("forward", <<r>>, 0)
           goto(pc) == [x EXCEPT !.pc = pc]
           outs == [b \in Conns |-> Out(b)]
<1>1. x \in Med(i)!Forward /\ RequestOK(i, r, x) /\ d \in Agents(i)
  BY RequestIs
<1>2. \A pc \in {"ok", "keys", "store"} :
          /\ goto(pc) \in Med(i)!Forward /\ goto(pc).pc = pc /\ goto(pc).owner = x.owner
          /\ goto(pc).left = x.left
  BY <1>1 DEF Med!Forward
<1>3. item \in Med(i)!Item /\ item.msgs = <<r>>
  BY DEF Med!Reply, Med!Item
<1> HIDE DEF x, item
<1>4. ASSUME NEW y \in Med(i)!Forward, RequestOK(i, r, y), forward' = [forward EXCEPT ![r] = y],
             conn' = Med(i)!SendTo(conn, d, item),
             UNCHANGED <<sessions, keylist, reverse, queue, seen, expired, received, discarded, restarts>>,
             y.pc \in {"keys", "store"} /\ y.left = x.left => (Unstored(r)' => Unstored(r)),
             y.pc = "ok" => Unstored(r) /\ Med(i)!CanSendTo(d),
             y.pc \in {"ok", "keys", "store"},
             y.pc = "store" => (Stored(r)' => Stored(r)),
             \/ ~Med(i)!CanSendTo(d) \/ d \in Setup[i].websocketUsers \/ y.pc = "ok",
             y.left = x.left
      PROVE  Basics(i)' /\ Pushes(i, r)
  <2>1. Goes1(i, r, y) /\ forward' \in [Requests -> Med(i)!Forward] /\ Routed(i)'
    BY <1>4, OneRequest
  <2>2. conn \in [Conns -> Med(i)!Connection]
        /\ \A b \in Conns : ConnectionOK(i, conn[b]) /\ conn[b].did = Who(b) /\ conn[b].out = Out(b)
    BY ConnectionIs, Types DEF Basics, Who, Out
  <2>3. /\ conn' \in [Conns -> Med(i)!Connection] /\ Connected(i)'
        /\ \A b \in Conns : Who(b)' = Who(b) /\ Pick(b)' = conn[b].picked
        /\ Delivers(d, outs, item)
        /\ Med(i)!CanSendTo(d) => \E s \in Conns : Out(s)' = Append(Out(s), item)
        /\ ~Med(i)!CanSendTo(d) => \A b \in Conns : Out(b)' = Out(b)
    <3> HIDE DEF d
    <3> QED BY <1>1, <1>3, <1>4, <2>2, Delivered DEF d
  <2>4. Basics(i)'
    <3>1. /\ queue' \in [Names(i) -> Seq(Requests)] /\ received' \in [Agents(i) -> Seq(Requests)]
          /\ discarded' \subseteq Requests /\ expired' \subseteq Requests
          /\ seen' \subseteq Med(i)!Range(Setup[i].idOf) /\ restarts' \in Nat
      BY <1>4, Types DEF Basics, TypeOK, Med!TypeOK, Med!Range
    <3> QED BY <1>4, <2>1, <2>3, <3>1, BasicsKept
  <2>5. /\ y.pc = "ok" => ~Unstored(r)' /\ Unstored(r)
        /\ y.pc \in {"keys", "store"} => (Unstored(r)' => Unstored(r))
        /\ Stored(r)' => Stored(r) \/ \E b \in Conns : Out(b)' = Append(Out(b), item)
    <3>1. forward'[r] = y
      BY <2>1 DEF Goes1
    <3>2. y.pc = "keys" => ~Stored(r)'
      BY <3>1 DEF Stored
    <3>3. y.pc = "ok" => ~Unstored(r)'
      BY <3>1 DEF Unstored
    <3> QED BY <1>4, <2>3, <3>2, <3>3
  <2>6. \A s \in Requests \ {r} : (Unstored(s)' <=> Unstored(s)) /\ (Stored(s)' <=> Stored(s))
    BY <2>1 DEF Goes1, Unstored, Stored
  <2>7. \A b \in Conns : Pick(b)' = Pick(b)
    BY <2>3 DEF Pick
  <2>8. \A s \in Requests : Unstored(s)' => Unstored(s)
    BY <1>4, <2>5, <2>6
  <2>9. \A s \in Requests :
            Stored(s)' => Stored(s) \/ (s = r /\ \E b \in Conns : Out(b)' = Append(Out(b), item))
    BY <2>5, <2>6
  <2>10. \/ \A b \in Conns : Out(b)' = Out(b)
         \/ Recipient(i, r) \in Setup[i].websocketUsers
         \/ Unstored(r) /\ ~Unstored(r)'
    BY <1>4, <2>3, <2>5
  <2> QED BY <1>3, <1>4, <2>3, <2>4, <2>7, <2>8, <2>9, <2>10 DEF Pushes
<1>5. CASE Med(i)!PushToOwner(r)
  <2> DEFINE y == goto(IF Med(i)!CanSendTo(d) THEN "ok" ELSE "keys")
  <2>1. x.pc = "send" /\ x.owner = d
    BY <1>1, <1>5 DEF Med!PushToOwner, Med!At, RequestOK, x
  <2>2. /\ forward' = [forward EXCEPT ![r] = y]
        /\ conn' = Med(i)!SendTo(conn, d, item)
        /\ UNCHANGED <<sessions, keylist, reverse, queue, seen, expired, received, discarded, restarts>>
    BY <1>5, <2>1 DEF Med!PushToOwner, Med!Goto, x, item
  <2>3. /\ y \in Med(i)!Forward /\ y.pc \in {"ok", "keys"} /\ y.owner = x.owner /\ y.left = x.left
        /\ y.pc = "ok" <=> Med(i)!CanSendTo(d)
    BY <1>2
  <2> HIDE DEF y, d, goto
  <2>4. RequestOK(i, r, y) /\ Unstored(r)
    BY <1>1, <2>1, <2>3 DEF RequestOK, Unstored, x, d
  <2> QED BY <1>4, <2>2, <2>3, <2>4
<1>6. CASE Med(i)!PushToUser(r)
  <2> DEFINE y == goto("store")
  <2>1. /\ x.pc = "push" /\ forward' = [forward EXCEPT ![r] = y]
        /\ conn' = Med(i)!SendTo(conn, d, item)
        /\ UNCHANGED <<sessions, keylist, reverse, queue, seen, expired, received, discarded, restarts>>
    BY <1>6 DEF Med!PushToUser, Med!At, Med!Goto, Recipient, x, item
  <2>2. y \in Med(i)!Forward /\ y.pc = "store" /\ y.owner = x.owner /\ y.left = x.left
    BY <1>2
  <2> HIDE DEF y, d, goto
  <2>3. RequestOK(i, r, y) /\ Unstored(r) /\ d \in Setup[i].websocketUsers
    BY <1>1, <2>1, <2>2 DEF RequestOK, Unstored, x, d
  <2>4. Stored(r)' => Stored(r)
    <3>1. forward'[r] = y
      BY <2>1, Types DEF Basics
    <3> QED BY <2>1, <2>2, <3>1 DEF Stored, x
  <2> QED BY <1>4, <2>1, <2>2, <2>3, <2>4
<1> QED
  BY <1>5, <1>6

\* The message of r is stored in a queue, the only one it is for.
Stores(i, r) ==
    /\ received' = received /\ UNCHANGED conn
    /\ \A s \in Requests : Unstored(s)' => Unstored(s)
    /\ \A s \in Requests \ {r} : Stored(s)' => Stored(s)
    /\ Unstored(r) /\ ~Unstored(r)'
    /\ \E k \in Names(i) : \E f :
         /\ Adds(f, queue[k], queue'[k], r)
         /\ \A n \in Names(i) \ {k} : queue'[n] = queue[n]
         /\ discarded' = discarded
                \cup ((Med(i)!Range(queue[k]) \cup {r}) \ Med(i)!Range(queue'[k]))
         /\ ~Setup[i].persistent =>
              k \in {Med(i)!Key(Recipient(i, r)), Med(i)!Did(Recipient(i, r))}

LEMMA StoreStep ==
    ASSUME NEW i \in Routers, Basics(i), NEW r \in Requests, Med(i)!Store(r)
    PROVE  Basics(i)' /\ Stores(i, r)
<1> DEFINE x == forward[r]
<1>1. x \in Med(i)!Forward /\ RequestOK(i, r, x)
  BY RequestIs
<1>2. PICK k \in x.left : \E q \in Med(i)!StoreForUser(queue[k], r) :
          /\ queue' = [queue EXCEPT ![k] = q]
          /\ discarded' = discarded \cup ((Med(i)!Range(queue[k]) \cup {r}) \ Med(i)!Range(q))
          /\ forward' = [forward EXCEPT ![r].left = x.left \ {k}]
  BY DEF Med!Store
<1>3. PICK q \in Med(i)!StoreForUser(queue[k], r) :
          /\ queue' = [queue EXCEPT ![k] = q]
          /\ discarded' = discarded \cup ((Med(i)!Range(queue[k]) \cup {r}) \ Med(i)!Range(q))
          /\ forward' = [forward EXCEPT ![r].left = x.left \ {k}]
  BY <1>2
<1>4. /\ x.pc = "store" /\ x.left = {k} /\ k \in Names(i)
      /\ UNCHANGED <<sessions, conn, keylist, reverse, seen, expired, received, restarts>>
  BY <1>1 DEF Med!Store, Med!At, Med!Forward, Names, RequestOK
<1> DEFINE y == [x EXCEPT !.left = {}]
<1>5. y \in Med(i)!Forward /\ y.pc = "store" /\ y.left = {} /\ y.owner = x.owner
  BY <1>1, <1>4 DEF Med!Forward
<1>6. forward' = [forward EXCEPT ![r] = y]
  <2>1. x.left \ {k} = {}
    BY <1>4
  <2> QED BY <1>3, <2>1
<1>7. RequestOK(i, r, y)
  BY <1>1, <1>4, <1>5 DEF RequestOK
<1>8. queue[k] \in Seq(Requests) /\ queue \in [Names(i) -> Seq(Requests)]
  BY <1>4, Types DEF Basics
<1>9. q \in Seq(Requests) /\ \E f : Adds(f, queue[k], q, r)
  BY <1>8, StoreAdds
<1>10. queue' \in [Names(i) -> Seq(Requests)] /\ queue'[k] = q
       /\ \A n \in Names(i) \ {k} : queue'[n] = queue[n]
  BY <1>3, <1>4, <1>8, <1>9
<1> HIDE DEF x, y
<1>11. Goes1(i, r, y) /\ forward' \in [Requests -> Med(i)!Forward] /\ Routed(i)'
  BY <1>4, <1>5, <1>6, <1>7, OneRequest
<1>12. Basics(i)'
  <2>1. conn' \in [Conns -> Med(i)!Connection] /\ Connected(i)' /\ \A b \in Conns : Who(b)' = Who(b)
    BY <1>4, Types DEF Basics, Connected, Who
  <2>2. discarded' \subseteq Requests
    <3>1. discarded \subseteq Requests
      BY Types DEF Basics
    <3>2. Med(i)!Range(queue[k]) \subseteq Requests
      BY <1>8 DEF Med!Range
    <3> QED BY <1>3, <3>1, <3>2
  <2>3. /\ received' \in [Agents(i) -> Seq(Requests)] /\ expired' \subseteq Requests
        /\ seen' \subseteq Med(i)!Range(Setup[i].idOf) /\ restarts' \in Nat
    BY <1>4, Types DEF Basics, TypeOK, Med!TypeOK, Med!Range
  <2> QED BY <1>4, <1>10, <1>11, <2>1, <2>2, <2>3, BasicsKept
<1>13. Stores(i, r)
  <2>1. Unstored(r) /\ ~Unstored(r)'
    BY <1>4, <1>5, <1>11 DEF Goes1, Unstored, x
  <2>2. \A s \in Requests \ {r} : (Unstored(s)' <=> Unstored(s)) /\ (Stored(s)' <=> Stored(s))
    BY <1>11 DEF Goes1, Unstored, Stored
  <2>3. ~Setup[i].persistent =>
              k \in {Med(i)!Key(Recipient(i, r)), Med(i)!Did(Recipient(i, r))}
    BY <1>1, <1>4 DEF RequestOK
  <2>4. discarded' = discarded
                \cup ((Med(i)!Range(queue[k]) \cup {r}) \ Med(i)!Range(queue'[k]))
    BY <1>3, <1>10
  <2>5. \E f : Adds(f, queue[k], queue'[k], r)
    BY <1>9, <1>10
  <2> QED BY <1>4, <1>10, <2>1, <2>2, <2>3, <2>4, <2>5 DEF Stores
<1> QED
  BY <1>12, <1>13

\* The messages of a queue are picked for a connection; what is expired may go.
Dequeues(i, c) ==
    /\ forward' = forward /\ received' = received /\ Pick(c) = <<>>
    /\ \A b \in Conns : Out(b)' = Out(b) /\ Who(b)' = Who(b)
    /\ \A b \in Conns \ {c} : Pick(b)' = Pick(b)
    /\ \E k \in Names(i) : \E f, g :
         /\ Splits(f, g, queue[k], Pick(c)', queue'[k], expired)
         /\ \A n \in Names(i) \ {k} : queue'[n] = queue[n]
         /\ discarded' = discarded
                \cup ((Med(i)!Range(queue[k]) \cap expired) \ Med(i)!Range(queue'[k]))
         /\ ~Setup[i].persistent => k = Med(i)!Key(Who(c))

LEMMA DequeueStep ==
    ASSUME NEW i \in Routers, Basics(i), NEW c \in Conns, Med(i)!DequeueBatch(c)
    PROVE  /\ Basics(i)'
           /\ Dequeues(i, c) \/ (QuietLines(i) /\ UNCHANGED <<forward, discarded>>)
<1> DEFINE x == conn[c]
           d == x.did
           keys == Med(i)!ListKeys(d)
           limit == Head(x.inbox).n
           t == Tail(x.inbox)
           picks(msgs) == [x EXCEPT !.inbox = t, !.picking = TRUE, !.picked = msgs]
           taken(k) == IF keys = {} THEN <<>> ELSE Med(i)!Taken(queue[k], expired, limit)
           left(k) == Med(i)!Left(queue[k], expired, limit)
<1>1. Med(i)!Asked(c, "batch")
  BY DEF Med!DequeueBatch
<1>2. /\ ~x.picking /\ limit \in Nat /\ d \in Agents(i) /\ x.phase # "unused"
      /\ t \in Seq(Med(i)!Request) /\ x \in Med(i)!Connection /\ x.picked = <<>>
  BY <1>1, AskedIs, ConnectionIs DEF ConnectionOK
<1>3. \A msgs : [Med(i)!Handled(c) EXCEPT ![c].picking = TRUE, ![c].picked = msgs]
                  = [conn EXCEPT ![c] = picks(msgs)]
  <2>1. Med(i)!Handled(c) = [conn EXCEPT ![c] = [x EXCEPT !.inbox = t]]
    BY DEF Med!Handled
  <2>2. conn \in [Conns -> Med(i)!Connection]
    BY Types DEF Basics
  <2> QED BY <2>1, <2>2
<1>4. PICK k \in Names(i) :
          /\ IF keys = {} THEN k = Med(i)!Key(d) ELSE k \in keys
          /\ conn' = [conn EXCEPT ![c] = picks(taken(k))]
          /\ queue' = IF keys = {} THEN queue ELSE [queue EXCEPT ![k] = left(k)]
          /\ discarded' = IF keys = {} THEN discarded
                          ELSE discarded \cup ((Med(i)!Range(queue[k]) \cap expired)
                                                  \ Med(i)!Range(queue'[k]))
  <2> HIDE DEF picks
  <2> QED BY <1>3 DEF Med!DequeueBatch, Names
<1>5. UNCHANGED <<sessions, keylist, reverse, seen, forward, expired, received, restarts>>
  BY DEF Med!DequeueBatch
<1>6. queue \in [Names(i) -> Seq(Requests)] /\ queue[k] \in Seq(Requests)
      /\ received \in [Agents(i) -> Seq(Requests)] /\ discarded \subseteq Requests
  BY Types DEF Basics
<1>7. /\ taken(k) \in Seq(Requests) /\ left(k) \in Seq(Requests)
      /\ keys # {} => \E f, g : Splits(f, g, queue[k], taken(k), left(k), expired)
  <2>1. <<>> \in Seq(Requests)
    OBVIOUS
  <2> QED BY <1>2, <1>6, <2>1, TakenOrLeft, Zenon
<1> HIDE DEF taken, left, keys
<1> DEFINE y == picks(taken(k))
<1>8. /\ y \in Med(i)!Connection /\ y.did = d /\ y.inbox = t /\ y.phase = x.phase /\ y.picking
      /\ y.picked = taken(k) /\ y.out = x.out
  BY <1>2, <1>7 DEF Med!Connection
<1>9. ConnectionOK(i, y)
  <2> HIDE DEF y
  <2> QED BY <1>1, <1>8, InboxTail
<1> HIDE DEF y
<1>10. /\ queue' \in [Names(i) -> Seq(Requests)] /\ discarded' \subseteq Requests
       /\ keys # {} => queue'[k] = left(k) /\ \A n \in Names(i) \ {k} : queue'[n] = queue[n]
  <2>1. Med(i)!Range(queue[k]) \subseteq Requests
    BY <1>6 DEF Med!Range
  <2>2. discarded' \subseteq Requests
    BY <1>4, <1>6, <2>1
  <2> QED BY <1>4, <1>6, <1>7, <2>2
<1>11. Basics(i)' /\ conn'[c] = y /\ \A b \in Conns \ {c} : conn'[b] = conn[b]
  <2>1. conn' = [conn EXCEPT ![c] = y]
    BY <1>4 DEF y
  <2>2. received' \in [Agents(i) -> Seq(Requests)] /\ sessions' = sessions
    BY <1>5, <1>6
  <2> QED BY <1>5, <1>8, <1>9, <1>10, <2>1, <2>2, OneConnection
<1>12. /\ \A b \in Conns : Out(b)' = Out(b) /\ Who(b)' = Who(b)
       /\ Pick(c) = <<>> /\ Pick(c)' = taken(k)
       /\ \A b \in Conns \ {c} : Pick(b)' = Pick(b)
  BY <1>2, <1>8, <1>11 DEF Out, Who, Pick
<1>13. CASE keys = {}
  <2>1. taken(k) = <<>>
    BY <1>13 DEF taken
  <2>2. \A b \in Conns : Pick(b)' = Pick(b)
    BY <1>12, <2>1
  <2>3. QuietLines(i)
    BY <1>4, <1>5, <1>12, <1>13, <2>2 DEF QuietLines
  <2> QED BY <1>4, <1>5, <1>11, <1>13, <2>3
<1>14. CASE keys # {}
  <2>1. ~Setup[i].persistent => k = Med(i)!Key(Who(c))
    <3>1. k \in keys /\ keylist[d] \subseteq {d}
      BY <1>2, <1>4, <1>14 DEF Basics, Keyed
    <3> QED BY <3>1 DEF keys, Med!ListKeys, Who
  <2>2. \E f, g : Splits(f, g, queue[k], Pick(c)', queue'[k], expired)
    BY <1>7, <1>10, <1>12, <1>14
  <2> QED BY <1>4, <1>5, <1>10, <1>11, <1>12, <1>14, <2>1, <2>2 DEF Dequeues
<1> QED
  BY <1>13, <1>14

LEMMA ExpireStep ==
    ASSUME NEW i \in Routers, Basics(i), NEW r \in Requests, Med(i)!Expire(r)
    PROVE  Basics(i)' /\ QuietLines(i) /\ UNCHANGED <<forward, discarded>>
<1>1. /\ expired' = expired \cup {r}
      /\ UNCHANGED <<sessions, conn, keylist, reverse, queue, seen, forward, received, discarded, restarts>>
  BY DEF Med!Expire
<1>2. conn' \in [Conns -> Med(i)!Connection] /\ Connected(i)' /\ \A b \in Conns : Who(b)' = Who(b)
  BY <1>1, Types DEF Basics, Connected, Who
<1>3. /\ queue' \in [Names(i) -> Seq(Requests)] /\ received' \in [Agents(i) -> Seq(Requests)]
      /\ forward' \in [Requests -> Med(i)!Forward]
      /\ discarded' \subseteq Requests /\ expired' \subseteq Requests
      /\ seen' \subseteq Med(i)!Range(Setup[i].idOf) /\ restarts' \in Nat
  BY <1>1, Types DEF Basics, TypeOK, Med!TypeOK, Med!Range
<1>4. Routed(i)'
  BY <1>1, RoutedKept
<1>5. Basics(i)'
  BY <1>1, <1>2, <1>3, <1>4, BasicsKept
<1>6. QuietLines(i)
  BY <1>1 DEF QuietLines, Who, Out, Pick
<1> QED
  BY <1>1, <1>5, <1>6

\* What was picked goes with a restart, and what the stores do not keep.
Restarts(i) ==
    /\ received' = received /\ discarded \subseteq discarded' /\ Progress(i)
    /\ \A b \in Conns : /\ Out(b)' = Out(b) /\ Who(b)' = Who(b) /\ Pick(b)' = <<>>
                        /\ Med(i)!Range(Pick(b)) \subseteq discarded'
    /\ \A k \in Names(i) : \/ queue'[k] = queue[k]
                           \/ queue'[k] = <<>> /\ Med(i)!Range(queue[k]) \subseteq discarded'

LEMMA RestartStep ==
    ASSUME NEW i \in Routers, Basics(i), Med(i)!Restart
    PROVE  Basics(i)' /\ Restarts(i)
<1> DEFINE done(b) == [conn[b] EXCEPT !.up = FALSE, !.open = FALSE, !.phase = "gone",
                                      !.inbox = <<>>, !.picking = FALSE, !.picked = <<>>]
           failed(r) == [forward[r] EXCEPT !.pc = "failed", !.left = {}]
           lost == UNION {Med(i)!Range(conn[c].picked) : c \in Conns}
           stored == UNION {Med(i)!Range(queue[k]) : k \in Names(i)}
<1>1. /\ sessions' = [d \in Agents(i) |-> NoOne] /\ restarts' = restarts + 1 /\ seen' = {}
      /\ conn' = [b \in Conns |-> IF conn[b].phase = "unused" THEN conn[b] ELSE done(b)]
      /\ forward' = [r \in Requests |-> IF forward[r].pc \in {"new", "ok", "refused"}
                                        THEN forward[r] ELSE failed(r)]
      /\ UNCHANGED <<expired, received>>
  <2> HIDE DEF lost, stored
  <2> QED BY DEF Med!Restart, Agents
<1>2. /\ discarded' = discarded \cup lost \cup (IF Setup[i].persistent THEN {} ELSE stored)
      /\ IF Setup[i].persistent THEN UNCHANGED <<keylist, reverse, queue>>
         ELSE /\ keylist' = [d \in Agents(i) |-> {}] /\ reverse' = [d \in Agents(i) |-> NoOne]
              /\ queue' = [k \in Names(i) |-> <<>>]
  BY DEF Med!Restart, Agents, Names
<1>3. ASSUME NEW b \in Conns
      PROVE  /\ done(b) \in Med(i)!Connection /\ done(b).did = conn[b].did /\ done(b).out = conn[b].out
             /\ done(b).picked = <<>> /\ ~done(b).picking /\ ~done(b).up /\ ~done(b).open
             /\ done(b).inbox = <<>> /\ done(b).phase = "gone"
             /\ conn[b] \in Med(i)!Connection /\ ConnectionOK(i, conn[b])
  <2>1. <<>> \in Seq(Requests) /\ <<>> \in Seq(Med(i)!Request)
    OBVIOUS
  <2>2. conn[b] \in Med(i)!Connection /\ ConnectionOK(i, conn[b])
    BY ConnectionIs
  <2> QED BY <2>1, <2>2 DEF Med!Connection
<1>4. ASSUME NEW r \in Requests
      PROVE  /\ forward[r] \in Med(i)!Forward /\ RequestOK(i, r, forward[r])
             /\ failed(r) \in Med(i)!Forward /\ failed(r).pc = "failed" /\ failed(r).left = {}
             /\ failed(r).owner = forward[r].owner
  <2>1. forward[r] \in Med(i)!Forward /\ RequestOK(i, r, forward[r])
    BY RequestIs
  <2> QED BY <2>1 DEF Med!Forward
<1> HIDE DEF done, failed
<1>5. /\ conn' \in [Conns -> Med(i)!Connection]
      /\ \A b \in Conns : /\ ConnectionOK(i, conn'[b]) /\ conn'[b].did = conn[b].did
                          /\ conn'[b].out = conn[b].out /\ conn'[b].picked = <<>>
  <2> SUFFICES ASSUME NEW b \in Conns
               PROVE  /\ conn'[b] \in Med(i)!Connection
                      /\ ConnectionOK(i, conn'[b]) /\ conn'[b].did = conn[b].did
                      /\ conn'[b].out = conn[b].out /\ conn'[b].picked = <<>>
    BY <1>1
  <2>1. conn'[b] = IF conn[b].phase = "unused" THEN conn[b] ELSE done(b)
    BY <1>1
  <2>2. CASE conn[b].phase = "unused"
    BY <1>3, <2>1, <2>2 DEF ConnectionOK
  <2>3. CASE conn[b].phase # "unused"
    <3>1. ConnectionOK(i, done(b))
      BY <1>3, <2>3 DEF ConnectionOK
    <3> QED BY <1>3, <2>1, <2>3, <3>1
  <2> QED BY <2>2, <2>3
<1>6. /\ forward' \in [Requests -> Med(i)!Forward]
      /\ \A r \in Requests :
            \/ forward'[r] = forward[r] /\ forward[r].pc \in {"new", "ok", "refused"}
            \/ /\ forward'[r].pc = "failed" /\ forward'[r].left = {}
               /\ forward'[r].owner = forward[r].owner
  BY <1>1, <1>4
<1>7. /\ queue' \in [Names(i) -> Seq(Requests)] /\ discarded' \subseteq Requests
      /\ keylist' \in [Agents(i) -> SUBSET Agents(i)]
      /\ reverse' \in [Agents(i) -> Agents(i) \cup {NoOne}]
      /\ restarts' \in Nat /\ expired' \subseteq Requests
      /\ received' \in [Agents(i) -> Seq(Requests)]
  <2>1. /\ queue \in [Names(i) -> Seq(Requests)] /\ discarded \subseteq Requests
        /\ keylist \in [Agents(i) -> SUBSET Agents(i)]
        /\ reverse \in [Agents(i) -> Agents(i) \cup {NoOne}]
        /\ received \in [Agents(i) -> Seq(Requests)] /\ expired \subseteq Requests
    BY Types DEF Basics
  <2>2. lost \subseteq Requests
    <3>1. \A c \in Conns : conn[c].picked \in Seq(Requests)
      BY ConnTypes DEF Basics
    <3> QED BY <3>1 DEF Med!Range
  <2>3. stored \subseteq Requests
    BY <2>1 DEF Med!Range
  <2>4. <<>> \in Seq(Requests) /\ restarts \in Nat
    BY DEF Basics, TypeOK, Med!TypeOK
  <2> HIDE DEF lost, stored
  <2>5. CASE Setup[i].persistent
    BY <1>1, <1>2, <2>1, <2>2, <2>4, <2>5
  <2>6. CASE ~Setup[i].persistent
    <3>1. /\ keylist' = [d \in Agents(i) |-> {}] /\ reverse' = [d \in Agents(i) |-> NoOne]
          /\ queue' = [k \in Names(i) |-> <<>>]
      BY <1>2, <2>6
    <3>2. queue' \in [Names(i) -> Seq(Requests)]
      BY <2>4, <3>1
    <3>3. discarded' \subseteq Requests
      BY <1>2, <2>1, <2>2, <2>3
    <3> QED BY <1>1, <2>1, <2>4, <3>1, <3>2, <3>3
  <2> QED BY <2>5, <2>6
<1>8. sessions' \in [Agents(i) -> Conns \cup {NoOne}] /\ \A d \in Agents(i) : sessions'[d] = NoOne
  BY <1>1
<1>9. TypeOK(i)'
  BY <1>1, <1>5, <1>6, <1>7, <1>8 DEF TypeOK, Med!TypeOK, Agents, Names
<1>10. Keyed(i)'
  <2>1. \A d \in Agents(i) : /\ keylist'[d] \subseteq {d} /\ reverse'[d] \in {d, NoOne}
                             /\ reverse'[d] = d => d \in keylist'[d]
    <3> HIDE DEF lost, stored
    <3> QED BY <1>2, SetupFacts DEF Basics, Keyed
  <2> QED BY <1>8, <2>1 DEF Keyed
<1>11. Connected(i)'
  BY <1>5, ConnectedIs
<1>12. Routed(i)'
  <2> SUFFICES ASSUME NEW r \in Requests
               PROVE  /\ forward'[r].owner \in {Recipient(i, r), NoOne}
                      /\ \E k \in Names(i) : forward'[r].left \subseteq {k}
                      /\ ~Setup[i].persistent => forward'[r].left \subseteq
                            {Med(i)!Key(Recipient(i, r)), Med(i)!Did(Recipient(i, r))}
                      /\ forward'[r].pc \in {"new", "ok", "refused", "failed"}
    BY DEF Routed, Names, Med!QueueNames
  <2> QED BY <1>4, <1>6 DEF RequestOK
<1>13. Progress(i)
  <2> SUFFICES ASSUME NEW s \in Requests
               PROVE  /\ Unstored(s)' => Unstored(s)
                      /\ Stored(s)' /\ Recipient(i, s) \notin Setup[i].removers => Stored(s)
    BY DEF Progress
  <2> QED BY <1>6 DEF Unstored, Stored
<1>14. /\ discarded \subseteq discarded'
       /\ \A b \in Conns : Med(i)!Range(Pick(b)) \subseteq discarded'
  BY <1>2 DEF Pick
<1>15. ASSUME NEW k \in Names(i)
       PROVE  \/ queue'[k] = queue[k]
              \/ queue'[k] = <<>> /\ Med(i)!Range(queue[k]) \subseteq discarded'
  BY <1>2
<1>16. \A b \in Conns : Out(b)' = Out(b) /\ Who(b)' = Who(b) /\ Pick(b)' = <<>>
  BY <1>5 DEF Out, Who, Pick
<1> QED
  BY <1>1, <1>9, <1>10, <1>11, <1>12, <1>13, <1>14, <1>15, <1>16 DEF Basics, Restarts

-----------------------------------------------------------------------------
(* Where messages go.                                                        *)

LEMMA PlaceMade ==
    ASSUME NEW i \in Routers, NEW kind \in {"queue", "out", "picked", "received"},
           NEW of \in Names(i) \cup Conns \cup Agents(i), NEW n \in Nat, NEW j \in Nat
    PROVE  LET p == Place(kind, of, n, j)
           IN  /\ p \in Places(i) /\ p.kind = kind /\ p.of = of /\ p.n = n /\ p.j = j
BY DEF Place, Places

LEMMA PlaceIs ==
    ASSUME NEW i \in Routers, NEW p \in Places(i)
    PROVE  /\ p.n \in Nat /\ p.j \in Nat /\ p.of \in Names(i) \cup Conns \cup Agents(i)
           /\ p.kind \in {"queue", "out", "picked", "received"}
           /\ p = Place(p.kind, p.of, p.n, p.j)
BY DEF Place, Places

LEMMA OneKind ==
    ASSUME NEW i \in Routers, NEW p, NEW r
    PROVE  /\ p.kind = "queue" => (At(i, p, r) <=> InQueue(i, p, r))
           /\ p.kind = "out" => (At(i, p, r) <=> InOut(p, r))
           /\ p.kind = "picked" => (At(i, p, r) <=> InPicked(p, r))
           /\ p.kind = "received" => (At(i, p, r) <=> InReceived(i, p, r))
           /\ p.kind = "queue" => (At(i, p, r)' <=> InQueue(i, p, r)')
           /\ p.kind = "out" => (At(i, p, r)' <=> InOut(p, r)')
           /\ p.kind = "picked" => (At(i, p, r)' <=> InPicked(p, r)')
           /\ p.kind = "received" => (At(i, p, r)' <=> InReceived(i, p, r)')
BY DEF At, InQueue, InOut, InPicked, InReceived

\* f says where the message at a place was before; `new` has the place of one
\* that was not.
Arrived(i, p, r) ==
    /\ Counts(i, p, r)' => Unstored(r) /\ ~Unstored(r)'
    /\ ~Setup[i].persistent => Rightful(i, p, r)'

Moved(i, q, p, r) ==
    /\ q \in Places(i) /\ At(i, q, r)
    /\ Counts(i, p, r)' => Counts(i, q, r)
    /\ ~Setup[i].persistent /\ Rightful(i, q, r) => Rightful(i, p, r)'

Traced(i, f, new) ==
    /\ \A p \in Places(i) : \A r \in Requests :
          At(i, p, r)' => IF p \in new THEN Arrived(i, p, r) ELSE Moved(i, f[p], p, r)
    /\ \A p, q \in new : p = q
    /\ \A p, q \in Places(i) \ new : \A r \in Requests :
          At(i, p, r)' /\ At(i, q, r)' /\ f[p] = f[q] => p = q

Keeps(i) ==
    /\ discarded \subseteq discarded'
    /\ \A p \in Places(i) : \A r \in Requests :
          At(i, p, r) => r \in discarded' \/ \E q \in Places(i) : At(i, q, r)'

Arrives(i) ==
    \A r \in Requests :
        Stored(r)' /\ Recipient(i, r) \notin Setup[i].removers =>
            Stored(r) \/ r \in discarded' \/ \E q \in Places(i) : At(i, q, r)'

Inv(i) == Basics(i) /\ Once(i) /\ Addressed(i) /\ Kept(i)

LEMMA InvKept ==
    ASSUME NEW i \in Routers, Inv(i), Basics(i)', NEW f, NEW new, Traced(i, f, new), Keeps(i),
           Arrives(i), \A r \in Requests : Unstored(r)' => Unstored(r)
    PROVE  Inv(i)'
<1> DEFINE P == Places(i)
<1>1. Places(i)' = P /\ \A r : Recipient(i, r)' = Recipient(i, r)
  BY DEF Places, Names, Med!QueueNames, Recipient, Agents
<1>2. Once(i)'
  <2> SUFFICES ASSUME NEW r \in Requests, NEW p \in P, NEW q \in P
               PROVE  /\ At(i, p, r)' /\ Counts(i, p, r)' => ~Unstored(r)'
                      /\ At(i, p, r)' /\ Counts(i, p, r)' /\ At(i, q, r)' /\ Counts(i, q, r)' => p = q
    BY <1>1 DEF Once
  <2>1. \A x \in P \ new : At(i, x, r)' /\ Counts(i, x, r)' =>
            f[x] \in P /\ At(i, f[x], r) /\ Counts(i, f[x], r)
    BY DEF Traced, Moved
  <2>2. \A x \in P \ new : At(i, x, r)' /\ Counts(i, x, r)' => ~Unstored(r)
    BY <2>1 DEF Inv, Once
  <2>3. \A x \in P : x \in new /\ At(i, x, r)' /\ Counts(i, x, r)' => Unstored(r) /\ ~Unstored(r)'
    BY DEF Traced, Arrived
  <2>4. \A x, y \in P \ new : At(i, x, r)' /\ Counts(i, x, r)' /\ At(i, y, r)' /\ Counts(i, y, r)'
                                 => f[x] = f[y]
    BY <2>1 DEF Inv, Once
  <2>5. At(i, p, r)' /\ Counts(i, p, r)' => ~Unstored(r)'
    BY <2>2, <2>3
  <2>6. ASSUME At(i, p, r)' /\ Counts(i, p, r)' /\ At(i, q, r)' /\ Counts(i, q, r)'
        PROVE  p = q
    <3>1. CASE p \in new /\ q \in new
      BY <3>1 DEF Traced
    <3>2. CASE p \notin new /\ q \notin new
      <4>1. f[p] = f[q]
        BY <2>4, <2>6, <3>2
      <4> QED BY <2>6, <3>2, <4>1 DEF Traced
    <3>3. CASE (p \in new /\ q \notin new) \/ (p \notin new /\ q \in new)
      BY <2>2, <2>3, <2>6, <3>3
    <3> QED BY <3>1, <3>2, <3>3
  <2> QED BY <2>5, <2>6
<1>3. Addressed(i)'
  <2> SUFFICES ASSUME ~Setup[i].persistent, NEW r \in Requests, NEW p \in P, At(i, p, r)'
               PROVE  Rightful(i, p, r)'
    BY <1>1 DEF Addressed
  <2>1. CASE p \in new
    BY <2>1 DEF Traced, Arrived
  <2>2. CASE p \notin new
    BY <2>2 DEF Traced, Moved, Inv, Addressed
  <2> QED BY <2>1, <2>2
<1>4. Kept(i)'
  <2> SUFFICES ASSUME NEW r \in Requests, Stored(r)', Recipient(i, r) \notin Setup[i].removers
               PROVE  r \in discarded' \/ \E p \in P : At(i, p, r)'
    BY <1>1 DEF Kept
  <2>1. CASE Stored(r)
    <3>1. r \in discarded \/ \E p \in P : At(i, p, r)
      BY <2>1 DEF Inv, Kept
    <3> QED BY <3>1 DEF Keeps
  <2>2. CASE ~Stored(r)
    BY <2>2 DEF Arrives
  <2> QED BY <2>1, <2>2
<1> QED
  BY <1>2, <1>3, <1>4 DEF Inv

LEMMA Stays ==
    ASSUME NEW i \in Routers, NEW p \in Places(i), NEW r, At(i, p, r),
           p.kind \in {"out", "picked"} => Who(p.of)' = Who(p.of)
    PROVE  Moved(i, p, p, r)
<1>1. p.kind # "queue" => Holder(p)' = Holder(p)
  BY PlaceIs DEF Holder
<1>2. Counts(i, p, r)' => Counts(i, p, r)
  BY <1>1 DEF Counts, Recipient
<1>3. Rightful(i, p, r) => Rightful(i, p, r)'
  BY <1>1 DEF Rightful, Recipient, Med!Key, Med!Did
<1> QED
  BY <1>2, <1>3 DEF Moved

LEMMA OutGrown ==
    ASSUME NEW i \in Routers, Basics(i), NEW s \in Conns, NEW item \in Med(i)!Item,
           Out(s)' = Append(Out(s), item)
    PROVE  /\ Len(Out(s)) \in Nat /\ DOMAIN Out(s) = 1 .. Len(Out(s))
           /\ DOMAIN Out(s)' = 1 .. Len(Out(s)) + 1 /\ Out(s)'[Len(Out(s)) + 1] = item
           /\ \A n \in 1 .. Len(Out(s)) : Out(s)'[n] = Out(s)[n]
           /\ item.msgs \in Seq(Requests) /\ DOMAIN item.msgs = 1 .. Len(item.msgs)
<1>1. Out(s) \in Seq(Med(i)!Item)
  BY ConnTypes DEF Basics, Out
<1>2. item.msgs \in Seq(Requests)
  BY DEF Med!Item
<1> HIDE DEF Out
<1>3. DOMAIN item.msgs = 1 .. Len(item.msgs)
  BY <1>2, SeqElements
<1> QED
  BY <1>1, <1>2, <1>3

\* What is at a place of a connection whose out-box grows.
LEMMA OutKept ==
    ASSUME NEW i \in Routers, Basics(i), NEW s \in Conns, NEW item \in Med(i)!Item,
           Out(s)' = Append(Out(s), item), NEW p \in Places(i), p.kind = "out", p.of = s,
           NEW r \in Requests
    PROVE  /\ At(i, p, r) => At(i, p, r)'
           /\ At(i, p, r)' => \/ At(i, p, r)
                              \/ /\ p.n = Len(Out(s)) + 1 /\ p.j \in DOMAIN item.msgs
                                 /\ item.msgs[p.j] = r
<1>1. /\ Len(Out(s)) \in Nat /\ DOMAIN Out(s) = 1 .. Len(Out(s))
      /\ DOMAIN Out(s)' = 1 .. Len(Out(s)) + 1 /\ Out(s)'[Len(Out(s)) + 1] = item
      /\ \A n \in 1 .. Len(Out(s)) : Out(s)'[n] = Out(s)[n]
  BY OutGrown
<1>2. (At(i, p, r) <=> InOut(p, r)) /\ (At(i, p, r)' <=> InOut(p, r)')
  BY OneKind
<1> DEFINE o == Out(s)
           q == Out(s)'
           l == Len(o)
<1>3. /\ InOut(p, r) <=> /\ p.n \in DOMAIN o /\ p.j \in DOMAIN o[p.n].msgs /\ o[p.n].msgs[p.j] = r
      /\ InOut(p, r)' <=> /\ p.n \in DOMAIN q /\ p.j \in DOMAIN q[p.n].msgs /\ q[p.n].msgs[p.j] = r
  BY DEF InOut
<1>4. /\ l \in Nat /\ DOMAIN o = 1 .. l /\ DOMAIN q = 1 .. l + 1 /\ q[l + 1] = item
      /\ \A n \in 1 .. l : q[n] = o[n]
  BY <1>1
<1> HIDE DEF o, q, l
<1>5. p.n \in 1 .. l + 1 => p.n \in 1 .. l \/ p.n = l + 1
  BY <1>4
<1>6. p.n \in 1 .. l => p.n \in 1 .. l + 1
  BY <1>4
<1>7. InOut(p, r) => InOut(p, r)'
  BY <1>3, <1>4, <1>6
<1>8. InOut(p, r)' => InOut(p, r) \/ (p.n = l + 1 /\ p.j \in DOMAIN item.msgs /\ item.msgs[p.j] = r)
  BY <1>3, <1>4, <1>5
<1> QED
  BY <1>2, <1>7, <1>8 DEF l, o

Same(i) == [p \in Places(i) |-> p]

LEMMA QuietTraced ==
    ASSUME NEW i \in Routers, Basics(i), Basics(i)', QuietLines(i), discarded \subseteq discarded'
    PROVE  Traced(i, Same(i), {}) /\ Keeps(i)
<1>1. ASSUME NEW p \in Places(i), NEW r \in Requests
      PROVE  /\ At(i, p, r) => At(i, p, r)'
             /\ At(i, p, r)' => Moved(i, p, p, r)
  <2>1. CASE p.kind = "queue"
    <3>1. At(i, p, r) <=> At(i, p, r)'
      <4>1. InQueue(i, p, r) <=> InQueue(i, p, r)'
        BY DEF QuietLines, InQueue, Names, Med!QueueNames
      <4> QED BY <2>1, <4>1, OneKind
    <3> QED BY <2>1, <3>1, Stays
  <2>2. CASE p.kind = "received"
    <3>1. At(i, p, r) <=> At(i, p, r)'
      <4>1. InReceived(i, p, r) <=> InReceived(i, p, r)'
        BY DEF QuietLines, InReceived, Agents
      <4> QED BY <2>2, <4>1, OneKind
    <3> QED BY <2>2, <3>1, Stays
  <2>3. CASE p.kind = "picked"
    <3>1. At(i, p, r) <=> At(i, p, r)'
      <4>1. InPicked(p, r) <=> InPicked(p, r)'
        BY DEF QuietLines, InPicked
      <4> QED BY <2>3, <4>1, OneKind
    <3>2. At(i, p, r) => Who(p.of)' = Who(p.of)
      <4>1. At(i, p, r) => p.of \in Conns /\ Pick(p.of) # <<>>
        BY <2>3, OneKind DEF InPicked
      <4> QED BY <4>1 DEF QuietLines
    <3> QED BY <2>3, <3>1, <3>2, Stays
  <2>4. CASE p.kind = "out"
    <3>1. ASSUME p.of \notin Conns PROVE ~At(i, p, r) /\ ~At(i, p, r)'
      BY <2>4, <3>1, OneKind DEF InOut
    <3>2. ASSUME p.of \in Conns, Out(p.of)' = Out(p.of)
          PROVE  At(i, p, r) <=> At(i, p, r)'
      <4>1. InOut(p, r) <=> InOut(p, r)'
        BY <3>2 DEF InOut
      <4> QED BY <2>4, <4>1, OneKind
    <3>3. ASSUME p.of \in Conns, NEW item \in Med(i)!Item, item.msgs = <<>>,
                 Out(p.of)' = Append(Out(p.of), item)
          PROVE  At(i, p, r) <=> At(i, p, r)'
      BY <2>4, <3>3, OutKept
    <3>4. At(i, p, r) <=> At(i, p, r)'
      BY <3>1, <3>2, <3>3 DEF QuietLines
    <3>5. At(i, p, r) => Who(p.of)' = Who(p.of)
      <4>1. At(i, p, r) => p.of \in Conns /\ Out(p.of) # <<>>
        BY <2>4, OneKind DEF InOut
      <4> QED BY <4>1 DEF QuietLines
    <3> QED BY <2>4, <3>4, <3>5, Stays
  <2> QED BY <2>1, <2>2, <2>3, <2>4, PlaceIs
<1>2. \A p \in Places(i) : Same(i)[p] = p
  BY DEF Same
<1>3. Traced(i, Same(i), {})
  BY <1>1, <1>2 DEF Traced
<1>4. Keeps(i)
  BY <1>1 DEF Keeps
<1> QED
  BY <1>3, <1>4

LEMMA AppendGrows ==
    ASSUME NEW i \in Routers, Basics(i), NEW s \in Conns, NEW item \in Med(i)!Item
    PROVE  Append(Out(s), item) # Out(s)
<1>1. Out(s) \in Seq(Med(i)!Item)
  BY ConnTypes DEF Basics, Out
<1> HIDE DEF Out
<1>2. Len(Append(Out(s), item)) = Len(Out(s)) + 1 /\ Len(Out(s)) \in Nat
  BY <1>1
<1> QED
  BY <1>2

LEMMA PushTraced ==
    ASSUME NEW i \in Routers, Basics(i), Basics(i)', NEW r \in Requests, Pushes(i, r)
    PROVE  /\ \E new : Traced(i, Same(i), new)
           /\ Keeps(i) /\ Arrives(i) /\ \A s \in Requests : Unstored(s)' => Unstored(s)
<1>1. PICK item \in Med(i)!Item :
          /\ item.msgs = <<r>> /\ Delivers(Recipient(i, r), [b \in Conns |-> Out(b)], item)
          /\ \A s \in Requests :
               Stored(s)' => Stored(s) \/ (s = r /\ \E b \in Conns : Out(b)' = Append(Out(b), item))
  BY Zenon DEF Pushes
<1>2. CASE \A b \in Conns : Out(b)' = Out(b)
  <2>1. QuietLines(i) /\ discarded \subseteq discarded'
    BY <1>2 DEF Pushes, QuietLines
  <2>2. Arrives(i)
    BY <1>1, <1>2, AppendGrows DEF Arrives
  <2>3. Traced(i, Same(i), {}) /\ Keeps(i)
    BY <2>1, QuietTraced
  <2> QED BY <2>2, <2>3 DEF Pushes
<1>3. CASE ~ \A b \in Conns : Out(b)' = Out(b)
  <2>1. PICK s \in Conns : /\ Who(s) = Recipient(i, r) /\ Out(s)' = Append(Out(s), item)
                           /\ \A b \in Conns \ {s} : Out(b)' = Out(b)
    <3>1. \A b \in Conns : [c \in Conns |-> Out(c)][b] = Out(b)
      OBVIOUS
    <3> QED BY <1>1, <1>3, <3>1 DEF Delivers
  <2>0. PICK l \in Nat : l = Len(Out(s)) + 1
    BY <2>1, OutGrown
  <2>2. /\ DOMAIN Out(s)' = 1 .. l /\ Out(s)'[l] = item
        /\ DOMAIN Out(s) = 1 .. l - 1 /\ l \in 1 .. l /\ l \notin 1 .. l - 1
        /\ DOMAIN item.msgs = {1} /\ item.msgs[1] = r
    BY <1>1, <2>0, <2>1, OutGrown
  <2>3. PICK n \in Places(i) : /\ n.kind = "out" /\ n.of = s /\ n.n = l /\ n.j = 1
                              /\ n = Place("out", s, l, 1)
    BY PlaceMade
  <2>4. At(i, n, r)' /\ Arrived(i, n, r)
    <3>1. InOut(n, r)'
      BY <2>2, <2>3 DEF InOut
    <3>2. Holder(n)' = Recipient(i, r)
      BY <2>1, <2>3 DEF Holder, Pushes
    <3>3. Rightful(i, n, r)'
      BY <2>3, <3>2 DEF Rightful, Recipient
    <3>4. Counts(i, n, r)' => Recipient(i, r) \notin Setup[i].websocketUsers
      BY <2>3, <3>2 DEF Counts, Recipient
    <3> QED BY <1>3, <2>3, <3>1, <3>3, <3>4, OneKind DEF Arrived, Pushes
  <2>5. ASSUME NEW p \in Places(i), NEW m \in Requests
        PROVE  /\ At(i, p, m) => At(i, p, m)'
               /\ At(i, p, m)' => (p = n /\ m = r) \/ (p # n /\ Moved(i, p, p, m))
    <3>1. CASE p.kind = "queue"
      <4>1. At(i, p, m) <=> At(i, p, m)'
        <5>1. InQueue(i, p, m) <=> InQueue(i, p, m)'
          BY DEF Pushes, InQueue, Names, Med!QueueNames
        <5> QED BY <3>1, <5>1, OneKind
      <4> QED BY <2>3, <3>1, <4>1, Stays
    <3>2. CASE p.kind = "received"
      <4>1. At(i, p, m) <=> At(i, p, m)'
        <5>1. InReceived(i, p, m) <=> InReceived(i, p, m)'
          BY DEF Pushes, InReceived, Agents
        <5> QED BY <3>2, <5>1, OneKind
      <4> QED BY <2>3, <3>2, <4>1, Stays
    <3>3. CASE p.kind = "picked"
      <4>1. At(i, p, m) <=> At(i, p, m)'
        <5>1. InPicked(p, m) <=> InPicked(p, m)'
          BY DEF Pushes, InPicked
        <5> QED BY <3>3, <5>1, OneKind
      <4>2. At(i, p, m) => Who(p.of)' = Who(p.of)
        BY <3>3, OneKind DEF InPicked, Pushes
      <4> QED BY <2>3, <3>3, <4>1, <4>2, Stays
    <3>4. CASE p.kind = "out"
      <4>1. At(i, p, m) => Who(p.of)' = Who(p.of)
        BY <3>4, OneKind DEF InOut, Pushes
      <4>2. CASE p.of # s
        <5>1. At(i, p, m) <=> At(i, p, m)'
          <6>1. InOut(p, m) <=> InOut(p, m)'
            BY <2>1, <4>2 DEF InOut
          <6> QED BY <3>4, <6>1, OneKind
        <5> QED BY <2>3, <4>1, <4>2, <5>1, Stays
      <4>3. CASE p.of = s
        <5>1. /\ At(i, p, m) => At(i, p, m)'
              /\ At(i, p, m)' => At(i, p, m) \/ (p.n = l /\ p.j = 1 /\ m = r)
          BY <2>0, <2>1, <2>2, <3>4, <4>3, OutKept
        <5>2. p.n = l /\ p.j = 1 => p = n
          BY <2>3, <3>4, <4>3, PlaceIs
        <5>3. At(i, p, m) => p # n
          BY <2>2, <2>3, OneKind DEF InOut
        <5> QED BY <4>1, <5>1, <5>2, <5>3, Stays
      <4> QED BY <4>2, <4>3
    <3> QED BY <3>1, <3>2, <3>3, <3>4, PlaceIs
  <2>6. Traced(i, Same(i), {n})
    <3>1. \A p \in Places(i) : Same(i)[p] = p
      BY DEF Same
    <3> QED BY <2>4, <2>5, <3>1 DEF Traced
  <2>7. Keeps(i)
    BY <2>5 DEF Keeps, Pushes
  <2>8. Arrives(i)
    BY <1>1, <2>3, <2>4 DEF Arrives
  <2> QED BY <2>6, <2>7, <2>8 DEF Pushes
<1> QED
  BY <1>2, <1>3

LEMMA RestartTraced ==
    ASSUME NEW i \in Routers, Basics(i), Basics(i)', Restarts(i)
    PROVE  Traced(i, Same(i), {}) /\ Keeps(i)
<1>1. ASSUME NEW p \in Places(i), NEW r \in Requests
      PROVE  /\ At(i, p, r) => At(i, p, r)' \/ r \in discarded'
             /\ At(i, p, r)' => Moved(i, p, p, r)
  <2>1. CASE p.kind = "queue"
    <3>1. /\ InQueue(i, p, r)' => InQueue(i, p, r)
          /\ InQueue(i, p, r) => InQueue(i, p, r)' \/ r \in discarded'
      BY DEF Restarts, InQueue, Names, Med!QueueNames, Med!Range
    <3> QED BY <2>1, <3>1, OneKind, Stays
  <2>2. CASE p.kind = "received"
    <3>1. InReceived(i, p, r) <=> InReceived(i, p, r)'
      BY DEF Restarts, InReceived, Agents
    <3> QED BY <2>2, <3>1, OneKind, Stays
  <2>3. CASE p.kind = "picked"
    <3>1. ~InPicked(p, r)' /\ (InPicked(p, r) => r \in discarded')
      BY DEF Restarts, InPicked, Med!Range
    <3> QED BY <2>3, <3>1, OneKind
  <2>4. CASE p.kind = "out"
    <3>1. InOut(p, r) <=> InOut(p, r)'
      BY DEF Restarts, InOut
    <3>2. InOut(p, r) => Who(p.of)' = Who(p.of)
      BY DEF Restarts, InOut
    <3> QED BY <2>4, <3>1, <3>2, OneKind, Stays
  <2> QED BY <2>1, <2>2, <2>3, <2>4, PlaceIs
<1>2. \A p \in Places(i) : Same(i)[p] = p
  BY DEF Same
<1>3. Traced(i, Same(i), {})
  BY <1>1, <1>2 DEF Traced
<1>4. Keeps(i)
  BY <1>1 DEF Keeps, Restarts
<1> QED
  BY <1>3, <1>4

\* Places whose messages a step leaves where they are.
LEMMA QueueStays ==
    ASSUME NEW i \in Routers, NEW p \in Places(i), NEW r, p.kind = "queue",
           queue'[p.of] = queue[p.of]
    PROVE  /\ At(i, p, r) <=> At(i, p, r)'
           /\ At(i, p, r) => Moved(i, p, p, r)
<1>1. InQueue(i, p, r) <=> InQueue(i, p, r)'
  BY DEF InQueue, Names, Med!QueueNames
<1> QED
  BY <1>1, OneKind, Stays

LEMMA OutStays ==
    ASSUME NEW i \in Routers, NEW p \in Places(i), NEW r, p.kind = "out",
           p.of \in Conns => Out(p.of)' = Out(p.of) /\ Who(p.of)' = Who(p.of)
    PROVE  /\ At(i, p, r) <=> At(i, p, r)'
           /\ At(i, p, r) => Moved(i, p, p, r)
<1>1. InOut(p, r) <=> InOut(p, r)'
  BY DEF InOut
<1>2. InOut(p, r) => Who(p.of)' = Who(p.of)
  BY DEF InOut
<1> QED
  BY <1>1, <1>2, OneKind, Stays

LEMMA PickedStays ==
    ASSUME NEW i \in Routers, NEW p \in Places(i), NEW r, p.kind = "picked",
           p.of \in Conns => Pick(p.of)' = Pick(p.of) /\ Who(p.of)' = Who(p.of)
    PROVE  /\ At(i, p, r) <=> At(i, p, r)'
           /\ At(i, p, r) => Moved(i, p, p, r)
<1>1. InPicked(p, r) <=> InPicked(p, r)'
  BY DEF InPicked
<1>2. InPicked(p, r) => Who(p.of)' = Who(p.of)
  BY DEF InPicked
<1> QED
  BY <1>1, <1>2, OneKind, Stays

LEMMA ReceivedStays ==
    ASSUME NEW i \in Routers, NEW p \in Places(i), NEW r, p.kind = "received",
           received'[p.of] = received[p.of]
    PROVE  /\ At(i, p, r) <=> At(i, p, r)'
           /\ At(i, p, r) => Moved(i, p, p, r)
<1>1. InReceived(i, p, r) <=> InReceived(i, p, r)'
  BY DEF InReceived, Agents
<1> QED
  BY <1>1, OneKind, Stays

LEMMA SamePlace ==
    ASSUME NEW i \in Routers, NEW p \in Places(i), NEW q \in Places(i),
           p.kind = q.kind, p.of = q.of, p.n = q.n, p.j = q.j
    PROVE  p = q
BY PlaceIs

\* A queue's length and places.
LEMMA QueueIs ==
    ASSUME NEW i \in Routers, Basics(i), NEW k \in Names(i)
    PROVE  /\ queue[k] \in Seq(Requests) /\ Len(queue[k]) \in Nat
           /\ DOMAIN queue[k] = 1 .. Len(queue[k])
           /\ \A r : r \in Med(i)!Range(queue[k]) <=>
                         \E n \in 1 .. Len(queue[k]) : queue[k][n] = r
<1>1. queue[k] \in Seq(Requests)
  BY Types DEF Basics
<1>2. Len(queue[k]) \in Nat /\ DOMAIN queue[k] = 1 .. Len(queue[k])
  BY <1>1, SeqElements
<1> QED
  BY <1>1, <1>2 DEF Med!Range

LEMMA StoreTraced ==
    ASSUME NEW i \in Routers, Basics(i), Basics(i)', NEW r \in Requests, Stores(i, r)
    PROVE  /\ \E f, new : Traced(i, f, new)
           /\ Keeps(i) /\ Arrives(i)
<1> DEFINE P == Places(i)
<1>1. PICK k, h, q, t :
         /\ k \in Names(i) /\ q = queue[k] /\ t = queue'[k] /\ Adds(h, q, t, r)
         /\ \A n \in Names(i) \ {k} : queue'[n] = queue[n]
         /\ discarded' = discarded \cup ((Med(i)!Range(q) \cup {r}) \ Med(i)!Range(t))
         /\ ~Setup[i].persistent =>
              k \in {Med(i)!Key(Recipient(i, r)), Med(i)!Did(Recipient(i, r))}
  BY DEF Stores
<1> DEFINE Here(p) == p.kind = "queue" /\ p.of = k /\ p.j = 0
           f == [p \in P |-> IF Here(p) THEN Place("queue", k, h[p.n], 0) ELSE p]
           new == {p \in P : Here(p) /\ p.n \in 1 .. Len(t) /\ h[p.n] = 0}
<1>2. /\ Len(q) \in Nat /\ Len(t) \in Nat /\ h \in [1 .. Len(t) -> 0 .. Len(q)]
      /\ \A j \in 1 .. Len(t) : t[j] = IF h[j] = 0 THEN r ELSE q[h[j]]
      /\ \A j, m \in 1 .. Len(t) : h[j] = h[m] => j = m
      /\ DOMAIN q = 1 .. Len(q) /\ DOMAIN t = 1 .. Len(t)
  <2>1. t \in Seq(Requests) /\ q \in Seq(Requests)
    BY <1>1, QueueIs DEF Adds
  <2> QED BY <1>1, <2>1, SeqElements DEF Adds
<1>3. /\ \A m : m \in Med(i)!Range(q) <=> \E n \in 1 .. Len(q) : q[n] = m
      /\ \A m : m \in Med(i)!Range(t) <=> \E n \in 1 .. Len(t) : t[n] = m
  BY <1>2 DEF Med!Range
<1>4. ASSUME NEW p \in P, NEW m \in Requests, Here(p)
      PROVE  /\ At(i, p, m) <=> p.n \in 1 .. Len(q) /\ q[p.n] = m
             /\ At(i, p, m)' <=> p.n \in 1 .. Len(t) /\ t[p.n] = m
  <2>1. InQueue(i, p, m) <=> p.n \in 1 .. Len(q) /\ q[p.n] = m
    BY <1>1, <1>2, <1>4 DEF InQueue
  <2>2. InQueue(i, p, m)' <=> p.n \in 1 .. Len(t) /\ t[p.n] = m
    BY <1>1, <1>2, <1>4 DEF InQueue, Names, Med!QueueNames
  <2> QED BY <1>4, <2>1, <2>2, OneKind
<1>5. ASSUME NEW p \in P, NEW m \in Requests, ~Here(p)
      PROVE  /\ At(i, p, m) <=> At(i, p, m)'
             /\ At(i, p, m) => Moved(i, p, p, m)
  <2>1. CASE p.kind = "queue"
    <3>1. CASE p.of \in Names(i) \ {k}
      BY <1>1, <2>1, <3>1, QueueStays
    <3>2. CASE p.of \notin Names(i) \ {k}
      <4>1. ~InQueue(i, p, m) /\ ~InQueue(i, p, m)'
        BY <1>5, <2>1, <3>2 DEF InQueue, Names, Med!QueueNames
      <4> QED BY <2>1, <4>1, OneKind
    <3> QED BY <3>1, <3>2
  <2>2. CASE p.kind = "out"
    BY <2>2, OutStays DEF Stores, Out, Who
  <2>3. CASE p.kind = "picked"
    BY <2>3, PickedStays DEF Stores, Pick, Who
  <2>4. CASE p.kind = "received"
    BY <2>4, ReceivedStays DEF Stores
  <2> QED BY <2>1, <2>2, <2>3, <2>4, PlaceIs
<1>6. ASSUME NEW n \in Nat
      PROVE  LET p == Place("queue", k, n, 0)
             IN  p \in P /\ Here(p) /\ p.n = n
  BY <1>1, PlaceMade
<1>7. ASSUME NEW p \in P, NEW m \in Requests, At(i, p, m)', Here(p)
      PROVE  IF p \in new THEN Arrived(i, p, m) ELSE Moved(i, f[p], p, m)
  <2>1. p.n \in 1 .. Len(t) /\ t[p.n] = m
    BY <1>4, <1>7
  <2>2. CASE h[p.n] = 0
    <3>1. p \in new /\ m = r
      BY <1>2, <1>7, <2>1, <2>2
    <3>2. ~Setup[i].persistent => Rightful(i, p, r)'
      BY <1>1, <1>7 DEF Rightful, Recipient, Med!Key, Med!Did
    <3> HIDE DEF f, new
    <3> QED BY <3>1, <3>2 DEF Arrived, Stores
  <2>3. CASE h[p.n] # 0
    <3> DEFINE o == Place("queue", k, h[p.n], 0)
    <3>1. p \notin new /\ f[p] = o
      BY <1>7, <2>3
    <3>2. h[p.n] \in 1 .. Len(q) /\ q[h[p.n]] = m
      BY <1>2, <2>1, <2>3
    <3>3. o \in P /\ Here(o) /\ o.n = h[p.n]
      BY <1>6, <3>2
    <3> HIDE DEF f, new, o
    <3>4. At(i, o, m) /\ Counts(i, o, m)
      BY <1>4, <3>2, <3>3 DEF Counts
    <3>5. Rightful(i, o, m) => Rightful(i, p, m)'
      BY <1>7, <3>3 DEF Rightful, Recipient, Med!Key, Med!Did
    <3> QED BY <3>1, <3>3, <3>4, <3>5 DEF Moved
  <2> QED BY <2>2, <2>3
<1>8. ASSUME NEW p \in P, NEW m \in Requests, At(i, p, m)', ~Here(p)
      PROVE  IF p \in new THEN Arrived(i, p, m) ELSE Moved(i, f[p], p, m)
  <2>1. p \notin new /\ f[p] = p
    BY <1>8
  <2> HIDE DEF f, new
  <2> QED BY <1>5, <1>8, <2>1
<1>9. ASSUME NEW p \in new, NEW x \in new
      PROVE  p = x
  <2>1. p \in P /\ x \in P /\ Here(p) /\ Here(x) /\ p.n = x.n
    BY <1>2
  <2> QED BY <2>1, SamePlace
<1>10. ASSUME NEW p \in P \ new, NEW x \in P \ new, NEW m \in Requests, At(i, p, m)', At(i, x, m)',
              f[p] = f[x]
       PROVE  p = x
  <2>1. Here(p) => p.n \in 1 .. Len(t) /\ h[p.n] # 0 /\ f[p] = Place("queue", k, h[p.n], 0)
    BY <1>4, <1>10
  <2>2. Here(x) => x.n \in 1 .. Len(t) /\ h[x.n] # 0 /\ f[x] = Place("queue", k, h[x.n], 0)
    BY <1>4, <1>10
  <2>3. (~Here(p) => f[p] = p) /\ (~Here(x) => f[x] = x)
    OBVIOUS
  <2>4. \A n : Here(Place("queue", k, n, 0)) /\ Place("queue", k, n, 0).n = n
    BY DEF Place
  <2> HIDE DEF f, new, Here
  <2>5. CASE Here(p) /\ Here(x)
    <3>1. h[p.n] = h[x.n]
      BY <1>10, <2>1, <2>2, <2>4, <2>5
    <3>2. p.n = x.n
      BY <1>2, <2>1, <2>2, <2>5, <3>1
    <3> QED BY <1>10, <2>5, <3>2, SamePlace DEF Here
  <2>6. CASE ~Here(p) /\ ~Here(x)
    BY <1>10, <2>3, <2>6
  <2>7. CASE (Here(p) /\ ~Here(x)) \/ (~Here(p) /\ Here(x))
    BY <1>10, <2>1, <2>2, <2>3, <2>4, <2>7
  <2> QED BY <2>5, <2>6, <2>7
<1>11. Traced(i, f, new)
  <2> HIDE DEF f, new, Here
  <2> QED BY <1>7, <1>8, <1>9, <1>10 DEF Traced
<1>12. \A n \in 1 .. Len(t) : \E p \in P : At(i, p, t[n])'
  <2> SUFFICES ASSUME NEW n \in 1 .. Len(t) PROVE \E p \in P : At(i, p, t[n])'
    OBVIOUS
  <2>1. n \in Nat /\ t[n] \in Requests
    BY <1>1, <1>2 DEF Adds
  <2> QED BY <1>4, <1>6, <2>1
<1>13. Keeps(i)
  <2>1. discarded \subseteq discarded'
    BY <1>1
  <2>2. ASSUME NEW p \in P, NEW m \in Requests, At(i, p, m)
        PROVE  m \in discarded' \/ \E x \in P : At(i, x, m)'
    <3>1. CASE Here(p)
      <4>1. m \in Med(i)!Range(q)
        BY <1>3, <1>4, <2>2, <3>1
      <4> QED BY <1>1, <1>3, <1>12, <4>1
    <3>2. CASE ~Here(p)
      BY <1>5, <2>2, <3>2
    <3> QED BY <3>1, <3>2
  <2> QED BY <2>1, <2>2 DEF Keeps
<1>14. Arrives(i)
  <2>1. r \in discarded' \/ \E x \in P : At(i, x, r)'
    BY <1>1, <1>3, <1>12
  <2> QED BY <2>1 DEF Arrives, Stores
<1> HIDE DEF f, new
<1> QED
  BY <1>11, <1>13, <1>14

LEMMA ReadTraced ==
    ASSUME NEW i \in Routers, Basics(i), Basics(i)', NEW c \in Conns, Reads(i, c)
    PROVE  (\E f : Traced(i, f, {})) /\ Keeps(i)
<1> DEFINE P == Places(i)
<1>1. PICK o, item, d, l :
         /\ o = Out(c) /\ item = Head(Out(c)) /\ d = Who(c) /\ l = Len(received[Who(c)])
  OBVIOUS
<1>2. /\ o \in Seq(Med(i)!Item) /\ Len(o) \in Nat \ {0} /\ DOMAIN o = 1 .. Len(o) /\ item = o[1]
      /\ DOMAIN Out(c)' = 1 .. Len(o) - 1
      /\ \A n \in 1 .. Len(o) - 1 : Out(c)'[n] = o[n + 1]
  <2>1. o \in Seq(Med(i)!Item) /\ o # <<>> /\ Out(c)' = Tail(o)
    BY <1>1, ConnTypes DEF Basics, Out, Reads
  <2> QED BY <1>1, <2>1
<1>3. item \in Med(i)!Item /\ item.msgs \in Seq(Requests) /\ Len(item.msgs) \in Nat
      /\ DOMAIN item.msgs = 1 .. Len(item.msgs)
  <2>1. item \in Med(i)!Item
    BY <1>1 DEF Reads
  <2>2. item.msgs \in Seq(Requests)
    BY <2>1 DEF Med!Item
  <2> QED BY <2>1, <2>2, SeqElements
<1>4. /\ d \in Agents(i) /\ l \in Nat /\ DOMAIN received[d] = 1 .. l /\ Who(c)' = d
      /\ \A m : m \in Med(i)!Range(item.msgs) <=> \E j \in 1 .. Len(item.msgs) : item.msgs[j] = m
  <2>1. d \in Agents(i) /\ Who(c)' = d
    BY <1>1 DEF Reads
  <2>2. received[d] \in Seq(Requests)
    BY <2>1, Types DEF Basics
  <2>3. l \in Nat /\ DOMAIN received[d] = 1 .. l
    BY <1>1, <2>2, SeqElements
  <2> QED BY <1>3, <2>1, <2>3 DEF Med!Range
<1>5. \/ received' = received /\ Med(i)!Range(item.msgs) \subseteq discarded' /\ discarded \subseteq discarded'
      \/ /\ discarded' = discarded /\ \A e \in Agents(i) \ {d} : received'[e] = received[e]
         /\ DOMAIN received'[d] = 1 .. l + Len(item.msgs)
         /\ \A n \in 1 .. l : received'[d][n] = received[d][n]
         /\ \A n \in 1 .. Len(item.msgs) : received'[d][l + n] = item.msgs[n]
  <2>1. CASE received' = received /\ discarded' = discarded \cup Med(i)!Range(item.msgs)
    BY <2>1
  <2>2. CASE received' = [received EXCEPT ![d] = received[d] \o item.msgs] /\ discarded' = discarded
    <3> DEFINE s == received[d]
               t == s \o item.msgs
    <3>1. s \in Seq(Requests) /\ received \in [Agents(i) -> Seq(Requests)] /\ Len(s) = l
      BY <1>1, <1>4, Types DEF Basics
    <3> HIDE DEF s
    <3>2. /\ t \in Seq(Requests) /\ Len(t) = l + Len(item.msgs)
          /\ \A n \in 1 .. l : t[n] = s[n]
          /\ \A n \in 1 .. Len(item.msgs) : t[l + n] = item.msgs[n]
      <4> DEFINE u == item.msgs
      <4>1. u \in Seq(Requests)
        BY <1>3
      <4> HIDE DEF u
      <4>2. /\ s \o u \in Seq(Requests) /\ Len(s \o u) = Len(s) + Len(u)
            /\ \A n \in 1 .. Len(s) : (s \o u)[n] = s[n]
            /\ \A n \in 1 .. Len(u) : (s \o u)[Len(s) + n] = u[n]
        <5>1. \A a, b \in Seq(Requests) :
                 /\ a \o b \in Seq(Requests) /\ Len(a \o b) = Len(a) + Len(b)
                 /\ \A n \in 1 .. Len(a) : (a \o b)[n] = a[n]
                 /\ \A n \in 1 .. Len(b) : (a \o b)[Len(a) + n] = b[n]
          BY Concatenation
        <5>2. s \in Seq(Requests)
          BY <3>1
        <5> QED BY <4>1, <5>1, <5>2, Zenon
      <4> QED BY <3>1, <4>2 DEF u
    <3>3. DOMAIN t = 1 .. Len(t)
      BY <3>2, SeqElements
    <3> HIDE DEF t
    <3>4. received'[d] = t /\ \A e \in Agents(i) \ {d} : received'[e] = received[e]
      BY <1>4, <2>2, <3>1 DEF s, t
    <3> QED BY <2>2, <3>2, <3>3, <3>4 DEF s
  <2> QED BY <1>1, <2>1, <2>2 DEF Reads
<1> DEFINE Box(p) == p.kind = "out" /\ p.of = c
           Got(p) == p.kind = "received" /\ p.of = d /\ p.j = 0 /\ p.n > l
           f == [p \in P |-> IF Box(p) THEN Place("out", c, p.n + 1, p.j)
                             ELSE IF Got(p) THEN Place("out", c, 1, p.n - l) ELSE p]
<1>6. ASSUME NEW n \in Nat, NEW j \in Nat
      PROVE  LET p == Place("out", c, n, j)
             IN  p \in P /\ Box(p) /\ p.n = n /\ p.j = j
  BY PlaceMade
<1>7. ASSUME NEW p \in P, NEW m \in Requests, Box(p)
      PROVE  /\ At(i, p, m) <=> /\ p.n \in 1 .. Len(o) /\ p.j \in DOMAIN o[p.n].msgs
                                /\ o[p.n].msgs[p.j] = m
             /\ At(i, p, m)' <=> /\ p.n \in 1 .. Len(o) - 1 /\ p.j \in DOMAIN o[p.n + 1].msgs
                                 /\ o[p.n + 1].msgs[p.j] = m
  <2>1. At(i, p, m) <=> InOut(p, m)
    BY <1>7, OneKind
  <2>2. At(i, p, m)' <=> InOut(p, m)'
    BY <1>7, OneKind
  <2> QED BY <1>1, <1>2, <1>7, <2>1, <2>2 DEF InOut
<1>8. ASSUME NEW p \in P, NEW m \in Requests, ~Box(p), ~Got(p)
      PROVE  /\ At(i, p, m) <=> At(i, p, m)'
             /\ At(i, p, m) => Moved(i, p, p, m)
  <2>1. CASE p.kind = "queue"
    BY <2>1, QueueStays DEF Reads
  <2>2. CASE p.kind = "out"
    BY <1>8, <2>2, OutStays DEF Reads
  <2>3. CASE p.kind = "picked"
    BY <2>3, PickedStays DEF Reads
  <2>4. CASE p.kind = "received" /\ p.of # d
    <3>1. CASE p.of \in Agents(i)
      BY <1>5, <2>4, <3>1, ReceivedStays
    <3>2. CASE p.of \notin Agents(i)
      <4>1. ~InReceived(i, p, m) /\ ~InReceived(i, p, m)'
        BY <3>2 DEF InReceived, Agents
      <4> QED BY <2>4, <4>1, OneKind
    <3> QED BY <3>1, <3>2
  <2>5. CASE p.kind = "received" /\ p.of = d
    <3>1. p.n \in Nat /\ (p.j # 0 \/ ~(p.n > l))
      BY <1>8, <2>5, PlaceIs
    <3>2. InReceived(i, p, m) <=> InReceived(i, p, m)'
      <4>1. CASE p.n \in 1 .. l
        <5>1. p.n \in 1 .. l + Len(item.msgs)
          <6> DEFINE k == Len(item.msgs)
          <6>1. k \in Nat
            BY <1>3
          <6> HIDE DEF k
          <6> QED BY <1>4, <4>1, <6>1 DEF k
        <5>2. received'[d][p.n] = received[d][p.n] /\ p.n \in DOMAIN received'[d]
          BY <1>4, <1>5, <4>1, <5>1
        <5>3. p.n \in DOMAIN received[d]
          BY <1>4, <4>1
        <5> QED BY <2>5, <5>2, <5>3 DEF InReceived, Agents
      <4>2. CASE p.n \notin 1 .. l
        <5>1. p.j # 0 \/ p.n = 0
          BY <1>4, <3>1, <4>2
        <5>2. 0 \notin DOMAIN received[d] /\ 0 \notin DOMAIN received'[d]
          BY <1>4, <1>5
        <5> QED BY <2>5, <5>1, <5>2 DEF InReceived
      <4> QED BY <4>1, <4>2
    <3> QED BY <2>5, <3>2, OneKind, Stays
  <2> QED BY <2>1, <2>2, <2>3, <2>4, <2>5, PlaceIs
<1>9. ASSUME NEW p \in P, NEW m \in Requests, Got(p)
      PROVE  /\ ~At(i, p, m)
             /\ At(i, p, m)' => /\ p.n - l \in 1 .. Len(item.msgs) /\ item.msgs[p.n - l] = m
                                /\ DOMAIN received'[d] = 1 .. l + Len(item.msgs)
  <2>1. (At(i, p, m) <=> InReceived(i, p, m)) /\ (At(i, p, m)' <=> InReceived(i, p, m)')
    BY <1>9, OneKind
  <2>2. p.n \in Nat
    BY PlaceIs
  <2>3. ~InReceived(i, p, m)
    BY <1>4, <1>9, <2>2 DEF InReceived
  <2>4. ASSUME InReceived(i, p, m)'
        PROVE  /\ p.n - l \in 1 .. Len(item.msgs) /\ item.msgs[p.n - l] = m
               /\ DOMAIN received'[d] = 1 .. l + Len(item.msgs)
    <3>1. p.n \in DOMAIN received'[d] /\ received'[d][p.n] = m
      BY <1>9, <2>4 DEF InReceived
    <3>2. received' # received
      BY <1>4, <1>9, <2>2, <3>1
    <3>3. p.n \in 1 .. l + Len(item.msgs) /\ DOMAIN received'[d] = 1 .. l + Len(item.msgs)
      BY <1>5, <3>1, <3>2
    <3>4. p.n - l \in 1 .. Len(item.msgs) /\ l + (p.n - l) = p.n
      <4> DEFINE k == Len(item.msgs)
      <4>1. k \in Nat /\ l \in Nat /\ p.n \in 1 .. l + k /\ p.n > l
        BY <1>3, <1>4, <1>9, <3>3
      <4> HIDE DEF k
      <4>2. p.n - l \in 1 .. k /\ l + (p.n - l) = p.n
        BY <4>1
      <4> QED BY <4>2 DEF k
    <3> QED BY <1>5, <3>1, <3>2, <3>3, <3>4
  <2> QED BY <2>1, <2>3, <2>4
<1>10. ASSUME NEW p \in P, NEW m \in Requests, At(i, p, m)'
       PROVE  Moved(i, f[p], p, m)
  <2>0. p.n \in Nat /\ p.j \in Nat
    BY PlaceIs
  <2>1. CASE Box(p)
    <3> DEFINE x == Place("out", c, p.n + 1, p.j)
    <3>1. f[p] = x
      BY <2>1
    <3>2. x \in P /\ Box(x) /\ x.n = p.n + 1 /\ x.j = p.j
      BY <1>6, <2>0
    <3> HIDE DEF f, x
    <3>3. p.n + 1 \in 1 .. Len(o)
      BY <1>2, <1>7, <1>10, <2>0, <2>1
    <3>4. At(i, x, m)
      BY <1>7, <1>10, <2>1, <3>2, <3>3
    <3>5. Holder(x) = d /\ Holder(p)' = d /\ p.kind # "queue" /\ x.kind # "queue"
      BY <1>1, <1>4, <2>1, <3>2 DEF Holder
    <3>6. (Counts(i, p, m)' => Counts(i, x, m)) /\ (Rightful(i, x, m) => Rightful(i, p, m)')
      BY <3>5 DEF Counts, Rightful, Recipient
    <3> QED BY <3>1, <3>2, <3>4, <3>6 DEF Moved
  <2>2. CASE Got(p)
    <3> DEFINE x == Place("out", c, 1, p.n - l)
    <3>1. f[p] = x
      BY <2>2
    <3>2. p.n - l \in 1 .. Len(item.msgs) /\ item.msgs[p.n - l] = m
      BY <1>9, <1>10, <2>2
    <3>3. x \in P /\ Box(x) /\ x.n = 1 /\ x.j = p.n - l
      BY <1>3, <1>6, <3>2
    <3> HIDE DEF f, x
    <3>4. At(i, x, m)
      <4>1. 1 \in 1 .. Len(o) /\ p.n - l \in DOMAIN item.msgs
        BY <1>2, <1>3, <3>2
      <4> QED BY <1>2, <1>7, <3>2, <3>3, <4>1
    <3>5. Holder(x) = d /\ Holder(p)' = d /\ p.kind # "queue" /\ x.kind # "queue"
      BY <1>1, <2>2, <3>3 DEF Holder
    <3>6. (Counts(i, p, m)' => Counts(i, x, m)) /\ (Rightful(i, x, m) => Rightful(i, p, m)')
      BY <3>5 DEF Counts, Rightful, Recipient
    <3> QED BY <3>1, <3>3, <3>4, <3>6 DEF Moved
  <2>3. CASE ~Box(p) /\ ~Got(p)
    <3>1. f[p] = p
      BY <2>3
    <3> HIDE DEF f, Box, Got
    <3> QED BY <1>8, <1>10, <2>3, <3>1
  <2> QED BY <2>1, <2>2, <2>3
<1>11. ASSUME NEW p \in P, NEW x \in P, NEW m \in Requests, At(i, p, m)', At(i, x, m)', f[p] = f[x]
       PROVE  p = x
  <2>0. p.n \in Nat /\ p.j \in Nat /\ x.n \in Nat /\ x.j \in Nat
    BY PlaceIs
  <2>1. \A y \in P : /\ Box(y) => f[y] = Place("out", c, y.n + 1, y.j)
                     /\ Got(y) => f[y] = Place("out", c, 1, y.n - l)
                     /\ ~Box(y) /\ ~Got(y) => f[y] = y
    OBVIOUS
  <2>2. \A n, j : LET y == Place("out", c, n, j) IN Box(y) /\ y.n = n /\ y.j = j
    BY DEF Place
  <2>3. (Box(p) => p.n >= 1) /\ (Box(x) => x.n >= 1)
    BY <1>7, <1>11, <2>0
  <2> HIDE DEF f
  <2>4. CASE Box(p) /\ Box(x)
    <3>1. p.n + 1 = x.n + 1 /\ p.j = x.j
      BY <1>11, <2>1, <2>2, <2>4
    <3>2. p.n = x.n
      BY <2>0, <3>1
    <3> QED BY <2>4, <3>1, <3>2, SamePlace
  <2>5. CASE Got(p) /\ Got(x)
    <3>1. p.n - l = x.n - l
      BY <1>11, <2>1, <2>2, <2>5
    <3>2. p.n = x.n
      BY <1>4, <2>0, <3>1
    <3> QED BY <2>5, <3>2, SamePlace
  <2>6. CASE (Box(p) /\ Got(x)) \/ (Got(p) /\ Box(x))
    <3>1. CASE Box(p) /\ Got(x)
      <4>1. p.n + 1 = 1
        BY <1>11, <2>1, <2>2, <3>1
      <4> QED BY <2>0, <2>3, <3>1, <4>1
    <3>2. CASE Got(p) /\ Box(x)
      <4>1. x.n + 1 = 1
        BY <1>11, <2>1, <2>2, <3>2
      <4> QED BY <2>0, <2>3, <3>2, <4>1
    <3> QED BY <2>6, <3>1, <3>2
  <2> HIDE DEF Box, Got
  <2>7. CASE ~Box(p) /\ ~Got(p) /\ ~Box(x) /\ ~Got(x)
    BY <1>11, <2>1, <2>7
  <2>8. CASE ~Box(p) /\ ~Got(p) /\ (Box(x) \/ Got(x))
    BY <1>11, <2>1, <2>2, <2>8
  <2>9. CASE ~Box(x) /\ ~Got(x) /\ (Box(p) \/ Got(p))
    BY <1>11, <2>1, <2>2, <2>9
  <2> QED BY <2>4, <2>5, <2>6, <2>7, <2>8, <2>9
<1>12. Traced(i, f, {})
  <2> HIDE DEF f
  <2> QED BY <1>10, <1>11 DEF Traced
<1>13. Keeps(i)
  <2>1. discarded \subseteq discarded'
    BY <1>5
  <2>2. ASSUME NEW p \in P, NEW m \in Requests, At(i, p, m)
        PROVE  m \in discarded' \/ \E x \in P : At(i, x, m)'
    <3>0. p.n \in Nat /\ p.j \in Nat
      BY PlaceIs
    <3>1. CASE Box(p) /\ p.n = 1
      <4>1. p.j \in 1 .. Len(item.msgs) /\ item.msgs[p.j] = m
        BY <1>2, <1>3, <1>7, <2>2, <3>1
      <4>2. CASE received' = received /\ Med(i)!Range(item.msgs) \subseteq discarded'
        BY <1>4, <4>1, <4>2
      <4>3. CASE /\ DOMAIN received'[d] = 1 .. l + Len(item.msgs)
                 /\ \A n \in 1 .. Len(item.msgs) : received'[d][l + n] = item.msgs[n]
        <5>1. l + p.j \in 1 .. l + Len(item.msgs) /\ l + p.j \in Nat
          BY <1>3, <1>4, <4>1
        <5>2. PICK x \in P : x.kind = "received" /\ x.of = d /\ x.n = l + p.j /\ x.j = 0
          BY <1>4, <5>1, PlaceMade
        <5>3. InReceived(i, x, m)'
          BY <1>4, <4>1, <4>3, <5>1, <5>2 DEF InReceived, Agents
        <5> QED BY <5>2, <5>3, OneKind
      <4> QED BY <1>5, <4>2, <4>3
    <3>2. CASE Box(p) /\ p.n # 1
      <4>1. p.n - 1 \in 1 .. Len(o) - 1 /\ p.n - 1 + 1 = p.n /\ p.n - 1 \in Nat
        BY <1>2, <1>7, <2>2, <3>0, <3>2
      <4>2. PICK x \in P : Box(x) /\ x.n = p.n - 1 /\ x.j = p.j
        BY <1>6, <3>0, <4>1
      <4>3. At(i, x, m)'
        BY <1>7, <2>2, <3>2, <4>1, <4>2
      <4> QED BY <4>3
    <3>3. CASE Got(p)
      BY <1>9, <2>2, <3>3
    <3>4. CASE ~Box(p) /\ ~Got(p)
      <4> HIDE DEF Box, Got
      <4> QED BY <1>8, <2>2, <3>4
    <3> QED BY <3>1, <3>2, <3>3, <3>4
  <2> QED BY <2>1, <2>2 DEF Keeps
<1> HIDE DEF f
<1> QED
  BY <1>12, <1>13

LEMMA DequeueTraced ==
    ASSUME NEW i \in Routers, Basics(i), Basics(i)', NEW c \in Conns, Dequeues(i, c)
    PROVE  (\E f : Traced(i, f, {})) /\ Keeps(i)
<1> DEFINE P == Places(i)
<1>1. PICK k, u, v, q, t, l, old, d :
         /\ k \in Names(i) /\ q = queue[k] /\ t = Pick(c)' /\ l = queue'[k] /\ old = expired
         /\ d = Who(c) /\ Splits(u, v, q, t, l, old)
         /\ \A n \in Names(i) \ {k} : queue'[n] = queue[n]
         /\ discarded' = discarded \cup ((Med(i)!Range(q) \cap old) \ Med(i)!Range(l))
         /\ ~Setup[i].persistent => k = Med(i)!Key(d)
  BY DEF Dequeues
<1>2. /\ DOMAIN q = 1 .. Len(q) /\ DOMAIN t = 1 .. Len(t) /\ DOMAIN l = 1 .. Len(l)
      /\ Len(q) \in Nat /\ Len(t) \in Nat /\ Len(l) \in Nat
  <2>1. q \in Seq(Requests) /\ l \in Seq(Requests)
    <3>1. queue' \in [Names(i)' -> Seq(Requests)]
      BY DEF Basics, TypeOK, Med!TypeOK, Names
    <3>2. Names(i)' = Names(i)
      BY DEF Names, Med!QueueNames
    <3> QED BY <1>1, <3>1, <3>2, QueueIs
  <2>2. t \in Seq(Requests)
    <3>1. conn' \in [Conns -> Med(i)!Connection']
      BY DEF Basics, TypeOK, Med!TypeOK
    <3>2. conn'[c] \in Med(i)!Connection
      BY <3>1 DEF Med!Connection, Med!Item, Med!Request
    <3>3. conn'[c].picked \in Seq(Requests)
      BY <3>2 DEF Med!Connection
    <3> QED BY <1>1, <3>3 DEF Pick
  <2> QED BY <2>1, <2>2, SeqElements
<1>3. /\ u \in [1 .. Len(t) -> 1 .. Len(q)] /\ v \in [1 .. Len(l) -> 1 .. Len(q)]
      /\ \A j \in 1 .. Len(t) : t[j] = q[u[j]]
      /\ \A j \in 1 .. Len(l) : l[j] = q[v[j]]
      /\ \A j, m \in 1 .. Len(t) : u[j] = u[m] => j = m
      /\ \A j, m \in 1 .. Len(l) : v[j] = v[m] => j = m
      /\ \A j \in 1 .. Len(t), m \in 1 .. Len(l) : u[j] # v[m]
      /\ \A n \in 1 .. Len(q) : \/ q[n] \in old
                                \/ \E j \in 1 .. Len(t) : u[j] = n
                                \/ \E j \in 1 .. Len(l) : v[j] = n
  BY <1>1 DEF Splits
<1>4. /\ Pick(c) = <<>> /\ received' = received
      /\ \A b \in Conns : Out(b)' = Out(b) /\ Who(b)' = Who(b)
      /\ \A b \in Conns \ {c} : Pick(b)' = Pick(b)
  BY DEF Dequeues
<1> DEFINE Here(p) == p.kind = "queue" /\ p.of = k /\ p.j = 0
           Hand(p) == p.kind = "picked" /\ p.of = c /\ p.j = 0
           f == [p \in P |-> IF Here(p) THEN Place("queue", k, v[p.n], 0)
                             ELSE IF Hand(p) THEN Place("queue", k, u[p.n], 0) ELSE p]
<1>5. ASSUME NEW n \in Nat
      PROVE  LET p == Place("queue", k, n, 0)
             IN  p \in P /\ Here(p) /\ p.n = n
  BY <1>1, PlaceMade
<1>6. ASSUME NEW n \in Nat
      PROVE  LET p == Place("picked", c, n, 0)
             IN  p \in P /\ Hand(p) /\ p.n = n
  BY PlaceMade
<1>7. ASSUME NEW p \in P, NEW m \in Requests, Here(p)
      PROVE  /\ At(i, p, m) <=> p.n \in 1 .. Len(q) /\ q[p.n] = m
             /\ At(i, p, m)' <=> p.n \in 1 .. Len(l) /\ l[p.n] = m
  <2>1. InQueue(i, p, m) <=> p.n \in 1 .. Len(q) /\ q[p.n] = m
    BY <1>1, <1>2, <1>7 DEF InQueue
  <2>2. InQueue(i, p, m)' <=> p.n \in 1 .. Len(l) /\ l[p.n] = m
    BY <1>1, <1>2, <1>7 DEF InQueue, Names, Med!QueueNames
  <2> QED BY <1>7, <2>1, <2>2, OneKind
<1>8. ASSUME NEW p \in P, NEW m \in Requests, Hand(p)
      PROVE  /\ ~At(i, p, m)
             /\ At(i, p, m)' <=> p.n \in 1 .. Len(t) /\ t[p.n] = m
  <2>1. ~InPicked(p, m)
    BY <1>4, <1>8 DEF InPicked
  <2>2. InPicked(p, m)' <=> p.n \in 1 .. Len(t) /\ t[p.n] = m
    BY <1>1, <1>2, <1>8 DEF InPicked
  <2> QED BY <1>8, <2>1, <2>2, OneKind
<1>9. ASSUME NEW p \in P, NEW m \in Requests, ~Here(p), ~Hand(p)
      PROVE  /\ At(i, p, m) <=> At(i, p, m)'
             /\ At(i, p, m) => Moved(i, p, p, m)
  <2>1. CASE p.kind = "queue"
    <3>1. CASE p.of \in Names(i) \ {k}
      BY <1>1, <2>1, <3>1, QueueStays
    <3>2. CASE p.of \notin Names(i) \ {k}
      <4>1. ~InQueue(i, p, m) /\ ~InQueue(i, p, m)'
        BY <1>9, <2>1, <3>2 DEF InQueue, Names, Med!QueueNames
      <4> QED BY <2>1, <4>1, OneKind
    <3> QED BY <3>1, <3>2
  <2>2. CASE p.kind = "out"
    BY <1>4, <2>2, OutStays
  <2>3. CASE p.kind = "picked"
    <3>1. CASE p.of # c
      BY <1>4, <2>3, <3>1, PickedStays
    <3>2. CASE p.of = c
      <4>1. ~InPicked(p, m) /\ ~InPicked(p, m)'
        BY <1>9, <2>3, <3>2 DEF InPicked
      <4> QED BY <2>3, <4>1, OneKind
    <3> QED BY <3>1, <3>2
  <2>4. CASE p.kind = "received"
    BY <1>4, <2>4, ReceivedStays
  <2> QED BY <2>1, <2>2, <2>3, <2>4, PlaceIs
<1>10. \A p \in P : /\ Here(p) => f[p] = Place("queue", k, v[p.n], 0)
                    /\ Hand(p) => f[p] = Place("queue", k, u[p.n], 0)
                    /\ ~Here(p) /\ ~Hand(p) => f[p] = p
  OBVIOUS
<1> HIDE DEF f
<1>11. ASSUME NEW p \in P, NEW m \in Requests, At(i, p, m)'
       PROVE  Moved(i, f[p], p, m)
  <2>1. CASE Here(p)
    <3> DEFINE x == Place("queue", k, v[p.n], 0)
    <3>0. p.n \in 1 .. Len(l) /\ l[p.n] = m
      BY <1>7, <1>11, <2>1
    <3>1. v[p.n] \in 1 .. Len(q) /\ q[v[p.n]] = m
      <4> HIDE DEF Here
      <4> QED BY <1>3, <3>0, SMT
    <3>2. f[p] = x /\ x \in P /\ Here(x) /\ x.n = v[p.n]
      BY <1>5, <1>10, <2>1, <3>1
    <3> HIDE DEF x
    <3>3. At(i, x, m) /\ Counts(i, x, m)
      BY <1>7, <3>1, <3>2 DEF Counts
    <3>4. Rightful(i, x, m) => Rightful(i, p, m)'
      BY <2>1, <3>2 DEF Rightful, Recipient, Med!Key, Med!Did
    <3> QED BY <3>2, <3>3, <3>4 DEF Moved
  <2>2. CASE Hand(p)
    <3> DEFINE x == Place("queue", k, u[p.n], 0)
    <3>0. p.n \in 1 .. Len(t) /\ t[p.n] = m
      BY <1>8, <1>11, <2>2
    <3>1. u[p.n] \in 1 .. Len(q) /\ q[u[p.n]] = m
      <4> HIDE DEF Hand
      <4> QED BY <1>3, <3>0, SMT
    <3>2. f[p] = x /\ x \in P /\ Here(x) /\ x.n = u[p.n]
      BY <1>2, <1>5, <1>10, <2>2, <3>1
    <3> HIDE DEF x
    <3>3. At(i, x, m) /\ Counts(i, x, m)
      BY <1>7, <3>1, <3>2 DEF Counts
    <3>4. ASSUME ~Setup[i].persistent, Rightful(i, x, m) PROVE Rightful(i, p, m)'
      <4>1. Med(i)!Key(d) \in {Med(i)!Key(Recipient(i, m)), Med(i)!Did(Recipient(i, m))}
        BY <1>1, <3>2, <3>4 DEF Rightful
      <4>2. d = Recipient(i, m)
        BY <4>1 DEF Med!Key, Med!Did
      <4>3. Holder(p)' = d
        BY <1>1, <1>4, <2>2 DEF Holder
      <4> QED BY <2>2, <4>2, <4>3 DEF Rightful, Recipient
    <3> QED BY <3>2, <3>3, <3>4 DEF Moved
  <2>3. CASE ~Here(p) /\ ~Hand(p)
    <3>1. f[p] = p
      BY <1>10, <2>3
    <3> HIDE DEF Here, Hand
    <3> QED BY <1>9, <1>11, <2>3, <3>1
  <2> QED BY <2>1, <2>2, <2>3
<1>12. ASSUME NEW p \in P, NEW x \in P, NEW m \in Requests, At(i, p, m)', At(i, x, m)', f[p] = f[x]
       PROVE  p = x
  <2>1. \A y \in P : /\ Here(y) /\ At(i, y, m)' => y.n \in 1 .. Len(l)
                     /\ Hand(y) /\ At(i, y, m)' => y.n \in 1 .. Len(t)
    BY <1>7, <1>8
  <2>2. \A n : LET y == Place("queue", k, n, 0) IN Here(y) /\ y.n = n
    BY DEF Place
  <2>3. CASE Here(p) /\ Here(x)
    <3>1. v[p.n] = v[x.n]
      BY <1>10, <1>12, <2>2, <2>3
    <3>2. p.n = x.n
      BY <1>3, <1>12, <2>1, <2>3, <3>1
    <3> QED BY <2>3, <3>2, SamePlace
  <2>4. CASE Hand(p) /\ Hand(x)
    <3>1. u[p.n] = u[x.n]
      BY <1>10, <1>12, <2>2, <2>4
    <3>2. p.n = x.n
      BY <1>3, <1>12, <2>1, <2>4, <3>1
    <3> QED BY <2>4, <3>2, SamePlace
  <2>5. ASSUME NEW y \in P, NEW z \in P, Here(y), Hand(z), At(i, y, m)', At(i, z, m)'
        PROVE  f[y] # f[z]
    <3>1. v[y.n] # u[z.n]
      BY <1>3, <2>1, <2>5
    <3> QED BY <1>10, <2>2, <2>5, <3>1
  <2> HIDE DEF Here, Hand
  <2>6. CASE ~Here(p) /\ ~Hand(p) /\ ~Here(x) /\ ~Hand(x)
    BY <1>10, <1>12, <2>6
  <2>7. ASSUME NEW y \in P, NEW z \in P, ~Here(y), ~Hand(y), Here(z) \/ Hand(z)
        PROVE  f[y] # f[z]
    BY <1>10, <2>2, <2>7
  <2> QED BY <1>12, <2>3, <2>4, <2>5, <2>6, <2>7
<1>13. Traced(i, f, {})
  BY <1>11, <1>12 DEF Traced
<1>14. Keeps(i)
  <2>1. discarded \subseteq discarded'
    BY <1>1
  <2>2. ASSUME NEW p \in P, NEW m \in Requests, At(i, p, m)
        PROVE  m \in discarded' \/ \E x \in P : At(i, x, m)'
    <3>1. CASE Here(p)
      <4>1. p.n \in 1 .. Len(q) /\ q[p.n] = m
        BY <1>7, <2>2, <3>1
      <4>2. CASE \E j \in 1 .. Len(t) : u[j] = p.n
        <5>1. PICK j \in 1 .. Len(t) : u[j] = p.n
          BY <4>2
        <5>2. t[j] = m /\ j \in Nat
          BY <1>3, <4>1, <5>1
        <5> QED BY <1>6, <1>8, <5>1, <5>2
      <4>3. CASE \E j \in 1 .. Len(l) : v[j] = p.n
        <5>1. PICK j \in 1 .. Len(l) : v[j] = p.n
          BY <4>3
        <5>2. l[j] = m /\ j \in Nat
          BY <1>3, <4>1, <5>1
        <5> QED BY <1>5, <1>7, <5>1, <5>2
      <4>4. CASE m \in old
        <5>1. m \in Med(i)!Range(q)
          BY <1>2, <4>1 DEF Med!Range
        <5>2. CASE m \notin Med(i)!Range(l)
          BY <1>1, <4>4, <5>1, <5>2
        <5>3. CASE m \in Med(i)!Range(l)
          <6>1. PICK j \in 1 .. Len(l) : l[j] = m
            BY <1>2, <5>3 DEF Med!Range
          <6>2. j \in Nat
            BY <6>1
          <6> QED BY <1>5, <1>7, <6>1, <6>2
        <5> QED BY <5>2, <5>3
      <4> QED BY <1>3, <4>1, <4>2, <4>3, <4>4
    <3>2. CASE Hand(p)
      BY <1>8, <2>2, <3>2
    <3>3. CASE ~Here(p) /\ ~Hand(p)
      <4> HIDE DEF Here, Hand
      <4> QED BY <1>9, <2>2, <3>3
    <3> QED BY <3>1, <3>2, <3>3
  <2> QED BY <2>1, <2>2 DEF Keeps
<1> QED
  BY <1>13, <1>14

LEMMA SendTraced ==
    ASSUME NEW i \in Routers, Basics(i), Basics(i)', NEW c \in Conns, Sends(i, c)
    PROVE  (\E f : Traced(i, f, {})) /\ Keeps(i)
<1> DEFINE P == Places(i)
<1>1. PICK item \in Med(i)!Item :
         /\ item.msgs = Pick(c)
         /\ \/ discarded' = discarded /\ Delivers(Who(c), [b \in Conns |-> Out(b)], item)
            \/ /\ discarded' = discarded \cup Med(i)!Range(Pick(c))
               /\ \A b \in Conns : Out(b)' = Out(b)
         /\ discarded' = discarded => \/ \E s \in Conns : Out(s)' = Append(Out(s), item)
                                      \/ Med(i)!Range(Pick(c)) \subseteq discarded
  BY DEF Sends
<1>2. /\ queue' = queue /\ received' = received /\ Pick(c)' = <<>>
      /\ \A b \in Conns \ {c} : Pick(b)' = Pick(b)
      /\ \A b \in Conns : Who(b)' = Who(b)
  BY DEF Sends
<1>3. discarded \subseteq discarded'
  BY <1>1
<1> DEFINE Hand(p) == p.kind = "picked" /\ p.of = c /\ p.j = 0
<1>4. ASSUME NEW p \in P, NEW m \in Requests, Hand(p)
      PROVE  ~At(i, p, m)' /\ (At(i, p, m) <=> p.n \in DOMAIN Pick(c) /\ Pick(c)[p.n] = m)
  <2>1. ~InPicked(p, m)' /\ (InPicked(p, m) <=> p.n \in DOMAIN Pick(c) /\ Pick(c)[p.n] = m)
    BY <1>2, <1>4 DEF InPicked
  <2> QED BY <1>4, <2>1, OneKind
<1>5. ASSUME NEW p \in P, NEW m \in Requests, p.kind # "out", ~Hand(p)
      PROVE  (At(i, p, m) <=> At(i, p, m)') /\ (At(i, p, m) => Moved(i, p, p, m))
  <2>1. CASE p.kind = "queue"
    BY <1>2, <2>1, QueueStays
  <2>2. CASE p.kind = "received"
    BY <1>2, <2>2, ReceivedStays
  <2>3. CASE p.kind = "picked"
    <3>1. CASE p.of # c
      BY <1>2, <2>3, <3>1, PickedStays
    <3>2. CASE p.of = c
      <4>1. ~InPicked(p, m) /\ ~InPicked(p, m)'
        BY <1>5, <2>3, <3>2 DEF InPicked
      <4> QED BY <2>3, <4>1, OneKind
    <3> QED BY <3>1, <3>2
  <2> QED BY <1>5, <2>1, <2>2, <2>3, PlaceIs
<1>6. CASE \A b \in Conns : Out(b)' = Out(b)
  <2>1. Med(i)!Range(Pick(c)) \subseteq discarded'
    BY <1>1, <1>3, <1>6, AppendGrows
  <2>2. ASSUME NEW p \in P, NEW m \in Requests
        PROVE  /\ At(i, p, m)' => Moved(i, p, p, m)
               /\ At(i, p, m) => At(i, p, m)' \/ m \in discarded'
    <3>1. CASE p.kind = "out"
      BY <1>2, <1>6, <3>1, OutStays
    <3>2. CASE Hand(p)
      <4>1. ~At(i, p, m)' /\ (At(i, p, m) => m \in Med(i)!Range(Pick(c)))
        BY <1>4, <3>2 DEF Med!Range
      <4> QED BY <2>1, <4>1
    <3>3. CASE p.kind # "out" /\ ~Hand(p)
      <4> HIDE DEF Hand
      <4> QED BY <1>5, <3>3
    <3> QED BY <3>1, <3>2, <3>3
  <2>3. \A p \in P : Same(i)[p] = p
    BY DEF Same
  <2>4. Traced(i, Same(i), {})
    BY <2>2, <2>3 DEF Traced
  <2> QED BY <1>3, <2>2, <2>4 DEF Keeps
<1>7. CASE ~ \A b \in Conns : Out(b)' = Out(b)
  <2>1. PICK s \in Conns : /\ Who(s) = Who(c) /\ Out(s)' = Append(Out(s), item)
                           /\ \A b \in Conns \ {s} : Out(b)' = Out(b)
    <3>1. \A b \in Conns : [x \in Conns |-> Out(x)][b] = Out(b)
      OBVIOUS
    <3> QED BY <1>1, <1>7, <3>1 DEF Delivers
  <2>2. PICK l, t : l \in Nat /\ l = Len(Out(s)) + 1 /\ t = Pick(c)
    BY <2>1, OutGrown
  <2>3. /\ DOMAIN Out(s)' = 1 .. l /\ Out(s)'[l] = item /\ l \in 1 .. l
        /\ DOMAIN Out(s) = 1 .. l - 1 /\ l \notin 1 .. l - 1
        /\ item.msgs = t /\ DOMAIN t = 1 .. Len(t) /\ Len(t) \in Nat
    <3>1. /\ Len(Out(s)) \in Nat /\ DOMAIN Out(s) = 1 .. Len(Out(s))
          /\ DOMAIN Out(s)' = 1 .. Len(Out(s)) + 1 /\ Out(s)'[Len(Out(s)) + 1] = item
          /\ item.msgs \in Seq(Requests)
      BY <2>1, OutGrown
    <3>2. item.msgs = t
      BY <1>1, <2>2
    <3>3. DOMAIN t = 1 .. Len(t) /\ Len(t) \in Nat
      BY <3>1, <3>2, SeqElements
    <3> QED BY <2>2, <3>1, <3>2, <3>3
  <2> DEFINE Last(p) == p.kind = "out" /\ p.of = s /\ p.n = l
             f == [p \in P |-> IF Last(p) THEN Place("picked", c, p.j, 0) ELSE p]
  <2>4. ASSUME NEW j \in Nat
        PROVE  /\ LET x == Place("picked", c, j, 0) IN x \in P /\ Hand(x) /\ x.n = j
               /\ LET x == Place("out", s, l, j) IN x \in P /\ Last(x) /\ x.j = j
    BY <2>2, PlaceMade
  <2>5. ASSUME NEW p \in P, NEW m \in Requests, Last(p)
        PROVE  /\ ~At(i, p, m)
               /\ At(i, p, m)' <=> p.j \in DOMAIN t /\ t[p.j] = m
    <3>1. ~InOut(p, m)
      BY <2>3, <2>5 DEF InOut
    <3>2. InOut(p, m)' <=> p.j \in DOMAIN t /\ t[p.j] = m
      BY <2>3, <2>5 DEF InOut
    <3> QED BY <2>5, <3>1, <3>2, OneKind
  <2>6. ASSUME NEW p \in P, NEW m \in Requests, ~Last(p), ~Hand(p)
        PROVE  (At(i, p, m) <=> At(i, p, m)') /\ (At(i, p, m) => Moved(i, p, p, m))
    <3>1. CASE p.kind = "out" /\ p.of # s
      BY <1>2, <2>1, <3>1, OutStays
    <3>2. CASE p.kind = "out" /\ p.of = s
      <4>1. At(i, p, m) => At(i, p, m)'
        BY <2>1, <3>2, OutKept
      <4>2. At(i, p, m)' => At(i, p, m)
        BY <2>1, <2>2, <2>6, <3>2, OutKept
      <4>3. Who(p.of)' = Who(p.of)
        BY <1>2, <3>2
      <4> QED BY <4>1, <4>2, <4>3, Stays
    <3>3. CASE p.kind # "out"
      BY <1>5, <2>6, <3>3
    <3> QED BY <3>1, <3>2, <3>3
  <2>7. \A p \in P : /\ Last(p) => f[p] = Place("picked", c, p.j, 0)
                     /\ ~Last(p) => f[p] = p
    OBVIOUS
  <2>8. \A p \in P : ~(Last(p) /\ Hand(p))
    OBVIOUS
  <2> HIDE DEF f
  <2>9. ASSUME NEW p \in P, NEW m \in Requests, At(i, p, m)'
        PROVE  Moved(i, f[p], p, m)
    <3>1. CASE Last(p)
      <4> DEFINE x == Place("picked", c, p.j, 0)
      <4>1. p.j \in DOMAIN t /\ t[p.j] = m /\ p.j \in Nat
        BY <2>5, <2>9, <3>1, PlaceIs
      <4>2. x \in P /\ Hand(x) /\ x.n = p.j /\ f[p] = x
        BY <2>4, <2>7, <3>1, <4>1
      <4> HIDE DEF x
      <4>3. At(i, x, m)
        BY <1>4, <2>2, <4>1, <4>2
      <4>4. Holder(x) = Who(c) /\ Holder(p)' = Who(c) /\ p.kind # "queue" /\ x.kind # "queue"
        BY <1>2, <2>1, <3>1, <4>2 DEF Holder
      <4>5. (Counts(i, p, m)' => Counts(i, x, m)) /\ (Rightful(i, x, m) => Rightful(i, p, m)')
        BY <4>4 DEF Counts, Rightful, Recipient
      <4> QED BY <4>2, <4>3, <4>5 DEF Moved
    <3>2. CASE Hand(p)
      BY <1>4, <2>9, <3>2
    <3>3. CASE ~Last(p) /\ ~Hand(p)
      <4> HIDE DEF Last, Hand
      <4> QED BY <2>6, <2>7, <2>9, <3>3
    <3> QED BY <3>1, <3>2, <3>3
  <2>10. ASSUME NEW p \in P, NEW x \in P, NEW m \in Requests, At(i, p, m)', At(i, x, m)', f[p] = f[x]
         PROVE  p = x
    <3>1. \A j : LET y == Place("picked", c, j, 0) IN Hand(y) /\ y.n = j
      BY DEF Place
    <3>2. ~Hand(p) /\ ~Hand(x)
      BY <1>4, <2>10
    <3>3. CASE Last(p) /\ Last(x)
      <4>1. p.j = x.j
        BY <2>7, <2>10, <3>1, <3>3
      <4> QED BY <3>3, <4>1, SamePlace
    <3> HIDE DEF Last, Hand
    <3>4. CASE ~Last(p) /\ ~Last(x)
      BY <2>7, <2>10, <3>4
    <3>5. CASE (Last(p) /\ ~Last(x)) \/ (~Last(p) /\ Last(x))
      BY <2>7, <2>10, <3>1, <3>2, <3>5
    <3> QED BY <3>3, <3>4, <3>5
  <2>11. Traced(i, f, {})
    BY <2>9, <2>10 DEF Traced
  <2>12. ASSUME NEW p \in P, NEW m \in Requests, At(i, p, m)
         PROVE  \E x \in P : At(i, x, m)'
    <3>1. CASE Hand(p)
      <4>1. p.n \in DOMAIN t /\ t[p.n] = m /\ p.n \in Nat
        BY <1>4, <2>2, <2>12, <3>1, PlaceIs
      <4> QED BY <2>4, <2>5, <4>1
    <3>2. CASE Last(p)
      BY <2>5, <2>12, <3>2
    <3>3. CASE ~Last(p) /\ ~Hand(p)
      <4> HIDE DEF Last, Hand
      <4> QED BY <2>6, <2>12, <3>3
    <3> QED BY <3>1, <3>2, <3>3
  <2> QED BY <1>3, <2>11, <2>12 DEF Keeps
<1> QED
  BY <1>6, <1>7

-----------------------------------------------------------------------------
(* The steps together.                                                       *)

\* A step that leaves the requests' tasks where they were or moves one on.
LEMMA RequestsSame ==
    ASSUME NEW i \in Routers, forward' = forward \/ Progress(i)
    PROVE  Arrives(i) /\ \A r \in Requests : Unstored(r)' => Unstored(r)
<1>1. forward' = forward => \A r \in Requests : /\ Stored(r)' <=> Stored(r)
                                                /\ Unstored(r)' <=> Unstored(r)
  BY DEF Stored, Unstored
<1>2. forward' = forward => Arrives(i)
  BY <1>1 DEF Arrives
<1>3. Progress(i) => Arrives(i)
  BY DEF Progress, Arrives
<1> QED
  BY <1>1, <1>2, <1>3 DEF Progress

LEMMA QuietKept ==
    ASSUME NEW i \in Routers, Inv(i), Basics(i)', QuietLines(i), discarded' = discarded,
           forward' = forward \/ Progress(i)
    PROVE  Inv(i)'
<1>1. Basics(i)
  BY DEF Inv
<1>2. Traced(i, Same(i), {}) /\ Keeps(i)
  BY <1>1, QuietTraced
<1>3. Arrives(i) /\ \A r \in Requests : Unstored(r)' => Unstored(r)
  BY RequestsSame
<1> QED
  BY <1>2, <1>3, InvKept

LEMMA InitStep ==
    ASSUME NEW i \in Routers, Med(i)!Init
    PROVE  Inv(i)
<1> USE DEF Med!Init, Agents
<1>1. TypeOK(i)
  <2>1. conn \in [Conns -> Med(i)!Connection]
    <3>1. /\ <<>> \in Seq(Med(i)!Request) /\ <<>> \in Seq(Med(i)!Item) /\ <<>> \in Seq(Requests)
      OBVIOUS
    <3> QED BY <3>1 DEF Med!Connection
  <2>2. forward \in [Requests -> Med(i)!Forward]
    BY DEF Med!Forward
  <2>3. queue \in [Names(i) -> Seq(Requests)] /\ received \in [Agents(i) -> Seq(Requests)]
    <3>1. <<>> \in Seq(Requests)
      OBVIOUS
    <3> QED BY <3>1 DEF Names
  <2> QED BY <2>1, <2>2, <2>3 DEF TypeOK, Med!TypeOK, Names
<1>2. Keyed(i)
  BY SetupFacts DEF Keyed
<1>3. Connected(i)
  BY SetupFacts DEF Connected
<1>4. Routed(i)
  <2>1. Names(i) # {}
    BY DEF Names, Med!QueueNames
  <2> QED BY <2>1 DEF Routed
<1>5. ASSUME NEW p \in Places(i), NEW r \in Requests
      PROVE  ~At(i, p, r)
  <2>1. ~InQueue(i, p, r)
    BY DEF InQueue, Names
  <2>2. ~InOut(p, r)
    BY DEF InOut, Out
  <2>3. ~InPicked(p, r)
    BY DEF InPicked, Pick
  <2>4. ~InReceived(i, p, r)
    BY DEF InReceived
  <2> QED BY <2>1, <2>2, <2>3, <2>4 DEF At
<1>6. Once(i)
  BY <1>5 DEF Once
<1>7. Addressed(i)
  BY <1>5 DEF Addressed
<1>8. Kept(i)
  BY DEF Kept, Stored
<1> QED
  BY <1>1, <1>2, <1>3, <1>4, <1>6, <1>7, <1>8 DEF Inv, Basics

\* One step per action of the mediator and of the agents.
LEMMA StepKept ==
    ASSUME NEW i \in Routers, Inv(i), Med(i)!Next
    PROVE  Inv(i)'
<1>0. Basics(i)
  BY DEF Inv
<1>1. ASSUME NEW c \in Conns, NEW d \in Agents(i), Med(i)!Connect(c, d)
      PROVE  Inv(i)'
  BY <1>0, <1>1, ConnectStep, QuietKept
<1>2. ASSUME NEW c \in Conns,
             Med(i)!Break(c) \/ Med(i)!ConnectionEnds(c) \/ Med(i)!AgentTimesOut(c)
               \/ Med(i)!AgentRemovesKey(c)
      PROVE  Inv(i)'
  BY <1>0, <1>2, EndSteps, QuietKept
<1>3. ASSUME NEW c \in Conns,
             \/ Med(i)!HandleMediateRequest(c) \/ Med(i)!HandleKeylistAdd(c)
             \/ Med(i)!HandleKeylistRemove(c) \/ Med(i)!HandleStatusRequest(c)
      PROVE  Inv(i)'
  BY <1>0, <1>3, HandleSteps, QuietKept
<1>4. ASSUME NEW c \in Conns, Med(i)!DequeueBatch(c)
      PROVE  Inv(i)'
  <2>1. Basics(i)'
    BY <1>0, <1>4, DequeueStep
  <2>2. CASE QuietLines(i) /\ UNCHANGED <<forward, discarded>>
    BY <2>1, <2>2, QuietKept
  <2>3. CASE Dequeues(i, c)
    <3>1. (\E f : Traced(i, f, {})) /\ Keeps(i)
      BY <1>0, <2>1, <2>3, DequeueTraced
    <3>2. forward' = forward
      BY <2>3 DEF Dequeues
    <3>3. Arrives(i) /\ \A r \in Requests : Unstored(r)' => Unstored(r)
      BY <3>2, RequestsSame
    <3> QED BY <2>1, <3>1, <3>3, InvKept
  <2> QED BY <1>0, <1>4, <2>2, <2>3, DequeueStep
<1>5. ASSUME NEW c \in Conns, Med(i)!SendBatch(c)
      PROVE  Inv(i)'
  <2>1. Basics(i)' /\ Sends(i, c)
    BY <1>0, <1>5, SendBatchStep
  <2>2. (\E f : Traced(i, f, {})) /\ Keeps(i)
    BY <1>0, <2>1, SendTraced
  <2>3. forward' = forward
    BY <2>1 DEF Sends
  <2>4. Arrives(i) /\ \A r \in Requests : Unstored(r)' => Unstored(r)
    BY <2>3, RequestsSame
  <2> QED BY <2>1, <2>2, <2>4, InvKept
<1>6. ASSUME NEW c \in Conns, Med(i)!AgentReads(c)
      PROVE  Inv(i)'
  <2>1. Basics(i)' /\ Reads(i, c)
    BY <1>0, <1>6, ReadStep
  <2>2. (\E f : Traced(i, f, {})) /\ Keeps(i)
    BY <1>0, <2>1, ReadTraced
  <2>3. forward' = forward
    BY <2>1 DEF Reads
  <2>4. Arrives(i) /\ \A r \in Requests : Unstored(r)' => Unstored(r)
    BY <2>3, RequestsSame
  <2> QED BY <2>1, <2>2, <2>4, InvKept
<1>7. ASSUME NEW r \in Requests,
             \/ Med(i)!CheckSeen(r) \/ Med(i)!MarkSeen(r) \/ Med(i)!Resolve(r)
             \/ Med(i)!CheckOnline(r) \/ Med(i)!StorageKeys(r) \/ Med(i)!Answer(r)
      PROVE  Inv(i)'
  BY <1>0, <1>7, QuietRequestSteps, QuietKept
<1>8. ASSUME NEW r \in Requests, Med(i)!PushToOwner(r) \/ Med(i)!PushToUser(r)
      PROVE  Inv(i)'
  <2>1. Basics(i)' /\ Pushes(i, r)
    BY <1>0, <1>8, PushSteps
  <2>2. /\ \E new : Traced(i, Same(i), new)
        /\ Keeps(i) /\ Arrives(i) /\ \A s \in Requests : Unstored(s)' => Unstored(s)
    BY <1>0, <2>1, PushTraced
  <2> QED BY <2>1, <2>2, InvKept
<1>9. ASSUME NEW r \in Requests, Med(i)!Store(r)
      PROVE  Inv(i)'
  <2>1. Basics(i)' /\ Stores(i, r)
    BY <1>0, <1>9, StoreStep
  <2>2. (\E f, new : Traced(i, f, new)) /\ Keeps(i) /\ Arrives(i)
    BY <1>0, <2>1, StoreTraced
  <2>3. \A s \in Requests : Unstored(s)' => Unstored(s)
    BY <2>1 DEF Stores
  <2> QED BY <2>1, <2>2, <2>3, InvKept
<1>10. ASSUME NEW r \in Requests, Med(i)!Expire(r)
       PROVE  Inv(i)'
  BY <1>0, <1>10, ExpireStep, QuietKept
<1>11. ASSUME Med(i)!Restart
       PROVE  Inv(i)'
  <2>1. Basics(i)' /\ Restarts(i)
    BY <1>0, <1>11, RestartStep
  <2>2. Traced(i, Same(i), {}) /\ Keeps(i)
    BY <1>0, <2>1, RestartTraced
  <2>3. Arrives(i) /\ \A r \in Requests : Unstored(r)' => Unstored(r)
    BY <2>1, RequestsSame DEF Restarts
  <2> QED BY <2>1, <2>2, <2>3, InvKept
<1> QED
  BY <1>1, <1>2, <1>3, <1>4, <1>5, <1>6, <1>7, <1>8, <1>9, <1>10, <1>11
  DEF Med!Next, Med!MediatorStep, Med!HandleForward, Agents

LEMMA StutterKept ==
    ASSUME NEW i \in Routers, Inv(i), UNCHANGED mediatorVars
    PROVE  Inv(i)'
<1> USE DEF mediatorVars
<1>1. Basics(i)
  BY DEF Inv
<1>2. TypeOK(i)'
  BY <1>1 DEF Basics, TypeOK, Med!TypeOK, Med!Range
<1>3. Keyed(i)' /\ Connected(i)' /\ Routed(i)'
  BY <1>1, RoutedKept DEF Basics, Keyed, Connected
<1>4. QuietLines(i) /\ discarded' = discarded /\ forward' = forward
  BY DEF QuietLines, Who, Out, Pick
<1> QED
  BY <1>2, <1>3, <1>4, QuietKept DEF Basics

-----------------------------------------------------------------------------
(* What the invariant says of the system.                                    *)

\* Where the messages of a kind are.
LEMMA PlacesOfKinds ==
    ASSUME NEW i \in Routers, Basics(i), NEW p \in Places(i), NEW r, At(i, p, r)
    PROVE  /\ p.kind = "queue" => r \in Med(i)!Queued
           /\ p.kind = "out" => r \in Med(i)!InFlight \cup Med(i)!LostOnWire
           /\ p.kind = "picked" => r \in Med(i)!PickedUp
           /\ p.kind = "received" => r \in Med(i)!Received
<1>1. ASSUME p.kind = "queue" PROVE r \in Med(i)!Queued
  <2>1. InQueue(i, p, r)
    BY <1>1, OneKind
  <2> QED BY <2>1 DEF InQueue, Names, Med!Queued, Med!Range
<1>2. ASSUME p.kind = "out" PROVE r \in Med(i)!InFlight \cup Med(i)!LostOnWire
  <2>1. InOut(p, r)
    BY <1>2, OneKind
  <2>2. PICK c \in Conns : c = p.of
    BY <2>1 DEF InOut
  <2>3. PICK item : item \in Med(i)!Range(Out(c)) /\ r \in Med(i)!Range(item.msgs)
    BY <2>1, <2>2 DEF InOut, Med!Range
  <2>4. \A cs : c \in cs => r \in Med(i)!Sent(cs)
    BY <2>3 DEF Med!Sent, Out
  <2>5. c \in {b \in Conns : conn[b].up} \/ c \in {b \in Conns : ~conn[b].up}
    OBVIOUS
  <2> QED BY <2>4, <2>5 DEF Med!InFlight, Med!LostOnWire
<1>3. ASSUME p.kind = "picked" PROVE r \in Med(i)!PickedUp
  <2>1. InPicked(p, r)
    BY <1>3, OneKind
  <2> QED BY <2>1 DEF InPicked, Pick, Med!PickedUp, Med!Range
<1>4. ASSUME p.kind = "received" PROVE r \in Med(i)!Received
  <2>1. InReceived(i, p, r)
    BY <1>4, OneKind
  <2> QED BY <2>1 DEF InReceived, Agents, Med!Received, Med!Range
<1> QED
  BY <1>1, <1>2, <1>3, <1>4

LEMMA AccountedFor ==
    ASSUME NEW i \in Routers, Inv(i)
    PROVE  Med(i)!AcceptedIsAccountedFor
<1> SUFFICES ASSUME NEW r \in Requests, Med(i)!Accepted(r), Recipient(i, r) \notin Setup[i].removers
             PROVE  r \in Med(i)!Queued \cup Med(i)!InFlight \cup Med(i)!PickedUp
                          \cup Med(i)!Received \cup Med(i)!LostOnWire \cup discarded
  BY DEF Med!AcceptedIsAccountedFor, Recipient
<1>1. Stored(r)
  BY DEF Med!Accepted, Stored
<1>2. r \in discarded \/ \E p \in Places(i) : At(i, p, r)
  BY <1>1 DEF Inv, Kept
<1>3. ASSUME NEW p \in Places(i), At(i, p, r)
      PROVE  \/ r \in Med(i)!Queued \/ r \in Med(i)!InFlight \cup Med(i)!LostOnWire
             \/ r \in Med(i)!PickedUp \/ r \in Med(i)!Received
  BY <1>3, PlaceIs, PlacesOfKinds DEF Inv
<1> QED
  BY <1>2, <1>3

LEMMA Once1 ==
    ASSUME NEW i \in Routers, Inv(i)
    PROVE  Med(i)!ReceivedOnce
<1>1. Basics(i) /\ Once(i)
  BY DEF Inv
<1>2. ASSUME NEW d \in Agents(i), d \notin Setup[i].websocketUsers,
             NEW a \in DOMAIN received[d], NEW b \in DOMAIN received[d],
             received[d][a] = received[d][b]
      PROVE  a = b
  <2> DEFINE r == received[d][a]
             p == Place("received", d, a, 0)
             q == Place("received", d, b, 0)
  <2>1. received[d] \in Seq(Requests)
    BY <1>1, Types DEF Basics
  <2>2. a \in Nat /\ b \in Nat /\ r \in Requests
    BY <2>1
  <2>3. /\ p \in Places(i) /\ p.kind = "received" /\ p.of = d /\ p.n = a /\ p.j = 0
        /\ q \in Places(i) /\ q.kind = "received" /\ q.of = d /\ q.n = b /\ q.j = 0
    BY <2>2, PlaceMade
  <2> HIDE DEF p, q
  <2>4. InReceived(i, p, r) /\ InReceived(i, q, r)
    BY <1>2, <2>3 DEF InReceived
  <2>5. At(i, p, r) /\ At(i, q, r)
    BY <2>4 DEF At
  <2>6. Counts(i, p, r) /\ Counts(i, q, r)
    BY <1>2, <2>3 DEF Counts, Holder
  <2> HIDE DEF r
  <2>7. p = q
    BY <1>1, <2>2, <2>3, <2>5, <2>6 DEF Once
  <2> QED BY <2>3, <2>7
<1>3. \A d \in Agents(i) \ Setup[i].websocketUsers : Med(i)!IsInjective(received[d])
  BY <1>2 DEF Med!IsInjective
<1>4. ASSUME NEW r \in Med(i)!Received \cup Med(i)!PickedUp, r \in Med(i)!Queued
      PROVE  Recipient(i, r) \in Setup[i].websocketUsers
  <2>1. PICK k, n : k \in Names(i) /\ n \in DOMAIN queue[k] /\ queue[k][n] = r
    BY <1>4 DEF Med!Queued, Med!Range, Names
  <2>2. queue[k] \in Seq(Requests)
    BY <1>1, <2>1, Types DEF Basics
  <2>3. n \in Nat /\ r \in Requests
    BY <2>1, <2>2
  <2>4. PICK q \in Places(i) : q.kind = "queue" /\ At(i, q, r)
    <3> DEFINE x == Place("queue", k, n, 0)
    <3>1. x \in Places(i) /\ x.kind = "queue" /\ x.of = k /\ x.n = n /\ x.j = 0
      BY <2>1, <2>3, PlaceMade
    <3> HIDE DEF x
    <3>2. InQueue(i, x, r)
      BY <2>1, <3>1 DEF InQueue
    <3> QED BY <3>1, <3>2 DEF At
  <2>5. PICK p \in Places(i) : p.kind # "queue" /\ At(i, p, r)
    <3>1. CASE r \in Med(i)!Received
      <4>1. PICK d, a : d \in Agents(i) /\ a \in DOMAIN received[d] /\ received[d][a] = r
        BY <3>1 DEF Med!Received, Med!Range, Agents
      <4>2. received[d] \in Seq(Requests)
        BY <1>1, <4>1, Types DEF Basics
      <4>3. a \in Nat
        BY <4>1, <4>2
      <4> DEFINE x == Place("received", d, a, 0)
      <4>4. x \in Places(i) /\ x.kind = "received" /\ x.of = d /\ x.n = a /\ x.j = 0
        BY <4>1, <4>3, PlaceMade
      <4> HIDE DEF x
      <4>5. InReceived(i, x, r)
        BY <4>1, <4>4 DEF InReceived
      <4> QED BY <4>4, <4>5 DEF At
    <3>2. CASE r \in Med(i)!PickedUp
      <4>1. PICK c, a : c \in Conns /\ a \in DOMAIN Pick(c) /\ Pick(c)[a] = r
        BY <3>2 DEF Med!PickedUp, Med!Range, Pick
      <4>2. Pick(c) \in Seq(Requests)
        BY <1>1, <4>1, ConnTypes DEF Basics, Pick
      <4> HIDE DEF Pick
      <4>3. a \in Nat
        BY <4>1, <4>2
      <4> DEFINE x == Place("picked", c, a, 0)
      <4>4. x \in Places(i) /\ x.kind = "picked" /\ x.of = c /\ x.n = a /\ x.j = 0
        BY <4>1, <4>3, PlaceMade
      <4> HIDE DEF x
      <4>5. InPicked(x, r)
        BY <4>1, <4>4 DEF InPicked
      <4> QED BY <4>4, <4>5 DEF At
    <3> QED BY <3>1, <3>2
  <2>6. Recipient(i, r) \in Setup[i].websocketUsers \/ (Counts(i, p, r) /\ Counts(i, q, r))
    BY DEF Counts
  <2> QED BY <1>1, <2>3, <2>4, <2>5, <2>6 DEF Once
<1> QED
  BY <1>3, <1>4 DEF Med!ReceivedOnce, Agents, Recipient

LEMMA Addressed1 ==
    ASSUME NEW i \in Routers, Inv(i), ~Setup[i].persistent
    PROVE  Med(i)!AddressedOnly
<1> SUFFICES ASSUME NEW d \in Agents(i), NEW a \in DOMAIN received[d]
             PROVE  Recipient(i, received[d][a]) = d
  BY DEF Med!AddressedOnly, Agents, Recipient
<1> DEFINE r == received[d][a]
           p == Place("received", d, a, 0)
<1>1. received[d] \in Seq(Requests)
  BY Types DEF Inv, Basics
<1>2. a \in Nat /\ r \in Requests
  BY <1>1
<1>3. p \in Places(i) /\ p.kind = "received" /\ p.of = d /\ p.n = a /\ p.j = 0
  BY <1>2, PlaceMade
<1> HIDE DEF p
<1>4. InReceived(i, p, r)
  BY <1>3 DEF InReceived
<1>5. At(i, p, r)
  BY <1>4 DEF At
<1> HIDE DEF r
<1>6. Rightful(i, p, r)
  BY <1>2, <1>3, <1>5 DEF Inv, Addressed
<1>7. d = Recipient(i, r)
  BY <1>3, <1>6 DEF Rightful, Holder
<1> QED
  BY <1>7 DEF r

-----------------------------------------------------------------------------
(* The theorems.                                                             *)

(* The inductive invariant: that of the mediator whose behaviour this is.    *)
MediatorInv == \E i \in Routers : router = i /\ Inv(i)

(* The shapes of the router's maps, who is registered and connected with     *)
(* which key, and where the message of every request is, in every reachable  *)
(* state (RouterState, route_message, handle_forward, the pickup handlers).  *)
THEOREM MediatorInvariant == MediatorsSpec => []MediatorInv
<1>1. MediatorsInit => MediatorInv
  BY InitStep DEF MediatorsInit, MediatorInv
<1>2. ASSUME MediatorInv, [MediatorsNext]_<<router, mediatorVars>>
      PROVE  MediatorInv'
  <2>1. PICK i \in Routers : router = i /\ Inv(i)
    BY <1>2 DEF MediatorInv
  <2>2. CASE MediatorsNext
    <3>1. router' = i /\ Med(i)!Next
      BY <2>1, <2>2 DEF MediatorsNext
    <3>2. Inv(i)'
      BY <2>1, <3>1, StepKept
    <3> QED BY <3>1, <3>2 DEF MediatorInv
  <2>3. CASE UNCHANGED <<router, mediatorVars>>
    <3>1. router' = i /\ UNCHANGED mediatorVars
      BY <2>1, <2>3
    <3>2. Inv(i)'
      BY <2>1, <3>1, StutterKept
    <3> QED BY <3>1, <3>2 DEF MediatorInv
  <2> QED BY <1>2, <2>2, <2>3
<1> QED
  BY <1>1, <1>2, PTL DEF MediatorsSpec

(* Whatever sessions and connections come and go between two accesses of     *)
(* handle_forward, and whatever a restart takes away, a message that was     *)
(* accepted is in a queue, on its way, processed or knowingly dropped.       *)
THEOREM AcceptedMessages == MediatorsSpec => []AcceptedIsAccountedFor
<1>1. MediatorInv => AcceptedIsAccountedFor
  BY AccountedFor DEF MediatorInv, AcceptedIsAccountedFor
<1> QED
  BY <1>1, MediatorInvariant, PTL

(* An agent processes a message once: handle_forward pushes it or queues it, *)
(* and a pickup takes what it hands out from the queue.                      *)
THEOREM MessagesOnce == MediatorsSpec => []ReceivedOnce
<1>1. MediatorInv => ReceivedOnce
  BY Once1 DEF MediatorInv, ReceivedOnce
<1> QED
  BY <1>1, MediatorInvariant, PTL

(* With stores in memory an agent processes messages for itself only.        *)
THEOREM MessagesAddressed == MediatorsSpec => []AddressedOnly
<1>1. MediatorInv => AddressedOnly
  BY Addressed1 DEF MediatorInv, AddressedOnly
<1> QED
  BY <1>1, MediatorInvariant, PTL

-----------------------------------------------------------------------------
(* Vouchers and batches: the types.                                          *)

Job == [step : {"store", "confirm", "tell"}, order : Orders \cup {None}, voucher : Voucher]
Check == [order : Orders, tx : Transfers, amount : Nat, how : {"transfer", "overtaken"}]
SigRec == [root : Store, nonce : Nonces]
Call == [step : {"built", "signed", "landed"}, kind : {"batch", "optimistic"},
         root : Store, sig : SigRec \cup {None}, nonce : Nat \cup {None}]
EscrowRec == [open : BOOLEAN, root : Store, amount : {Total(st) : st \in Store} \cup {0},
              kind : {"batch", "optimistic"}, disputed : BOOLEAN]
Order == [status : {"none", "pending", "confirmed"}, amount : Amounts \cup {0},
          seq : Seqs \cup {0},
          proof : {None} \cup
              [how : {"voucher", "printed", "transfer", "overtaken"}, amount : Nat]]

Typed ==
    /\ signed \subseteq Voucher /\ buyerStore \in Store /\ batchSigs \subseteq SigRec
    /\ collected \in Store
    /\ orders \in [Orders -> Order]
    /\ check # None => check \in Check
    /\ job \in [Workers -> {None} \cup Job]
    /\ call \in [Calls -> {None} \cup Call]
    /\ channel.nonce \in Nat
    /\ escrow \in [Nonces -> EscrowRec] /\ records = [n \in Nonces |-> records[n]]

LEMMA InitTyped == Init => Typed
<1> USE SettlementAssumption
<1> QED
  BY SMT DEF Init, Typed, Store, Order, NoOrder, Workers, SigRec, EscrowRec, NoEscrow

LEMMA TypedStep == ASSUME Typed, [Next]_vars PROVE Typed'
<1> USE SettlementAssumption
<1>0. Amounts \subseteq Nat /\ Seqs \subseteq Nat
  OBVIOUS
<1>1. CASE UNCHANGED vars
  BY <1>1 DEF Typed, vars, buyer, receiving, verifying, settling, chain
<1>2. ASSUME BuyerStep PROVE Typed'
  <2>1. \A s \in Seqs, a \in Amounts : SignVoucher(s, a) => Typed'
    BY DEF SignVoucher, Typed, Voucher, Store, receiving, verifying, settling, chain
  <2>2. \A n \in Nonces : SignSettlement(n) => Typed'
    BY DEF SignSettlement, Typed, SigRec, receiving, verifying, settling, chain
  <2>a. \A n \in Nonces, b \in BOOLEAN : [escrow[n] EXCEPT !.disputed = b] \in EscrowRec
    <3>1. \A n \in Nonces : escrow[n] \in EscrowRec
      BY DEF Typed
    <3> QED
      BY <3>1 DEF EscrowRec
  <2>3. \A n \in Nonces : Dispute(n) => Typed'
    BY <2>a, ZenonT(40) DEF Dispute, Typed, buyer, receiving, verifying, settling
  <2>4. \A n \in Nonces, s \in Seqs : ResolveDispute(n, s) => Typed'
    BY <2>a, ZenonT(40) DEF ResolveDispute, Typed, buyer, receiving, verifying, settling
  <2>5. \A o \in Orders \cup {None}, v \in Voucher : SendVoucher(o, v) => Typed'
    BY DEF SendVoucher, Typed, buyer, verifying, settling, chain
  <2> QED
    BY <1>2, <2>1, <2>2, <2>3, <2>4, <2>5 DEF BuyerStep, Pay
<1>c. ASSUME NEW o \in Orders, NEW seq \in Seqs \cup {0},
             NEW how \in {"voucher", "printed", "transfer", "overtaken"}, NEW a \in Nat
      PROVE  Confirmed(o, seq, By(how, a)) \in [Orders -> Order]
  BY DEF Typed, Confirmed, By, Order
<1>3. ASSUME OrderStep PROVE Typed'
  <2>1. \A a \in Amounts : Pending(a) \in Order
    BY <1>0 DEF Pending, Order
  <2>a. check # None => [check EXCEPT !.how = "overtaken"] \in Check
    BY DEF Typed, Check
  <2>2. \A o \in Orders, a \in Amounts :
           CreateOrder(o, a) \/ GeneratePaymentQr(o, a) => Typed'
    BY <2>1, <2>a DEF CreateOrder, GeneratePaymentQr, Typed, buyer, receiving, verifying, settling, chain
  <2>3. \A o \in Orders : QrPaymentNotify(o) => Typed'
    BY DEF QrPaymentNotify, Typed, buyer, verifying, settling, chain
  <2>4. \A o \in Orders, tx \in Transfers : LookUpTransfer(o, tx) => Typed'
    BY <1>0 DEF LookUpTransfer, Typed, Check, Order, buyer, receiving, settling, chain
  <2>5. ConfirmByTransfer => Typed'
    <3> SUFFICES ASSUME ConfirmByTransfer PROVE Typed'
      OBVIOUS
    <3>1. /\ check.order \in Orders /\ check.tx \in Transfers
          /\ check.how \in {"transfer", "overtaken"}
      BY DEF ConfirmByTransfer, Typed, Check
    <3>2. orders[check.order].seq \in Seqs \cup {0} /\ Received[check.tx] \in Nat
      BY <3>1 DEF Typed, Order
    <3>3. orders' \in [Orders -> Order]
      BY <1>c, <3>1, <3>2 DEF ConfirmByTransfer
    <3> QED
      BY <3>3 DEF ConfirmByTransfer, Typed, buyer, receiving, settling, chain
  <2>6. RefuseTransfer => Typed'
    BY DEF RefuseTransfer, Typed, buyer, receiving, settling, chain
  <2>7. \A o \in Orders, p \in Proof : VerifyVoucher(o, p) => Typed'
    <3> SUFFICES ASSUME NEW o \in Orders, NEW p \in Proof, VerifyVoucher(o, p) PROVE Typed'
      OBVIOUS
    <3>1. p.voucher.seq \in Seqs /\ p.voucher.amount \in Nat
      BY <1>0 DEF Proof, Voucher
    <3>2. orders' \in [Orders -> Order]
      BY <1>c, <3>1 DEF VerifyVoucher, Typed
    <3> QED
      BY <3>2 DEF VerifyVoucher, Typed, buyer, receiving, settling, chain
  <2> QED
    BY <1>3, <2>2, <2>3, <2>4, <2>5, <2>6, <2>7 DEF OrderStep
<1>4. ASSUME ReceiveStep PROVE Typed'
  <2>1. \A w \in Workers, o \in Orders \cup {None}, v \in Voucher : TakeVoucher(w, o, v) => Typed'
    BY DEF TakeVoucher, Typed, Job, buyer, verifying, settling, chain
  <2>2. \A w \in Workers : StoreVoucher(w) => Typed'
    <3> SUFFICES ASSUME NEW w \in Workers, StoreVoucher(w) PROVE Typed'
      OBVIOUS
    <3>1. job[w] \in Job
      BY DEF StoreVoucher, Typed
    <3>2. AfterStore(w) \in {None} \cup Job
      BY <3>1 DEF AfterStore, Job
    <3>3. collected' \in Store
      BY <3>1 DEF StoreVoucher, Typed, Job, Voucher, Store
    <3> QED
      BY <3>2, <3>3 DEF StoreVoucher, Typed, buyer, verifying, settling, chain
  <2>3. \A w \in Workers : ConfirmByVoucher(w) => Typed'
    <3> SUFFICES ASSUME NEW w \in Workers, ConfirmByVoucher(w) PROVE Typed'
      OBVIOUS
    <3>1. job[w] \in Job
      BY DEF ConfirmByVoucher, Typed
    <3>2. job' \in [Workers -> {None} \cup Job]
      BY <3>1 DEF ConfirmByVoucher, Typed, Job
    <3>3. job[w].voucher.seq \in Seqs /\ job[w].voucher.amount \in Nat
      BY <3>1, <1>0 DEF Job, Voucher
    <3>4. orders' \in [Orders -> Order]
      BY <1>c, <3>1, <3>3 DEF ConfirmByVoucher, Confirmed, Typed, Job
    <3> QED
      BY <3>2, <3>4 DEF ConfirmByVoucher, Typed, buyer, verifying, settling, chain
  <2>4. TellApp => Typed'
    BY DEF TellApp, Tell, Typed, Workers, buyer, verifying, settling, chain
  <2> QED
    BY <1>4, <2>1, <2>2, <2>3, <2>4 DEF ReceiveStep
<1>5. ASSUME NEW c \in Calls PROVE
         (\E sig \in batchSigs : SettleBatch(c, sig)) \/ OptimisticSettle(c) \/ ReadNonce(c)
           \/ Submit(c) \/ SubmitFails(c) \/ RecordSettlement(c) => Typed'
  <2>1. \A sig \in batchSigs : SettleBatch(c, sig) => Typed'
    BY DEF SettleBatch, Batch, Typed, Call, buyer, receiving, verifying, chain
  <2>2. OptimisticSettle(c) => Typed'
    BY DEF OptimisticSettle, Optimistic, Typed, Call, buyer, receiving, verifying, chain
  <2>3. ASSUME call[c] # None, NEW m \in Nat
        PROVE  /\ [call[c] EXCEPT !.step = "signed", !.nonce = m] \in Call
               /\ [call[c] EXCEPT !.step = "landed"] \in Call
    <3>1. call[c] \in Call
      BY <2>3 DEF Typed
    <3> QED
      BY <3>1 DEF Call
  <2>a. ReadNonce(c) => Typed'
    BY <2>3 DEF ReadNonce, Typed, buyer, receiving, verifying, chain
  <2>4. Submit(c) => Typed'
    <3> SUFFICES ASSUME Submit(c) PROVE Typed'
      OBVIOUS
    <3>1. call' \in [Calls -> {None} \cup Call]
      BY <2>3 DEF Submit, Accepts, Typed
    <3>2. channel'.nonce \in Nat
      BY DEF Submit, Typed
    <3>3. call[c] \in Call
      BY DEF Submit, Accepts, Typed
    <3>a. [open |-> TRUE, root |-> call[c].root, amount |-> Total(call[c].root),
           kind |-> call[c].kind, disputed |-> FALSE] \in EscrowRec
      BY <3>3 DEF Call, EscrowRec
    <3>4. escrow' \in [Nonces -> EscrowRec]
      BY <3>a DEF Submit, Typed
    <3> QED
      BY <3>1, <3>2, <3>4 DEF Submit, Typed, buyer, receiving, verifying
  <2>5. SubmitFails(c) => Typed'
    BY DEF SubmitFails, Typed, buyer, receiving, verifying, chain
  <2>6. RecordSettlement(c) => Typed'
    BY DEF RecordSettlement, Typed, buyer, receiving, verifying, chain
  <2> QED
    BY <2>1, <2>2, <2>a, <2>4, <2>5, <2>6
<1>6. Restart => Typed'
  BY DEF Restart, Typed, buyer, chain
<1>7. LoseMail => Typed'
  BY DEF LoseMail, Typed, buyer, verifying, settling, chain
<1> QED
  BY <1>1, <1>2, <1>3, <1>4, <1>5, <1>6, <1>7 DEF Next, SettleStep

-----------------------------------------------------------------------------
(* What is settled was signed.                                             *)
SignedStore(store) == \A s \in Held(store) : [seq |-> s, amount |-> store[s]] \in signed

\* Whatever may still get into an escrow was signed: the merchant's vouchers, those
\* on their way into its store, and the trees of the calls under way.
Signed ==
    /\ SignedStore(collected)
    /\ \A w \in Workers : job[w] # None => job[w].voucher \in signed
    /\ \A c \in Calls : call[c] # None =>
          SignedStore(call[c].root) /\ (call[c].kind = "batch" => call[c].sig \in batchSigs)
    /\ SettledWasSigned

LEMMA SignedStep == ASSUME Typed, Signed, [Next]_vars PROVE Signed'
<1> USE SettlementAssumption
<1>1. CASE UNCHANGED vars
  BY <1>1 DEF Signed, SignedStore, SettledWasSigned, Held, vars, buyer, receiving, verifying,
      settling, chain
<1>2. ASSUME BuyerStep PROVE Signed'
  <2>1. ASSUME signed \subseteq signed', batchSigs \subseteq batchSigs',
               UNCHANGED <<collected, job, call, escrow>>
        PROVE  Signed'
    BY <2>1 DEF Signed, SignedStore, SettledWasSigned, Held
  <2>2. \A s \in Seqs, a \in Amounts : SignVoucher(s, a) => Signed'
    BY <2>1 DEF SignVoucher, receiving, settling, chain
  <2>3. \A n \in Nonces : SignSettlement(n) => Signed'
    BY <2>1 DEF SignSettlement, receiving, settling, chain
  <2>4. \A o \in Orders \cup {None}, v \in Voucher : SendVoucher(o, v) => Signed'
    BY <2>1 DEF SendVoucher, buyer, settling, chain
  <2>5. ASSUME NEW n \in Nonces, NEW b, escrow' = [escrow EXCEPT ![n] = [escrow[n] EXCEPT !.disputed = b]],
               UNCHANGED <<signed, batchSigs, collected, job, call>>
        PROVE  Signed'
    <3>1. \A m \in Nonces : escrow'[m] = IF m = n THEN [escrow[n] EXCEPT !.disputed = b] ELSE escrow[m]
      BY <2>5 DEF Typed
    <3>2. \A m \in Nonces : escrow[m] \in EscrowRec
      BY DEF Typed
    <3>3. \A m \in Nonces : /\ escrow'[m].open = escrow[m].open
                            /\ escrow'[m].root = escrow[m].root
                            /\ escrow'[m].kind = escrow[m].kind
      BY <3>1, <3>2 DEF EscrowRec
    <3> QED
      BY <2>5, <3>3 DEF Signed, SignedStore, SettledWasSigned, Held
  <2>6. \A n \in Nonces : Dispute(n) => Signed'
    BY <2>5 DEF Dispute, buyer, receiving, settling
  <2>7. \A n \in Nonces, s \in Seqs : ResolveDispute(n, s) => Signed'
    BY <2>5 DEF ResolveDispute, buyer, receiving, settling
  <2> QED
    BY <1>2, <2>2, <2>3, <2>4, <2>6, <2>7 DEF BuyerStep, Pay
<1>3. ASSUME UNCHANGED <<signed, batchSigs, collected, escrow>>,
             \A w \in Workers : job'[w] # None => job'[w].voucher \in signed,
             \A c \in Calls : call'[c] # None => 
               SignedStore(call'[c].root) /\ (call'[c].kind = "batch" => call'[c].sig \in batchSigs)
      PROVE  Signed'
  BY <1>3 DEF Signed, SignedStore, SettledWasSigned, Held
<1>4. ASSUME OrderStep PROVE Signed'
  <2>1. UNCHANGED <<signed, batchSigs, collected, escrow, job, call>>
    BY <1>4 DEF OrderStep, CreateOrder, GeneratePaymentQr, QrPaymentNotify, LookUpTransfer,
        ConfirmByTransfer, RefuseTransfer, VerifyVoucher, buyer, receiving, settling, chain
  <2> QED
    BY <2>1, <1>3 DEF Signed
<1>5. ASSUME ReceiveStep PROVE Signed'
  <2>1. \A w \in Workers, o \in Orders \cup {None}, v \in Voucher : TakeVoucher(w, o, v) => Signed'
    BY <1>3 DEF TakeVoucher, Signed, Typed, buyer, settling, chain
  <2>2. \A w \in Workers : StoreVoucher(w) => Signed'
    <3> SUFFICES ASSUME NEW w \in Workers, StoreVoucher(w) PROVE Signed'
      OBVIOUS
    <3>1. job[w] \in Job /\ job[w].voucher \in signed
      BY DEF StoreVoucher, Typed, Signed
    <3>2. job[w].voucher = [seq |-> job[w].voucher.seq, amount |-> job[w].voucher.amount]
      BY <3>1 DEF Job, Voucher
    <3>3. SignedStore(collected')
      BY <3>1, <3>2 DEF StoreVoucher, Signed, SignedStore, Held, Typed, Store
    <3>4. \A x \in Workers : job'[x] # None => job'[x].voucher \in signed
      BY <3>1 DEF StoreVoucher, AfterStore, Signed, Typed, Job
    <3> QED
      BY <3>3, <3>4 DEF StoreVoucher, Signed, SignedStore, SettledWasSigned, buyer, settling, chain
  <2>3. \A w \in Workers : ConfirmByVoucher(w) => Signed'
    <3> SUFFICES ASSUME NEW w \in Workers, ConfirmByVoucher(w) PROVE Signed'
      OBVIOUS
    <3>1. job[w] \in Job
      BY DEF ConfirmByVoucher, Typed
    <3>2. \A x \in Workers : job'[x] # None => job'[x].voucher \in signed
      BY <3>1 DEF ConfirmByVoucher, Signed, Typed, Job
    <3> QED
      BY <3>2, <1>3 DEF ConfirmByVoucher, Signed, buyer, settling, chain
  <2>4. TellApp => Signed'
    BY <1>3 DEF TellApp, Tell, Signed, Typed, Workers, buyer, settling, chain
  <2> QED
    BY <1>5, <2>1, <2>2, <2>3, <2>4 DEF ReceiveStep
<1>6. ASSUME NEW c \in Calls PROVE
         (\E sig \in batchSigs : SettleBatch(c, sig)) \/ OptimisticSettle(c) \/ ReadNonce(c)
           \/ Submit(c) \/ SubmitFails(c) \/ RecordSettlement(c) => Signed'
  <2>1. \A sig \in batchSigs : SettleBatch(c, sig) => Signed'
    BY <1>3 DEF SettleBatch, Batch, Signed, Typed, buyer, receiving, chain
  <2>2. OptimisticSettle(c) => Signed'
    BY <1>3 DEF OptimisticSettle, Optimistic, Signed, Typed, buyer, receiving, chain
  <2>3. ReadNonce(c) => Signed'
    <3> SUFFICES ASSUME ReadNonce(c) PROVE Signed'
      OBVIOUS
    <3>1. call[c] \in Call
      BY DEF ReadNonce, Typed
    <3>2. /\ call'[c].root = call[c].root /\ call'[c].kind = call[c].kind
          /\ call'[c].sig = call[c].sig
      BY <3>1 DEF ReadNonce, Typed, Call
    <3> QED
      BY <3>2, <1>3 DEF ReadNonce, Signed, Typed, buyer, receiving, chain
  <2>4. Submit(c) => Signed'
    <3> SUFFICES ASSUME Submit(c) PROVE Signed'
      OBVIOUS
    <3>1. call[c] \in Call /\ channel.nonce \in Nonces
      BY DEF Submit, Accepts, Typed
    <3>2. /\ SignedStore(call[c].root)
          /\ call[c].kind = "batch" => [root |-> call[c].root, nonce |-> channel.nonce] \in batchSigs
      BY DEF Submit, Accepts, Signed
    <3>3. \A m \in Nonces : escrow'[m] = IF m = channel.nonce
             THEN [open |-> TRUE, root |-> call[c].root, amount |-> Total(call[c].root),
                   kind |-> call[c].kind, disputed |-> FALSE]
             ELSE escrow[m]
      BY DEF Submit, Typed
    <3>4. SettledWasSigned'
      BY <3>1, <3>2, <3>3 DEF Submit, Signed, SignedStore, SettledWasSigned, Call, buyer
    <3>5. \A d \in Calls : call'[d] # None => 
            SignedStore(call'[d].root) /\ (call'[d].kind = "batch" => call'[d].sig \in batchSigs)
      <4>1. \A d \in Calls : d # c => call'[d] = call[d]
        BY DEF Submit, Typed
      <4>2. call'[c] # None => call'[c].root = call[c].root /\ call'[c].sig = call[c].sig
                               /\ call'[c].kind = call[c].kind
        BY <3>1 DEF Submit, Typed, Call
      <4> QED
        BY <4>1, <4>2 DEF Signed, Submit, Accepts
    <3> QED
      BY <3>4, <3>5 DEF Submit, Signed, SignedStore, buyer, receiving
  <2>5. SubmitFails(c) => Signed'
    BY <1>3 DEF SubmitFails, Signed, Typed, buyer, receiving, chain
  <2>6. RecordSettlement(c) => Signed'
    BY <1>3 DEF RecordSettlement, Signed, Typed, buyer, receiving, chain
  <2> QED
    BY <2>1, <2>2, <2>3, <2>4, <2>5, <2>6
<1>7. Restart => Signed'
  BY <1>3 DEF Restart, buyer, chain
<1>8. LoseMail => Signed'
  BY <1>3 DEF LoseMail, Signed, buyer, settling, chain
<1> QED
  BY <1>1, <1>2, <1>4, <1>5, <1>6, <1>7, <1>8 DEF Next, SettleStep

\* In every behaviour, whatever vouchers reach the merchant in whatever way and
\* however the tools overlap: what an escrow holds the buyer signed for
\* (mb_receive_voucher, mb_settle_batch, mb_optimistic_settle).
THEOREM SettledSigned == Spec => []SettledWasSigned
<1>1. Init => Typed /\ Signed
  <2>1. ASSUME Init PROVE Signed
    <3>1. Held(collected) = {}
      BY <2>1, SMT DEF Init, Held
    <3>2. \A n \in Nonces : ~escrow[n].open
      BY <2>1 DEF Init, NoEscrow
    <3>3. \A w \in Workers : job[w] = None
      BY <2>1 DEF Init
    <3>4. \A c \in Calls : call[c] = None
      BY <2>1 DEF Init
    <3>5. SignedStore(collected)
      BY <3>1 DEF SignedStore
    <3> QED
      BY <3>2, <3>3, <3>4, <3>5 DEF Signed, SettledWasSigned
  <2> QED
    BY <2>1, InitTyped
<1>2. Typed /\ Signed /\ [Next]_vars => Typed' /\ Signed'
  BY TypedStep, SignedStep
<1>3. Signed => SettledWasSigned
  BY DEF Signed
<1> QED
  BY <1>1, <1>2, <1>3, PTL DEF Spec

-----------------------------------------------------------------------------
(* The records.                                                            *)

\* The escrows are those of the nonces used up, and a call whose batch has landed
\* carries what it landed with.
Recorded ==
    /\ \A n \in Nonces : escrow[n].open => n < channel.nonce
    /\ \A c \in Calls : call[c] # None /\ call[c].step = "landed" =>
          /\ call[c].nonce \in Nonces /\ escrow[call[c].nonce].open
          /\ escrow[call[c].nonce].kind = "batch"
          /\ escrow[call[c].nonce].root = call[c].root
          /\ escrow[call[c].nonce].amount = Total(call[c].root)
    /\ RecordsMatchEscrows

LEMMA RecordedStep == ASSUME Typed, Recorded, [Next]_vars PROVE Recorded'
<1> USE SettlementAssumption
<1>0. ASSUME UNCHANGED <<channel, records>>,
             \A n \in Nonces : /\ escrow'[n].open = escrow[n].open
                              /\ escrow'[n].root = escrow[n].root
                              /\ escrow'[n].amount = escrow[n].amount
                              /\ escrow'[n].kind = escrow[n].kind,
             \A c \in Calls : \/ call'[c] = None \/ call'[c] = call[c]
                             \/ call'[c].step # "landed"
      PROVE  Recorded'
  <2>1. RecordsMatchEscrows'
    BY <1>0 DEF Recorded, RecordsMatchEscrows
  <2>2. \A c \in Calls : call'[c] # None /\ call'[c].step = "landed" => call'[c] = call[c]
    BY <1>0
  <2>3. \A n \in Nonces : escrow'[n].open => n < channel'.nonce
    BY <1>0 DEF Recorded
  <2>4. ASSUME NEW c \in Calls, call'[c] # None, call'[c].step = "landed"
        PROVE  /\ call'[c].nonce \in Nonces /\ escrow'[call'[c].nonce].open
               /\ escrow'[call'[c].nonce].kind = "batch"
               /\ escrow'[call'[c].nonce].root = call'[c].root
               /\ escrow'[call'[c].nonce].amount = Total(call'[c].root)
    <3>1. call'[c] = call[c]
      BY <2>2, <2>4
    <3>2. call[c] # None /\ call[c].step = "landed"
      BY <3>1, <2>4
    <3>3. /\ call[c].nonce \in Nonces /\ escrow[call[c].nonce].open
          /\ escrow[call[c].nonce].kind = "batch"
          /\ escrow[call[c].nonce].root = call[c].root
          /\ escrow[call[c].nonce].amount = Total(call[c].root)
      BY <3>2 DEF Recorded
    <3>4. \A n \in Nonces : /\ escrow'[n].open = escrow[n].open /\ escrow'[n].root = escrow[n].root
                            /\ escrow'[n].amount = escrow[n].amount /\ escrow'[n].kind = escrow[n].kind
      BY <1>0
    <3> QED
      BY <3>1, <3>3, <3>4, ZenonT(40)
  <2> QED
    BY <2>1, <2>3, <2>4 DEF Recorded
<1>1. CASE UNCHANGED vars
  BY <1>0, <1>1 DEF vars, settling, chain
<1>2. ASSUME BuyerStep PROVE Recorded'
  <2>1. CASE UNCHANGED <<call, records, channel, escrow>>
    BY <1>0, <2>1
  <2>2. ASSUME NEW n \in Nonces, NEW b, escrow' = [escrow EXCEPT ![n] = [escrow[n] EXCEPT !.disputed = b]],
               UNCHANGED <<call, records, channel>>
        PROVE  Recorded'
    <3>1. \A m \in Nonces : escrow[m] \in EscrowRec
      BY DEF Typed
    <3>2. \A m \in Nonces : escrow'[m] = IF m = n THEN [escrow[n] EXCEPT !.disputed = b] ELSE escrow[m]
      BY <2>2 DEF Typed
    <3>3. \A m \in Nonces : /\ escrow'[m].open = escrow[m].open
                            /\ escrow'[m].root = escrow[m].root
                            /\ escrow'[m].amount = escrow[m].amount
                            /\ escrow'[m].kind = escrow[m].kind
      BY <3>1, <3>2 DEF EscrowRec
    <3> QED
      BY <2>2, <3>3, <1>0
  <2> QED
    BY <1>2, <2>1, <2>2 DEF BuyerStep, SignVoucher, Pay, SignSettlement, Dispute, ResolveDispute,
        SendVoucher, settling, chain
<1>3. ASSUME OrderStep \/ ReceiveStep \/ LoseMail PROVE Recorded'
  <2>1. UNCHANGED <<call, records, channel, escrow>>
    BY <1>3 DEF OrderStep, CreateOrder, GeneratePaymentQr, QrPaymentNotify, LookUpTransfer,
        ConfirmByTransfer, RefuseTransfer, VerifyVoucher, ReceiveStep, TakeVoucher, StoreVoucher,
        ConfirmByVoucher, TellApp, Tell, LoseMail, settling, chain
  <2> QED
    BY <2>1, <1>0
<1>4. Restart => Recorded'
  <2>1. Restart => UNCHANGED <<channel, records, escrow>> /\ \A c \in Calls : call'[c] = None
    BY DEF Restart, chain
  <2> QED
    BY <2>1, <1>0
<1>5. ASSUME NEW c \in Calls PROVE
         (\E sig \in batchSigs : SettleBatch(c, sig)) \/ OptimisticSettle(c) \/ ReadNonce(c)
           \/ Submit(c) \/ SubmitFails(c) \/ RecordSettlement(c) => Recorded'
  <2>1. \A sig \in batchSigs : SettleBatch(c, sig) => Recorded'
    BY <1>0 DEF SettleBatch, Batch, Typed, chain
  <2>2. OptimisticSettle(c) => Recorded'
    BY <1>0 DEF OptimisticSettle, Optimistic, Typed, chain
  <2>3. ReadNonce(c) => Recorded'
    <3> SUFFICES ASSUME ReadNonce(c) PROVE Recorded'
      OBVIOUS
    <3>1. call[c] \in Call
      BY DEF ReadNonce, Typed
    <3>2. call'[c].step = "signed" /\ \A d \in Calls : d # c => call'[d] = call[d]
      BY <3>1 DEF ReadNonce, Typed, Call
    <3> QED
      BY <3>2, <1>0 DEF ReadNonce, chain
  <2>4. Submit(c) => Recorded'
    <3> SUFFICES ASSUME Submit(c) PROVE Recorded'
      OBVIOUS
    <3>1. /\ call[c] \in Call /\ channel.nonce \in Nonces /\ channel.nonce \in Nat
          /\ call[c].nonce = channel.nonce /\ ~escrow[channel.nonce].open
      BY DEF Submit, Accepts, Typed, Recorded
    <3>2. channel'.nonce = channel.nonce + 1
      BY DEF Submit
    <3>3. \A m \in Nonces : escrow'[m] = IF m = channel.nonce
             THEN [open |-> TRUE, root |-> call[c].root, amount |-> Total(call[c].root),
                   kind |-> call[c].kind, disputed |-> FALSE]
             ELSE escrow[m]
      BY DEF Submit, Typed
    <3>4. \A d \in Calls : d # c => call'[d] = call[d]
      BY DEF Submit, Typed
    <3>5. call'[c] # None => /\ call[c].kind = "batch" /\ call'[c].root = call[c].root
                             /\ call'[c].nonce = channel.nonce
      BY <3>1 DEF Submit, Typed, Call
    <3>6. \A n \in Nonces : escrow'[n].open => n < channel'.nonce
      BY <3>1, <3>2, <3>3 DEF Recorded
    <3>7. ASSUME NEW d \in Calls, call'[d] # None, call'[d].step = "landed"
          PROVE
             /\ call'[d].nonce \in Nonces /\ escrow'[call'[d].nonce].open
             /\ escrow'[call'[d].nonce].kind = "batch"
             /\ escrow'[call'[d].nonce].root = call'[d].root
             /\ escrow'[call'[d].nonce].amount = Total(call'[d].root)
      <4>1. CASE d = c
        BY <3>7, <4>1, <3>1, <3>3, <3>5
      <4>2. CASE d # c
        <5>1. call'[d] = call[d]
          BY <4>2, <3>4
        <5>2. /\ call[d].nonce \in Nonces /\ escrow[call[d].nonce].open
              /\ escrow[call[d].nonce].kind = "batch"
              /\ escrow[call[d].nonce].root = call[d].root
              /\ escrow[call[d].nonce].amount = Total(call[d].root)
          BY <3>7, <5>1 DEF Recorded
        <5> QED
          BY <3>1, <5>1, <5>2, <3>3
      <4> QED
        BY <4>1, <4>2
    <3>8. RecordsMatchEscrows'
      BY <3>1, <3>3 DEF Submit, Recorded, RecordsMatchEscrows
    <3> QED
      BY <3>6, <3>7, <3>8 DEF Recorded
  <2>5. SubmitFails(c) => Recorded'
    BY <1>0 DEF SubmitFails, Typed, chain
  <2>6. RecordSettlement(c) => Recorded'
    <3> SUFFICES ASSUME RecordSettlement(c) PROVE Recorded'
      OBVIOUS
    <3>1. \A d \in Calls : call'[d] = None \/ call'[d] = call[d]
      BY DEF RecordSettlement, Typed
    <3>2. RecordsMatchEscrows'
      BY DEF RecordSettlement, Recorded, RecordsMatchEscrows, Typed, chain
    <3> QED
      BY <3>1, <3>2 DEF RecordSettlement, Recorded, chain
  <2> QED
    BY <2>1, <2>2, <2>3, <2>4, <2>5, <2>6
<1> QED
  BY <1>1, <1>2, <1>3, <1>4, <1>5 DEF Next, SettleStep

\* The merchant's record of a batch is that of the escrow, for any number of tools
\* that read the nonce at once and whatever confirmations are lost
\* (mb_settle_batch, record_settlement).
THEOREM RecordsTrue == Spec => []RecordsMatchEscrows
<1>1. Init => Typed /\ Recorded
  <2>1. ASSUME Init PROVE Recorded
    <3>1. \A n \in Nonces : ~escrow[n].open
      BY <2>1 DEF Init, NoEscrow
    <3>2. \A c \in Calls : call[c] = None
      BY <2>1 DEF Init
    <3>3. \A n \in Nonces : records[n] = None
      BY <2>1 DEF Init
    <3> QED
      BY <3>1, <3>2, <3>3 DEF Recorded, RecordsMatchEscrows
  <2> QED
    BY <2>1, InitTyped
<1>2. Typed /\ Recorded /\ [Next]_vars => Typed' /\ Recorded'
  BY TypedStep, RecordedStep
<1>3. Recorded => RecordsMatchEscrows
  BY DEF Recorded
<1> QED
  BY <1>1, <1>2, <1>3, PTL DEF Spec


-----------------------------------------------------------------------------
(* The proofs that confirm orders.                                         *)

\* As long as no QR code was generated for the order since, the amount that
\* verify_payment read before it looked the transaction up is still the order's when
\* the status is written.
Looked ==
    /\ check # None /\ check.how = "transfer" =>
          orders[check.order].status # "none" /\ check.amount = orders[check.order].amount
    /\ ProofCoversOrder

LEMMA ConfirmedKeeps ==
    ASSUME Typed, NEW o \in Orders, NEW seq, NEW proof,
           orders' = Confirmed(o, seq, proof)
    PROVE  \A x \in Orders :
              /\ orders'[x].amount = orders[x].amount
              /\ orders'[x].status = "none" <=> orders[x].status = "none"
              /\ orders'[x] = orders[x] \/ (x = o /\ orders'[x].proof = proof)
BY DEF Typed, Order, Confirmed

LEMMA LookedStep == ASSUME Typed, Looked, [Next]_vars PROVE Looked'
<1> USE SettlementAssumption
<1>0. ASSUME UNCHANGED orders, check' = check \/ check' = None PROVE Looked'
  BY <1>0 DEF Looked, ProofCoversOrder
<1>c. ASSUME NEW o \in Orders, NEW seq, NEW how, NEW a, orders' = Confirmed(o, seq, By(how, a)),
             check' = check \/ check' = None,
             how \in {"voucher", "overtaken"} \/ a >= orders[o].amount
      PROVE  Looked'
  <2>1. \A x \in Orders :
            /\ orders'[x].amount = orders[x].amount
            /\ orders'[x].status = "none" <=> orders[x].status = "none"
            /\ orders'[x] = orders[x] \/ (x = o /\ orders'[x].proof = By(how, a))
    BY <1>c, ConfirmedKeeps
  <2>2. By(how, a).how = how /\ By(how, a).amount = a
    BY DEF By
  <2>3. ProofCoversOrder'
    BY <1>c, <2>1, <2>2 DEF Looked, ProofCoversOrder
  <2>4. check # None => check.order \in Orders
    BY DEF Typed, Check
  <2> QED
    BY <1>c, <2>1, <2>3, <2>4 DEF Looked
<1>1. CASE BuyerStep \/ SettleStep \/ LoseMail \/ Restart \/ UNCHANGED vars
  <2>1. orders' = orders /\ (check' = check \/ check' = None)
    BY <1>1 DEF BuyerStep, SignVoucher, Pay, SignSettlement, SendVoucher, Dispute, ResolveDispute,
        SettleStep, SettleBatch, OptimisticSettle, ReadNonce, Submit, SubmitFails,
        RecordSettlement, LoseMail, Restart, vars, verifying
  <2> QED
    BY <1>0, <2>1
<1>2. ASSUME NEW o \in Orders, NEW a \in Amounts, CreateOrder(o, a) \/ GeneratePaymentQr(o, a)
      PROVE  Looked'
  <2>1. orders' = [orders EXCEPT ![o] = Pending(a)]
    BY <1>2 DEF CreateOrder, GeneratePaymentQr
  <2>2. Pending(a).status = "pending"
    BY DEF Pending
  <2>3. \A x \in Orders : orders'[x] = IF x = o THEN Pending(a) ELSE orders[x]
    BY <2>1 DEF Typed
  <2>4. check' # None /\ check'.how = "transfer" =>
            check' = check /\ check.order \in Orders /\ check.order # o
    <3>1. CASE CreateOrder(o, a)
      BY <3>1 DEF CreateOrder, verifying, Typed, Check, Looked
    <3>2. CASE GeneratePaymentQr(o, a)
      BY <3>2 DEF GeneratePaymentQr, Typed, Check
    <3> QED
      BY <1>2, <3>1, <3>2
  <2> QED
    BY <2>2, <2>3, <2>4 DEF Looked, ProofCoversOrder
<1>3. ASSUME NEW o \in Orders, NEW tx \in Transfers, LookUpTransfer(o, tx)
      PROVE  Looked'
  <2>1. /\ check'.order = o /\ check'.amount = orders[o].amount /\ orders' = orders
        /\ orders[o].status = "pending"
    BY <1>3 DEF LookUpTransfer
  <2> QED
    BY <2>1 DEF Looked, ProofCoversOrder
<1>4. CASE ConfirmByTransfer
  <2>1. /\ check.order \in Orders /\ check' = None
        /\ check.how = "overtaken" \/ Received[check.tx] >= orders[check.order].amount
    BY <1>4 DEF ConfirmByTransfer, Typed, Check, Looked
  <2> QED
    BY <1>4, <2>1, <1>c DEF ConfirmByTransfer
<1>5. ASSUME NEW o \in Orders, NEW p \in Proof, VerifyVoucher(o, p)
      PROVE  Looked'
  <2>1. CASE orders' = orders
    BY <1>0, <1>5, <2>1 DEF VerifyVoucher
  <2>2. CASE orders' = Confirmed(o, p.voucher.seq, By("printed", p.voucher.amount))
    BY <1>c, <1>5, <2>2 DEF VerifyVoucher
  <2> QED
    BY <1>5, <2>1, <2>2 DEF VerifyVoucher
<1>6. ASSUME NEW w \in Workers, ConfirmByVoucher(w)
      PROVE  Looked'
  <2>1. CASE job[w].order \in Orders
    BY <1>6, <1>c, <2>1 DEF ConfirmByVoucher, verifying
  <2>2. CASE job[w].order \notin Orders
    <3>1. orders' = orders
      BY <1>6, <2>2 DEF ConfirmByVoucher, Confirmed, Typed
    <3> QED
      BY <1>0, <1>6, <3>1 DEF ConfirmByVoucher, verifying
  <2> QED
    BY <2>1, <2>2
<1>7. CASE RefuseTransfer \/ \E o \in Orders : QrPaymentNotify(o)
  BY <1>0, <1>7 DEF RefuseTransfer, QrPaymentNotify, verifying
<1>8. CASE OrderStep
  BY <1>2, <1>3, <1>4, <1>5, <1>7, <1>8 DEF OrderStep
<1>9. CASE ReceiveStep
  <2>1. CASE orders' = orders /\ check' = check
    BY <1>0, <2>1
  <2> QED
    BY <1>6, <1>9, <2>1 DEF ReceiveStep, TakeVoucher, StoreVoucher, TellApp, verifying
<1> QED
  BY <1>1, <1>8, <1>9 DEF Next

\* An order that a handed-in proof confirmed is worth no more than the proof, whatever
\* other confirmations came between the look-up and the write and however often QR
\* codes are generated for one id, but for one generated during the look-up
\* (verify_payment, verify_voucher_proof, generate_payment_qr).
THEOREM ProofsCover == Spec => []ProofCoversOrder
<1>1. Init => Typed /\ Looked
  <2>1. ASSUME Init PROVE Looked
    <3>1. check = None /\ \A o \in Orders : orders[o].status = "none"
      BY <2>1 DEF Init, NoOrder
    <3> QED
      BY <3>1 DEF Looked, ProofCoversOrder
  <2> QED
    BY <2>1, InitTyped
<1>2. Typed /\ Looked /\ [Next]_vars => Typed' /\ Looked'
  BY TypedStep, LookedStep
<1>3. Looked => ProofCoversOrder
  BY DEF Looked
<1> QED
  BY <1>1, <1>2, <1>3, PTL DEF Spec

=============================================================================
