--------------------------- MODULE Retention_proofs ---------------------------
(***************************************************************************)
(* Proofs about Retention, and about the algorithms it runs: for every     *)
(* table, however its rows' times lie, every size of batch, chunk and      *)
(* memory, and every policy.                                               *)
(***************************************************************************)
EXTENDS Retention, FiniteSetTheorems, SequenceTheorems, TLAPS

-----------------------------------------------------------------------------
(* Numbers, and functions that are recursive in a measure. *)

\* Numbers have a least one.
LEMMA LeastNumber ==
  ASSUME NEW T \in SUBSET Nat, T # {}
  PROVE  \E m \in T : \A k \in T : m <= k
<1> DEFINE R == OpToRel(<, Nat)
<1>1. IsWellFoundedOn(R, Nat)
  BY NatLessThanWellFounded
<1>2. \A x, y \in Nat : x < y => <<x, y>> \in R
  BY DEF OpToRel
<1> HIDE DEF R
<1>3. PICK m \in T : \A k \in T : ~(<<k, m>> \in R)
  BY <1>1, WFMin
<1>4. ASSUME NEW k \in T PROVE m <= k
  <2>1. m \in Nat /\ k \in Nat
    OBVIOUS
  <2>2. k < m => <<k, m>> \in R
    BY <1>2, <2>1
  <2> QED
    BY <1>3, <2>1, <2>2
<1> QED
  BY <1>4

\* G defines a function's value at x from those at lesser ones, as M measures them.
Recursive(X, V, M, G) ==
  /\ V # {} /\ M \in [X -> Nat] /\ G \in [[X -> V] -> [X -> V]]
  /\ \A f, g \in [X -> V] : \A x \in X :
       (\A y \in X : M[y] < M[x] => f[y] = g[y]) => G[f][x] = G[g][x]

\* There is such a function.
LEMMA FixedPoint ==
  ASSUME NEW X, NEW V, NEW M, NEW G, Recursive(X, V, M, G)
  PROVE  \E f \in [X -> V] : G[f] = f
<1> SUFFICES ASSUME V # {}, M \in [X -> Nat], G \in [[X -> V] -> [X -> V]],
                    \A f, g \in [X -> V] : \A x \in X :
                      (\A y \in X : M[y] < M[x] => f[y] = g[y]) => G[f][x] = G[g][x]
             PROVE  \E f \in [X -> V] : G[f] = f
  BY DEF Recursive
<1> DEFINE Good(f, n) == f \in [X -> V] /\ \A x \in X : M[x] < n => f[x] = G[f][x]
<1>1. \A n \in Nat : \E f : Good(f, n)
  <2> DEFINE T == {n \in Nat : ~ \E f : Good(f, n)}
  <2> SUFFICES ASSUME T # {} PROVE FALSE
    OBVIOUS
  <2>1. PICK m \in T : \A k \in T : m <= k
    BY LeastNumber
  <2>2. PICK v \in V : TRUE
    OBVIOUS
  <2>3. Good([x \in X |-> v], 0)
    OBVIOUS
  <2>4. m \in Nat /\ m # 0
    BY <2>3
  <2>5. m - 1 \in Nat /\ m - 1 \notin T
    BY <2>1, <2>4
  <2>6. PICK f : Good(f, m - 1)
    BY <2>5
  <2>7. G[f] \in [X -> V]
    BY <2>6
  <2>8. ASSUME NEW x \in X, M[x] < m PROVE G[f][x] = G[G[f]][x]
    <3>1. ASSUME NEW y \in X, M[y] < M[x] PROVE f[y] = G[f][y]
      <4>1. M[x] \in Nat /\ M[y] \in Nat
        OBVIOUS
      <4>2. M[y] < m - 1
        BY <2>4, <2>8, <3>1, <4>1
      <4> QED
        BY <2>6, <4>2
    <3> QED
      BY <2>6, <2>7, <3>1
  <2>9. Good(G[f], m)
    BY <2>7, <2>8
  <2> QED
    BY <2>9
<1>2. ASSUME NEW n \in Nat, NEW f, NEW g, Good(f, n), Good(g, n), NEW x \in X, M[x] < n
      PROVE  f[x] = g[x]
  <2> DEFINE Apart == {z \in X : M[z] < n /\ f[z] # g[z]}
             T     == {M[y] : y \in Apart}
  <2> SUFFICES ASSUME f[x] # g[x] PROVE FALSE
    OBVIOUS
  <2>0. x \in Apart /\ T # {}
    <3>1. x \in Apart
      BY <1>2
    <3> QED
      BY <3>1
  <2>1. T \in SUBSET Nat
    OBVIOUS
  <2>2. PICK m \in T : \A k \in T : m <= k
    BY <2>0, <2>1, LeastNumber
  <2>3. PICK y \in X : M[y] = m /\ M[y] < n /\ f[y] # g[y]
    BY <2>2
  <2>4. ASSUME NEW z \in X, M[z] < M[y] PROVE f[z] = g[z]
    <3>1. M[z] \in Nat /\ M[y] \in Nat /\ M[z] < n
      BY <2>3, <2>4
    <3>2. SUFFICES ASSUME f[z] # g[z] PROVE FALSE
      OBVIOUS
    <3>3. z \in Apart
      BY <3>1, <3>2
    <3>4. M[z] \in T
      BY <3>3
    <3> HIDE DEF T, Apart
    <3> QED
      BY <2>2, <2>3, <2>4, <3>1, <3>4
  <2>5. G[f][y] = G[g][y]
    BY <1>2, <2>4
  <2> QED
    BY <1>2, <2>3, <2>5
<1> DEFINE F(n) == CHOOSE f : Good(f, n)
<1>3. \A n \in Nat : Good(F(n), n)
  <2> HIDE DEF Good
  <2> QED
    BY <1>1
<1> DEFINE h == [x \in X |-> F(M[x] + 1)[x]]
<1>4. \A x \in X : M[x] \in Nat /\ M[x] + 1 \in Nat /\ M[x] < M[x] + 1
  <2> HIDE DEF Good, F, h
  <2>1. \A x \in X : M[x] \in Nat
    OBVIOUS
  <2> QED
    BY <2>1
<1>5. h \in [X -> V]
  <2>1. \A x \in X : F(M[x] + 1) \in [X -> V]
    <3> HIDE DEF F
    <3>1. \A n \in Nat : F(n) \in [X -> V]
      BY <1>3
    <3> HIDE DEF Good, h
    <3> QED
      BY <1>4, <3>1
  <2> HIDE DEF Good, F
  <2>2. \A x \in X : F(M[x] + 1)[x] \in V
    BY <2>1
  <2> QED
    BY <2>2
<1>6. ASSUME NEW x \in X PROVE G[h][x] = h[x]
  <2>1. Good(F(M[x] + 1), M[x] + 1)
    BY <1>3, <1>4
  <2>2. ASSUME NEW y \in X, M[y] < M[x] PROVE h[y] = F(M[x] + 1)[y]
    <3>1. Good(F(M[y] + 1), M[y] + 1)
      BY <1>3, <1>4
    <3>2. Good(F(M[x] + 1), M[y] + 1)
      <4>1. \A z \in X : M[z] < M[y] + 1 => M[z] < M[x] + 1
        BY <1>4, <2>2
      <4> QED
        BY <2>1, <4>1
    <3>3. h[y] = F(M[y] + 1)[y]
      OBVIOUS
    <3> HIDE DEF Good, F, h
    <3> QED
      BY <1>2, <1>4, <3>1, <3>2, <3>3
  <2>3. h[x] = F(M[x] + 1)[x] /\ F(M[x] + 1)[x] = G[F(M[x] + 1)][x] /\ F(M[x] + 1) \in [X -> V]
    BY <1>4, <2>1
  <2> HIDE DEF Good, F, h
  <2>4. G[h][x] = G[F(M[x] + 1)][x]
    BY <1>5, <2>2, <2>3
  <2> QED
    BY <2>3, <2>4
<1>7. G[h] = h
  <2> HIDE DEF h
  <2>1. G[h] \in [X -> V]
    BY <1>5
  <2> QED
    BY <1>5, <1>6, <2>1
<1> QED
  BY <1>5, <1>7

-----------------------------------------------------------------------------
(* Sequences that have each member of a set once. *)

Enumerates(q, S) ==
  /\ q \in Seq(S)
  /\ \A i, j \in 1..Len(q) : q[i] = q[j] => i = j
  /\ \A x \in S : \E i \in 1..Len(q) : q[i] = x

\* They are as long as the set is large.
LEMMA EnumeratesAll ==
  ASSUME NEW S, NEW q, Enumerates(q, S)
  PROVE  IsFiniteSet(S) /\ Len(q) = Cardinality(S) /\ Len(q) \in Nat
<1>1. q \in Seq(S) /\ Len(q) \in Nat /\ q \in [1..Len(q) -> S]
  BY DEF Enumerates
<1>2. q \in Bijection(1..Len(q), S)
  <2>1. q \in Injection(1..Len(q), S)
    BY <1>1 DEF Enumerates, Injection, IsInjective
  <2>2. q \in Surjection(1..Len(q), S)
    BY <1>1 DEF Enumerates, Surjection
  <2> QED
    BY <2>1, <2>2 DEF Bijection
<1>3. ExistsBijection(1..Len(q), S)
  BY <1>2 DEF ExistsBijection
<1> QED
  BY <1>1, <1>3, FS_NatBijection, FS_CountingElements

\* A function on 1..n is a sequence.
LEMMA FunctionIsSeq ==
  ASSUME NEW S, NEW n \in Nat, NEW q \in [1..n -> S]
  PROVE  q \in Seq(S) /\ Len(q) = n
OBVIOUS

\* How many come before a member, by a key or by itself.
Below(S, key, i) == {j \in S : key[j] < key[i]}
Lesser(S, i)     == {j \in S : j < i}

\* A set is gone through in the order of a key that tells its members apart.
LEMMA Ranked ==
  ASSUME NEW S, IsFiniteSet(S), NEW key \in [S -> Int], \A i, j \in S : key[i] = key[j] => i = j,
         NEW q, q = [k \in 1..Cardinality(S) |->
                       CHOOSE i \in S : Cardinality(Below(S, key, i)) = k - 1]
  PROVE  /\ Enumerates(q, S)
         /\ \A k \in 1..Cardinality(S) : Cardinality(Below(S, key, q[k])) = k - 1
<1> DEFINE n == Cardinality(S)
           below(i) == Below(S, key, i)
           rank == [i \in S |-> Cardinality(below(i))]
<1>1. n \in Nat /\ IsFiniteSet(0..(n - 1)) /\ Cardinality(0..(n - 1)) = n
  <2>1. n \in Nat
    BY FS_CardinalityType
  <2> HIDE DEF n
  <2>2. 0 \in Int /\ n - 1 \in Int
    BY <2>1
  <2> QED
    BY <2>1, <2>2, FS_Interval
<1>2. ASSUME NEW i \in S
      PROVE  IsFiniteSet(below(i)) /\ Cardinality(below(i)) \in 0..(n - 1)
  <2>1. below(i) \in SUBSET S /\ i \notin below(i)
    BY DEF Below
  <2> HIDE DEF below
  <2>2. IsFiniteSet(below(i)) /\ Cardinality(below(i)) \in Nat /\ Cardinality(below(i)) <= n
    BY <2>1, FS_Subset, FS_CardinalityType
  <2>3. Cardinality(below(i)) # n
    BY <2>1, FS_Subset
  <2> QED
    BY <1>1, <2>2, <2>3
<1>3. ASSUME NEW i \in S, NEW j \in S, key[i] < key[j] PROVE rank[i] < rank[j]
  <2>1. below(i) \in SUBSET below(j) /\ i \in below(j) /\ i \notin below(i)
    BY <1>3 DEF Below
  <2>2. IsFiniteSet(below(j)) /\ Cardinality(below(j)) \in Int /\ Cardinality(below(i)) \in Int
    <3> HIDE DEF below, n
    <3> QED
      BY <1>1, <1>2
  <2>3. rank[i] = Cardinality(below(i)) /\ rank[j] = Cardinality(below(j))
    OBVIOUS
  <2> HIDE DEF below, rank
  <2>4. Cardinality(below(i)) <= Cardinality(below(j)) /\ Cardinality(below(i)) # Cardinality(below(j))
    BY <2>1, <2>2, FS_Subset
  <2> QED
    BY <2>2, <2>3, <2>4
<1>4. rank \in Injection(S, 0..(n - 1))
  <2>1. rank \in [S -> 0..(n - 1)]
    BY <1>2
  <2>2. ASSUME NEW i \in S, NEW j \in S, rank[i] = rank[j] PROVE i = j
    <3> HIDE DEF rank
    <3>1. key[i] \in Int /\ key[j] \in Int /\ rank[i] \in Int /\ rank[j] \in Int
      BY <2>1
    <3>2. ~(key[i] < key[j]) /\ ~(key[j] < key[i])
      BY <1>3, <2>2, <3>1
    <3> QED
      BY <3>1, <3>2
  <2> HIDE DEF rank
  <2> QED
    BY <2>1, <2>2 DEF Injection, IsInjective
<1>5. rank \in Surjection(S, 0..(n - 1))
  <2> HIDE DEF rank, n
  <2> QED
    BY <1>1, <1>4, FS_Injection DEF n
<1>6. ASSUME NEW k \in 1..n PROVE q[k] \in S /\ rank[q[k]] = k - 1
  <2>1. k - 1 \in 0..(n - 1)
    BY <1>1
  <2>2. \E i \in S : rank[i] = k - 1
    BY <1>5, <2>1 DEF Surjection
  <2>3. q[k] = CHOOSE i \in S : Cardinality(below(i)) = k - 1
    OBVIOUS
  <2>4. \E i \in S : Cardinality(below(i)) = k - 1
    BY <2>2
  <2>5. q[k] \in S /\ Cardinality(below(q[k])) = k - 1
    <3> HIDE DEF below
    <3> QED
      BY <2>3, <2>4
  <2> QED
    BY <2>5
<1>7. q \in Seq(S) /\ Len(q) = n
  <2> HIDE DEF rank, n
  <2>1. q \in [1..n -> S]
    <3> DEFINE e(k) == CHOOSE i \in S : Cardinality(below(i)) = k - 1
    <3>1. q = [k \in 1..n |-> e(k)]
      BY Zenon DEF n
    <3> HIDE DEF e
    <3>2. \A k \in 1..n : q[k] = e(k)
      BY <3>1
    <3>3. \A k \in 1..n : e(k) \in S
      <4>1. \A k \in 1..n : q[k] \in S
        BY <1>6
      <4> QED
        BY <3>2, <4>1, Zenon
    <3> QED
      BY <3>1, <3>3
  <2>2. n \in Nat
    BY <1>1
  <2>3. \A f \in [1..n -> S] : f \in Seq(S) /\ Len(f) = n
    BY <2>2, FunctionIsSeq
  <2> QED
    BY <2>1, <2>3
<1>8. ASSUME NEW i \in 1..n, NEW j \in 1..n, q[i] = q[j] PROVE i = j
  <2> HIDE DEF rank
  <2>1. i - 1 = j - 1
    BY <1>6, <1>8
  <2> QED
    BY <1>1, <2>1
<1>9. ASSUME NEW x \in S PROVE \E i \in 1..n : q[i] = x
  <2>1. rank[x] \in 0..(n - 1)
    BY <1>2
  <2> DEFINE k == rank[x] + 1
  <2>2. k \in 1..n /\ k - 1 = rank[x]
    BY <1>1, <2>1
  <2> HIDE DEF k, rank
  <2>3. q[k] \in S /\ rank[q[k]] = rank[x]
    BY <1>6, <2>2
  <2>4. q[k] = x
    BY <1>4, <2>3 DEF Injection, IsInjective
  <2> QED
    BY <2>2, <2>4
<1>10. \A k \in 1..n : Cardinality(Below(S, key, q[k])) = k - 1
  BY <1>6
<1> HIDE DEF n
<1>11. Enumerates(q, S)
  BY <1>7, <1>8, <1>9 DEF Enumerates
<1> QED
  BY <1>10, <1>11, Zenon DEF n

\* One INSERT copies each row of a span once.
LEMMA InOrderEnumerates ==
  ASSUME NEW S \in SUBSET Int, IsFiniteSet(S)
  PROVE  /\ Enumerates(InOrder(S), S)
         /\ \A k \in 1..Cardinality(S) :
              InOrder(S)[k] \in S /\ Cardinality(Lesser(S, InOrder(S)[k])) = k - 1
<1> DEFINE key == [i \in S |-> i]
           e(k) == CHOOSE i \in S : Cardinality(Below(S, key, i)) = k - 1
           f(k) == CHOOSE i \in S : Cardinality({j \in S : j < i}) = k - 1
           q   == [k \in 1..Cardinality(S) |-> e(k)]
<1>1. key \in [S -> Int] /\ \A i, j \in S : key[i] = key[j] => i = j
  OBVIOUS
<1>2. \A i \in S : Below(S, key, i) = Lesser(S, i) /\ Lesser(S, i) = {j \in S : j < i}
  BY DEF Below, Lesser
<1> HIDE DEF key
<1>3. q = InOrder(S)
  <2>1. \A k : e(k) = f(k)
    BY <1>2, Zenon
  <2>2. InOrder(S) = [k \in 1..Cardinality(S) |-> f(k)]
    BY Zenon DEF InOrder
  <2> HIDE DEF e, f
  <2> QED
    BY <2>1, <2>2
<1>4. /\ Enumerates(q, S)
      /\ \A k \in 1..Cardinality(S) : Cardinality(Below(S, key, q[k])) = k - 1
  BY <1>1, Ranked
<1> HIDE DEF q
<1>5. ASSUME NEW k \in 1..Cardinality(S)
      PROVE  q[k] \in S /\ Cardinality(Lesser(S, q[k])) = k - 1
  <2>1. Len(q) = Cardinality(S) /\ q \in Seq(S)
    BY <1>4, EnumeratesAll DEF Enumerates
  <2>2. q[k] \in S
    BY <2>1
  <2> QED
    BY <1>2, <1>4, <2>2, Zenon
<1> QED
  BY <1>3, <1>4, <1>5, Zenon

\* A set of numbers has a least and a greatest one.
LEMMA Extremes ==
  ASSUME NEW S \in SUBSET Int, IsFiniteSet(S), S # {}
  PROVE  /\ Min(S) \in S /\ \A i \in S : Min(S) <= i
         /\ Max(S) \in S /\ \A i \in S : i <= Max(S)
<1> DEFINE n == Cardinality(S)
           q == InOrder(S)
<1>1. n \in Nat /\ n # 0
  BY FS_CardinalityType, FS_EmptySet
<1>2. \A k \in 1..n : q[k] \in S /\ Cardinality(Lesser(S, q[k])) = k - 1
  BY InOrderEnumerates
<1> HIDE DEF q, n
<1>3. \A i \in S : i \in Int
  OBVIOUS
<1>4. /\ q[1] \in S /\ q[n] \in S /\ q[1] \in Int /\ q[n] \in Int
      /\ Cardinality(Lesser(S, q[1])) = 0 /\ Cardinality(Lesser(S, q[n])) = n - 1
  <2>1. 1 \in 1..n /\ n \in 1..n /\ 1 - 1 = 0
    BY <1>1
  <2>2. q[1] \in S /\ Cardinality(Lesser(S, q[1])) = 1 - 1
    BY <1>2, <2>1
  <2>3. q[n] \in S /\ Cardinality(Lesser(S, q[n])) = n - 1
    BY <1>2, <2>1
  <2> QED
    BY <1>3, <2>1, <2>2, <2>3
<1>5. ASSUME NEW i \in S PROVE q[1] <= i
  <2>1. Lesser(S, q[1]) \in SUBSET S
    BY DEF Lesser
  <2>2. Lesser(S, q[1]) = {}
    BY <1>4, <2>1, FS_Subset, FS_EmptySet
  <2>3. ~(i < q[1])
    BY <2>2 DEF Lesser
  <2> QED
    BY <1>3, <1>4, <2>3
<1>6. ASSUME NEW i \in S PROVE i <= q[n]
  <2> DEFINE R == S \ {q[n]}
  <2>1. Lesser(S, q[n]) \in SUBSET R
    BY <1>4 DEF Lesser
  <2>2. IsFiniteSet(R) /\ Cardinality(R) = n - 1
    BY <1>4, FS_RemoveElement DEF n
  <2> HIDE DEF R
  <2>3. Lesser(S, q[n]) = R
    BY <1>4, <2>1, <2>2, FS_Subset
  <2>4. i # q[n] => i < q[n]
    BY <2>3 DEF Lesser, R
  <2> QED
    BY <1>3, <1>4, <2>4
<1>7. Min(S) \in S /\ \A i \in S : Min(S) <= i
  <2>1. \E x \in S : \A y \in S : x <= y
    BY <1>4, <1>5
  <2> QED
    BY <2>1, Zenon DEF Min
<1>8. Max(S) \in S /\ \A i \in S : i <= Max(S)
  <2>1. \E x \in S : \A y \in S : x >= y
    <3>1. \A y \in S : q[n] >= y
      BY <1>3, <1>4, <1>6
    <3> QED
      BY <1>4, <3>1
  <2>2. Max(S) \in S /\ \A y \in S : Max(S) >= y
    BY <2>1, Zenon DEF Max
  <2> QED
    BY <1>3, <2>2
<1> QED
  BY <1>7, <1>8

\* The copies of two parts together are one of both.
LEMMA EnumeratesBoth ==
  ASSUME NEW S, NEW T, NEW p, NEW q, Enumerates(p, S), Enumerates(q, T), S \cap T = {}
  PROVE  Enumerates(p \o q, S \cup T)
<1> DEFINE r == p \o q  m == Len(p)  n == Len(q)
<1>0. /\ \A i, j \in 1..m : p[i] = p[j] => i = j
      /\ \A i, j \in 1..n : q[i] = q[j] => i = j
  BY DEF Enumerates
<1>1. /\ p \in Seq(S) /\ q \in Seq(T) /\ m \in Nat /\ n \in Nat
      /\ (\A i \in 1..m : p[i] \in S) /\ (\A i \in 1..n : q[i] \in T)
  BY DEF Enumerates
<1>2. p \in Seq(S \cup T) /\ q \in Seq(S \cup T)
  BY <1>1
<1>3. /\ r \in Seq(S \cup T) /\ Len(r) = m + n
      /\ \A i \in 1..(m + n) : r[i] = IF i <= m THEN p[i] ELSE q[i - m]
  BY <1>1, <1>2, ConcatProperties
<1> HIDE DEF r, m, n
<1>4. ASSUME NEW i \in 1..(m + n)
      PROVE  \/ i \in 1..m /\ r[i] = p[i] /\ r[i] \in S
             \/ i - m \in 1..n /\ r[i] = q[i - m] /\ r[i] \in T
  <2>1. CASE i <= m
    BY <1>1, <1>3, <2>1
  <2>2. CASE ~(i <= m)
    <3>1. i - m \in 1..n
      BY <1>1, <2>2
    <3>2. r[i] = q[i - m]
      BY <1>1, <1>3, <2>2
    <3>3. q[i - m] \in T
      BY <1>1, <3>1
    <3> QED
      BY <3>1, <3>2, <3>3
  <2> QED
    BY <2>1, <2>2
<1>5. ASSUME NEW i \in 1..(m + n), NEW j \in 1..(m + n), r[i] = r[j] PROVE i = j
  <2>1. CASE i \in 1..m /\ r[i] = p[i] /\ r[i] \in S
    <3>1. r[j] \notin T
      BY <1>5, <2>1
    <3>2. j \in 1..m /\ r[j] = p[j]
      BY <1>4, <3>1
    <3> QED
      BY <1>0, <1>5, <2>1, <3>2
  <2>2. CASE i - m \in 1..n /\ r[i] = q[i - m] /\ r[i] \in T
    <3>1. r[j] \notin S
      BY <1>5, <2>2
    <3>2. j - m \in 1..n /\ r[j] = q[j - m]
      BY <1>4, <3>1
    <3>3. i - m = j - m
      BY <1>0, <1>5, <2>2, <3>2
    <3> QED
      BY <1>1, <3>3
  <2> QED
    BY <1>4, <2>1, <2>2
<1>6. ASSUME NEW x \in S \cup T PROVE \E i \in 1..(m + n) : r[i] = x
  <2>1. CASE x \in S
    <3>1. PICK i \in 1..m : p[i] = x
      BY <2>1 DEF Enumerates, m
    <3>2. i \in 1..(m + n) /\ i <= m
      BY <1>1
    <3> QED
      BY <1>3, <3>1, <3>2
  <2>2. CASE x \in T
    <3>1. PICK i \in 1..n : q[i] = x
      BY <2>2 DEF Enumerates, n
    <3>2. i + m \in 1..(m + n) /\ ~(i + m <= m) /\ i + m - m = i
      BY <1>1
    <3>3. r[i + m] = q[i + m - m]
      BY <1>1, <1>3, <3>2
    <3> QED
      BY <3>1, <3>2, <3>3
  <2> QED
    BY <2>1, <2>2
<1> QED
  BY <1>3, <1>5, <1>6 DEF Enumerates, r
-----------------------------------------------------------------------------
(* The copy, by its parts: what is copied of a set of rows. *)

Fine(q) == \A k \in 1..Len(q) : q[k] # Failed

\* q is what a copy of the rows R amounts to.
Copies(q, R, fit) ==
  /\ q \in Seq(Nat)
  /\ Fine(q) => Enumerates(q, R)
  /\ fit >= MinBatch => Fine(q)

\* No rows, no INSERT.
LEMMA CopiesNone ==
  ASSUME NEW fit
  PROVE  Copies(<<>>, {}, fit)
<1>1. <<>> \in Seq(Nat) /\ <<>> \in Seq({}) /\ Len(<<>>) = 0
  OBVIOUS
<1> QED
  BY <1>1 DEF Copies, Fine, Enumerates

\* One INSERT that fits.
LEMMA CopiesInOrder ==
  ASSUME NEW S \in SUBSET (Nat \ {0}), IsFiniteSet(S), NEW fit
  PROVE  Copies(InOrder(S), S, fit)
<1>1. Enumerates(InOrder(S), S)
  BY InOrderEnumerates
<1>2. InOrder(S) \in Seq(S)
  BY <1>1 DEF Enumerates
<1>3. InOrder(S) \in Seq(Nat)
  <2> DEFINE q == InOrder(S)
  <2>1. q \in Seq(S) /\ S \subseteq Nat
    BY <1>2
  <2> HIDE DEF q
  <2>2. q \in [1..Len(q) -> S] /\ Len(q) \in Nat
    BY <2>1
  <2>3. q \in [1..Len(q) -> Nat]
    BY <2>1, <2>2
  <2> QED
    BY <2>2, <2>3, FunctionIsSeq DEF q
<1>4. \A k \in 1..Len(InOrder(S)) : InOrder(S)[k] \in S
  BY <1>2
<1>5. Fine(InOrder(S))
  BY <1>4 DEF Fine, Failed
<1> QED
  BY <1>1, <1>3, <1>5 DEF Copies

\* An INSERT that does not, for good.
LEMMA CopiesFailed ==
  ASSUME NEW S, NEW fit \in Nat, fit < MinBatch
  PROVE  Copies(<<Failed>>, S, fit)
<1>1. <<Failed>> \in Seq(Nat) /\ Len(<<Failed>>) = 1 /\ <<Failed>>[1] = Failed
  BY DEF Failed
<1> QED
  BY <1>1, BatchAssumption DEF Copies, Fine

\* Two halves one after the other.
LEMMA CopiesBoth ==
  ASSUME NEW S, NEW T, NEW p, NEW q, NEW fit, Copies(p, S, fit), Copies(q, T, fit), S \cap T = {}
  PROVE  Copies(p \o q, S \cup T, fit)
<1> DEFINE r == p \o q  m == Len(p)  n == Len(q)
<1>1. p \in Seq(Nat) /\ q \in Seq(Nat) /\ m \in Nat /\ n \in Nat
  BY DEF Copies
<1>2. /\ r \in Seq(Nat) /\ Len(r) = m + n
      /\ \A i \in 1..(m + n) : r[i] = IF i <= m THEN p[i] ELSE q[i - m]
  BY <1>1, ConcatProperties
<1> HIDE DEF r, m, n
<1>3. ASSUME Fine(p), Fine(q) PROVE Fine(r)
  <2> SUFFICES ASSUME NEW i \in 1..(m + n) PROVE r[i] # Failed
    BY <1>2 DEF Fine
  <2>1. CASE i <= m
    <3>1. i \in 1..m
      BY <1>1, <2>1
    <3> QED
      BY <1>2, <1>3, <2>1, <3>1 DEF Fine, m
  <2>2. CASE ~(i <= m)
    <3>1. i - m \in 1..n /\ r[i] = q[i - m]
      BY <1>1, <1>2, <2>2
    <3> QED
      BY <1>3, <3>1 DEF Fine, n
  <2> QED
    BY <2>1, <2>2
<1>4. ASSUME Fine(r) PROVE Fine(p) /\ Fine(q)
  <2>1. ASSUME NEW i \in 1..m PROVE p[i] # Failed
    <3>1. i \in 1..(m + n) /\ i <= m
      BY <1>1
    <3> QED
      BY <1>2, <1>4, <3>1 DEF Fine
  <2>2. ASSUME NEW i \in 1..n PROVE q[i] # Failed
    <3>1. i + m \in 1..(m + n) /\ ~(i + m <= m) /\ i + m - m = i
      BY <1>1
    <3>2. r[i + m] = q[i + m - m]
      BY <1>1, <1>2, <3>1
    <3>3. r[i + m] # Failed
      BY <1>2, <1>4, <3>1 DEF Fine
    <3> QED
      BY <3>1, <3>2, <3>3
  <2> QED
    BY <2>1, <2>2 DEF Fine, m, n
<1>5. ASSUME Fine(r) PROVE Enumerates(r, S \cup T)
  <2>1. Enumerates(p, S) /\ Enumerates(q, T)
    BY <1>4, <1>5 DEF Copies
  <2> QED
    BY <2>1, EnumeratesBoth DEF r
<1>6. fit >= MinBatch => Fine(r)
  BY <1>3 DEF Copies
<1> QED
  BY <1>2, <1>5, <1>6 DEF Copies, r

-----------------------------------------------------------------------------
(* Ranges that are halved, again and again. *)

\* The wholes in D, and how wide a range is.
Bounds(D) == D \in {Nat, Int}
Width(s)  == IF s[1] < s[2] THEN s[2] - s[1] ELSE 0

Mid(s)    == s[1] + (s[2] - s[1]) \div 2
Lower(s)  == <<s[1], Mid(s)>>
Upper(s)  == <<Mid(s), s[2]>>

\* Ranges in H are halved, w is for the others.
Halves(f, D, H, w) ==
  \A s \in D \X D : f[s] = IF s \in H THEN f[Lower(s)] \o f[Upper(s)] ELSE w[s]

\* The halves are ranges, and narrower.
LEMMA HalvesNarrower ==
  ASSUME NEW D, Bounds(D), NEW s \in D \X D, s[2] - s[1] > 1
  PROVE  /\ Lower(s) \in D \X D /\ Upper(s) \in D \X D
         /\ Width(Lower(s)) < Width(s) /\ Width(Upper(s)) < Width(s)
<1> DEFINE lo == s[1]  hi == s[2]  mid == lo + (hi - lo) \div 2
<1>1. lo \in D /\ hi \in D /\ lo \in Int /\ hi \in Int
  BY DEF Bounds
<1>2. hi - lo > 1 /\ Lower(s) = <<lo, mid>> /\ Upper(s) = <<mid, hi>>
  BY DEF Lower, Upper, Mid
<1>3. Width(s) = IF lo < hi THEN hi - lo ELSE 0
  BY DEF Width
<1> HIDE DEF lo, hi
<1>4. mid \in Int /\ lo < mid /\ mid < hi
  BY <1>1, <1>2
<1> HIDE DEF mid
<1>5. mid \in D
  BY <1>1, <1>4 DEF Bounds
<1> QED
  BY <1>1, <1>2, <1>3, <1>4, <1>5 DEF Width

\* The halving comes to an end.
LEMMA HalvingEnds ==
  ASSUME NEW D, Bounds(D), NEW H, \A s \in D \X D : s \in H => s[2] - s[1] > 1,
         NEW w \in [D \X D -> Seq(Nat)]
  PROVE  \E f \in [D \X D -> Seq(Nat)] : Halves(f, D, H, w)
<1> DEFINE X == D \X D
           V == Seq(Nat)
           M == [s \in X |-> Width(s)]
           G == [f \in [X -> V] |-> [s \in X |->
                  IF s \in H THEN f[Lower(s)] \o f[Upper(s)] ELSE w[s]]]
<1>1. M \in [X -> Nat]
  <2>1. \A s \in X : s[1] \in Int /\ s[2] \in Int
    BY DEF Bounds
  <2> QED
    BY <2>1 DEF Width
<1>2. \A s \in X : s \in H => /\ Lower(s) \in X /\ Upper(s) \in X
                              /\ M[Lower(s)] < M[s] /\ M[Upper(s)] < M[s]
  BY HalvesNarrower
<1>3. V # {}
  BY EmptySeq
<1> HIDE DEF X, V, M
<1>4. ASSUME NEW f \in [X -> V], NEW s \in X
      PROVE  (IF s \in H THEN f[Lower(s)] \o f[Upper(s)] ELSE w[s]) \in V
  <2>1. CASE s \in H
    <3>1. f[Lower(s)] \in V /\ f[Upper(s)] \in V
      BY <1>2, <2>1
    <3>2. f[Lower(s)] \o f[Upper(s)] \in V
      BY <3>1, ConcatProperties DEF V
    <3> QED
      BY <2>1, <3>2
  <2>2. CASE s \notin H
    BY <2>2 DEF X, V
  <2> QED
    BY <2>1, <2>2
<1>5. G \in [[X -> V] -> [X -> V]]
  BY <1>4
<1>6. \A f \in [X -> V] : \A s \in X :
        G[f][s] = IF s \in H THEN f[Lower(s)] \o f[Upper(s)] ELSE w[s]
  OBVIOUS
<1> HIDE DEF G
<1>7. ASSUME NEW f \in [X -> V], NEW g \in [X -> V], NEW s \in X,
             \A y \in X : M[y] < M[s] => f[y] = g[y]
      PROVE  G[f][s] = G[g][s]
  <2>1. CASE s \in H
    <3>1. f[Lower(s)] = g[Lower(s)] /\ f[Upper(s)] = g[Upper(s)]
      BY <1>2, <1>7, <2>1
    <3> QED
      BY <1>6, <3>1
  <2>2. CASE s \notin H
    BY <1>6, <2>2
  <2> QED
    BY <2>1, <2>2
<1>8. \A f, g \in [X -> V] : \A s \in X :
        (\A y \in X : M[y] < M[s] => f[y] = g[y]) => G[f][s] = G[g][s]
  BY <1>7, Zenon
<1>9. PICK f \in [X -> V] : G[f] = f
  <2>1. Recursive(X, V, M, G)
    BY <1>1, <1>3, <1>5, <1>8, Zenon DEF Recursive
  <2> QED
    BY <2>1, FixedPoint
<1>10. \A s \in X : f[s] = IF s \in H THEN f[Lower(s)] \o f[Upper(s)] ELSE w[s]
  BY <1>6, <1>9, Zenon
<1>11. Halves(f, D, H, w)
  BY <1>10, Zenon DEF Halves, X
<1> QED
  BY <1>9, <1>11, Zenon DEF X, V

\* What is not halved is copied, and of what is each half has its rows.
CopiedApart(D, H, w, rows, fit) ==
  \A s \in D \X D :
    /\ s \in H => s[2] - s[1] > 1
    /\ s \notin H => Copies(w[s], rows[s], fit)
    /\ s \in H => /\ rows[s] = rows[Lower(s)] \cup rows[Upper(s)]
                  /\ rows[Lower(s)] \cap rows[Upper(s)] = {}

\* Then everything is copied.
LEMMA HalvesCopied ==
  ASSUME NEW D, Bounds(D), NEW H, NEW w, NEW f, Halves(f, D, H, w), NEW rows, NEW fit,
         CopiedApart(D, H, w, rows, fit)
  PROVE  \A s \in D \X D : Copies(f[s], rows[s], fit)
<1> SUFFICES ASSUME
      \A s \in D \X D : s \in H => s[2] - s[1] > 1,
      \A s \in D \X D : s \notin H => Copies(w[s], rows[s], fit),
      \A s \in D \X D : s \in H => /\ rows[s] = rows[Lower(s)] \cup rows[Upper(s)]
                                   /\ rows[Lower(s)] \cap rows[Upper(s)] = {}
    PROVE  \A s \in D \X D : Copies(f[s], rows[s], fit)
  BY Zenon DEF CopiedApart
<1> DEFINE X == D \X D
           Wrong == {s \in X : ~Copies(f[s], rows[s], fit)}
           T == {Width(s) : s \in Wrong}
<1>1. \A s \in X : Width(s) \in Nat
  <2>1. \A s \in X : s[1] \in Int /\ s[2] \in Int
    BY DEF Bounds
  <2> QED
    BY <2>1 DEF Width
<1> SUFFICES ASSUME Wrong # {} PROVE FALSE
  OBVIOUS
<1>2. T \in SUBSET Nat /\ T # {}
  BY <1>1
<1>3. PICK m \in T : \A k \in T : m <= k
  BY <1>2, LeastNumber
<1>4. PICK s \in X : Width(s) = m /\ ~Copies(f[s], rows[s], fit)
  BY <1>3
<1>5. ASSUME NEW y \in X, Width(y) < Width(s) PROVE Copies(f[y], rows[y], fit)
  <2>1. Width(y) \in T => m <= Width(y)
    BY <1>3
  <2>2. Width(y) \notin T
    BY <1>1, <1>4, <1>5, <2>1
  <2> QED
    BY <2>2
<1>6. CASE s \in H
  <2>1. /\ Lower(s) \in X /\ Upper(s) \in X
        /\ Width(Lower(s)) < Width(s) /\ Width(Upper(s)) < Width(s)
    BY <1>6, HalvesNarrower
  <2>2. Copies(f[Lower(s)], rows[Lower(s)], fit) /\ Copies(f[Upper(s)], rows[Upper(s)], fit)
    BY <1>5, <2>1
  <2>3. f[s] = f[Lower(s)] \o f[Upper(s)]
    BY <1>6 DEF Halves
  <2>4. Copies(f[Lower(s)] \o f[Upper(s)], rows[Lower(s)] \cup rows[Upper(s)], fit)
    BY <1>6, <2>2, CopiesBoth
  <2> QED
    BY <1>4, <1>6, <2>3, <2>4
<1>7. CASE s \notin H
  BY <1>4, <1>7 DEF Halves
<1> QED
  BY <1>6, <1>7

-----------------------------------------------------------------------------
(* copySpanByRowid and copyRowidRange. *)

RowidHalved(S, max, fit, s) ==
  LET n == Cardinality(Ranged(S, s[1], s[2]))
  IN  n > 0 /\ s[2] - s[1] > 1 /\ (n > max \/ (n > fit /\ n > MinBatch))

RowidWhole(S, fit, s) ==
  LET n == Cardinality(Ranged(S, s[1], s[2]))
  IN  IF n = 0 THEN <<>> ELSE IF n > fit THEN <<Failed>> ELSE InOrder(Ranged(S, s[1], s[2]))

\* What is done with a range.
LEMMA RowidRangeIs ==
  ASSUME NEW S, NEW max, NEW fit, NEW copied, NEW s, Cardinality(Ranged(S, s[1], s[2])) \in Nat
  PROVE  CopyRowidRange(S, max, fit, copied, s[1], s[2])
           = IF RowidHalved(S, max, fit, s) THEN copied[Lower(s)] \o copied[Upper(s)]
                                            ELSE RowidWhole(S, fit, s)
<1> DEFINE R == Ranged(S, s[1], s[2])
           n == Cardinality(R)
           mid == s[1] + (s[2] - s[1]) \div 2
           halve == s[2] - s[1] > 1 /\ (n > max \/ (n > fit /\ n > MinBatch))
           q == CopyRowidRange(S, max, fit, copied, s[1], s[2])
<1>1. (n = 0 => ~(n > 0)) /\ (n # 0 => n > 0)
  OBVIOUS
<1>2. n = 0 => q = <<>>
  BY <1>1, Zenon DEF CopyRowidRange
<1>3. n # 0 /\ halve => q = copied[<<s[1], mid>>] \o copied[<<mid, s[2]>>]
  BY <1>1, Zenon DEF CopyRowidRange
<1>4. n # 0 /\ ~halve => q = IF n > fit THEN <<Failed>> ELSE InOrder(R)
  BY <1>1, Zenon DEF CopyRowidRange
<1>5. RowidHalved(S, max, fit, s) <=> n # 0 /\ halve
  BY <1>1, Zenon DEF RowidHalved
<1>6. RowidWhole(S, fit, s) = IF n = 0 THEN <<>> ELSE IF n > fit THEN <<Failed>> ELSE InOrder(R)
  BY Zenon DEF RowidWhole
<1>7. Lower(s) = <<s[1], mid>> /\ Upper(s) = <<mid, s[2]>>
  BY Zenon DEF Lower, Upper, Mid
<1> HIDE DEF n, halve, mid, q, R
<1>8. CASE n # 0 /\ halve
  <2>1. RowidHalved(S, max, fit, s) /\ q = copied[Lower(s)] \o copied[Upper(s)]
    BY <1>3, <1>5, <1>7, <1>8
  <2> QED
    BY <2>1 DEF q
<1>9. CASE ~(n # 0 /\ halve)
  <2>1. ~RowidHalved(S, max, fit, s) /\ q = RowidWhole(S, fit, s)
    BY <1>2, <1>4, <1>5, <1>6, <1>9
  <2> QED
    BY <2>1 DEF q
<1> QED
  BY <1>8, <1>9

\* The rows of a range are finitely many, one at most in a range of one rowid.
LEMMA RowsRanged ==
  ASSUME NEW S \in SUBSET Nat, IsFiniteSet(S), NEW lo \in Nat, NEW hi \in Nat
  PROVE  /\ IsFiniteSet(Ranged(S, lo, hi)) /\ Cardinality(Ranged(S, lo, hi)) \in Nat
         /\ Cardinality(Ranged(S, lo, hi)) = 0 => Ranged(S, lo, hi) = {}
         /\ hi - lo <= 1 => Cardinality(Ranged(S, lo, hi)) <= 1
<1> DEFINE R == Ranged(S, lo, hi)
<1>1. R \in SUBSET S
  BY DEF Ranged
<1>2. IsFiniteSet(R) /\ Cardinality(R) \in Nat
  BY <1>1, FS_Subset, FS_CardinalityType
<1>3. Cardinality(R) = 0 => R = {}
  BY <1>2, FS_EmptySet
<1>4. hi - lo <= 1 => Cardinality(R) <= 1
  <2> SUFFICES ASSUME hi - lo <= 1 PROVE Cardinality(R) <= 1
    OBVIOUS
  <2>1. R \in SUBSET {lo}
    <3>1. ASSUME NEW i \in S, lo <= i, i < hi PROVE i = lo
      <4>1. i \in Nat
        OBVIOUS
      <4> QED
        BY <3>1, <4>1
    <3> QED
      BY <3>1, Zenon DEF Ranged
  <2>2. IsFiniteSet({lo}) /\ Cardinality({lo}) = 1
    BY FS_Singleton
  <2> HIDE DEF R
  <2>3. Cardinality(R) <= Cardinality({lo})
    BY <2>1, <2>2, FS_Subset
  <2> QED
    BY <2>2, <2>3
<1> QED
  BY <1>2, <1>3, <1>4

\* The range's rows are those of its halves.
LEMMA RangedHalves ==
  ASSUME NEW S \in SUBSET Nat, NEW s \in Nat \X Nat, s[2] - s[1] > 1
  PROVE  /\ Ranged(S, s[1], s[2])
              = Ranged(S, Lower(s)[1], Lower(s)[2]) \cup Ranged(S, Upper(s)[1], Upper(s)[2])
         /\ Ranged(S, Lower(s)[1], Lower(s)[2]) \cap Ranged(S, Upper(s)[1], Upper(s)[2]) = {}
<1> DEFINE lo == s[1]  hi == s[2]  mid == Mid(s)
<1>1. mid \in Int /\ lo <= mid /\ mid <= hi /\ lo \in Nat /\ hi \in Nat
  BY DEF Mid
<1>2. Lower(s)[1] = lo /\ Lower(s)[2] = mid /\ Upper(s)[1] = mid /\ Upper(s)[2] = hi
  BY DEF Lower, Upper
<1> HIDE DEF lo, hi, mid
<1>3. ASSUME NEW i \in S
      PROVE  /\ (lo <= i /\ i < hi) <=> (lo <= i /\ i < mid) \/ (mid <= i /\ i < hi)
             /\ ~(i < mid /\ mid <= i)
  <2>1. i \in Nat
    OBVIOUS
  <2> QED
    BY <1>1, <2>1
<1>4. /\ Ranged(S, lo, hi) = Ranged(S, lo, mid) \cup Ranged(S, mid, hi)
      /\ Ranged(S, lo, mid) \cap Ranged(S, mid, hi) = {}
  BY <1>3, Zenon DEF Ranged
<1> QED
  BY <1>2, <1>4, Zenon DEF lo, hi

\* What is not halved is copied, if the least batch fits.
LEMMA RowidWholeCopied ==
  ASSUME NEW S \in SUBSET (Nat \ {0}), IsFiniteSet(S), NEW fit \in Nat, NEW s \in Nat \X Nat
  PROVE  /\ RowidWhole(S, fit, s) \in Seq(Nat)
         /\ \A max \in Nat \ {0} : ~RowidHalved(S, max, fit, s) =>
              Copies(RowidWhole(S, fit, s), Ranged(S, s[1], s[2]), fit)
<1> DEFINE R == Ranged(S, s[1], s[2])
           n == Cardinality(R)
           q == RowidWhole(S, fit, s)
<1>1. s[1] \in Nat /\ s[2] \in Nat /\ S \in SUBSET Nat
  OBVIOUS
<1>2. IsFiniteSet(R) /\ n \in Nat /\ (n = 0 => R = {}) /\ (s[2] - s[1] <= 1 => n <= 1)
  BY <1>1, RowsRanged
<1>3. R \in SUBSET (Nat \ {0})
  BY DEF Ranged
<1>4. q = IF n = 0 THEN <<>> ELSE IF n > fit THEN <<Failed>> ELSE InOrder(R)
  BY Zenon DEF RowidWhole
<1>5. \A max \in Nat \ {0} : ~RowidHalved(S, max, fit, s) /\ n # 0 /\ n > fit => fit < MinBatch
  <2>1. \A max : RowidHalved(S, max, fit, s)
                   <=> n > 0 /\ s[2] - s[1] > 1 /\ (n > max \/ (n > fit /\ n > MinBatch))
    BY Zenon DEF RowidHalved
  <2> HIDE DEF n, R
  <2> QED
    BY <1>1, <1>2, <2>1, BatchAssumption
<1> HIDE DEF n, q, R
<1>6. CASE n = 0
  <2>1. q = <<>> /\ Copies(<<>>, R, fit)
    BY <1>2, <1>4, <1>6, CopiesNone
  <2> QED
    BY <2>1 DEF Copies, q, R
<1>7. CASE n # 0 /\ ~(n > fit)
  <2>1. q = InOrder(R) /\ Copies(q, R, fit)
    BY <1>2, <1>3, <1>4, <1>7, CopiesInOrder
  <2> QED
    BY <2>1 DEF Copies, q, R
<1>8. CASE n # 0 /\ n > fit
  <2>1. q = <<Failed>> /\ q \in Seq(Nat)
    BY <1>4, <1>8 DEF Failed
  <2>2. ASSUME NEW max \in Nat \ {0}, ~RowidHalved(S, max, fit, s) PROVE Copies(q, R, fit)
    BY <1>5, <1>8, <2>1, <2>2, CopiesFailed
  <2> QED
    BY <2>1, <2>2 DEF q, R
<1> QED
  BY <1>6, <1>7, <1>8

IsRowidCopy(g, S, max, fit) == g = [s \in Nat \X Nat |-> CopyRowidRange(S, max, fit, g, s[1], s[2])]

\* The rows of one microsecond are copied by ranges of their rowids.
LEMMA SpanByRowidCopied ==
  ASSUME NEW S \in SUBSET (Nat \ {0}), IsFiniteSet(S), S # {},
         NEW max \in Nat \ {0}, NEW fit \in Nat
  PROVE  Copies(CopySpanByRowid(S, max, fit), S, fit)
<1> DEFINE X == Nat \X Nat
           H == {s \in X : RowidHalved(S, max, fit, s)}
           w == [s \in X |-> RowidWhole(S, fit, s)]
           rows == [s \in X |-> Ranged(S, s[1], s[2])]
<1>1. Bounds(Nat) /\ \A s \in X : s \in H => s[2] - s[1] > 1
  BY DEF Bounds, RowidHalved
<1>2. w \in [X -> Seq(Nat)]
  BY RowidWholeCopied
<1>3. ASSUME NEW g, NEW s \in X
      PROVE  CopyRowidRange(S, max, fit, g, s[1], s[2])
               = IF s \in H THEN g[Lower(s)] \o g[Upper(s)] ELSE w[s]
  <2>1. Cardinality(Ranged(S, s[1], s[2])) \in Nat
    BY RowsRanged
  <2>2. (s \in H) <=> RowidHalved(S, max, fit, s)
    BY DEF H
  <2>3. w[s] = RowidWhole(S, fit, s)
    BY DEF w
  <2> HIDE DEF H, w
  <2> QED
    BY <2>1, <2>2, <2>3, RowidRangeIs
<1>4. PICK f \in [X -> Seq(Nat)] : Halves(f, Nat, H, w)
  <2> HIDE DEF H, w
  <2> QED
    BY <1>1, <1>2, HalvingEnds
<1>5. \E g : IsRowidCopy(g, S, max, fit)
  <2>1. \A s \in X : f[s] = CopyRowidRange(S, max, fit, f, s[1], s[2])
    <3> HIDE DEF H, w
    <3> QED
      BY <1>3, <1>4, Zenon DEF Halves
  <2>2. f = [s \in X |-> CopyRowidRange(S, max, fit, f, s[1], s[2])]
    BY <1>4, <2>1
  <2> QED
    BY <2>2, Zenon DEF IsRowidCopy
<1> DEFINE c == CHOOSE g : IsRowidCopy(g, S, max, fit)
<1>6. IsRowidCopy(c, S, max, fit)
  BY <1>5, Zenon
<1>7. CopySpanByRowid(S, max, fit) = c[<<Min(S), Max(S) + 1>>]
  <2> HIDE DEF CopyRowidRange
  <2> QED
    BY Zenon DEF CopySpanByRowid, IsRowidCopy
<1> HIDE DEF c
<1>8. Halves(c, Nat, H, w)
  <2>1. \A s \in X : c[s] = CopyRowidRange(S, max, fit, c, s[1], s[2])
    BY <1>6 DEF IsRowidCopy
  <2> HIDE DEF H, w
  <2> QED
    BY <1>3, <2>1, Zenon DEF Halves
<1>9. \A s \in X : s \notin H => Copies(w[s], rows[s], fit)
  BY RowidWholeCopied
<1>10. \A s \in X : s \in H => /\ rows[s] = rows[Lower(s)] \cup rows[Upper(s)]
                                /\ rows[Lower(s)] \cap rows[Upper(s)] = {}
  <2> SUFFICES ASSUME NEW s \in X, s \in H
               PROVE  /\ rows[s] = rows[Lower(s)] \cup rows[Upper(s)]
                      /\ rows[Lower(s)] \cap rows[Upper(s)] = {}
    OBVIOUS
  <2>1. s[2] - s[1] > 1 /\ Lower(s) \in X /\ Upper(s) \in X
    BY <1>1, HalvesNarrower
  <2>2. /\ rows[s] = Ranged(S, s[1], s[2])
        /\ rows[Lower(s)] = Ranged(S, Lower(s)[1], Lower(s)[2])
        /\ rows[Upper(s)] = Ranged(S, Upper(s)[1], Upper(s)[2])
    BY <2>1
  <2>3. S \in SUBSET Nat
    OBVIOUS
  <2>4. /\ Ranged(S, s[1], s[2])
              = Ranged(S, Lower(s)[1], Lower(s)[2]) \cup Ranged(S, Upper(s)[1], Upper(s)[2])
        /\ Ranged(S, Lower(s)[1], Lower(s)[2]) \cap Ranged(S, Upper(s)[1], Upper(s)[2]) = {}
    BY <2>1, <2>3, RangedHalves
  <2> HIDE DEF rows, H
  <2> QED
    BY <2>2, <2>4
<1>11. \A s \in X : Copies(c[s], rows[s], fit)
  <2> HIDE DEF H, w, rows
  <2> QED
    <3>1. CopiedApart(Nat, H, w, rows, fit)
      BY <1>1, <1>9, <1>10, Zenon DEF CopiedApart
    <3> QED
      BY <1>1, <1>8, <3>1, HalvesCopied, Zenon
<1>12. /\ <<Min(S), Max(S) + 1>> \in X /\ rows[<<Min(S), Max(S) + 1>>] = S
  <2>1. S \in SUBSET Int /\ \A i \in S : i \in Nat
    OBVIOUS
  <2>2. /\ Min(S) \in S /\ \A i \in S : Min(S) <= i
        /\ Max(S) \in S /\ \A i \in S : i <= Max(S)
    BY <2>1, Extremes
  <2>3. Min(S) \in Nat /\ Max(S) \in Nat /\ Max(S) + 1 \in Nat
    <3>1. Min(S) \in Nat /\ Max(S) \in Nat
      BY <2>1, <2>2, Zenon
    <3> QED
      BY <3>1
  <2>5. ASSUME NEW i \in S PROVE Min(S) <= i /\ i < Max(S) + 1
    <3>1. i \in Nat /\ Min(S) <= i /\ i <= Max(S)
      BY <2>1, <2>2
    <3> QED
      BY <2>3, <3>1
  <2>4. Ranged(S, Min(S), Max(S) + 1) = S
    BY <2>5, Zenon DEF Ranged
  <2> QED
    BY <2>3, <2>4
<1> QED
  BY <1>7, <1>11, <1>12

-----------------------------------------------------------------------------
(* copyRange and copySpan. *)

\* The quotients of two numbers are in their order.
LEMMA DivMonotone ==
  ASSUME NEW a \in Int, NEW b \in Int, a <= b
  PROVE  a \div Micro \in Int /\ b \div Micro \in Int /\ a \div Micro <= b \div Micro
BY MicroAssumption

\* A multiple, divided.
LEMMA DivTimes ==
  ASSUME NEW a \in Int
  PROVE  (a * Micro) \div Micro = a /\ (a * Micro + Micro) \div Micro = a + 1
BY MicroAssumption

\* Rowids, each with a time.
Timed(table0, P) == P \in SUBSET (Nat \ {0}) /\ IsFiniteSet(P) /\ \A i \in P : table0[i].at \in Int

\* A span's rows are finitely many.
LEMMA RowsSpanned ==
  ASSUME NEW t, NEW P, Timed(t, P), NEW lo, NEW hi
  PROVE  LET S == Spanned(t, P, lo, hi)
         IN  /\ S \in SUBSET (Nat \ {0}) /\ IsFiniteSet(S)
             /\ Cardinality(S) \in Nat /\ (Cardinality(S) = 0 => S = {})
<1> DEFINE S == Spanned(t, P, lo, hi)
<1>1. S \in SUBSET P
  BY DEF Spanned
<1>2. S \in SUBSET (Nat \ {0})
  BY <1>1 DEF Timed
<1> HIDE DEF S
<1>3. IsFiniteSet(S) /\ Cardinality(S) \in Nat
  BY <1>1, FS_Subset, FS_CardinalityType DEF Timed
<1>4. Cardinality(S) = 0 => S = {}
  BY <1>3, FS_EmptySet
<1> QED
  BY <1>2, <1>3, <1>4 DEF S

\* The span's rows are those of its halves.
LEMMA SpannedHalves ==
  ASSUME NEW t, NEW P, Timed(t, P), NEW s \in Int \X Int, s[2] - s[1] > 1
  PROVE  /\ Spanned(t, P, s[1], s[2])
              = Spanned(t, P, Lower(s)[1], Lower(s)[2]) \cup Spanned(t, P, Upper(s)[1], Upper(s)[2])
         /\ Spanned(t, P, Lower(s)[1], Lower(s)[2]) \cap Spanned(t, P, Upper(s)[1], Upper(s)[2]) = {}
<1> DEFINE lo == s[1]  hi == s[2]  mid == Mid(s)
<1>1. mid \in Int /\ lo <= mid /\ mid <= hi /\ lo \in Int /\ hi \in Int
  BY DEF Mid
<1>2. Lower(s)[1] = lo /\ Lower(s)[2] = mid /\ Upper(s)[1] = mid /\ Upper(s)[2] = hi
  BY DEF Lower, Upper
<1> HIDE DEF lo, hi, mid
<1> DEFINE l == lo \div Micro  m == mid \div Micro  h == hi \div Micro
<1>3. l \in Int /\ m \in Int /\ h \in Int /\ l <= m /\ m <= h
  BY <1>1, DivMonotone
<1> HIDE DEF l, m, h
<1>4. ASSUME NEW i \in P
      PROVE  /\ (l <= t[i].at /\ t[i].at < h)
                  <=> (l <= t[i].at /\ t[i].at < m) \/ (m <= t[i].at /\ t[i].at < h)
             /\ ~(t[i].at < m /\ m <= t[i].at)
  <2>1. t[i].at \in Int
    BY DEF Timed
  <2> QED
    BY <1>3, <2>1
<1>5. \A i \in P : /\ InSpan(t[i].at, lo, hi) <=> l <= t[i].at /\ t[i].at < h
                   /\ InSpan(t[i].at, lo, mid) <=> l <= t[i].at /\ t[i].at < m
                   /\ InSpan(t[i].at, mid, hi) <=> m <= t[i].at /\ t[i].at < h
  BY Zenon DEF InSpan, l, m, h
<1>6. \A i \in P : /\ InSpan(t[i].at, lo, hi) <=> InSpan(t[i].at, lo, mid) \/ InSpan(t[i].at, mid, hi)
                   /\ ~(InSpan(t[i].at, lo, mid) /\ InSpan(t[i].at, mid, hi))
  BY <1>4, <1>5, Zenon
<1>7. /\ Spanned(t, P, lo, hi) = Spanned(t, P, lo, mid) \cup Spanned(t, P, mid, hi)
      /\ Spanned(t, P, lo, mid) \cap Spanned(t, P, mid, hi) = {}
  BY <1>6, Zenon DEF Spanned
<1> QED
  BY <1>2, <1>7, Zenon DEF lo, hi

SpanHalved(t, P, fit, s) ==
  LET n == Cardinality(Spanned(t, P, s[1], s[2]))
  IN  (n > MaxBatch \/ n > fit) /\ n > 1 /\ s[2] - s[1] > Micro

SpanWhole(t, P, fit, s) ==
  LET S == Spanned(t, P, s[1], s[2])
      n == Cardinality(S)
  IN  IF n = 0 THEN <<>>
      ELSE IF ~(n > MaxBatch) /\ ~(n > fit) THEN InOrder(S)
      ELSE IF n > MaxBatch THEN CopySpanByRowid(S, MaxBatch, fit)
      ELSE CopySpanByRowid(S, Max({MaxBatch \div 2, MinBatch}), fit)

\* What is done with a span.
LEMMA SpanIs ==
  ASSUME NEW t, NEW P, NEW fit \in Nat, NEW copied, NEW s, Cardinality(Spanned(t, P, s[1], s[2])) \in Nat
  PROVE  CopySpan(t, P, fit, copied, s[1], s[2])
           = IF SpanHalved(t, P, fit, s) THEN copied[Lower(s)] \o copied[Upper(s)]
                                         ELSE SpanWhole(t, P, fit, s)
<1> DEFINE S == Spanned(t, P, s[1], s[2])
           n == Cardinality(S)
           mid == s[1] + (s[2] - s[1]) \div 2
           splittable == n > 1 /\ s[2] - s[1] > Micro
           q == CopySpan(t, P, fit, copied, s[1], s[2])
<1>1. /\ n = 0 => ~(n > 0) /\ ~(n > 1) /\ ~(n > MaxBatch) /\ ~(n > fit)
      /\ n # 0 => n > 0
      /\ n <= MaxBatch <=> ~(n > MaxBatch)
      /\ n <= fit <=> ~(n > fit)
  BY BatchAssumption
<1>2. n = 0 => q = <<>>
  BY <1>1, Zenon DEF CopySpan
<1>3. n # 0 /\ ~(n > MaxBatch) /\ ~(n > fit) => q = InOrder(S)
  BY <1>1, Zenon DEF CopySpan
<1>4. n # 0 /\ (n > MaxBatch \/ n > fit) /\ splittable
        => q = copied[<<s[1], mid>>] \o copied[<<mid, s[2]>>]
  BY <1>1, Zenon DEF CopySpan
<1>5. n # 0 /\ n > MaxBatch /\ ~splittable => q = CopySpanByRowid(S, MaxBatch, fit)
  BY <1>1, Zenon DEF CopySpan
<1>6. n # 0 /\ ~(n > MaxBatch) /\ n > fit /\ ~splittable
        => q = CopySpanByRowid(S, Max({MaxBatch \div 2, MinBatch}), fit)
  BY <1>1, Zenon DEF CopySpan
<1>7. SpanHalved(t, P, fit, s) <=> n # 0 /\ (n > MaxBatch \/ n > fit) /\ splittable
  BY <1>1, Zenon DEF SpanHalved
<1>8. SpanWhole(t, P, fit, s)
        = IF n = 0 THEN <<>> ELSE IF ~(n > MaxBatch) /\ ~(n > fit) THEN InOrder(S)
          ELSE IF n > MaxBatch THEN CopySpanByRowid(S, MaxBatch, fit)
          ELSE CopySpanByRowid(S, Max({MaxBatch \div 2, MinBatch}), fit)
  BY Zenon DEF SpanWhole
<1>9. Lower(s) = <<s[1], mid>> /\ Upper(s) = <<mid, s[2]>>
  BY Zenon DEF Lower, Upper, Mid
<1> HIDE DEF n, splittable, mid, q, S
<1>10. CASE n # 0 /\ (n > MaxBatch \/ n > fit) /\ splittable
  <2>1. SpanHalved(t, P, fit, s) /\ q = copied[Lower(s)] \o copied[Upper(s)]
    BY <1>4, <1>7, <1>9, <1>10
  <2> QED
    BY <2>1 DEF q
<1>11. CASE ~(n # 0 /\ (n > MaxBatch \/ n > fit) /\ splittable)
  <2>1. ~SpanHalved(t, P, fit, s) /\ q = SpanWhole(t, P, fit, s)
    BY <1>2, <1>3, <1>5, <1>6, <1>7, <1>8, <1>11
  <2> QED
    BY <2>1 DEF q
<1> QED
  BY <1>10, <1>11

\* What is not halved is copied in one INSERT, or by rowids.
LEMMA SpanWholeCopied ==
  ASSUME NEW t, NEW P, Timed(t, P), NEW fit \in Nat, NEW s \in Int \X Int
  PROVE  Copies(SpanWhole(t, P, fit, s), Spanned(t, P, s[1], s[2]), fit)
<1> DEFINE S == Spanned(t, P, s[1], s[2])
           n == Cardinality(S)
           less == Max({MaxBatch \div 2, MinBatch})
           q == SpanWhole(t, P, fit, s)
<1>1. /\ S \in SUBSET (Nat \ {0}) /\ IsFiniteSet(S)
      /\ n \in Nat /\ (n = 0 => S = {}) /\ (n # 0 => S # {})
  <2>1. /\ S \in SUBSET (Nat \ {0}) /\ IsFiniteSet(S)
        /\ n \in Nat /\ (n = 0 => S = {})
    BY RowsSpanned
  <2>2. S = {} => n = 0
    BY FS_EmptySet
  <2> QED
    BY <2>1, <2>2
<1>2. less \in Nat \ {0}
  <2>1. MaxBatch \div 2 \in Nat /\ MinBatch \in Nat \ {0}
    BY BatchAssumption
  <2>2. {MaxBatch \div 2, MinBatch} \in SUBSET Int /\ {MaxBatch \div 2, MinBatch} # {}
    BY <2>1
  <2>3. IsFiniteSet({MaxBatch \div 2, MinBatch})
    <3>1. IsFiniteSet({MinBatch} \cup {MaxBatch \div 2})
      BY FS_Singleton, FS_AddElement
    <3>2. {MinBatch} \cup {MaxBatch \div 2} = {MaxBatch \div 2, MinBatch}
      OBVIOUS
    <3> QED
      BY <3>1, <3>2
  <2>4. less \in {MaxBatch \div 2, MinBatch} /\ MinBatch <= less
    BY <2>2, <2>3, Extremes
  <2> HIDE DEF less
  <2> QED
    BY <2>1, <2>4
<1>3. q = IF n = 0 THEN <<>> ELSE IF ~(n > MaxBatch) /\ ~(n > fit) THEN InOrder(S)
          ELSE IF n > MaxBatch THEN CopySpanByRowid(S, MaxBatch, fit)
          ELSE CopySpanByRowid(S, less, fit)
  BY Zenon DEF SpanWhole
<1> HIDE DEF S, n, less, q
<1>4. CASE n = 0
  BY <1>1, <1>3, <1>4, CopiesNone DEF q, S
<1>5. CASE n # 0 /\ ~(n > MaxBatch) /\ ~(n > fit)
  BY <1>1, <1>3, <1>5, CopiesInOrder DEF q, S
<1>6. CASE n # 0 /\ n > MaxBatch
  <2>1. q = CopySpanByRowid(S, MaxBatch, fit)
    BY <1>3, <1>6
  <2> QED
    BY <1>1, <1>6, <2>1, BatchAssumption, SpanByRowidCopied DEF q, S
<1>7. CASE n # 0 /\ ~(n > MaxBatch) /\ n > fit
  <2>1. q = CopySpanByRowid(S, less, fit)
    BY <1>3, <1>7
  <2> QED
    BY <1>1, <1>2, <1>7, <2>1, SpanByRowidCopied DEF q, S
<1> QED
  BY <1>4, <1>5, <1>6, <1>7

IsSpanCopy(g, t, P, fit) == g = [s \in Int \X Int |-> CopySpan(t, P, fit, g, s[1], s[2])]

\* What copySpan makes of any span, if it is the function its halves are called by.
LEMMA SpanCopied ==
  ASSUME NEW t, NEW P, Timed(t, P), NEW fit \in Nat
  PROVE  /\ \E g : IsSpanCopy(g, t, P, fit)
         /\ \A g : IsSpanCopy(g, t, P, fit) =>
              \A s \in Int \X Int : Copies(g[s], Spanned(t, P, s[1], s[2]), fit)
<1> DEFINE X == Int \X Int
           H == {s \in X : SpanHalved(t, P, fit, s)}
           w == [s \in X |-> SpanWhole(t, P, fit, s)]
           rows == [s \in X |-> Spanned(t, P, s[1], s[2])]
<1>1. Bounds(Int) /\ \A s \in X : s \in H => s[2] - s[1] > 1
  BY MicroAssumption DEF Bounds, SpanHalved
<1>2. \A s \in X : Copies(w[s], rows[s], fit)
  BY SpanWholeCopied
<1>3. w \in [X -> Seq(Nat)]
  <2>1. \A s \in X : w[s] \in Seq(Nat)
    BY <1>2, Zenon DEF Copies
  <2> QED
    BY <2>1
<1>4. ASSUME NEW g, NEW s \in X
      PROVE  CopySpan(t, P, fit, g, s[1], s[2])
               = IF s \in H THEN g[Lower(s)] \o g[Upper(s)] ELSE w[s]
  <2>1. Cardinality(Spanned(t, P, s[1], s[2])) \in Nat
    BY RowsSpanned
  <2>2. (s \in H) <=> SpanHalved(t, P, fit, s)
    BY DEF H
  <2>3. w[s] = SpanWhole(t, P, fit, s)
    BY DEF w
  <2> HIDE DEF H, w
  <2> QED
    BY <2>1, <2>2, <2>3, SpanIs
<1>5. PICK f \in [X -> Seq(Nat)] : Halves(f, Int, H, w)
  <2> HIDE DEF H, w
  <2> QED
    BY <1>1, <1>3, HalvingEnds
<1>6. \E g : IsSpanCopy(g, t, P, fit)
  <2>1. \A s \in X : f[s] = CopySpan(t, P, fit, f, s[1], s[2])
    <3> HIDE DEF H, w
    <3> QED
      BY <1>4, <1>5, Zenon DEF Halves
  <2>2. f = [s \in X |-> CopySpan(t, P, fit, f, s[1], s[2])]
    BY <1>5, <2>1
  <2> QED
    BY <2>2, Zenon DEF IsSpanCopy
<1>7. \A s \in X : s \in H => /\ rows[s] = rows[Lower(s)] \cup rows[Upper(s)]
                               /\ rows[Lower(s)] \cap rows[Upper(s)] = {}
  <2> SUFFICES ASSUME NEW s \in X, s \in H
               PROVE  /\ rows[s] = rows[Lower(s)] \cup rows[Upper(s)]
                      /\ rows[Lower(s)] \cap rows[Upper(s)] = {}
    OBVIOUS
  <2>1. s[2] - s[1] > 1 /\ Lower(s) \in X /\ Upper(s) \in X
    BY <1>1, HalvesNarrower
  <2>2. /\ rows[s] = Spanned(t, P, s[1], s[2])
        /\ rows[Lower(s)] = Spanned(t, P, Lower(s)[1], Lower(s)[2])
        /\ rows[Upper(s)] = Spanned(t, P, Upper(s)[1], Upper(s)[2])
    BY <2>1
  <2>3. /\ Spanned(t, P, s[1], s[2])
             = Spanned(t, P, Lower(s)[1], Lower(s)[2]) \cup Spanned(t, P, Upper(s)[1], Upper(s)[2])
        /\ Spanned(t, P, Lower(s)[1], Lower(s)[2]) \cap Spanned(t, P, Upper(s)[1], Upper(s)[2]) = {}
    BY <2>1, SpannedHalves
  <2> HIDE DEF rows, H
  <2> QED
    BY <2>2, <2>3
<1>8. ASSUME NEW g, IsSpanCopy(g, t, P, fit)
      PROVE  \A s \in X : Copies(g[s], Spanned(t, P, s[1], s[2]), fit)
  <2>1. \A s \in X : g[s] = CopySpan(t, P, fit, g, s[1], s[2])
    BY <1>8 DEF IsSpanCopy
  <2>2. \A s \in X : Copies(g[s], rows[s], fit)
    <3> HIDE DEF H, w, rows
    <3>1. Halves(g, Int, H, w)
      BY <1>4, <2>1, Zenon DEF Halves
    <3>2. CopiedApart(Int, H, w, rows, fit)
      BY <1>1, <1>2, <1>7, Zenon DEF CopiedApart
    <3> QED
      BY <1>1, <3>1, <3>2, HalvesCopied, Zenon
  <2> QED
    BY <2>2
<1> QED
  BY <1>6, <1>8, Zenon

\* A table's rows.
LEMMA TableRows ==
  ASSUME NEW t \in Seq(Rows)
  PROVE  /\ DOMAIN t = 1..Len(t) /\ Len(t) \in Nat /\ IsFiniteSet(DOMAIN t)
         /\ Cardinality(DOMAIN t) = Len(t)
         /\ \A i \in DOMAIN t : /\ t[i] \in Rows /\ t[i].file \in Files /\ t[i].line \in Nat
                                /\ t[i].timed \in BOOLEAN /\ t[i].at \in Int
<1>1. DOMAIN t = 1..Len(t) /\ Len(t) \in Nat
  OBVIOUS
<1>2. \A i \in DOMAIN t : t[i] \in Rows
  OBVIOUS
<1>3. ASSUME NEW r \in Rows
      PROVE  r.file \in Files /\ r.line \in Nat /\ r.timed \in BOOLEAN /\ r.at \in Int
  BY DEF Rows
<1>4. IsFiniteSet(1..Len(t)) /\ Cardinality(1..Len(t)) = Len(t)
  <2> DEFINE n == Len(t)
  <2>1. n \in Nat
    BY <1>1
  <2> HIDE DEF n
  <2>2. IsFiniteSet(1..n) /\ Cardinality(1..n) = n
    BY <2>1, FS_Interval
  <2> QED
    BY <2>2 DEF n
<1> QED
  BY <1>1, <1>2, <1>3, <1>4, Zenon

\* The rowids of the rows with or without a time.
Rowids(t, timed) == {i \in DOMAIN t : t[i].timed = timed}

\* They are copied from the first of their times to the last.
LEMMA RangeCopied ==
  ASSUME NEW t \in Seq(Rows), NEW timed, NEW fit \in Nat
  PROVE  Copies(CopyRange(t, timed, fit), Rowids(t, timed), fit)
<1> DEFINE P == Rowids(t, timed)
           times == {t[i].at : i \in P}
           lo == Min(times) * Micro
           hi == Max(times) * Micro + Micro
           c == CHOOSE g : IsSpanCopy(g, t, P, fit)
           q == CopyRange(t, timed, fit)
<1>1. Timed(t, P) /\ times \in SUBSET Int /\ IsFiniteSet(times)
  <2>1. DOMAIN t = 1..Len(t) /\ Len(t) \in Nat /\ \A i \in DOMAIN t : t[i].at \in Int
    BY TableRows, Zenon
  <2>2. P \in SUBSET (1..Len(t)) /\ P \in SUBSET (Nat \ {0})
    BY <2>1 DEF Rowids
  <2>3. IsFiniteSet(1..Len(t))
    BY <2>1, FS_Interval
  <2>4. IsFiniteSet(P)
    BY <2>2, <2>3, FS_Subset
  <2>5. \A i \in P : t[i].at \in Int
    BY <2>1 DEF Rowids
  <2>6. Timed(t, P) /\ times \in SUBSET Int
    BY <2>2, <2>4, <2>5 DEF Timed
  <2>7. IsFiniteSet(times)
    <3> DEFINE f == [i \in P |-> t[i].at]
    <3>1. f \in Surjection(P, times)
      BY DEF Surjection
    <3> HIDE DEF f, P, times
    <3> QED
      BY <2>4, <3>1, FS_Surjection
  <2> QED
    BY <2>6, <2>7
<1> HIDE DEF P
<1>2. P = {} => q = <<>>
  BY Zenon DEF CopyRange, P, Rowids
<1>3. P # {} => q = c[<<lo, hi>>]
  <2> HIDE DEF CopySpan
  <2> QED
    BY Zenon DEF CopyRange, IsSpanCopy, P, Rowids
<1>4. IsSpanCopy(c, t, P, fit)
  BY <1>1, SpanCopied, Zenon
<1> HIDE DEF c
<1>5. \A s \in Int \X Int : Copies(c[s], Spanned(t, P, s[1], s[2]), fit)
  BY <1>1, <1>4, SpanCopied
<1>6. CASE P = {}
  BY <1>2, <1>6, CopiesNone DEF q, P
<1>7. CASE P # {}
  <2>1. times # {}
    BY <1>7
  <2>2. /\ \A i \in P : t[i].at \in times
        /\ Min(times) \in times /\ \A x \in times : Min(times) <= x
        /\ Max(times) \in times /\ \A x \in times : x <= Max(times)
    <3>1. \A i \in P : t[i].at \in times
      OBVIOUS
    <3> HIDE DEF times
    <3> QED
      BY <1>1, <2>1, <3>1, Extremes
  <2>3. Min(times) \in Int /\ Max(times) \in Int /\ lo \in Int /\ hi \in Int
    <3> HIDE DEF times
    <3>1. Min(times) \in Int /\ Max(times) \in Int
      BY <1>1, <2>2, Zenon
    <3> QED
      BY <3>1, MicroAssumption
  <2>4. lo \div Micro = Min(times) /\ hi \div Micro = Max(times) + 1
    <3> HIDE DEF times
    <3> QED
      BY <2>3, DivTimes
  <2>5. ASSUME NEW i \in P PROVE InSpan(t[i].at, lo, hi)
    <3>1. t[i].at \in Int /\ Min(times) <= t[i].at /\ t[i].at <= Max(times)
      BY <1>1, <2>2 DEF Timed
    <3> HIDE DEF times, lo, hi
    <3> QED
      BY <2>3, <2>4, <3>1 DEF InSpan
  <2>6. Spanned(t, P, lo, hi) = P
    BY <2>5, Zenon DEF Spanned
  <2> HIDE DEF lo, hi, q
  <2>7. <<lo, hi>> \in Int \X Int /\ <<lo, hi>>[1] = lo /\ <<lo, hi>>[2] = hi
    BY <2>3
  <2>8. Copies(c[<<lo, hi>>], P, fit)
    BY <1>5, <2>6, <2>7
  <2> QED
    BY <1>3, <1>7, <2>8 DEF q, P
<1> QED
  BY <1>6, <1>7

\* Every row is copied once, if the copy comes to its end, as it does if the least batch
\* fits.
LEMMA CopyRight ==
  ASSUME NEW t \in Seq(Rows), NEW fit \in Nat
  PROVE  /\ CopySucceeds(t, fit) => Enumerates(CopyOrder(t, fit), DOMAIN t)
         /\ fit >= MinBatch => CopySucceeds(t, fit)
<1> DEFINE q == CopyOrder(t, fit)
<1>1. Copies(CopyRange(t, TRUE, fit), Rowids(t, TRUE), fit)
  BY RangeCopied
<1>2. Copies(CopyRange(t, FALSE, fit), Rowids(t, FALSE), fit)
  BY RangeCopied
<1>3. Rowids(t, TRUE) \cap Rowids(t, FALSE) = {} /\ Rowids(t, TRUE) \cup Rowids(t, FALSE) = DOMAIN t
  <2>1. \A i \in DOMAIN t : t[i].timed \in BOOLEAN
    BY TableRows, Zenon
  <2> QED
    BY <2>1 DEF Rowids
<1>4. Copies(q, DOMAIN t, fit)
  <2>1. Copies(q, Rowids(t, TRUE) \cup Rowids(t, FALSE), fit)
    BY <1>1, <1>2, <1>3, CopiesBoth DEF CopyOrder
  <2> QED
    BY <1>3, <2>1
<1>5. CopySucceeds(t, fit) <=> Fine(q)
  <2>1. q \in Seq(Nat) /\ DOMAIN q = 1..Len(q)
    BY <1>4 DEF Copies
  <2> QED
    BY <2>1, Zenon DEF CopySucceeds, Fine
<1> QED
  BY <1>4, <1>5 DEF Copies

-----------------------------------------------------------------------------
(* Tables. *)

Once(t) == \A i, j \in DOMAIN t : i # j => <<t[i].file, t[i].line>> # <<t[j].file, t[j].line>>

\* The rows at some rowids, in any order.
LEMMA PickedRows ==
  ASSUME NEW t \in Seq(Rows), NEW K \in SUBSET DOMAIN t, NEW q, Enumerates(q, K)
  PROVE  /\ Picked(t, q) \in Seq(Rows) /\ Len(Picked(t, q)) = Cardinality(K)
         /\ RowsIn(Picked(t, q)) = {t[i] : i \in K}
         /\ Once(t) => Once(Picked(t, q))
<1> DEFINE u == Picked(t, q)  n == Len(q)
<1>1. n \in Nat /\ n = Cardinality(K) /\ \A k \in 1..n : q[k] \in K
  BY EnumeratesAll DEF Enumerates
<1>2. DOMAIN q = 1..n
  BY DEF Enumerates
<1> HIDE DEF n
<1>3. u = [k \in 1..n |-> t[q[k]]]
  BY <1>2 DEF Picked
<1>4. \A k \in 1..n : t[q[k]] \in Rows
  BY <1>1
<1> HIDE DEF u
<1>5. u \in Seq(Rows) /\ Len(u) = n /\ DOMAIN u = 1..n
  <2>1. u \in [1..n -> Rows]
    BY <1>3, <1>4
  <2> QED
    BY <1>1, <2>1, FunctionIsSeq
<1>6. \A k \in 1..n : u[k] = t[q[k]]
  BY <1>3
<1>7. RowsIn(u) = {t[i] : i \in K}
  <2>1. \A k \in 1..n : u[k] \in {t[i] : i \in K}
    BY <1>1, <1>6
  <2>2. \A i \in K : \E k \in 1..n : u[k] = t[i]
    <3>1. \A i \in K : \E k \in 1..n : q[k] = i
      BY DEF Enumerates, n
    <3> SUFFICES ASSUME NEW i \in K PROVE \E k \in 1..n : u[k] = t[i]
      OBVIOUS
    <3>2. PICK k \in 1..n : q[k] = i
      BY <3>1
    <3> QED
      BY <1>6, <3>2
  <2> QED
    BY <1>5, <2>1, <2>2 DEF RowsIn
<1>8. Once(t) => Once(u)
  <2> SUFFICES ASSUME Once(t), NEW i \in 1..n, NEW j \in 1..n, i # j
               PROVE  <<u[i].file, u[i].line>> # <<u[j].file, u[j].line>>
    BY <1>5, Zenon DEF Once
  <2>1. q[i] # q[j] /\ q[i] \in DOMAIN t /\ q[j] \in DOMAIN t
    BY <1>1 DEF Enumerates, n
  <2>2. <<t[q[i]].file, t[q[i]].line>> # <<t[q[j]].file, t[q[j]].line>>
    BY <2>1, Zenon DEF Once
  <2> QED
    BY <1>6, <2>2
<1> QED
  BY <1>1, <1>5, <1>7, <1>8 DEF u

\* The table a compaction ends with has the rows it began with.
LEMMA CopiedRows ==
  ASSUME NEW t \in Seq(Rows), NEW fit \in Nat, CopySucceeds(t, fit)
  PROVE  /\ CopiedTable(t, fit) \in Seq(Rows) /\ Len(CopiedTable(t, fit)) = Len(t)
         /\ RowsIn(CopiedTable(t, fit)) = RowsIn(t)
         /\ Once(t) => Once(CopiedTable(t, fit))
<1>1. Enumerates(CopyOrder(t, fit), DOMAIN t)
  BY CopyRight
<1>2. Cardinality(DOMAIN t) = Len(t)
  BY TableRows
<1> QED
  BY <1>1, <1>2, PickedRows DEF CopiedTable, RowsIn

\* No two rows are the same.
LEMMA OnceRows ==
  ASSUME NEW t \in Seq(Rows), Once(t), NEW i \in DOMAIN t, NEW j \in DOMAIN t, t[i] = t[j]
  PROVE  i = j
BY Zenon DEF Once

\* As many rows as rowids.
LEMMA RowsCounted ==
  ASSUME NEW t \in Seq(Rows), Once(t), NEW S \in SUBSET RowsIn(t)
  PROVE  /\ IsFiniteSet(S) /\ Cardinality(S) \in Nat
         /\ Cardinality(S) = Cardinality({i \in DOMAIN t : t[i] \in S})
<1> DEFINE L == {i \in DOMAIN t : t[i] \in S}
           f == [i \in L |-> t[i]]
<1>1. f \in Bijection(L, S)
  <2>1. f \in [L -> S] /\ \A i, j \in L : f[i] = f[j] => i = j
    BY OnceRows
  <2>2. \A r \in S : \E i \in L : f[i] = r
    BY DEF RowsIn
  <2> HIDE DEF f, L
  <2> QED
    BY <2>1, <2>2 DEF Bijection, Injection, Surjection, IsInjective
<1>2. IsFiniteSet(L)
  <2>1. L \in SUBSET DOMAIN t
    OBVIOUS
  <2> HIDE DEF L
  <2> QED
    BY <2>1, TableRows, FS_Subset
<1> HIDE DEF f, L
<1>3. ExistsBijection(L, S)
  BY <1>1 DEF ExistsBijection
<1>4. IsFiniteSet(S) /\ Cardinality(S) = Cardinality(L)
  BY <1>2, <1>3, FS_Bijection
<1> QED
  BY <1>4, FS_CardinalityType DEF L

\* What a DELETE leaves.
LEMMA WithoutRows ==
  ASSUME NEW t \in Seq(Rows), Once(t), NEW S \in SUBSET RowsIn(t)
  PROVE  /\ Without(t, S) \in Seq(Rows) /\ Once(Without(t, S))
         /\ RowsIn(Without(t, S)) = RowsIn(t) \ S
         /\ Cardinality(S) \in Nat /\ Len(Without(t, S)) = Len(t) - Cardinality(S)
<1> DEFINE K == {i \in DOMAIN t : t[i] \notin S}
           L == {i \in DOMAIN t : t[i] \in S}
<1>1. K \in SUBSET DOMAIN t /\ L \in SUBSET DOMAIN t /\ K \cup L = DOMAIN t /\ K \cap L = {}
  OBVIOUS
<1>2. {t[i] : i \in K} = RowsIn(t) \ S
  BY DEF RowsIn
<1>3. Without(t, S) = Picked(t, InOrder(K))
  BY DEF Without
<1>4. Cardinality(S) \in Nat /\ Cardinality(S) = Cardinality(L)
  BY RowsCounted
<1> HIDE DEF K, L
<1>5. IsFiniteSet(K) /\ IsFiniteSet(L) /\ Cardinality(K) \in Nat /\ K \in SUBSET Int
  <2>1. IsFiniteSet(DOMAIN t) /\ DOMAIN t \in SUBSET Int
    BY TableRows
  <2> QED
    BY <1>1, <2>1, FS_Subset, FS_CardinalityType
<1>6. Cardinality(K) = Len(t) - Cardinality(L)
  <2>1. Cardinality(K \cup L) = Cardinality(K) + Cardinality(L) - Cardinality(K \cap L)
    BY <1>5, FS_Union
  <2>2. Cardinality(K \cup L) = Len(t) /\ Cardinality(K \cap L) = 0 /\ Len(t) \in Nat
    BY <1>1, TableRows, FS_EmptySet
  <2> QED
    BY <1>4, <1>5, <2>1, <2>2
<1>7. Enumerates(InOrder(K), K)
  BY <1>5, InOrderEnumerates
<1> QED
  BY <1>1, <1>2, <1>3, <1>4, <1>6, <1>7, PickedRows

-----------------------------------------------------------------------------
(* A file's rows. *)

\* The lesser and the greater of two numbers.
LEMMA OfTwo ==
  ASSUME NEW a \in Int, NEW b \in Int
  PROVE  /\ Min({a, b}) = IF a <= b THEN a ELSE b
         /\ Max({a, b}) = IF a <= b THEN b ELSE a
<1>1. IsFiniteSet({a, b})
  <2>1. IsFiniteSet({a} \cup {b})
    BY FS_Singleton, FS_AddElement
  <2>2. {a} \cup {b} = {a, b}
    OBVIOUS
  <2> QED
    BY <2>1, <2>2
<1>2. {a, b} \in SUBSET Int /\ {a, b} # {}
  OBVIOUS
<1>3. /\ Min({a, b}) \in {a, b} /\ \A x \in {a, b} : Min({a, b}) <= x
      /\ Max({a, b}) \in {a, b} /\ \A x \in {a, b} : x <= Max({a, b})
  BY <1>1, <1>2, Extremes
<1> QED
  BY <1>3

\* A quotient, between the multiples of its divisor.
LEMMA DivBounds ==
  ASSUME NEW a \in Nat, NEW b \in Nat \ {0}
  PROVE  /\ a \div b \in Nat /\ a \div b <= a
         /\ (a \div b) * b \in Nat /\ (a \div b) * b <= a /\ a < (a \div b) * b + b
OBVIOUS

\* Every line is in a worker's slice.
LEMMA LinesParsed ==
  ASSUME NEW lines, Len(lines) \in Nat, NEW i \in 1..Len(lines)
  PROVE  ParsedLines(lines)[i] = Line(lines[i])
<1> DEFINE n == Len(lines)
           workers == Min({Workers, n})
           width == (n + workers - 1) \div workers
           k == (i - 1) \div width
           s == [start |-> k * width, end |-> Min({k * width + width, n})]
<1>1. n \in Nat \ {0} /\ i \in Nat \ {0} /\ i <= n /\ n \in Int
  OBVIOUS
<1> HIDE DEF n
<1>2. workers \in Nat \ {0}
  <2>1. Workers \in Nat \ {0} /\ Workers \in Int
    BY LinesAssumption
  <2>2. workers = IF Workers <= n THEN Workers ELSE n
    BY <1>1, <2>1, OfTwo
  <2> QED
    BY <1>1, <2>1, <2>2
<1> HIDE DEF workers
<1>3. width \in Nat \ {0}
  <2> DEFINE a == n + workers - 1
  <2>1. a \in Nat /\ a >= workers
    BY <1>1, <1>2
  <2> HIDE DEF a
  <2>2. /\ a \div workers \in Nat
        /\ (a \div workers) * workers \in Nat /\ a < (a \div workers) * workers + workers
    BY <1>2, <2>1, DivBounds
  <2>3. a \div workers # 0
    BY <1>2, <2>1, <2>2
  <2> QED
    BY <2>2, <2>3 DEF a
<1>4. Slices(n) = {[start |-> j * width, end |-> Min({j * width + width, n})] :
                    j \in {j \in 0..n : j * width < n}}
  BY Zenon DEF Slices, width, workers
<1> HIDE DEF width
<1>5. /\ k \in Nat /\ k <= i - 1 /\ k * width \in Nat /\ k * width <= i - 1
      /\ i - 1 < k * width + width
  <2> DEFINE a == i - 1
  <2>1. a \in Nat
    BY <1>1
  <2> HIDE DEF a
  <2>2. /\ a \div width \in Nat /\ a \div width <= a
        /\ (a \div width) * width \in Nat /\ (a \div width) * width <= a
        /\ a < (a \div width) * width + width
    BY <1>3, <2>1, DivBounds
  <2> QED
    BY <2>2 DEF a
<1> HIDE DEF k
<1>6. k \in 0..n /\ k * width < n
  BY <1>1, <1>5
<1>7. s \in Slices(n)
  BY <1>4, <1>6
<1>8. s.start < i /\ i <= s.end
  <2>1. k * width + width \in Int
    BY <1>3, <1>5
  <2>2. s.end = IF k * width + width <= n THEN k * width + width ELSE n
    BY <1>1, <2>1, OfTwo
  <2> QED
    BY <1>1, <1>3, <1>5, <2>1, <2>2
<1> HIDE DEF s
<1>9. ParsedLines(lines) = [j \in 1..n |-> IF \E r \in Slices(n) : r.start < j /\ j <= r.end
                                           THEN Line(lines[j]) ELSE NotParsed]
  BY Zenon DEF ParsedLines, n
<1>10. \E r \in Slices(n) : r.start < i /\ i <= r.end
  BY <1>7, <1>8
<1>11. i \in 1..n
  BY <1>1
<1> HIDE DEF n
<1> QED
  BY <1>9, <1>10, <1>11

\* The row of line l with number i.
RowOf(file, l, i, at) == [file |-> file, line |-> i, timed |-> Line(l).ts # NoTime,
                          at |-> IF Line(l).ts # NoTime THEN Line(l).ts ELSE at]

Parsed(lines) == {i \in DOMAIN lines : Line(lines[i]).ok}

\* The rows of lines that are numbered from "first".
LineRows(file, lines, first, at) == {RowOf(file, lines[i], first + i - 1, at) : i \in Parsed(lines)}

\* A chunk's rows are those of its lines.
LEMMA ChunkRowsAre ==
  ASSUME NEW file, NEW lines, Len(lines) \in Nat, DOMAIN lines = 1..Len(lines), NEW first, NEW at
  PROVE  ChunkRows(file, lines, first, at) = LineRows(file, lines, first, at)
<1> DEFINE p == ParsedLines(lines)
           row(i) == [file |-> file, line |-> first + i - 1, timed |-> p[i].ts # NoTime,
                      at |-> IF p[i].ts # NoTime THEN p[i].ts ELSE at]
           ids == {i \in DOMAIN lines : ~p[i].blank /\ p[i].ok}
<1>1. ChunkRows(file, lines, first, at) = {row(i) : i \in ids}
  BY Zenon DEF ChunkRows
<1>2. \A i \in DOMAIN lines : p[i] = Line(lines[i])
  BY LinesParsed
<1> HIDE DEF p
<1>3. \A i \in DOMAIN lines : Line(lines[i]).ok => ~Line(lines[i]).blank
  BY DEF Line
<1>4. ids = Parsed(lines)
  BY <1>2, <1>3, Zenon DEF Parsed
<1>5. \A i \in DOMAIN lines : row(i) = RowOf(file, lines[i], first + i - 1, at)
  BY <1>2, Zenon DEF RowOf
<1> HIDE DEF row, ids
<1>6. \A i \in Parsed(lines) : row(i) = RowOf(file, lines[i], first + i - 1, at)
  BY <1>5, Zenon DEF Parsed
<1> QED
  BY <1>1, <1>4, <1>6 DEF LineRows

\* The rows of a file, one by one.
LEMMA RowsOfIs ==
  ASSUME NEW file, NEW lines, NEW at
  PROVE  RowsOf(file, lines, at) = {RowOf(file, lines[i], i, at) : i \in Parsed(lines)}
BY Zenon DEF RowsOf, RowOf, Parsed

\* The chunks' rows are those of the file's lines, numbered through.
LEMMA FileRowsAre ==
  ASSUME NEW file, NEW V, NEW lines \in Seq(V), NEW at
  PROVE  FileRows(file, lines, at) = RowsOf(file, lines, at)
<1> DEFINE n == Len(lines)
           part(k) == SubSeq(lines, k + 1, Min({k + ChunkLines, n}))
           chunk(k) == ChunkRows(file, part(k), k + 1, at)
           C == {c \in 0..n : c * ChunkLines < n}
           row(i) == RowOf(file, lines[i], i, at)
<1>1. n \in Nat /\ DOMAIN lines = 1..n /\ ChunkLines \in Nat \ {0}
  BY LinesAssumption
<1>2. FileRows(file, lines, at) = UNION {chunk(c * ChunkLines) : c \in C}
  BY Zenon DEF FileRows
<1> HIDE DEF n
<1>3. ASSUME NEW k \in Nat, k < n
      PROVE  chunk(k) = {row(k + j) : j \in {j \in 1..ChunkLines : k + j <= n /\ Line(lines[k + j]).ok}}
  <2> DEFINE m == Min({k + ChunkLines, n})
             q == part(k)
  <2>1. m = IF k + ChunkLines <= n THEN k + ChunkLines ELSE n
    BY <1>1, OfTwo
  <2>2. m \in Nat /\ k < m /\ m <= n
    BY <1>1, <1>3, <2>1
  <2>3. /\ Len(q) = m - k /\ Len(q) \in Nat /\ DOMAIN q = 1..(m - k)
        /\ \A j \in 1..(m - k) : q[j] = lines[k + j]
    <3>0. q = SubSeq(lines, k + 1, m)
      OBVIOUS
    <3> HIDE DEF m, q
    <3>1. \A j \in (k + 1)..m : lines[j] \in V
      BY <1>1, <1>3, <2>2
    <3>2. k + 1 \in Int /\ m \in Int /\ k + 1 <= m /\ m - (k + 1) + 1 = m - k
      BY <1>3, <2>2
    <3>3. /\ q \in Seq(V) /\ Len(q) = m - k
          /\ \A j \in 1..(m - k) : q[j] = lines[k + 1 + j - 1]
      BY <3>0, <3>1, <3>2, SubSeqProperties
    <3>4. \A j \in 1..(m - k) : k + 1 + j - 1 = k + j
      BY <2>2
    <3> QED
      BY <3>3, <3>4
  <2> HIDE DEF q
  <2>4. ChunkRows(file, q, k + 1, at) = {RowOf(file, q[j], k + 1 + j - 1, at) : j \in Parsed(q)}
    <3>1. Len(q) \in Nat /\ DOMAIN q = 1..Len(q)
      BY <2>3
    <3>2. ChunkRows(file, q, k + 1, at) = LineRows(file, q, k + 1, at)
      BY <3>1, ChunkRowsAre
    <3> QED
      BY <3>2, Zenon DEF LineRows
  <2>5. \A j \in 1..(m - k) : RowOf(file, q[j], k + 1 + j - 1, at) = row(k + j)
    <3>1. \A j \in 1..(m - k) : k + 1 + j - 1 = k + j
      BY <2>2
    <3> QED
      BY <2>3, <3>1
  <2>6. Parsed(q) = {j \in 1..ChunkLines : k + j <= n /\ Line(lines[k + j]).ok}
    <3>1. \A j \in Int : j \in 1..(m - k) <=> j \in 1..ChunkLines /\ k + j <= n
      BY <1>1, <1>3, <2>1
    <3> HIDE DEF m
    <3>2. \A j \in 1..(m - k) : Line(q[j]).ok <=> Line(lines[k + j]).ok
      BY <2>3
    <3>3. \A j \in 1..ChunkLines : j \in Int
      OBVIOUS
    <3>4. \A j \in 1..(m - k) : j \in Int
      OBVIOUS
    <3> QED
      BY <2>3, <3>1, <3>2, <3>3, <3>4, Zenon DEF Parsed
  <2>7. Parsed(q) \in SUBSET (1..(m - k))
    BY <2>3 DEF Parsed
  <2> HIDE DEF row, m
  <2> QED
    BY <2>4, <2>5, <2>6, <2>7 DEF q
<1> HIDE DEF chunk
<1>4. ASSUME NEW c \in C PROVE c * ChunkLines \in Nat /\ c * ChunkLines < n
  BY <1>1
<1>5. ASSUME NEW c \in C, NEW r \in chunk(c * ChunkLines) PROVE \E i \in Parsed(lines) : r = row(i)
  <2> DEFINE k == c * ChunkLines
  <2>1. k \in Nat /\ k < n
    BY <1>4
  <2> HIDE DEF k
  <2>2. PICK j \in {j \in 1..ChunkLines : k + j <= n /\ Line(lines[k + j]).ok} : r = row(k + j)
    BY <1>3, <1>5, <2>1 DEF k
  <2>3. k + j \in 1..n
    BY <1>1, <2>1
  <2> QED
    BY <1>1, <2>2, <2>3 DEF Parsed
<1>6. ASSUME NEW i \in Parsed(lines) PROVE \E c \in C : row(i) \in chunk(c * ChunkLines)
  <2> DEFINE c == (i - 1) \div ChunkLines
             k == c * ChunkLines
  <2>1. i \in Nat \ {0} /\ i <= n /\ Line(lines[i]).ok
    BY <1>1 DEF Parsed
  <2>2. c \in Nat /\ c <= i - 1 /\ k \in Nat /\ k <= i - 1 /\ i - 1 < k + ChunkLines
    BY <1>1, <2>1, DivBounds
  <2>3. c \in C
    <3> HIDE DEF c
    <3> QED
      BY <1>1, <2>1, <2>2
  <2> HIDE DEF k, c
  <2> DEFINE j == i - k
  <2>4. k < n /\ j \in 1..ChunkLines /\ k + j = i
    BY <1>1, <2>1, <2>2
  <2> HIDE DEF j, row
  <2>5. row(k + j) \in chunk(k)
    BY <1>3, <2>1, <2>2, <2>4
  <2> QED
    BY <2>3, <2>4, <2>5 DEF k
<1> HIDE DEF C, row
<1>7. FileRows(file, lines, at) = {row(i) : i \in Parsed(lines)}
  BY <1>2, <1>5, <1>6
<1> QED
  BY <1>7, RowsOfIs DEF row

\* What is read as a time is a number.
LEMMA LineTimes ==
  ASSUME NEW lines \in Contents, NEW i \in DOMAIN lines
  PROVE  Line(lines[i]).ts \in Int \cup {NoTime}
<1> DEFINE l == lines[i]
           obj == l.obj
           hits == {k \in DOMAIN TimeKeys :
                      TimeKeys[k] \in DOMAIN obj /\ ParsedTime(obj[TimeKeys[k]]) # NoTime}
<1>1. Line(l).ts = IF l.kind = "object" THEN FirstTimestamp(obj) ELSE NoTime
  BY DEF Line
<1>2. ASSUME l.kind = "object", hits # {} PROVE FirstTimestamp(obj) \in Int
  <2>1. FirstTimestamp(obj) = ParsedTime(obj[TimeKeys[Min(hits)]])
    BY <1>2, Zenon DEF FirstTimestamp
  <2>2. Min(hits) \in hits
    <3>1. DOMAIN TimeKeys = 1..Len(TimeKeys) /\ Len(TimeKeys) \in Nat
      BY TimesAssumption
    <3>2. IsFiniteSet(1..Len(TimeKeys)) /\ hits \in SUBSET (1..Len(TimeKeys)) /\ hits \in SUBSET Int
      BY <3>1, FS_Interval
    <3> HIDE DEF hits
    <3> QED
      BY <1>2, <3>2, FS_Subset, Extremes
  <2> DEFINE v == obj[TimeKeys[Min(hits)]]
  <2>3. ParsedTime(v) # NoTime /\ TimeKeys[Min(hits)] \in DOMAIN obj
    BY <2>2
  <2>4. v.type \in {"text", "number"} => v.at \in Int
    BY <1>2, <2>3, ContentsAssumption
  <2> HIDE DEF v, hits
  <2>5. v.type \in {"text", "number"}
    BY <2>3 DEF ParsedTime
  <2>6. ParsedTime(v) \in Int
    <3>1. CASE v.type = "text"
      BY <2>4, <3>1 DEF ParsedTime
    <3>2. CASE v.type = "number"
      <4>1. v.at \in Int /\ EpochScale \in Nat \ {0} /\ EpochLimit \in Int
        BY <2>4, <3>2, TimesAssumption
      <4>2. ParsedTime(v) = IF v.at > EpochLimit THEN v.at \div EpochScale ELSE v.at
        BY <3>2 DEF ParsedTime
      <4> QED
        BY <4>1, <4>2
    <3> QED
      BY <2>5, <3>1, <3>2
  <2> QED
    BY <2>1, <2>6 DEF v
<1>3. ASSUME l.kind = "object", hits = {} PROVE FirstTimestamp(obj) = NoTime
  BY <1>3, Zenon DEF FirstTimestamp
<1> HIDE DEF hits, obj
<1> QED
  BY <1>1, <1>2, <1>3

\* A file's rows go through its lines, each in a row of its own.
LEMMA LoadedRows ==
  ASSUME NEW f \in Files, NEW lines \in Contents, NEW at \in Int
  PROVE  LET new == ByLine(FileRows(f, lines, at))
         IN  /\ new \in Seq(Rows) /\ Once(new)
             /\ RowsIn(new) = RowsOf(f, lines, at)
             /\ \A r \in RowsIn(new) : r.file = f
<1> DEFINE R == RowsOf(f, lines, at)
           new == ByLine(R)
           row(i) == RowOf(f, lines[i], i, at)
           key == [r \in R |-> r.line]
<1>1. /\ lines \in Seq({lines[i] : i \in DOMAIN lines}) /\ Len(lines) \in Nat
      /\ DOMAIN lines = 1..Len(lines)
  BY ContentsAssumption
<1>2. FileRows(f, lines, at) = R
  BY <1>1, FileRowsAre
<1>3. \A r \in R : \E i \in Parsed(lines) : r = row(i)
  BY RowsOfIs
<1>4. ASSUME NEW i \in Parsed(lines)
      PROVE  i \in Nat \ {0} /\ row(i) \in Rows /\ row(i).line = i /\ row(i).file = f
  <2>1. i \in Nat \ {0} /\ i \in DOMAIN lines
    BY <1>1 DEF Parsed
  <2>2. Line(lines[i]).ts \in Int \cup {NoTime}
    BY <2>1, LineTimes
  <2> QED
    BY <2>1, <2>2 DEF RowOf, Rows
<1>5. IsFiniteSet(R)
  <2>1. IsFiniteSet(Parsed(lines))
    <3>1. Parsed(lines) \in SUBSET (1..Len(lines))
      BY <1>1 DEF Parsed
    <3>2. IsFiniteSet(1..Len(lines))
      BY <1>1, FS_Interval
    <3> QED
      BY <3>1, <3>2, FS_Subset
  <2> DEFINE g == [i \in Parsed(lines) |-> row(i)]
  <2>2. g \in Surjection(Parsed(lines), R)
    BY RowsOfIs DEF Surjection
  <2> HIDE DEF g, R
  <2> QED
    BY <2>1, <2>2, FS_Surjection
<1> HIDE DEF R, row
<1>6. /\ key \in [R -> Int] /\ \A r, s \in R : key[r] = key[s] => r = s
      /\ \A r \in R : r \in Rows /\ r.file = f
  <2>1. ASSUME NEW r \in R PROVE r \in Rows /\ r.file = f /\ r.line \in Nat
    BY <1>3, <1>4
  <2>2. ASSUME NEW r \in R, NEW s \in R, r.line = s.line PROVE r = s
    BY <1>3, <1>4, <2>2
  <2> QED
    BY <2>1, <2>2
<1>7. Enumerates(new, R)
  <2> DEFINE lower(r) == {s \in R : s.line < r.line}
             e(k) == CHOOSE r \in R : Cardinality(Below(R, key, r)) = k - 1
             d(k) == CHOOSE r \in R : Cardinality(lower(r)) = k - 1
             q == [k \in 1..Cardinality(R) |-> e(k)]
  <2>1. \A r \in R : Below(R, key, r) = lower(r)
    BY DEF Below
  <2>2. new = [k \in 1..Cardinality(R) |-> d(k)]
    BY Zenon DEF ByLine
  <2> HIDE DEF lower, key
  <2>3. \A k : e(k) = d(k)
    BY <2>1, Zenon
  <2>4. q = new
    <3> HIDE DEF e, d, new
    <3> QED
      BY <2>2, <2>3
  <2>5. Enumerates(q, R)
    BY <1>5, <1>6, Ranked
  <2> QED
    BY <2>4, <2>5
<1> HIDE DEF new, key
<1>8. new \in Seq(R) /\ DOMAIN new = 1..Len(new) /\ Len(new) \in Nat
  BY <1>7 DEF Enumerates
<1>9. new \in Seq(Rows)
  <2>1. new \in [1..Len(new) -> Rows]
    BY <1>6, <1>8
  <2> QED
    BY <1>8, <2>1, FunctionIsSeq
<1>10. RowsIn(new) = R
  <2>1. \A r \in R : \E i \in 1..Len(new) : new[i] = r
    BY <1>7 DEF Enumerates
  <2>2. \A i \in 1..Len(new) : new[i] \in R
    BY <1>8
  <2> QED
    BY <1>8, <2>1, <2>2 DEF RowsIn
<1>11. Once(new)
  <2> SUFFICES ASSUME NEW i \in DOMAIN new, NEW j \in DOMAIN new, i # j,
                      <<new[i].file, new[i].line>> = <<new[j].file, new[j].line>>
               PROVE  FALSE
    BY Zenon DEF Once
  <2>1. new[i] \in R /\ new[j] \in R /\ new[i] # new[j]
    BY <1>7, <1>8 DEF Enumerates
  <2>2. new[i].line = new[j].line
    OBVIOUS
  <2> QED
    BY <1>6, <2>1, <2>2 DEF key
<1> QED
  BY <1>2, <1>6, <1>9, <1>10, <1>11 DEF new, R

-----------------------------------------------------------------------------
(* The share of a pass, and where it cuts. *)

\* A common factor is cancelled.
LEMMA Cancel ==
  ASSUME NEW a \in Int, NEW b \in Int, NEW d \in Nat \ {0}, a * d < b * d
  PROVE  a < b
<1>1. ASSUME b <= a PROVE b * d <= a * d
  BY <1>1
<1>2. a * d \in Int /\ b * d \in Int
  OBVIOUS
<1> QED
  BY <1>1, <1>2

\* A pass takes no more than half, and with the row at the boundary more than a tenth.
LEMMA OffsetBounds ==
  ASSUME size \in Nat, policy.cap \in Nat, size > policy.cap, remaining \in Nat, remaining > 1
  PROVE  /\ Offset \in Nat /\ Offset < remaining /\ 2 * Offset <= remaining
         /\ \A left \in Nat : left + Offset + 1 <= remaining => 10 * left <= 9 * remaining
<1> DEFINE cap == policy.cap
           num == 11 * (size - cap)
           den == 10 * size
           c == (remaining * num) \div den
           share == IF 10 * num < den THEN remaining \div 10
                    ELSE IF 2 * num > den THEN remaining \div 2
                    ELSE c
           more == Max({share, 1})
<1> HIDE DEF cap
<1>1. /\ cap \in Nat /\ size > cap /\ num \in Nat /\ den \in Nat \ {0} /\ remaining * num \in Nat
      /\ size \in Nat \ {0}
  BY DEF cap
<1>2. /\ c \in Nat /\ c * den \in Nat /\ c * den <= remaining * num
      /\ remaining * num < c * den + den
  <2> DEFINE a == remaining * num
  <2> HIDE DEF a, den
  <2>1. a \in Nat
    BY <1>1 DEF a
  <2>2. /\ a \div den \in Nat
        /\ (a \div den) * den \in Nat /\ (a \div den) * den <= a /\ a < (a \div den) * den + den
    BY <1>1, <2>1, DivBounds
  <2> QED
    BY <2>2 DEF a
<1> HIDE DEF c
<1>3. 2 * num <= den => 2 * c <= remaining
  <2> SUFFICES ASSUME 2 * num <= den, 2 * c > remaining PROVE FALSE
    BY <1>2
  <2> HIDE DEF num, den
  <2>1. remaining * (2 * num) <= remaining * den
    BY <1>1
  <2>2. (remaining + 1) * den <= (2 * c) * den
    BY <1>1, <1>2
  <2>3. (2 * c) * den = 2 * (c * den) /\ remaining * (2 * num) = 2 * (remaining * num)
    BY <1>1, <1>2
  <2>4. (remaining + 1) * den = remaining * den + den
    BY <1>1
  <2>5. remaining * den \in Nat
    BY <1>1
  <2> QED
    BY <1>1, <1>2, <2>1, <2>2, <2>3, <2>4, <2>5
<1>4. 10 * num >= den => remaining < 10 * (c + 1)
  <2> SUFFICES ASSUME 10 * num >= den PROVE remaining < 10 * (c + 1)
    OBVIOUS
  <2> HIDE DEF num, den
  <2>1. remaining * den <= remaining * (10 * num)
    BY <1>1
  <2>2. remaining * (10 * num) = 10 * (remaining * num)
    BY <1>1
  <2>3. 10 * (c * den + den) = (10 * (c + 1)) * den
    BY <1>1, <1>2
  <2>4. remaining * den \in Nat /\ (10 * (c + 1)) * den \in Nat
    BY <1>1, <1>2
  <2>5. remaining * den < (10 * (c + 1)) * den
    BY <1>1, <1>2, <2>1, <2>2, <2>3, <2>4
  <2> QED
    BY <1>1, <1>2, <2>5, Cancel
<1>5. share \in Nat /\ 2 * share <= remaining
  <2>1. remaining \div 10 \in Nat /\ 2 * (remaining \div 10) <= remaining
    OBVIOUS
  <2>2. remaining \div 2 \in Nat /\ 2 * (remaining \div 2) <= remaining
    OBVIOUS
  <2>3. 2 * num > den \/ 2 * num <= den
    BY <1>1
  <2> HIDE DEF num, den
  <2> QED
    BY <1>2, <1>3, <2>1, <2>2, <2>3
<1>6. remaining < 10 * (share + 1)
  <2>1. CASE 10 * num < den
    <3>1. share = remaining \div 10
      BY <2>1
    <3> HIDE DEF share
    <3> QED
      BY <3>1
  <2>2. CASE ~(10 * num < den) /\ 2 * num > den
    <3>1. share = remaining \div 2
      BY <2>2
    <3> HIDE DEF share, num, den
    <3> QED
      BY <3>1
  <2>3. CASE ~(10 * num < den) /\ ~(2 * num > den)
    <3>1. share = c /\ 10 * num >= den
      BY <1>1, <2>3
    <3> HIDE DEF share, num, den
    <3> QED
      BY <1>4, <3>1
  <2> QED
    BY <2>1, <2>2, <2>3
<1>7. Offset = Min({more, remaining - 1})
  BY Zenon DEF Offset, cap, c
<1> HIDE DEF share
<1>8. more = IF share <= 1 THEN 1 ELSE share
  <2>1. share \in Int /\ 1 \in Int
    BY <1>5
  <2>2. Max({share, 1}) = IF share <= 1 THEN 1 ELSE share
    BY <2>1, OfTwo, Zenon
  <2> QED
    BY <2>2
<1> HIDE DEF more
<1>9. Offset = IF more <= remaining - 1 THEN more ELSE remaining - 1
  BY <1>5, <1>7, <1>8, OfTwo
<1>10. Offset \in Nat /\ Offset < remaining /\ 2 * Offset <= remaining
  BY <1>5, <1>8, <1>9
<1>11. ASSUME NEW left \in Nat, left + Offset + 1 <= remaining
       PROVE  10 * left <= 9 * remaining
  <2>1. left = 0 \/ left + share + 1 <= remaining
    BY <1>5, <1>8, <1>9, <1>11
  <2> QED
    BY <1>5, <1>6, <2>1
<1> QED
  BY <1>10, <1>11

Sooner(t, x) == {i \in DOMAIN t : t[i].at < x}
Until(t, x)  == {i \in DOMAIN t : t[i].at <= x}
Times(t)     == {r.at : r \in RowsIn(t)}

\* The times of a table, and the rows before and up to one.
LEMMA TimesAre ==
  ASSUME NEW t \in Seq(Rows)
  PROVE  /\ Times(t) \in SUBSET Int /\ IsFiniteSet(Times(t))
         /\ \A i \in DOMAIN t : t[i].at \in Times(t)
         /\ \A x \in Times(t) : \E i \in DOMAIN t : t[i].at = x
         /\ \A x : /\ IsFiniteSet(Sooner(t, x)) /\ Cardinality(Sooner(t, x)) \in Nat
                   /\ IsFiniteSet(Until(t, x)) /\ Cardinality(Until(t, x)) \in Nat
<1>1. \A i \in DOMAIN t : t[i].at \in Int
  BY TableRows, Zenon
<1>2. \A i \in DOMAIN t : t[i].at \in Times(t)
  BY Zenon DEF Times, RowsIn
<1>3. \A x \in Times(t) : \E i \in DOMAIN t : t[i].at = x
  BY Zenon DEF Times, RowsIn
<1>4. IsFiniteSet(Times(t))
  <2> DEFINE f == [i \in DOMAIN t |-> t[i].at]
  <2>1. f \in Surjection(DOMAIN t, Times(t))
    BY <1>2, <1>3 DEF Surjection
  <2> HIDE DEF f
  <2>2. IsFiniteSet(DOMAIN t)
    BY TableRows
  <2> QED
    BY <2>1, <2>2, FS_Surjection
<1>5. ASSUME NEW S \in SUBSET DOMAIN t PROVE IsFiniteSet(S) /\ Cardinality(S) \in Nat
  BY TableRows, FS_Subset, FS_CardinalityType
<1>6. \A x : Sooner(t, x) \in SUBSET DOMAIN t /\ Until(t, x) \in SUBSET DOMAIN t
  BY DEF Sooner, Until
<1> QED
  BY <1>1, <1>2, <1>3, <1>4, <1>5, <1>6, Zenon

\* Every row has a time of its table.
LEMMA RowTimes ==
  ASSUME NEW t \in Seq(Rows)
  PROVE  /\ \A r \in RowsIn(t) : r.at \in Times(t) /\ r.at \in Int
         /\ \A x \in Times(t) : x \in Int
<1>1. \A r \in RowsIn(t) : r.at \in Times(t)
  BY Zenon DEF Times
<1>2. Times(t) \in SUBSET Int
  BY TimesAre
<1> QED
  BY <1>1, <1>2

\* There is a time with so many rows before it, and the next one of this time.
LEMMA CutoffExists ==
  ASSUME NEW t \in Seq(Rows), NEW off \in Nat, off < Len(t)
  PROVE  \E x \in Times(t) : Cardinality(Sooner(t, x)) <= off /\ off < Cardinality(Until(t, x))
<1> DEFINE T == {x \in Times(t) : off < Cardinality(Until(t, x))}
<1>1. /\ Times(t) \in SUBSET Int /\ IsFiniteSet(Times(t))
      /\ \A i \in DOMAIN t : t[i].at \in Times(t)
      /\ \A x \in Times(t) : \E i \in DOMAIN t : t[i].at = x
      /\ \A x : /\ IsFiniteSet(Sooner(t, x)) /\ Cardinality(Sooner(t, x)) \in Nat
                /\ IsFiniteSet(Until(t, x)) /\ Cardinality(Until(t, x)) \in Nat
  BY TimesAre
<1>2. /\ DOMAIN t = 1..Len(t) /\ Len(t) \in Nat /\ Cardinality(DOMAIN t) = Len(t)
      /\ \A i \in DOMAIN t : t[i].at \in Int
  BY TableRows, Zenon
<1>3. Times(t) # {}
  <2>1. 1 \in DOMAIN t
    BY <1>2
  <2> QED
    BY <1>1, <2>1
<1>4. Max(Times(t)) \in T
  <2>1. Max(Times(t)) \in Times(t) /\ \A x \in Times(t) : x <= Max(Times(t))
    BY <1>1, <1>3, Extremes
  <2>2. Until(t, Max(Times(t))) = DOMAIN t
    BY <1>1, <2>1, Zenon DEF Until
  <2> QED
    BY <1>2, <2>1, <2>2
<1>5. T \in SUBSET Int /\ IsFiniteSet(T) /\ T # {}
  <2>1. T \in SUBSET Times(t)
    OBVIOUS
  <2> HIDE DEF T
  <2> QED
    BY <1>1, <1>4, <2>1, FS_Subset
<1> DEFINE x == Min(T)
<1>6. x \in T /\ \A y \in T : x <= y
  <2> HIDE DEF T
  <2> QED
    BY <1>5, Extremes
<1> HIDE DEF x
<1>7. x \in Times(t) /\ off < Cardinality(Until(t, x)) /\ x \in Int
  BY <1>1, <1>6
<1>8. Cardinality(Sooner(t, x)) <= off
  <2> SUFFICES ASSUME off < Cardinality(Sooner(t, x)) PROVE FALSE
    BY <1>1
  <2> DEFINE U == {y \in Times(t) : y < x}
  <2>1. U \in SUBSET Int /\ IsFiniteSet(U)
    <3>1. U \in SUBSET Times(t)
      OBVIOUS
    <3> HIDE DEF U
    <3> QED
      BY <1>1, <3>1, FS_Subset
  <2>2. Sooner(t, x) # {}
    <3>1. Sooner(t, x) = {} => Cardinality(Sooner(t, x)) = 0
      BY FS_EmptySet
    <3> QED
      BY <3>1
  <2>3. U # {}
    <3>1. PICK i \in DOMAIN t : t[i].at < x
      BY <2>2 DEF Sooner
    <3> QED
      BY <1>1, <3>1
  <2> DEFINE u == Max(U)
  <2>4. u \in U /\ \A y \in U : y <= u
    <3> HIDE DEF U
    <3> QED
      BY <2>1, <2>3, Extremes
  <2> HIDE DEF u
  <2>5. Until(t, u) = Sooner(t, x)
    <3>1. ASSUME NEW i \in DOMAIN t PROVE t[i].at <= u <=> t[i].at < x
      <4>1. t[i].at \in Int /\ u \in Int /\ u < x /\ t[i].at \in Times(t)
        BY <1>1, <1>2, <2>4, Zenon
      <4>2. t[i].at < x => t[i].at <= u
        BY <2>4, <4>1
      <4> HIDE DEF U
      <4> QED
        BY <1>7, <4>1, <4>2
    <3> QED
      BY <3>1, Zenon DEF Until, Sooner
  <2>6. u \in T /\ u < x /\ u \in Int
    BY <1>1, <2>4, <2>5
  <2>7. x <= u
    BY <1>6, <2>6
  <2> HIDE DEF T, U
  <2> QED
    BY <1>7, <2>6, <2>7
<1> QED
  BY <1>7, <1>8

\* Where a pass cuts.
LEMMA CutoffIs ==
  ASSUME table \in Seq(Rows), Offset \in Nat, Offset < Len(table)
  PROVE  \E x \in Times(table) : /\ OldestCutoff = 1 + x
                                 /\ Cardinality(Sooner(table, x)) <= Offset
                                 /\ Offset < Cardinality(Until(table, x))
<1> DEFINE Cut(x) == Cardinality(Sooner(table, x)) <= Offset /\ Offset < Cardinality(Until(table, x))
           x == CHOOSE x \in Times(table) : Cut(x)
<1>1. OldestCutoff = 1 + x
  BY Zenon DEF OldestCutoff, Times, Sooner, Until
<1>2. x \in Times(table) /\ Cut(x)
  BY CutoffExists, Zenon
<1> QED
  BY <1>1, <1>2, Zenon

-----------------------------------------------------------------------------
(* What the actions do to the rows. *)

\* The rows there are, those deleted and those loaded.
Data == /\ table \in Seq(Rows) /\ purged \subseteq Rows
        /\ source \in [Files -> [lines : Contents, now : Start..End] \cup {None}]
        /\ now \in Start..End
        /\ RowsOnce /\ RowsKept /\ purged \subseteq Loaded

\* Rows of the table are told apart by file and line.
LEMMA DataOnce ==
  ASSUME Data
  PROVE  Once(table)
BY DEF Data, RowsOnce, Once

\* What has been loaded depends on the files read alone.
LEMMA LoadedSame ==
  ASSUME source' = source
  PROVE  Loaded' = Loaded
<1>1. ASSUME NEW f PROVE LinesOf(f)' = LinesOf(f)
  BY DEF LinesOf
<1> DEFINE H == {g \in Files : source[g] # None}
<1>2. Loaded = UNION {LinesOf(g) : g \in H} /\ Loaded' = UNION {LinesOf(g)' : g \in H'}
  BY Zenon DEF Loaded
<1>3. H' = H
  OBVIOUS
<1> HIDE DEF H
<1> QED
  BY <1>1, <1>2, <1>3

\* A step that touches no row.
LEMMA DataSame ==
  ASSUME Data, UNCHANGED <<table, purged, source>>, now' \in Start..End
  PROVE  Data'
<1>1. Loaded' = Loaded
  BY LoadedSame
<1> QED
  BY <1>1 DEF Data, RowsOnce, RowsKept, RowsIn

\* A DELETE.
LEMMA DataDeleted ==
  ASSUME Data, NEW S \in SUBSET RowsIn(table), table' = Without(table, S), purged' = purged \cup S,
         UNCHANGED <<now, source>>
  PROVE  /\ Data' /\ Cardinality(S) \in Nat /\ Len(table') = Len(table) - Cardinality(S)
         /\ RowsIn(table') = RowsIn(table) \ S
<1>1. /\ table' \in Seq(Rows) /\ Once(table')
      /\ RowsIn(table') = RowsIn(table) \ S
      /\ Cardinality(S) \in Nat /\ Len(table') = Len(table) - Cardinality(S)
  BY DataOnce, WithoutRows DEF Data
<1>2. Loaded' = Loaded
  BY LoadedSame
<1>3. RowsIn(table) \subseteq Rows
  BY DEF Data, RowsIn
<1>4. RowsIn(table) = Loaded \ purged
  BY DEF Data, RowsKept
<1>5. RowsIn(table') = Loaded \ purged' /\ purged' \subseteq Loaded /\ purged' \subseteq Rows
  BY <1>1, <1>3, <1>4 DEF Data
<1> QED
  BY <1>1, <1>2, <1>5 DEF Data, RowsOnce, Once, RowsKept

\* A compaction.
LEMMA DataCopied ==
  ASSUME Data, NEW fit \in Fits, CopySucceeds(table, fit), table' = CopiedTable(table, fit),
         UNCHANGED <<now, source, purged>>
  PROVE  Data' /\ Len(table') = Len(table) /\ RowsIn(table') = RowsIn(table)
<1>1. /\ table' \in Seq(Rows) /\ Once(table') /\ RowsIn(table') = RowsIn(table)
      /\ Len(table') = Len(table)
  <2>1. fit \in Nat
    BY PolicyAssumption
  <2> QED
    BY <2>1, DataOnce, CopiedRows DEF Data
<1>2. Loaded' = Loaded
  BY LoadedSame
<1> QED
  BY <1>1, <1>2 DEF Data, RowsOnce, Once, RowsKept

\* What has been loaded of a file.
LEMMA LinesOfIs ==
  ASSUME NEW f
  PROVE  LinesOf(f) = RowsOf(f, source[f].lines, source[f].now)
BY DEF LinesOf

\* A table and the rows after it.
LEMMA AppendedRows ==
  ASSUME NEW t \in Seq(Rows), Once(t), NEW new \in Seq(Rows), Once(new),
         \A r \in RowsIn(t), s \in RowsIn(new) : r.file # s.file
  PROVE  /\ t \o new \in Seq(Rows) /\ Len(t \o new) = Len(t) + Len(new) /\ Once(t \o new)
         /\ RowsIn(t \o new) = RowsIn(t) \cup RowsIn(new)
<1> DEFINE u == t \o new  m == Len(t)  n == Len(new)
<1>1. m \in Nat /\ n \in Nat /\ DOMAIN t = 1..m /\ DOMAIN new = 1..n
  OBVIOUS
<1>2. /\ u \in Seq(Rows) /\ Len(u) = m + n
      /\ \A i \in 1..(m + n) : u[i] = IF i <= m THEN t[i] ELSE new[i - m]
  BY ConcatProperties
<1>3. DOMAIN u = 1..(m + n)
  BY <1>1, <1>2
<1> HIDE DEF u, m, n
<1>4. ASSUME NEW i \in 1..(m + n)
      PROVE  \/ i \in 1..m /\ u[i] = t[i]
             \/ i - m \in 1..n /\ u[i] = new[i - m]
  BY <1>1, <1>2
<1>5. ASSUME NEW i \in 1..m PROVE i \in 1..(m + n) /\ u[i] = t[i]
  <2>1. i \in 1..(m + n) /\ i <= m
    BY <1>1
  <2> QED
    BY <1>2, <2>1
<1>6. ASSUME NEW i \in 1..n PROVE i + m \in 1..(m + n) /\ u[i + m] = new[i]
  <2>1. i + m \in 1..(m + n) /\ ~(i + m <= m) /\ i + m - m = i
    BY <1>1
  <2>2. u[i + m] = new[i + m - m]
    BY <1>1, <1>2, <2>1
  <2> QED
    BY <2>1, <2>2
<1>7. \A i \in 1..m : t[i] \in RowsIn(t)
  BY <1>1 DEF RowsIn
<1>8. \A i \in 1..n : new[i] \in RowsIn(new)
  BY <1>1 DEF RowsIn
<1>9. RowsIn(u) = RowsIn(t) \cup RowsIn(new)
  <2>1. ASSUME NEW r \in RowsIn(u) PROVE r \in RowsIn(t) \cup RowsIn(new)
    <3>1. PICK i \in 1..(m + n) : r = u[i]
      BY <1>3 DEF RowsIn
    <3> QED
      BY <1>4, <1>7, <1>8, <3>1
  <2>2. ASSUME NEW r \in RowsIn(t) PROVE r \in RowsIn(u)
    <3>1. PICK i \in 1..m : r = t[i]
      BY <1>1 DEF RowsIn
    <3> QED
      BY <1>3, <1>5, <3>1 DEF RowsIn
  <2>3. ASSUME NEW r \in RowsIn(new) PROVE r \in RowsIn(u)
    <3>1. PICK i \in 1..n : r = new[i]
      BY <1>1 DEF RowsIn
    <3> QED
      BY <1>3, <1>6, <3>1 DEF RowsIn
  <2> QED
    BY <2>1, <2>2, <2>3
<1>10. Once(u)
  <2> SUFFICES ASSUME NEW i \in 1..(m + n), NEW j \in 1..(m + n), i # j,
                      <<u[i].file, u[i].line>> = <<u[j].file, u[j].line>>
               PROVE  FALSE
    BY <1>3, Zenon DEF Once
  <2>1. u[i].file = u[j].file /\ u[i].line = u[j].line
    OBVIOUS
  <2>2. CASE i \in 1..m /\ u[i] = t[i] /\ j \in 1..m /\ u[j] = t[j]
    BY <1>1, <2>1, <2>2 DEF Once
  <2>3. CASE i - m \in 1..n /\ u[i] = new[i - m] /\ j - m \in 1..n /\ u[j] = new[j - m]
    <3>1. i - m # j - m
      BY <1>1
    <3> QED
      BY <1>1, <2>1, <2>3, <3>1 DEF Once
  <2>4. CASE i \in 1..m /\ u[i] = t[i] /\ j - m \in 1..n /\ u[j] = new[j - m]
    BY <1>7, <1>8, <2>1, <2>4
  <2>5. CASE i - m \in 1..n /\ u[i] = new[i - m] /\ j \in 1..m /\ u[j] = t[j]
    BY <1>7, <1>8, <2>1, <2>5
  <2> QED
    BY <1>4, <2>2, <2>3, <2>4, <2>5
<1> QED
  BY <1>2, <1>9, <1>10 DEF u, m, n

\* A load of a file that has none of its rows in the table.
LEMMA DataLoaded ==
  ASSUME Data, NEW f \in Files, NEW lines \in Contents, source[f] = None,
         source' = [source EXCEPT ![f] = [lines |-> lines, now |-> now]],
         table' = table \o ByLine(FileRows(f, lines, now)), UNCHANGED <<now, purged>>
  PROVE  /\ Data' /\ Len(ByLine(FileRows(f, lines, now))) \in Nat
         /\ Len(table') = Len(table) + Len(ByLine(FileRows(f, lines, now)))
         /\ RowsIn(table') = RowsIn(table) \cup RowsOf(f, lines, now)
<1> DEFINE new == ByLine(FileRows(f, lines, now))
           entry == [lines |-> lines, now |-> now]
<1>1. /\ new \in Seq(Rows) /\ Once(new) /\ RowsIn(new) = RowsOf(f, lines, now)
      /\ \A r \in RowsIn(new) : r.file = f
  <2>1. now \in Int
    BY PolicyAssumption DEF Data
  <2> QED
    BY <2>1, LoadedRows
<1> HIDE DEF new
<1>2. entry \in [lines : Contents, now : Start..End] /\ entry # None
  BY NoneAssumption DEF Data
<1>3. /\ source' \in [Files -> [lines : Contents, now : Start..End] \cup {None}]
      /\ source'[f] = entry /\ \A g \in Files : g # f => source'[g] = source[g]
  BY <1>2 DEF Data
<1>4. LinesOf(f)' = RowsIn(new)
  <2>1. LinesOf(f)' = RowsOf(f, source'[f].lines, source'[f].now)
    BY DEF LinesOf
  <2>2. source'[f].lines = lines /\ source'[f].now = now
    BY <1>3
  <2> QED
    BY <1>1, <2>1, <2>2
<1>5. ASSUME NEW g \in Files, g # f PROVE LinesOf(g)' = LinesOf(g)
  <2>1. LinesOf(g)' = RowsOf(g, source'[g].lines, source'[g].now)
    BY DEF LinesOf
  <2>2. LinesOf(g) = RowsOf(g, source[g].lines, source[g].now)
    BY LinesOfIs
  <2> QED
    BY <1>3, <1>5, <2>1, <2>2
<1>6. Loaded' = Loaded \cup RowsIn(new)
  <2> DEFINE H == {g \in Files : source[g] # None}
             H1 == {g \in Files : source'[g] # None}
  <2>1. H1 = H \cup {f} /\ f \notin H
    BY <1>2, <1>3
  <2>2. Loaded = UNION {LinesOf(g) : g \in H} /\ Loaded' = UNION {LinesOf(g)' : g \in H1}
    BY Zenon DEF Loaded
  <2> HIDE DEF H1
  <2>3. \A r : r \in Loaded' <=> \E g \in H \cup {f} : r \in LinesOf(g)'
    BY <2>1, <2>2
  <2>4. \A r : r \in Loaded <=> \E g \in H : r \in LinesOf(g)
    BY <2>2
  <2>5. \A g \in H : LinesOf(g)' = LinesOf(g)
    BY <1>5, <2>1
  <2> HIDE DEF H
  <2> QED
    BY <1>4, <2>3, <2>4, <2>5
<1>7. \A r \in Loaded : r.file # f
  <2> SUFFICES ASSUME NEW r \in Loaded PROVE r.file # f
    OBVIOUS
  <2>1. PICK g \in Files : source[g] # None /\ r \in LinesOf(g)
    BY DEF Loaded
  <2>2. r.file = g
    BY <2>1 DEF LinesOf, RowsOf
  <2> QED
    BY <2>1, <2>2
<1>8. RowsIn(table) = Loaded \ purged /\ purged \subseteq Loaded
  BY DEF Data, RowsKept
<1>9. /\ table' \in Seq(Rows) /\ Len(table') = Len(table) + Len(new) /\ Once(table')
      /\ RowsIn(table') = RowsIn(table) \cup RowsIn(new)
  <2>1. \A r \in RowsIn(table), s \in RowsIn(new) : r.file # s.file
    BY <1>1, <1>7, <1>8
  <2>2. table' = table \o new /\ table \in Seq(Rows) /\ Once(table)
    BY DataOnce DEF new, Data
  <2> QED
    BY <1>1, <2>1, <2>2, AppendedRows
<1>10. RowsIn(table') = Loaded' \ purged' /\ purged' \subseteq Loaded'
  <2>1. \A r \in RowsIn(new) : r \notin purged
    BY <1>1, <1>7, <1>8
  <2> QED
    BY <1>6, <1>8, <1>9, <2>1
<1>11. Len(new) \in Nat
  BY <1>1
<1> QED
  BY <1>1, <1>3, <1>9, <1>10, <1>11 DEF Data, RowsOnce, Once, RowsKept, new

-----------------------------------------------------------------------------
(* The invariant. *)

\* What ApplyRetention's variables say of the file.
Numbers  == /\ dead \in Nat /\ pass \in 0..3
            /\ deleted \in Nat /\ remaining \in Nat /\ before \in Nat
Control  == /\ pc \in {"idle", "pass", "compact", "done"} /\ needCompact \in BOOLEAN
            /\ policy \in [days : Days \cup {0}, cap : Caps \cup {0}] /\ size \in Sizes \cup {0}
Promises == CountsAgree /\ SpaceKnown /\ PassesTake /\ CapPursued /\ SpaceReturned
Counters == Numbers /\ Control /\ Promises

IInv == Data /\ Counters

\* The invariant is what the run checks, all of it together.
LEMMA IInvMeans ==
  IInv <=> RetentionInv /\ RowsOnce /\ RowsKept /\ CapPursued /\ SpaceReturned
BY Zenon DEF IInv, Data, Counters, Numbers, Control, Promises, RetentionInv, TypeOK

\* The number of rows.
LEMMA LenIsNat ==
  ASSUME Data
  PROVE  Len(table) \in Nat
BY DEF Data

\* The settings are numbers.
LEMMA CapIsNat ==
  ASSUME policy \in [days : Days \cup {0}, cap : Caps \cup {0}]
  PROVE  policy.cap \in Nat /\ policy.days \in Nat
<1>1. policy.cap \in Caps \cup {0} /\ policy.days \in Days \cup {0}
  OBVIOUS
<1>2. Caps \cup {0} \subseteq Nat /\ Days \cup {0} \subseteq Nat
  BY PolicyAssumption
<1> QED
  BY <1>1, <1>2, Zenon

\* And so is the size that was read.
LEMMA SizeIsNat ==
  ASSUME size \in Sizes \cup {0}
  PROVE  size \in Nat
BY PolicyAssumption

\* An empty wiretap.
LEMMA InitIInv ==
  ASSUME Init
  PROVE  IInv
<1>1. table = <<>> /\ Len(table) = 0 /\ DOMAIN table = {}
  BY DEF Init
<1>2. Loaded = {}
  <2>1. {f \in Files : source[f] # None} = {}
    BY DEF Init
  <2> QED
    BY <2>1 DEF Loaded
<1>3. RowsIn(table) = {}
  BY <1>1 DEF RowsIn
<1>4. Data
  <2>1. table \in Seq(Rows) /\ purged = {}
    BY <1>1 DEF Init
  <2>2. source \in [Files -> [lines : Contents, now : Start..End] \cup {None}]
    BY DEF Init
  <2>3. now \in Start..End
    BY PolicyAssumption DEF Init
  <2>4. RowsOnce
    BY <1>1 DEF RowsOnce
  <2>5. RowsKept
    BY <1>2, <1>3, <2>1 DEF RowsKept
  <2> QED
    BY <2>1, <2>2, <2>3, <2>4, <2>5 DEF Data
<1>5. Control
  BY DEF Init, Control
<1>6. Numbers
  BY <1>1 DEF Init, Numbers
<1>7. Promises
  BY DEF Init, Promises, CountsAgree, SpaceKnown, PassesTake, CapPursued, SpaceReturned
<1> QED
  BY <1>4, <1>5, <1>6, <1>7 DEF IInv, Counters

\* Steps that leave ApplyRetention's variables alone, or end it.
LEMMA CountersSame ==
  ASSUME Counters, UNCHANGED <<table, dead, pc, run>>
  PROVE  Counters'
<1>1. /\ table' = table /\ dead' = dead /\ pc' = pc /\ policy' = policy /\ deleted' = deleted
      /\ remaining' = remaining /\ needCompact' = needCompact /\ pass' = pass /\ size' = size
      /\ before' = before
  BY DEF run
<1>2. Numbers' /\ Control'
  BY <1>1 DEF Counters, Numbers, Control
<1>3. CountsAgree' /\ SpaceKnown' /\ PassesTake' /\ CapPursued' /\ SpaceReturned'
  BY <1>1 DEF Counters, Promises, CountsAgree, SpaceKnown, PassesTake, Left, CapPursued, SpaceReturned
<1> QED
  BY <1>2, <1>3 DEF Counters, Promises

\* Between two calls there is nothing to keep in mind.
LEMMA CountersIdle ==
  ASSUME pc' = "idle", Numbers', Control'
  PROVE  Counters'
BY DEF Counters, Promises, CountsAgree, SpaceKnown, PassesTake, CapPursued, SpaceReturned

\* The clock.
LEMMA DayIInv ==
  ASSUME IInv, Day
  PROVE  IInv'
<1>1. now' \in Start..End
  BY PolicyAssumption DEF IInv, Data, Day
<1>2. Data'
  BY <1>1, DataSame DEF IInv, Day
<1>3. Counters'
  BY CountersSame DEF IInv, Day
<1> QED
  BY <1>2, <1>3 DEF IInv

\* CommitFile.
LEMMA LoadIInv ==
  ASSUME IInv, NEW f \in Files, NEW lines \in Contents, Load(f, lines)
  PROVE  IInv'
<1>1. /\ pc = "idle" /\ source[f] = None
      /\ source' = [source EXCEPT ![f] = [lines |-> lines, now |-> now]]
      /\ table' = table \o ByLine(FileRows(f, lines, now))
      /\ UNCHANGED <<dead, now, purged, pc, run>>
  BY Zenon DEF Load
<1>2. Data'
  BY <1>1, DataLoaded DEF IInv
<1>3. Numbers' /\ Control'
  BY <1>1 DEF IInv, Counters, Numbers, Control, run
<1> QED
  BY <1>1, <1>2, <1>3, CountersIdle DEF IInv

\* The call has returned.
LEMMA ReturnIInv ==
  ASSUME IInv, Return
  PROVE  IInv'
<1>1. Data'
  BY DataSame DEF IInv, Data, Return
<1>2. Numbers'
  BY DEF IInv, Counters, Numbers, Return
<1>3. Control'
  BY DEF Control, Return
<1> QED
  BY <1>1, <1>2, <1>3, CountersIdle DEF IInv, Return

\* A pass that deletes nothing and leaves the file as it is.
LEMMA FinishIInv ==
  ASSUME IInv, Finish
  PROVE  IInv'
<1>1. Data'
  BY DataSame DEF IInv, Data, Finish
<1>2. /\ table' = table /\ dead' = dead /\ pc' = "done" /\ policy' = policy /\ deleted' = deleted
      /\ remaining' = remaining /\ needCompact' = needCompact /\ pass' = pass /\ size' = size
      /\ before' = before
      /\ pc = "pass" /\ ~OverCap /\ ~needCompact
  BY DEF Finish, run
<1>3. /\ Len(table) \in Nat /\ pass \in 0..3 /\ deleted \in Nat
      /\ policy.cap \in Nat /\ size \in Nat
  BY LenIsNat, CapIsNat, SizeIsNat DEF IInv, Counters, Numbers, Control
<1>4. Numbers' /\ Control'
  BY <1>2 DEF IInv, Counters, Numbers, Control
<1>5. CountsAgree' /\ SpaceKnown' /\ PassesTake'
  BY <1>2 DEF IInv, Counters, Promises, CountsAgree, SpaceKnown, PassesTake
<1>6. IF pass = 0 THEN ~(deleted > 0 /\ 4 * deleted >= Len(table)) ELSE dead = 0
  BY <1>2 DEF IInv, Counters, Promises, SpaceKnown
<1>7. CapPursued'
  <2>1. pass = 3 => Len(table) <= 1 \/ 1000 * Len(table) <= 729 * before
    BY <1>2 DEF IInv, Counters, Promises, PassesTake, Left
  <2>2. policy.cap = 0 \/ pass = 3 \/ size <= policy.cap
    BY <1>2, <1>3 DEF OverCap
  <2> QED
    BY <1>2, <2>1, <2>2 DEF CapPursued
<1>8. SpaceReturned'
  BY <1>2, <1>3, <1>6 DEF SpaceReturned
<1> QED
  BY <1>1, <1>4, <1>5, <1>7, <1>8 DEF IInv, Counters, Promises

\* The age limit.
LEMMA ExpireIInv ==
  ASSUME IInv, NEW days \in Days, NEW cap \in Caps, ExpireByAge(days, cap)
  PROVE  IInv'
<1> DEFINE old == IF days > 0 THEN OlderThan(now - days) ELSE {}
           n == Cardinality(old)
<1>1. /\ policy' = [days |-> days, cap |-> cap]
      /\ table' = Without(table, old) /\ purged' = purged \cup old
      /\ deleted' = n /\ remaining' = Len(table) - n /\ dead' = dead + n
      /\ needCompact' = (n > 0 /\ 4 * n >= Len(table) - n)
      /\ pass' = 0 /\ size' \in Sizes /\ before' = Len(table) /\ pc' = "pass"
      /\ now' = now /\ source' = source
  BY Zenon DEF ExpireByAge
<1>2. old \in SUBSET RowsIn(table)
  BY DEF OlderThan
<1> HIDE DEF old
<1>3. Data' /\ n \in Nat /\ Len(table') = Len(table) - n
  BY <1>1, <1>2, DataDeleted DEF IInv
<1> HIDE DEF n
<1>4. Len(table) \in Nat /\ Len(table') \in Nat /\ dead \in Nat
  <2>1. Len(table') \in Nat
    BY <1>3 DEF Data
  <2> QED
    BY <2>1, LenIsNat DEF IInv, Counters, Numbers
<1>5. Numbers'
  BY <1>1, <1>3, <1>4 DEF Numbers
<1>6. Control'
  <2>1. needCompact' \in BOOLEAN
    BY <1>1, Zenon
  <2>2. policy' \in [days : Days \cup {0}, cap : Caps \cup {0}]
    BY <1>1
  <2> QED
    BY <1>1, <2>1, <2>2 DEF Control
<1>7. CountsAgree'
  BY <1>1, <1>3, <1>4 DEF CountsAgree
<1>8. SpaceKnown'
  <2>1. needCompact' = (deleted' > 0 /\ 4 * deleted' >= Len(table'))
    BY <1>1, <1>3
  <2> QED
    BY <1>1, <2>1 DEF SpaceKnown
<1>9. PassesTake' /\ CapPursued' /\ SpaceReturned'
  BY <1>1 DEF PassesTake, CapPursued, SpaceReturned
<1> QED
  BY <1>3, <1>5, <1>6, <1>7, <1>8, <1>9 DEF IInv, Counters, Promises

\* What a pass finds, and what it takes: at most one row, or the oldest.
LEMMA TrimTakes ==
  ASSUME IInv, Trim, remaining > 1
  PROVE  \E x \in Times(table) :
           /\ table' = Without(table, OlderThan(1 + x)) /\ purged' = purged \cup OlderThan(1 + x)
           /\ OlderThan(1 + x) = {r \in RowsIn(table) : r.at <= x}
           /\ deleted' = deleted + Cardinality(OlderThan(1 + x))
           /\ dead' = dead + Cardinality(OlderThan(1 + x))
           /\ remaining' = remaining - Cardinality(OlderThan(1 + x))
           /\ Cardinality(OlderThan(1 + x)) = Cardinality(Until(table, x))
           /\ Cardinality(Sooner(table, x)) <= Offset
           /\ Offset < Cardinality(Until(table, x))
<1>1. remaining = Len(table) /\ table \in Seq(Rows) /\ Once(table)
  BY DataOnce DEF IInv, Data, Counters, Promises, CountsAgree, Trim
<1>2. size \in Nat /\ policy.cap \in Nat /\ remaining \in Nat
  BY CapIsNat, SizeIsNat DEF IInv, Counters, Numbers, Control
<1>3. size > policy.cap
  BY DEF Trim, OverCap
<1>4. Offset \in Nat /\ Offset < Len(table)
  BY <1>1, <1>2, <1>3, OffsetBounds
<1>5. PICK x \in Times(table) : /\ OldestCutoff = 1 + x
                                /\ Cardinality(Sooner(table, x)) <= Offset
                                /\ Offset < Cardinality(Until(table, x))
  BY <1>1, <1>4, CutoffIs
<1>6. /\ table' = Without(table, OlderThan(1 + x)) /\ purged' = purged \cup OlderThan(1 + x)
      /\ deleted' = deleted + Cardinality(OlderThan(1 + x))
      /\ dead' = dead + Cardinality(OlderThan(1 + x))
      /\ remaining' = remaining - Cardinality(OlderThan(1 + x))
  <2>1. Delete(OldestCutoff) /\ remaining' = remaining - Cardinality(OlderThan(OldestCutoff))
    BY DEF Trim
  <2> QED
    BY <1>5, <2>1 DEF Delete
<1>7. OlderThan(1 + x) = {r \in RowsIn(table) : r.at <= x}
  <2>1. x \in Int /\ \A r \in RowsIn(table) : r.at \in Int
    BY <1>1, RowTimes
  <2>2. \A r \in RowsIn(table) : r.at < 1 + x <=> r.at <= x
    BY <2>1
  <2> QED
    BY <2>2, Zenon DEF OlderThan
<1>8. Cardinality(OlderThan(1 + x)) = Cardinality(Until(table, x))
  <2> DEFINE S == OlderThan(1 + x)
  <2>1. S \in SUBSET RowsIn(table)
    BY DEF OlderThan
  <2>2. \A i \in DOMAIN table : table[i] \in S <=> table[i].at <= x
    BY <1>7, Zenon DEF RowsIn
  <2> HIDE DEF S
  <2>3. Cardinality(S) = Cardinality({i \in DOMAIN table : table[i] \in S})
    BY <1>1, <2>1, RowsCounted
  <2>4. {i \in DOMAIN table : table[i] \in S} = Until(table, x)
    BY <2>2 DEF Until
  <2> QED
    BY <2>3, <2>4 DEF S
<1> QED
  BY <1>5, <1>6, <1>7, <1>8

\* A pass that trims.
LEMMA TrimIInv ==
  ASSUME IInv, Trim
  PROVE  IInv'
<1>1. /\ pc = "pass" /\ policy.cap > 0 /\ pass < 3 /\ size > policy.cap
      /\ pc' = "compact" /\ size' = size /\ now' = now /\ source' = source /\ policy' = policy
      /\ needCompact' = needCompact /\ pass' = pass /\ before' = before
  BY DEF Trim, OverCap
<1>2. /\ Len(table) \in Nat /\ size \in Nat /\ dead \in Nat /\ pass \in 0..3
      /\ deleted \in Nat /\ remaining \in Nat /\ before \in Nat /\ policy.cap \in Nat
      /\ remaining = Len(table) /\ deleted = before - Len(table)
      /\ pass = 1 => Left(9, 10)
      /\ pass = 2 => Left(81, 100)
  BY <1>1, LenIsNat, CapIsNat, SizeIsNat
     DEF IInv, Counters, Numbers, Control, Promises, CountsAgree, PassesTake
<1>3. /\ Data' /\ Len(table') \in Nat /\ Len(table') <= Len(table)
      /\ remaining' = Len(table') /\ deleted' = before - Len(table') /\ dead' \in Nat
      /\ Len(table') <= 1 \/ (Len(table) > 1 /\ 10 * Len(table') <= 9 * Len(table))
  <2>1. CASE remaining > 1
    <3>1. PICK x \in Times(table) :
           /\ table' = Without(table, OlderThan(1 + x)) /\ purged' = purged \cup OlderThan(1 + x)
           /\ deleted' = deleted + Cardinality(OlderThan(1 + x))
           /\ dead' = dead + Cardinality(OlderThan(1 + x))
           /\ remaining' = remaining - Cardinality(OlderThan(1 + x))
           /\ Cardinality(OlderThan(1 + x)) = Cardinality(Until(table, x))
           /\ Offset < Cardinality(Until(table, x))
      BY <2>1, TrimTakes
    <3>2. OlderThan(1 + x) \in SUBSET RowsIn(table)
      BY DEF OlderThan
    <3> DEFINE n == Cardinality(OlderThan(1 + x))
    <3>3. Data' /\ n \in Nat /\ Len(table') = Len(table) - n
      BY <1>1, <3>1, <3>2, DataDeleted DEF IInv
    <3>4. Len(table') \in Nat
      BY <3>3 DEF Data
    <3>5. /\ Offset \in Nat
          /\ \A left \in Nat : left + Offset + 1 <= remaining => 10 * left <= 9 * remaining
      BY <1>1, <1>2, <2>1, OffsetBounds
    <3>6. deleted' = deleted + n /\ dead' = dead + n /\ remaining' = remaining - n /\ Offset < n
      BY <3>1
    <3> HIDE DEF n
    <3>7. Len(table') + Offset + 1 <= remaining
      BY <1>2, <3>3, <3>4, <3>5, <3>6
    <3>8. Len(table) > 1 /\ 10 * Len(table') <= 9 * Len(table)
      BY <1>2, <2>1, <3>4, <3>5, <3>7
    <3> QED
      BY <1>2, <3>3, <3>4, <3>6, <3>8
  <2>2. CASE ~(remaining > 1)
    <3>1. /\ table' = table /\ purged' = purged /\ deleted' = deleted /\ dead' = dead
          /\ remaining' = remaining
      BY <2>2 DEF Trim
    <3>2. Data'
      BY <1>1, <3>1, DataSame DEF IInv, Data
    <3> QED
      BY <1>2, <2>2, <3>1, <3>2
  <2> QED
    BY <2>1, <2>2
<1>4. Numbers'
  BY <1>1, <1>2, <1>3 DEF Numbers
<1>5. Control'
  BY <1>1 DEF IInv, Counters, Control
<1>6. CountsAgree'
  BY <1>1, <1>3 DEF CountsAgree
<1>7. SpaceKnown' /\ CapPursued' /\ SpaceReturned'
  BY <1>1 DEF SpaceKnown, CapPursued, SpaceReturned
<1>8. PassesTake'
  <2>1. pass = 0 => Left(9, 10)'
    BY <1>1, <1>2, <1>3 DEF Left
  <2>2. pass = 1 => Left(81, 100)'
    BY <1>1, <1>2, <1>3 DEF Left
  <2>3. pass = 2 => Left(729, 1000)'
    BY <1>1, <1>2, <1>3 DEF Left
  <2>4. pass \in 0..2 /\ policy.cap > 0
    BY <1>1, <1>2
  <2> QED
    BY <1>1, <2>1, <2>2, <2>3, <2>4 DEF PassesTake
<1> QED
  BY <1>3, <1>4, <1>5, <1>6, <1>7, <1>8 DEF IInv, Counters, Promises

\* compactLocked.
LEMMA CompactKeeps ==
  ASSUME IInv, NEW fit \in Fits, Compact(fit)
  PROVE  /\ Data' /\ Len(table') = Len(table) /\ dead' = 0 /\ Len(table) \in Nat
         /\ RowsIn(table') = RowsIn(table)
         /\ policy' = policy /\ deleted' = deleted /\ remaining' = remaining /\ before' = before
<1>1. Data' /\ Len(table') = Len(table) /\ RowsIn(table') = RowsIn(table)
  BY DataCopied DEF IInv, Compact
<1> QED
  BY <1>1, LenIsNat DEF IInv, Compact

\* A compaction outside ApplyRetention.
LEMMA CompactWiretapIInv ==
  ASSUME IInv, NEW fit \in Fits, CompactWiretap(fit)
  PROVE  IInv'
<1>1. /\ Data' /\ Len(table') = Len(table) /\ dead' = 0 /\ Len(table) \in Nat
      /\ policy' = policy /\ deleted' = deleted /\ remaining' = remaining /\ before' = before
  BY CompactKeeps DEF CompactWiretap
<1>2. pc = "idle" /\ pc' = pc /\ needCompact' = needCompact /\ pass' = pass /\ size' = size
  BY DEF CompactWiretap
<1>3. Numbers' /\ Control'
  BY <1>1, <1>2 DEF IInv, Counters, Numbers, Control
<1> QED
  BY <1>1, <1>2, <1>3, CountersIdle DEF IInv

\* The compaction of a pass.
LEMMA CompactPassIInv ==
  ASSUME IInv, NEW fit \in Fits, CompactPass(fit)
  PROVE  IInv'
<1>1. /\ Data' /\ Len(table') = Len(table) /\ dead' = 0 /\ Len(table) \in Nat
      /\ policy' = policy /\ deleted' = deleted /\ remaining' = remaining /\ before' = before
  BY CompactKeeps DEF CompactPass
<1>2. /\ pc = "compact" /\ pc' = "pass" /\ needCompact' = FALSE
      /\ pass' = IF remaining <= 1 THEN 3 ELSE pass + 1
      /\ size' \in Sizes
  BY DEF CompactPass
<1>3. /\ pass \in 0..3 /\ pass < 3 /\ remaining = Len(table) /\ deleted = before - Len(table)
      /\ deleted \in Nat /\ remaining \in Nat /\ before \in Nat
      /\ pass = 0 => Left(9, 10)
      /\ pass = 1 => Left(81, 100)
      /\ pass = 2 => Left(729, 1000)
  BY <1>2 DEF IInv, Counters, Numbers, Promises, CountsAgree, PassesTake
<1>4. Numbers'
  BY <1>1, <1>2, <1>3 DEF Numbers
<1>5. Control'
  BY <1>1, <1>2 DEF IInv, Counters, Control
<1>6. CountsAgree' /\ CapPursued' /\ SpaceReturned'
  BY <1>1, <1>2, <1>3 DEF CountsAgree, CapPursued, SpaceReturned
<1>7. SpaceKnown'
  <2>1. pass' # 0 /\ dead' = 0
    BY <1>1, <1>2, <1>3
  <2> QED
    BY <1>2, <2>1 DEF SpaceKnown
<1>8. PassesTake'
  <2>1. pass' = 1 => Left(9, 10)'
    BY <1>1, <1>2, <1>3 DEF Left
  <2>2. pass' = 2 => Left(81, 100)'
    BY <1>1, <1>2, <1>3 DEF Left
  <2>3. pass' = 3 => Left(729, 1000)'
    BY <1>1, <1>2, <1>3 DEF Left
  <2> QED
    BY <1>2, <2>1, <2>2, <2>3 DEF PassesTake
<1> QED
  BY <1>1, <1>4, <1>5, <1>6, <1>7, <1>8 DEF IInv, Counters, Promises

\* The compaction after the age limit.
LEMMA CompactLastIInv ==
  ASSUME IInv, NEW fit \in Fits, CompactLast(fit)
  PROVE  IInv'
<1>1. /\ Data' /\ Len(table') = Len(table) /\ dead' = 0 /\ Len(table) \in Nat
      /\ policy' = policy /\ deleted' = deleted /\ remaining' = remaining /\ before' = before
  BY CompactKeeps DEF CompactLast
<1>2. /\ pc = "pass" /\ ~OverCap /\ needCompact /\ pc' = "done"
      /\ needCompact' = needCompact /\ pass' = pass /\ size' = size
  BY DEF CompactLast
<1>3. /\ pass = 0 /\ remaining = Len(table) /\ deleted = before - Len(table)
      /\ size \in Nat /\ policy.cap \in Nat
  BY <1>2, CapIsNat, SizeIsNat DEF IInv, Counters, Numbers, Control, Promises, CountsAgree, SpaceKnown
<1>4. Numbers' /\ Control'
  BY <1>1, <1>2 DEF IInv, Counters, Numbers, Control
<1>5. CountsAgree' /\ SpaceKnown' /\ PassesTake' /\ SpaceReturned'
  BY <1>1, <1>2, <1>3 DEF CountsAgree, SpaceKnown, PassesTake, SpaceReturned
<1>6. CapPursued'
  <2>1. policy.cap = 0 \/ size <= policy.cap
    BY <1>2, <1>3 DEF OverCap
  <2> QED
    BY <1>1, <1>2, <2>1 DEF CapPursued
<1> QED
  BY <1>1, <1>4, <1>5, <1>6 DEF IInv, Counters, Promises

-----------------------------------------------------------------------------
(* The theorems. *)

\* Every step keeps the invariant.
LEMMA NextIInv ==
  ASSUME IInv, [Next]_vars
  PROVE  IInv'
<1>1. CASE Day
  BY <1>1, DayIInv
<1>2. CASE Trim
  BY <1>2, TrimIInv
<1>3. CASE Finish
  BY <1>3, FinishIInv
<1>4. CASE Return
  BY <1>4, ReturnIInv
<1>5. CASE \E f \in Files, lines \in Contents : Load(f, lines)
  BY <1>5, LoadIInv
<1>6. CASE \E days \in Days, cap \in Caps : ExpireByAge(days, cap)
  BY <1>6, ExpireIInv
<1>7. ASSUME NEW fit \in Fits, CompactPass(fit) \/ CompactLast(fit) \/ CompactWiretap(fit)
      PROVE  IInv'
  BY <1>7, CompactPassIInv, CompactLastIInv, CompactWiretapIInv
<1>8. CASE UNCHANGED vars
  <2>1. UNCHANGED <<table, dead, now, source, purged, pc, run>>
    BY <1>8 DEF vars
  <2>2. Data'
    BY <2>1, DataSame DEF IInv, Data
  <2>3. Counters'
    BY <2>1, CountersSame DEF IInv
  <2> QED
    BY <2>2, <2>3 DEF IInv
<1> QED
  BY <1>1, <1>2, <1>3, <1>4, <1>5, <1>6, <1>7, <1>8 DEF Next

\* The inductive invariant holds of every reachable state.
THEOREM RetentionCorrect == Spec => []IInv
<1>1. Init => IInv
  BY InitIInv
<1>2. IInv /\ [Next]_vars => IInv'
  BY NextIInv
<1> QED
  BY <1>1, <1>2, PTL DEF Spec

\* The passes know how many rows there are, ask for a compaction when a quarter has gone, and
\* take more than a tenth of the rows each (ApplyRetention), whatever the policy and the sizes.
THEOREM PassesCounted == Spec => []RetentionInv
<1>1. IInv => RetentionInv
  BY IInvMeans
<1> QED
  BY <1>1, RetentionCorrect, PTL

\* Loads, expiries and compactions leave no line twice (CommitFile, copySpan).
THEOREM NoRowTwice == Spec => []RowsOnce
<1>1. IInv => RowsOnce
  BY IInvMeans
<1> QED
  BY <1>1, RetentionCorrect, PTL

\* And they lose none but those that retention has deleted (parseLinesConcurrently,
\* deleteOlderThanLocked, compactLocked).
THEOREM NoRowLost == Spec => []RowsKept
<1>1. IInv => RowsKept
  BY IInvMeans
<1> QED
  BY <1>1, RetentionCorrect, PTL

\* A compaction ends where an INSERT of minCopyBatchRows rows fits in memory, for whatever
\* table loads and retention may make (copyWiretapTo).
THEOREM CopyEnds == Spec => []CopyCopes
<1>1. IInv => CopyCopes
  <2> SUFFICES ASSUME IInv, NEW fit \in Fits, fit >= MinBatch PROVE CopySucceeds(table, fit)
    BY DEF CopyCopes
  <2>1. fit \in Nat /\ table \in Seq(Rows)
    BY PolicyAssumption DEF IInv, Data
  <2> QED
    BY <2>1, CopyRight
<1> QED
  BY <1>1, RetentionCorrect, PTL

\* A call that returns without error has read a size within the cap, or left one row, or taken
\* more than a quarter of the rows, whatever sizes the file has between the passes
\* (ApplyRetention); it may be over its cap.
THEOREM PassesPursueCap == Spec => []CapPursued
<1>1. IInv => CapPursued
  BY IInvMeans
<1> QED
  BY <1>1, RetentionCorrect, PTL

\* And it leaves no deleted row in the file when it has deleted a quarter of what remains, or
\* made a pass for the cap (compactAfterDeletedFraction).
THEOREM SpaceGivenBack == Spec => []SpaceReturned
<1>1. IInv => SpaceReturned
  BY IInvMeans
<1> QED
  BY <1>1, RetentionCorrect, PTL

\* The rows a pass takes, next to those it leaves: up to a time, and at most half before it.
LEMMA TrimLeaves ==
  ASSUME IInv, Trim, remaining > 1
  PROVE  \E x \in Times(table) :
           /\ RowsIn(table') = {r \in RowsIn(table) : r.at > x}
           /\ 2 * Cardinality({r \in RowsIn(table) : r.at < x}) <= Cardinality(RowsIn(table))
           /\ Cardinality(RowsIn(table)) = Len(table)
<1>1. PICK x \in Times(table) :
        /\ table' = Without(table, OlderThan(1 + x))
        /\ OlderThan(1 + x) = {r \in RowsIn(table) : r.at <= x}
        /\ Cardinality(Sooner(table, x)) <= Offset
  BY TrimTakes
<1>2. /\ table \in Seq(Rows) /\ Once(table) /\ Len(table) \in Nat /\ remaining = Len(table)
      /\ size \in Nat /\ policy.cap \in Nat /\ size > policy.cap
  <2>1. pc = "pass" /\ size > policy.cap
    BY DEF Trim, OverCap
  <2>2. table \in Seq(Rows) /\ Once(table) /\ Len(table) \in Nat
    BY DataOnce, LenIsNat DEF IInv, Data
  <2>3. size \in Nat /\ remaining = Len(table)
    BY <2>1, SizeIsNat DEF IInv, Counters, Control, Promises, CountsAgree
  <2>4. policy.cap \in Nat
    BY CapIsNat DEF IInv, Counters, Control
  <2> QED
    BY <2>1, <2>2, <2>3, <2>4
<1>3. Offset \in Nat /\ 2 * Offset <= Len(table)
  BY <1>2, OffsetBounds
<1>4. x \in Int /\ \A r \in RowsIn(table) : r.at \in Int
  BY <1>2, RowTimes
<1>5. RowsIn(table') = {r \in RowsIn(table) : r.at > x}
  <2>1. OlderThan(1 + x) \in SUBSET RowsIn(table)
    BY DEF OlderThan
  <2>2. RowsIn(table') = RowsIn(table) \ {r \in RowsIn(table) : r.at <= x}
    BY <1>1, <1>2, <2>1, WithoutRows
  <2> QED
    BY <1>4, <2>2
<1>6. Cardinality(RowsIn(table)) = Len(table)
  <2>1. {i \in DOMAIN table : table[i] \in RowsIn(table)} = DOMAIN table
    BY DEF RowsIn
  <2>2. Cardinality(RowsIn(table)) = Cardinality({i \in DOMAIN table : table[i] \in RowsIn(table)})
    BY <1>2, RowsCounted
  <2> QED
    BY <1>2, <2>1, <2>2, TableRows
<1>7. 2 * Cardinality({r \in RowsIn(table) : r.at < x}) <= Len(table)
  <2> DEFINE S == {r \in RowsIn(table) : r.at < x}
  <2>1. S \in SUBSET RowsIn(table)
    OBVIOUS
  <2>2. \A i \in DOMAIN table : table[i] \in S <=> table[i].at < x
    BY Zenon DEF RowsIn
  <2> HIDE DEF S
  <2>3. Cardinality(S) \in Nat /\ Cardinality(S) = Cardinality({i \in DOMAIN table : table[i] \in S})
    BY <1>2, <2>1, RowsCounted
  <2>4. {i \in DOMAIN table : table[i] \in S} = Sooner(table, x)
    BY <2>2 DEF Sooner
  <2>5. Cardinality(S) <= Offset
    BY <1>1, <2>3, <2>4
  <2>6. 2 * Cardinality(S) <= Len(table)
    BY <1>2, <1>3, <2>3, <2>5
  <2> QED
    BY <2>6 DEF S
<1> QED
  BY <1>5, <1>6, <1>7

\* The latest of the rows that a pass takes is at that time.
LEMMA GoneRows ==
  ASSUME IInv, Trim, RowsIn(table) \ RowsIn(table') # {}
  PROVE  LET gone == RowsIn(table) \ RowsIn(table')
         IN  LET last == Max({r.at : r \in gone})
             IN  /\ 2 * Cardinality({r \in gone : r.at < last}) <= Len(table)
                 /\ \A r \in RowsIn(table') : r.at > last
<1>1. remaining > 1
  <2>1. ~(remaining > 1) => table' = table
    BY DEF Trim
  <2> QED
    BY <2>1
<1>2. PICK x \in Times(table) :
        /\ RowsIn(table') = {r \in RowsIn(table) : r.at > x}
        /\ 2 * Cardinality({r \in RowsIn(table) : r.at < x}) <= Len(table)
  BY <1>1, TrimLeaves
<1>3. table \in Seq(Rows)
  BY DEF IInv, Data
<1>4. x \in Int /\ \A r \in RowsIn(table) : r.at \in Int
  BY <1>3, RowTimes
<1> DEFINE gone == RowsIn(table) \ RowsIn(table')
           ats == {r.at : r \in gone}
<1>5. gone = {r \in RowsIn(table) : r.at <= x}
  BY <1>2, <1>4
<1>6. x \in ats
  <2>1. PICK r \in RowsIn(table) : r.at = x
    BY DEF Times
  <2> QED
    BY <1>4, <1>5, <2>1
<1>7. ats \in SUBSET Int /\ IsFiniteSet(ats) /\ \A y \in ats : y <= x
  <2>1. ats \in SUBSET Times(table)
    BY DEF Times
  <2>2. \A y \in ats : y <= x
    BY <1>5
  <2> HIDE DEF ats, gone
  <2> QED
    BY <1>3, <2>1, <2>2, TimesAre, FS_Subset
<1>8. Max(ats) = x
  <2> HIDE DEF ats, gone
  <2>1. Max(ats) \in ats /\ \A y \in ats : y <= Max(ats)
    BY <1>6, <1>7, Extremes
  <2>2. Max(ats) <= x /\ x <= Max(ats) /\ Max(ats) \in Int
    BY <1>6, <1>7, <2>1
  <2> QED
    BY <1>4, <2>2
<1>9. \A r \in RowsIn(table') : r.at > x
  BY <1>2
<1>10. {r \in gone : r.at < x} = {r \in RowsIn(table) : r.at < x}
  BY <1>4, <1>5
<1> HIDE DEF gone
<1>11. 2 * Cardinality({r \in gone : r.at < x}) <= Len(table)
  BY <1>2, <1>10
<1> QED
  BY <1>8, <1>9, <1>11, Zenon DEF gone

\* A pass of the size cap takes the oldest rows, and no more than half of them but for one
\* and those of its microsecond (oldestCutoff).
THEOREM TrimsOldest == Spec => TrimBounded
<1> DEFINE Bounded ==
      pc = "pass" /\ pc' = "compact" =>
        LET gone == RowsIn(table) \ RowsIn(table')
        IN  gone # {} => LET last == Max({r.at : r \in gone})
                         IN  /\ 2 * Cardinality({r \in gone : r.at < last}) <= Len(table)
                             /\ \A r \in RowsIn(table') : r.at > last
<1>1. ASSUME IInv, [Next]_vars PROVE [Bounded]_vars
  <2> SUFFICES ASSUME pc = "pass", pc' = "compact", RowsIn(table) \ RowsIn(table') # {}
               PROVE  LET gone == RowsIn(table) \ RowsIn(table')
                      IN  LET last == Max({r.at : r \in gone})
                          IN  /\ 2 * Cardinality({r \in gone : r.at < last}) <= Len(table)
                              /\ \A r \in RowsIn(table') : r.at > last
    BY Zenon
  <2>1. Trim
    BY <1>1 DEF Next, vars, Day, Load, ExpireByAge, CompactPass, CompactLast, CompactWiretap,
                Finish, Return
  <2> QED
    BY <1>1, <2>1, GoneRows
<1>2. IInv /\ [Next]_vars => [Bounded]_vars
  BY <1>1
<1> QED
  BY <1>2, RetentionCorrect, PTL DEF Spec, TrimBounded

-----------------------------------------------------------------------------
(* LineStore is implemented. *)

Read(src) == {f \in Files : src[f] # None}
Mapped    == <<RowsIn(table), Read(source), now>>

\* LineStore counts as this module does.
LEMMA SameCount ==
  ASSUME NEW S
  PROVE  Store!Cardinality(S) = Cardinality(S)
BY Zenon DEF Store!Cardinality, Cardinality, Store!IsFiniteSet, IsFiniteSet

\* A step that changes none of LineStore's variables.
LEMMA SameMapped ==
  ASSUME RowsIn(table') = RowsIn(table), source' = source, now' = now
  PROVE  UNCHANGED Mapped
BY DEF Mapped, RowsIn

\* A new file adds its rows.
LEMMA LoadMaps ==
  ASSUME IInv, NEW f \in Files, NEW lines \in Contents, Load(f, lines)
  PROVE  Store!Load(f, lines)
<1>1. /\ source[f] = None /\ now' = now /\ purged' = purged
      /\ source' = [source EXCEPT ![f] = [lines |-> lines, now |-> now]]
      /\ table' = table \o ByLine(FileRows(f, lines, now))
  BY Zenon DEF Load
<1>2. RowsIn(table') = RowsIn(table) \cup RowsOf(f, lines, now)
  BY <1>1, DataLoaded DEF IInv
<1>3. now \in Start..End /\ source \in [Files -> [lines : Contents, now : Start..End] \cup {None}]
  BY DEF IInv, Data
<1>4. RowsOf(f, lines, now) =
        [g \in Files |-> [t \in Contents |-> [d \in Start..End |-> RowsOf(g, t, d)]]][f][lines][now]
  BY <1>3
<1>5. f \notin Read(source) /\ Read(source') = Read(source) \cup {f}
  <2>1. [lines |-> lines, now |-> now] # None
    BY <1>3, NoneAssumption
  <2> QED
    BY <1>1, <1>3, <2>1 DEF Read
<1> QED
  BY <1>1, <1>2, <1>4, <1>5, Zenon DEF Store!Load, Read, RowsIn

\* The age limit takes the rows before a day, if there is a limit.
LEMMA ExpireMaps ==
  ASSUME IInv, NEW days \in Days, NEW cap \in Caps, ExpireByAge(days, cap)
  PROVE  Store!Expire(days) \/ UNCHANGED Mapped
<1> DEFINE old == IF days > 0 THEN OlderThan(now - days) ELSE {}
<1>1. /\ table' = Without(table, old) /\ purged' = purged \cup old
      /\ now' = now /\ source' = source
  BY Zenon DEF ExpireByAge
<1>2. old \in SUBSET RowsIn(table)
  BY DEF OlderThan
<1> HIDE DEF old
<1>3. RowsIn(table') = RowsIn(table) \ old
  BY <1>1, <1>2, DataDeleted DEF IInv
<1>4. CASE days > 0
  <2>1. \A r \in RowsIn(table) : r.at \in Int
    BY RowTimes DEF IInv, Data
  <2>2. now \in Int /\ days \in Int
    BY PolicyAssumption DEF IInv, Data
  <2>3. \A r \in RowsIn(table) : r \notin old <=> r.at >= now - days
    BY <1>4, <2>1, <2>2 DEF old, OlderThan
  <2>4. RowsIn(table') = {r \in RowsIn(table) : r.at >= now - days}
    BY <1>3, <2>3
  <2> QED
    BY <1>1, <1>4, <2>4, Zenon DEF Store!Expire, RowsIn
<1>5. CASE ~(days > 0)
  <2>1. old = {}
    BY <1>5 DEF old
  <2> QED
    BY <1>1, <1>3, <2>1, SameMapped
<1> QED
  BY <1>4, <1>5

\* A pass takes the oldest, if there is more than one row.
LEMMA TrimMaps ==
  ASSUME IInv, Trim
  PROVE  (\E last \in RowsIn(table) : Store!Trim(last)) \/ UNCHANGED Mapped
<1>1. now' = now /\ source' = source
  BY DEF Trim
<1>2. CASE remaining > 1
  <2>1. PICK x \in Times(table) :
          /\ RowsIn(table') = {r \in RowsIn(table) : r.at > x}
          /\ 2 * Cardinality({r \in RowsIn(table) : r.at < x}) <= Cardinality(RowsIn(table))
    BY <1>2, TrimLeaves
  <2>2. PICK last \in RowsIn(table) : last.at = x
    BY DEF Times
  <2>3. Store!Trim(last)
    BY <1>1, <2>1, <2>2, SameCount, Zenon DEF Store!Trim, RowsIn
  <2> QED
    BY <2>3
<1>3. CASE ~(remaining > 1)
  <2>1. table' = table
    BY <1>3 DEF Trim
  <2> QED
    BY <1>1, <2>1, SameMapped
<1> QED
  BY <1>2, <1>3

\* Every step is one of LineStore's, or changes none of its variables.
LEMMA StepMaps ==
  ASSUME IInv, [Next]_vars
  PROVE  Store!Next \/ UNCHANGED Mapped
<1>1. CASE Day
  BY <1>1 DEF Day, Store!Next, Store!Day, RowsIn
<1>2. CASE Trim
  BY <1>2, TrimMaps DEF Store!Next
<1>3. CASE Finish \/ Return
  BY <1>3 DEF Finish, Return, Mapped, RowsIn
<1>4. ASSUME NEW f \in Files, NEW lines \in Contents, Load(f, lines) PROVE Store!Next
  BY <1>4, LoadMaps DEF Store!Next
<1>5. ASSUME NEW days \in Days, NEW cap \in Caps, ExpireByAge(days, cap)
      PROVE  Store!Next \/ UNCHANGED Mapped
  BY <1>5, ExpireMaps DEF Store!Next
<1>6. ASSUME NEW fit \in Fits, CompactPass(fit) \/ CompactLast(fit) \/ CompactWiretap(fit)
      PROVE  UNCHANGED Mapped
  <2>1. Compact(fit)
    BY <1>6 DEF CompactPass, CompactLast, CompactWiretap
  <2>2. RowsIn(table') = RowsIn(table) /\ source' = source /\ now' = now
    BY <2>1, CompactKeeps DEF Compact
  <2> QED
    BY <2>2, SameMapped
<1>7. CASE UNCHANGED vars
  BY <1>7 DEF vars, Mapped, RowsIn
<1> QED
  BY <1>1, <1>2, <1>3, <1>4, <1>5, <1>6, <1>7 DEF Next

\* Callers see files loaded whole, rows expired before a day, and the oldest trimmed; the
\* copies, the passes and their failures they do not see (CommitFile, ApplyRetention,
\* compactLocked).
THEOREM RetentionImplements == Spec => Implements
<1>1. Init => Store!Init
  BY DEF Init, Store!Init, RowsIn
<1>2. IInv /\ [Next]_vars => [Store!Next]_Mapped
  BY StepMaps
<1> QED
  BY <1>1, <1>2, RetentionCorrect, PTL DEF Spec, Implements, Store!Spec, Store!vars, Mapped, Read
===============================================================================
