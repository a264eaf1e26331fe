---------------------------- MODULE Subsequence ----------------------------
(***************************************************************************)
(* What is left of a sequence when some of its entries leave.                *)
(***************************************************************************)
EXTENDS Integers, FiniteSets, Sequences, FiniteSetTheorems, TLAPS

\* The k-th smallest of a set of numbers, and the rank of one of them.
Rank(K, q) == Cardinality({r \in K : r <= q})
Nth(K, k)  == CHOOSE q \in K : Rank(K, q) = k

\* The entries of s at the positions K.
Picked(s, K) == [k \in 1 .. Cardinality(K) |-> s[Nth(K, k)]]

(* The members of a finite set of numbers, in order. *)
LEMMA RankFacts ==
  ASSUME NEW n \in Nat, NEW K \in SUBSET (1 .. n)
  PROVE  /\ Cardinality(K) \in Nat /\ Cardinality(K) <= n
         /\ \A q \in K : Rank(K, q) \in 1 .. Cardinality(K)
         /\ \A p, q \in K : p < q => Rank(K, p) < Rank(K, q)
         /\ \A k \in 1 .. Cardinality(K) : Nth(K, k) \in K /\ Rank(K, Nth(K, k)) = k
         /\ \A q \in K : Nth(K, Rank(K, q)) = q
<1> DEFINE c == Cardinality(K)
           Below(q) == {r \in K : r <= q}
<1>1. IsFiniteSet(K) /\ c \in Nat /\ c <= n
  <2>1. 1 \in Int /\ n \in Int
    OBVIOUS
  <2>2. IsFiniteSet(1 .. n) /\ Cardinality(1 .. n) = n
    <3>1. IsFiniteSet(1 .. n) /\ Cardinality(1 .. n) = IF 1 > n THEN 0 ELSE n - 1 + 1
      BY <2>1, FS_Interval
    <3> QED BY <3>1
  <2>3. IsFiniteSet(K) /\ Cardinality(K) <= Cardinality(1 .. n)
    BY <2>2, FS_Subset
  <2> QED BY <2>2, <2>3, FS_CardinalityType
<1>2. \A q \in K : /\ IsFiniteSet(Below(q)) /\ Cardinality(Below(q)) \in Nat
                   /\ Cardinality(Below(q)) <= c
  <2> SUFFICES ASSUME NEW q \in K
               PROVE  /\ IsFiniteSet(Below(q)) /\ Cardinality(Below(q)) \in Nat
                      /\ Cardinality(Below(q)) <= c
    OBVIOUS
  <2>1. Below(q) \in SUBSET K
    OBVIOUS
  <2> QED BY <1>1, <2>1, FS_Subset, FS_CardinalityType
<1>3. \A q \in K : Cardinality(Below(q)) # 0
  <2> SUFFICES ASSUME NEW q \in K PROVE Cardinality(Below(q)) # 0
    OBVIOUS
  <2>1. q \in Below(q)
    OBVIOUS
  <2> QED BY <1>2, <2>1, FS_EmptySet
<1>4. \A p, q \in K : p < q => Cardinality(Below(p)) < Cardinality(Below(q))
  <2> SUFFICES ASSUME NEW p \in K, NEW q \in K, p < q
               PROVE  Cardinality(Below(p)) < Cardinality(Below(q))
    OBVIOUS
  <2>0. p \in Nat /\ q \in Nat /\ \A r \in K : r \in Nat
    OBVIOUS
  <2>1. Below(p) \in SUBSET Below(q) /\ q \in Below(q) /\ q \notin Below(p)
    <3>1. \A r \in K : r <= p => r <= q
      BY <2>0
    <3>2. q <= q /\ ~(q <= p)
      BY <2>0
    <3> QED BY <3>1, <3>2
  <2> HIDE DEF Below
  <2>2. Cardinality(Below(p)) <= Cardinality(Below(q))
    BY <1>2, <2>1, FS_Subset
  <2>3. Cardinality(Below(p)) # Cardinality(Below(q))
    BY <1>2, <2>1, FS_Subset
  <2> QED BY <1>2, <2>2, <2>3
<1> DEFINE f == [q \in K |-> Rank(K, q)]
           T == {f[q] : q \in K}
<1>5. /\ \A q \in K : Rank(K, q) \in 1 .. c
      /\ \A p, q \in K : p < q => Rank(K, p) < Rank(K, q)
  BY <1>1, <1>2, <1>3, <1>4 DEF Rank
<1> HIDE DEF Below, c
<1>6. \A p, q \in K : Rank(K, p) = Rank(K, q) => p = q
  <2> SUFFICES ASSUME NEW p \in K, NEW q \in K, Rank(K, p) = Rank(K, q), p # q PROVE FALSE
    OBVIOUS
  <2>1. p < q \/ q < p
    OBVIOUS
  <2>2. Rank(K, p) \in Nat
    BY <1>1, <1>5
  <2> QED BY <1>5, <2>1, <2>2
<1>7. f \in Bijection(K, T)
  BY <1>6 DEF Bijection, Injection, Surjection, IsInjective
<1>8. IsFiniteSet(T) /\ Cardinality(T) = c
  <2>1. ExistsBijection(K, T)
    BY <1>7 DEF ExistsBijection
  <2> HIDE DEF T
  <2> QED BY <1>1, <2>1, FS_Bijection DEF c
<1>9. T = 1 .. c
  <2>1. T \in SUBSET (1 .. c)
    BY <1>5
  <2>2. IsFiniteSet(1 .. c) /\ Cardinality(1 .. c) = c
    <3>1. 1 \in Int /\ c \in Int
      BY <1>1
    <3>2. IsFiniteSet(1 .. c) /\ Cardinality(1 .. c) = IF 1 > c THEN 0 ELSE c - 1 + 1
      BY <3>1, FS_Interval
    <3> QED BY <1>1, <3>2
  <2> HIDE DEF T
  <2> QED BY <1>8, <2>1, <2>2, FS_Subset
<1>10. ASSUME NEW k \in 1 .. c PROVE Nth(K, k) \in K /\ Rank(K, Nth(K, k)) = k
  <2>1. \E q \in K : Rank(K, q) = k
    <3>1. k \in T
      BY <1>9
    <3> QED BY <3>1
  <2> QED BY <2>1 DEF Nth
<1>11. ASSUME NEW q \in K PROVE Nth(K, Rank(K, q)) = q
  <2>1. Rank(K, q) \in 1 .. c
    BY <1>5
  <2>2. /\ Nth(K, Rank(K, q)) \in K
        /\ Rank(K, Nth(K, Rank(K, q))) = Rank(K, q)
    BY <1>10, <2>1
  <2> QED BY <1>6, <2>2
<1> QED BY <1>1, <1>5, <1>10, <1>11 DEF c

(* What is picked from a sequence is in its order. *)
LEMMA PickedFacts ==
  ASSUME NEW S, NEW s \in Seq(S), NEW K \in SUBSET (DOMAIN s)
  PROVE  /\ Picked(s, K) \in Seq(S)
         /\ Len(Picked(s, K)) = Cardinality(K) /\ Cardinality(K) \in Nat
         /\ Cardinality(K) <= Len(s)
         /\ \A k \in 1 .. Cardinality(K) :
              Nth(K, k) \in K /\ Picked(s, K)[k] = s[Nth(K, k)]
         /\ \A k, m \in 1 .. Cardinality(K) : k < m => Nth(K, k) < Nth(K, m)
         /\ \A p \in K : /\ Rank(K, p) \in 1 .. Cardinality(K)
                         /\ Picked(s, K)[Rank(K, p)] = s[p]
         /\ \A p, q \in K : p < q => Rank(K, p) < Rank(K, q)
<1> DEFINE n == Len(s)
           c == Cardinality(K)
<1>1. n \in Nat /\ DOMAIN s = 1 .. n /\ \A p \in 1 .. n : s[p] \in S
  OBVIOUS
<1> HIDE DEF n
<1>2. K \in SUBSET (1 .. n)
  BY <1>1
<1>3. /\ c \in Nat /\ c <= n
      /\ \A q \in K : Rank(K, q) \in 1 .. c
      /\ \A p, q \in K : p < q => Rank(K, p) < Rank(K, q)
      /\ \A k \in 1 .. c : Nth(K, k) \in K /\ Rank(K, Nth(K, k)) = k
      /\ \A q \in K : Nth(K, Rank(K, q)) = q
  BY <1>1, <1>2, RankFacts
<1> HIDE DEF c
<1>4. Picked(s, K) = [k \in 1 .. c |-> s[Nth(K, k)]]
  BY DEF Picked, c
<1>5. Picked(s, K) \in Seq(S) /\ Len(Picked(s, K)) = c
  <2>1. \A k \in 1 .. c : s[Nth(K, k)] \in S
    BY <1>1, <1>2, <1>3
  <2> QED BY <1>3, <1>4, <2>1
<1>6. \A k, m \in 1 .. c : k < m => Nth(K, k) < Nth(K, m)
  <2> SUFFICES ASSUME NEW k \in 1 .. c, NEW m \in 1 .. c, k < m
               PROVE  Nth(K, k) < Nth(K, m)
    OBVIOUS
  <2> DEFINE p == Nth(K, k)
             q == Nth(K, m)
  <2>1. p \in K /\ q \in K /\ Rank(K, p) = k /\ Rank(K, q) = m
    BY <1>3
  <2>2. p \in Nat /\ q \in Nat
    BY <1>1, <1>2, <2>1
  <2> HIDE DEF p, q
  <2>3. ~(q < p)
    BY <1>3, <2>1
  <2>4. p # q
    BY <2>1
  <2>5. p < q
    BY <2>2, <2>3, <2>4
  <2> QED BY <2>5 DEF p, q
<1>7. /\ \A k \in 1 .. c : Picked(s, K)[k] = s[Nth(K, k)]
      /\ \A p \in K : Picked(s, K)[Rank(K, p)] = s[p]
  BY <1>3, <1>4
<1> QED BY <1>3, <1>5, <1>6, <1>7 DEF c, n
=============================================================================
