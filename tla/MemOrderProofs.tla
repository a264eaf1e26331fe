---------------------------- MODULE MemOrderProofs ---------------------------
(***************************************************************************)
(* The store queue and its users, for every size of the queue, every number  *)
(* of addresses and every program.                                            *)
(***************************************************************************)
EXTENDS MemOrderProps

\* The k-th slot from slot h on: Slot(k) is At(sq_trueHead, k).
At(h, k) == SQWrap(h + k - 1)

\* The stores of w between two places, and how many there are.
StoresAt(w, i, j) == {q \in i .. j : w[q].kind = "store"}
Count(w, i, j)    == Cardinality(StoresAt(w, i, j))

\* With r retired stores in the queue: those in it that are older than place
\* p of the window w.
Below(w, r, p) == r + Count(w, 1, p - 1)

\* The first m slots from h on have executed; the first r, and no others, are
\* marked retired; the pointers of a queue with o stores from h on.
Known(ea, m, h)  == \A k \in 1 .. m : ea[At(h, k)]
Marked(q, r, h)  == \A k \in 1 .. SQ_SIZE : q[At(h, k)].retired <=> k <= r
Ends(h, tail, empty, o) ==
  IF o = 0 THEN empty /\ tail = h ELSE ~empty /\ tail = At(h, o)

\* What an instruction that follows m stores of the queue remembers of them.
Remembers(e, m, h) ==
  /\ e.kind = "store" => e.index = At(h, m + 1)
  /\ e.kind = "load" /\ e.state # "done" /\ m # 0 => e.index = At(h, m) /\ ~e.empty
  /\ e.kind = "branch" /\ e.state = "waiting" =>
       IF m = 0 THEN (e.empty /\ e.index = h) \/ SQWrap(e.index + 1) = h
       ELSE ~e.empty /\ e.index = At(h, m)

Agrees(e, m, h, ea) ==
  /\ Remembers(e, m, h)
  /\ e.kind = "store" => (ea[e.index] <=> e.state = "done")
  /\ e.kind = "load" /\ e.state = "issued" => Known(ea, m, h)

Placed(w, r, h, ea) == \A p \in DOMAIN w : Agrees(w[p], Below(w, r, p), h, ea)

Total(r) == Below(window, r, Len(window) + 1)

QueueInv(r) ==
  /\ Total(r) <= SQ_SIZE
  /\ Ends(sq_trueHead, sq_tail, sq_empty, Total(r))
  /\ retireHead = At(sq_trueHead, r + 1)
  /\ Marked(queue, r, sq_trueHead)
  /\ Known(ea_calcd, r, sq_trueHead)
  /\ Placed(window, r, sq_trueHead, ea_calcd)

OrderInv == \E r \in Nat : QueueInv(r)
IInv == TypeOK /\ OrderInv

(***************************************************************************)
(* The ring.                                                                 *)
(***************************************************************************)
LEMMA WrapIs ==
  ASSUME NEW p \in Int, -SQ_SIZE <= p, p < 2 * SQ_SIZE
  PROVE  SQWrap(p) = IF p >= SQ_SIZE THEN p - SQ_SIZE
                     ELSE IF p < 0 THEN p + SQ_SIZE ELSE p
BY QueueAssumption DEF SQWrap

(* Counted from any slot, the places 1 .. SQ_SIZE name every slot once, and  *)
(* one place further is one slot further.                                     *)
LEMMA RingFacts ==
  ASSUME NEW h \in SQ_PTR
  PROVE  /\ \A k \in 1 .. SQ_SIZE + 1 : At(h, k) \in SQ_PTR
         /\ At(h, 1) = h /\ At(h, SQ_SIZE + 1) = h
         /\ \A j, k \in 1 .. SQ_SIZE : At(h, j) = At(h, k) => j = k
         /\ \A i \in SQ_PTR : \E k \in 1 .. SQ_SIZE : At(h, k) = i
         /\ \A k \in 1 .. SQ_SIZE + 1, j \in 0 .. SQ_SIZE :
              k + j <= SQ_SIZE + 1 => SQWrap(At(h, k) + j) = At(h, k + j)
         /\ \A k \in 1 .. SQ_SIZE : SQWrap(At(h, k) - h) = k - 1
         /\ SQWrap(h + 1) \in SQ_PTR
         /\ \A k \in 1 .. SQ_SIZE : At(SQWrap(h + 1), k) = At(h, k + 1)
<1> DEFINE N == SQ_SIZE
           A(k) == IF h + k - 1 >= N THEN h + k - 1 - N ELSE h + k - 1
<1>1. N \in Nat /\ N >= 2 /\ h \in 0 .. N - 1 /\ SQ_PTR = 0 .. N - 1
  BY QueueAssumption DEF SQ_PTR
<1>2. \A p \in Int : -N <= p /\ p < 2 * N =>
        SQWrap(p) = IF p >= N THEN p - N ELSE IF p < 0 THEN p + N ELSE p
  BY WrapIs
<1> HIDE DEF N
<1>3. \A k \in 1 .. N + 1 : At(h, k) = A(k) /\ A(k) \in 0 .. N - 1
  BY <1>1, <1>2 DEF At
<1>4. /\ \A j, k \in 1 .. N : A(j) = A(k) => j = k
      /\ \A k \in 1 .. N : SQWrap(A(k) - h) = k - 1
  BY <1>1, <1>2
<1>5. ASSUME NEW i \in 0 .. N - 1 PROVE \E k \in 1 .. N : A(k) = i
  <2>1. CASE i >= h
    <3>1. i - h + 1 \in 1 .. N /\ A(i - h + 1) = i
      BY <1>1, <2>1
    <3> QED BY <3>1
  <2>2. CASE i < h
    <3>1. i - h + N + 1 \in 1 .. N /\ A(i - h + N + 1) = i
      BY <1>1, <2>2
    <3> QED BY <3>1
  <2> QED BY <1>1, <2>1, <2>2
<1>6. ASSUME NEW k \in 1 .. N + 1, NEW j \in 0 .. N, k + j <= N + 1
      PROVE  SQWrap(A(k) + j) = A(k + j)
  BY <1>1, <1>2, <1>6
<1>7. /\ SQWrap(h + 1) \in 0 .. N - 1
      /\ \A k \in 1 .. N : At(SQWrap(h + 1), k) = A(k + 1)
  <2>1. SQWrap(h + 1) = IF h + 1 >= N THEN h + 1 - N ELSE h + 1
    BY <1>1, <1>2
  <2> QED BY <1>1, <1>2, <2>1 DEF At
<1>8. A(1) = h /\ A(N + 1) = h
  BY <1>1
<1>9. /\ \A k \in 1 .. N : k \in 1 .. N + 1 /\ k + 1 \in 1 .. N + 1
      /\ 1 \in 1 .. N + 1 /\ N + 1 \in 1 .. N + 1
      /\ \A k \in 1 .. N + 1, j \in 0 .. N : k + j <= N + 1 => k + j \in 1 .. N + 1
  BY <1>1
<1> HIDE DEF A
<1>10. \A k \in 1 .. N + 1 : At(h, k) \in SQ_PTR
  BY <1>1, <1>3
<1>11. At(h, 1) = h /\ At(h, N + 1) = h
  BY <1>3, <1>8, <1>9
<1>12. \A j, k \in 1 .. N : At(h, j) = At(h, k) => j = k
  BY <1>3, <1>4, <1>9
<1>13. \A i \in SQ_PTR : \E k \in 1 .. N : At(h, k) = i
  BY <1>1, <1>3, <1>5, <1>9
<1>14. \A k \in 1 .. N + 1, j \in 0 .. N :
         k + j <= N + 1 => SQWrap(At(h, k) + j) = At(h, k + j)
  BY <1>3, <1>6, <1>9
<1>15. \A k \in 1 .. N : SQWrap(At(h, k) - h) = k - 1
  BY <1>3, <1>4, <1>9
<1>16. /\ SQWrap(h + 1) \in SQ_PTR
       /\ \A k \in 1 .. N : At(SQWrap(h + 1), k) = At(h, k + 1)
  BY <1>1, <1>3, <1>7, <1>9
<1> QED BY <1>10, <1>11, <1>12, <1>13, <1>14, <1>15, <1>16 DEF N

(***************************************************************************)
(* Counting stores.                                                          *)
(***************************************************************************)
LEMMA CountFacts ==
  ASSUME NEW w, NEW i \in Nat, NEW j \in Nat
  PROVE  /\ IsFiniteSet(StoresAt(w, i, j))
         /\ Count(w, i, j) \in Nat
         /\ j < i => Count(w, i, j) = 0
         /\ i <= j + 1 => Count(w, i, j + 1) = Count(w, i, j) + Bit(w[j + 1].kind = "store")
<1>1. \A a, b \in Nat : IsFiniteSet(a .. b)
  BY FS_Interval
<1>2. \A a, b \in Nat : IsFiniteSet(StoresAt(w, a, b))
  <2> TAKE a, b \in Nat
  <2>1. StoresAt(w, a, b) \in SUBSET (a .. b)
    BY DEF StoresAt
  <2> QED BY <1>1, <2>1, FS_Subset
<1>3. Count(w, i, j) \in Nat
  BY <1>2, FS_CardinalityType DEF Count
<1>4. ASSUME j < i PROVE Count(w, i, j) = 0
  <2>1. StoresAt(w, i, j) = {}
    BY <1>4 DEF StoresAt
  <2> QED BY <2>1, FS_EmptySet DEF Count
<1>5. ASSUME i <= j + 1
      PROVE  Count(w, i, j + 1) = Count(w, i, j) + Bit(w[j + 1].kind = "store")
  <2>1. CASE w[j + 1].kind = "store"
    <3>1. StoresAt(w, i, j + 1) = StoresAt(w, i, j) \cup {j + 1}
      BY <1>5, <2>1 DEF StoresAt
    <3>2. j + 1 \notin StoresAt(w, i, j)
      BY DEF StoresAt
    <3> QED BY <1>2, <2>1, <3>1, <3>2, FS_AddElement DEF Count, Bit
  <2>2. CASE w[j + 1].kind # "store"
    <3>1. StoresAt(w, i, j + 1) = StoresAt(w, i, j)
      BY <1>5, <2>2 DEF StoresAt
    <3> QED BY <1>3, <2>2, <3>1 DEF Count, Bit
  <2> QED BY <2>1, <2>2
<1> QED BY <1>2, <1>3, <1>4, <1>5

LEMMA CountSplit ==
  ASSUME NEW w, NEW i \in Nat, NEW j \in Nat, NEW k \in Nat, i <= j + 1, j <= k
  PROVE  Count(w, i, k) = Count(w, i, j) + Count(w, j + 1, k)
<1>1. StoresAt(w, i, k) = StoresAt(w, i, j) \cup StoresAt(w, j + 1, k)
  BY DEF StoresAt
<1>2. StoresAt(w, i, j) \cap StoresAt(w, j + 1, k) = {}
  BY DEF StoresAt
<1>3. /\ IsFiniteSet(StoresAt(w, i, j)) /\ Count(w, i, j) \in Nat
      /\ IsFiniteSet(StoresAt(w, j + 1, k)) /\ Count(w, j + 1, k) \in Nat
  <2>1. j + 1 \in Nat
    OBVIOUS
  <2> QED BY <2>1, CountFacts
<1>4. Cardinality(StoresAt(w, i, j) \cap StoresAt(w, j + 1, k)) = 0
  BY <1>2, FS_EmptySet
<1>5. Cardinality(StoresAt(w, i, j) \cup StoresAt(w, j + 1, k))
        = Count(w, i, j) + Count(w, j + 1, k) - 0
  <2> DEFINE S == StoresAt(w, i, j)
             T == StoresAt(w, j + 1, k)
  <2>1. IsFiniteSet(S) /\ IsFiniteSet(T)
    BY <1>3
  <2>2. Cardinality(S \cap T) = 0
    BY <1>4
  <2>3. Count(w, i, j) = Cardinality(S) /\ Count(w, j + 1, k) = Cardinality(T)
    BY DEF Count
  <2> HIDE DEF S, T
  <2>4. Cardinality(S \cup T) = Cardinality(S) + Cardinality(T) - 0
    BY <2>1, <2>2, FS_Union
  <2> QED BY <2>3, <2>4 DEF S, T
<1>6. Count(w, i, k) = Cardinality(StoresAt(w, i, j) \cup StoresAt(w, j + 1, k))
  BY <1>1 DEF Count
<1> QED BY <1>3, <1>5, <1>6

(* Counting goes by kinds alone: the same kinds d places further on are as    *)
(* many stores.                                                               *)
SameKinds(v, w, i, j, d) == \A q \in i .. j : v[q].kind = w[q + d].kind

LEMMA CountShift ==
  ASSUME NEW w, NEW v, NEW i \in Nat, NEW j \in Nat, NEW d \in Nat,
         NEW a \in Nat, NEW b \in Nat, a = i + d, b = j + d,
         SameKinds(v, w, i, j, d)
  PROVE  Count(v, i, j) = Count(w, a, b)
<1> DEFINE S == StoresAt(v, i, j)
           T == StoresAt(w, a, b)
           f == [q \in S |-> q + d]
<1>1. \A q \in S : q \in Nat /\ q + d \in T
  BY DEF StoresAt, SameKinds
<1>2. ASSUME NEW t \in T PROVE t - d \in S /\ (t - d) + d = t
  <2>1. t \in a .. b /\ w[t].kind = "store"
    BY DEF StoresAt
  <2>2. t - d \in i .. j /\ (t - d) + d = t
    BY <2>1
  <2> QED BY <2>1, <2>2 DEF StoresAt, SameKinds
<1>3. IsFiniteSet(S)
  BY CountFacts
<1> HIDE DEF S, T
<1>4. f \in Bijection(S, T)
  <2>1. f \in [S -> T]
    BY <1>1
  <2>2. \A p, q \in S : f[p] = f[q] => p = q
    BY <1>1
  <2>3. \A t \in T : \E q \in S : f[q] = t
    BY <1>2
  <2> QED BY <2>1, <2>2, <2>3 DEF Bijection, Injection, Surjection, IsInjective
<1>5. ExistsBijection(S, T)
  BY <1>4 DEF ExistsBijection
<1> QED BY <1>3, <1>5, FS_Bijection DEF Count, S, T

LEMMA BelowFirst ==
  ASSUME NEW w, NEW r \in Nat
  PROVE  Below(w, r, 1) = r
<1>1. Count(w, 1, 0) = 0
  <2>1. 1 \in Nat /\ 0 \in Nat /\ 0 < 1
    OBVIOUS
  <2> QED BY <2>1, CountFacts
<1> QED BY <1>1 DEF Below

(* Along a window the stores below a place grow by one at each store, and    *)
(* every number on the way is that of a store.                                *)
BelowWell(w, l, r) ==
  /\ \A p \in 1 .. l + 1 : Below(w, r, p) \in Nat /\ r <= Below(w, r, p)
  /\ \A p \in 1 .. l : Below(w, r, p + 1) = Below(w, r, p) + Bit(w[p].kind = "store")
  /\ \A p, q \in 1 .. l + 1 : p <= q => Below(w, r, p) <= Below(w, r, q)
  /\ \A p, q \in 1 .. l + 1 : p < q /\ w[p].kind = "store" => Below(w, r, p) < Below(w, r, q)
  /\ \A k \in r + 1 .. Below(w, r, l + 1) :
       \E p \in 1 .. l : w[p].kind = "store" /\ Below(w, r, p) = k - 1

LEMMA BelowIsWell ==
  ASSUME NEW w, NEW l \in Nat, NEW r \in Nat
  PROVE  BelowWell(w, l, r)
<1>1. \A i, j \in Nat : Count(w, i, j) \in Nat
  BY CountFacts
<1>3. ASSUME NEW p \in 1 .. l + 1 PROVE Below(w, r, p) \in Nat /\ r <= Below(w, r, p)
  <2>1. Count(w, 1, p - 1) \in Nat
    BY <1>1
  <2> QED BY <2>1 DEF Below
<1>4. ASSUME NEW p \in 1 .. l
      PROVE  Below(w, r, p + 1) = Below(w, r, p) + Bit(w[p].kind = "store")
  <2> DEFINE j == p - 1
  <2>1. j \in Nat /\ 1 <= j + 1 /\ j + 1 = p /\ (p + 1) - 1 = p
    OBVIOUS
  <2> HIDE DEF j
  <2>2. Count(w, 1, j + 1) = Count(w, 1, j) + Bit(w[j + 1].kind = "store")
    BY <2>1, CountFacts
  <2>3. Count(w, 1, j) \in Nat /\ Bit(w[p].kind = "store") \in Nat
    BY <1>1, <2>1 DEF Bit
  <2> QED BY <2>1, <2>2, <2>3 DEF Below, j
<1>5. ASSUME NEW p \in 1 .. l + 1, NEW q \in 1 .. l + 1, p <= q
      PROVE  Below(w, r, p) <= Below(w, r, q)
  <2> DEFINE j == p - 1
             k == q - 1
  <2>1. j \in Nat /\ k \in Nat /\ 1 <= j + 1 /\ j <= k
    BY <1>5
  <2> HIDE DEF j, k
  <2>2. Count(w, 1, k) = Count(w, 1, j) + Count(w, j + 1, k)
    BY <2>1, CountSplit
  <2>3. Count(w, 1, j) \in Nat /\ Count(w, j + 1, k) \in Nat
    <3>1. 1 \in Nat /\ j + 1 \in Nat
      BY <2>1
    <3> QED BY <1>1, <2>1, <3>1
  <2> QED BY <2>2, <2>3 DEF Below, j, k
<1>6. ASSUME NEW p \in 1 .. l + 1, NEW q \in 1 .. l + 1, p < q, w[p].kind = "store"
      PROVE  Below(w, r, p) < Below(w, r, q)
  <2>1. p \in 1 .. l /\ p + 1 \in 1 .. l + 1 /\ p + 1 <= q
    BY <1>6
  <2>2. Below(w, r, p + 1) = Below(w, r, p) + 1
    BY <1>4, <1>6, <2>1 DEF Bit
  <2>3. Below(w, r, p + 1) <= Below(w, r, q)
    BY <1>5, <2>1
  <2> QED BY <1>3, <2>1, <2>2, <2>3
<1>7. ASSUME NEW k \in r + 1 .. Below(w, r, l + 1)
      PROVE  \E p \in 1 .. l : w[p].kind = "store" /\ Below(w, r, p) = k - 1
  <2> DEFINE K == StoresAt(w, 1, l)
             c == Cardinality(K)
  <2>1. K \in SUBSET (1 .. l) /\ c = Count(w, 1, l) /\ c \in Nat
    BY <1>1 DEF StoresAt, Count
  <2>2. Below(w, r, l + 1) = r + c
    BY <2>1 DEF Below
  <2>3. k - r \in 1 .. c
    BY <2>1, <2>2
  <2> HIDE DEF c
  <2> DEFINE p == Nth(K, k - r)
  <2>4. p \in K /\ Rank(K, p) = k - r
    <3> HIDE DEF K, p
    <3>1. \A j \in 1 .. Cardinality(K) : Nth(K, j) \in K /\ Rank(K, Nth(K, j)) = j
      BY <2>1, RankFacts
    <3> QED BY <2>3, <3>1 DEF c, p
  <2> HIDE DEF p
  <2>5. p \in 1 .. l /\ w[p].kind = "store"
    BY <2>4 DEF StoresAt
  <2>6. {q \in K : q <= p} = StoresAt(w, 1, p)
    BY <2>5 DEF StoresAt
  <2>7. Count(w, 1, p) = k - r
    BY <2>4, <2>6 DEF Rank, Count
  <2>8. Below(w, r, p + 1) = k
    BY <2>5, <2>7 DEF Below
  <2>9. Below(w, r, p) = k - 1
    <3>1. k = Below(w, r, p) + 1
      BY <1>4, <2>5, <2>8 DEF Bit
    <3>2. p \in 1 .. l + 1
      BY <2>5
    <3> QED BY <1>3, <3>1, <3>2
  <2> QED BY <2>5, <2>9
<1> QED BY <1>3, <1>4, <1>5, <1>6, <1>7 DEF BelowWell

LEMMA BelowFacts ==
  ASSUME NEW w, NEW l \in Nat, NEW r \in Nat
  PROVE  /\ Below(w, r, 1) = r
         /\ \A p \in 1 .. l + 1 : Below(w, r, p) \in Nat /\ r <= Below(w, r, p)
         /\ \A p \in 1 .. l : Below(w, r, p + 1) = Below(w, r, p) + Bit(w[p].kind = "store")
         /\ \A p, q \in 1 .. l + 1 : p <= q => Below(w, r, p) <= Below(w, r, q)
         /\ \A p, q \in 1 .. l + 1 :
              p < q /\ w[p].kind = "store" => Below(w, r, p) < Below(w, r, q)
         /\ \A k \in r + 1 .. Below(w, r, l + 1) :
              \E p \in 1 .. l : w[p].kind = "store" /\ Below(w, r, p) = k - 1
<1>1. BelowWell(w, l, r)
  BY BelowIsWell
<1> QED BY <1>1, BelowFirst DEF BelowWell

(* Leaving the first n out, and counting what they leave behind as retired,  *)
(* changes nothing for the others.                                            *)
LEMMA BelowShift ==
  ASSUME NEW S, NEW w \in Seq(S), NEW n \in Nat, NEW z \in Nat, n <= z, z <= Len(w),
         NEW r \in Nat
  PROVE  LET v == SubSeq(w, n + 1, z)
         IN  /\ v \in Seq(S) /\ Len(v) = z - n
             /\ \A p \in 1 .. z - n : v[p] = w[p + n]
             /\ \A p \in 1 .. (z - n) + 1 :
                  Below(v, Below(w, r, n + 1), p) = Below(w, r, p + n)
<1> DEFINE v == SubSeq(w, n + 1, z)
<1>1. v \in Seq(S) /\ Len(v) = z - n /\ \A p \in 1 .. z - n : v[p] = w[p + n]
  OBVIOUS
<1> HIDE DEF v
<1>2. ASSUME NEW p \in 1 .. (z - n) + 1
      PROVE  Below(v, Below(w, r, n + 1), p) = Below(w, r, p + n)
  <2> DEFINE j == p - 1
             k == j + n
  <2>1. j \in Nat /\ k \in Nat /\ n <= k /\ 1 <= n + 1
        /\ p + n - 1 = k /\ (n + 1) - 1 = n
    OBVIOUS
  <2>2. \A q \in 1 .. j : v[q] = w[q + n]
    BY <1>1
  <2>3. Count(v, 1, j) = Count(w, n + 1, k)
    <3>1. SameKinds(v, w, 1, j, n)
      BY <2>2 DEF SameKinds
    <3>2. 1 \in Nat /\ n + 1 \in Nat /\ n + 1 = 1 + n /\ k = j + n
      BY <2>1
    <3> HIDE DEF j, k
    <3> QED BY <2>1, <3>1, <3>2, CountShift
  <2> HIDE DEF k
  <2>4. Count(w, 1, k) = Count(w, 1, n) + Count(w, n + 1, k)
    BY <2>1, CountSplit
  <2>5. /\ Count(w, 1, n) \in Nat /\ Count(w, n + 1, k) \in Nat
    <3>1. n + 1 \in Nat
      OBVIOUS
    <3> QED BY <2>1, <3>1, CountFacts
  <2>6. Below(w, r, n + 1) = r + Count(w, 1, n) /\ Below(w, r, p + n) = r + Count(w, 1, k)
    BY <2>1 DEF Below
  <2>7. Below(v, Below(w, r, n + 1), p) = Below(w, r, n + 1) + Count(v, 1, j)
    BY DEF Below
  <2> QED BY <2>3, <2>4, <2>5, <2>6, <2>7
<1> QED BY <1>1, <1>2 DEF v

(***************************************************************************)
(* The oldest store goes to memory: every place counts from one slot further *)
(* on, and is one nearer.                                                     *)
(***************************************************************************)
LEMMA PopKeeps ==
  ASSUME NEW h \in SQ_PTR, NEW m \in 1 .. SQ_SIZE
  PROVE  LET g == SQWrap(h + 1)
         IN  /\ At(g, m) = At(h, m + 1)
             /\ m > 1 => At(g, m - 1) = At(h, m)
             /\ \A ea : Known(ea, m, h) => Known(ea, m - 1, g)
             /\ \A e : /\ Remembers(e, m, h)
                       /\ e.kind = "store" => m < SQ_SIZE
                       => Remembers(e, m - 1, g)
<1> DEFINE g == SQWrap(h + 1)
<1>1. SQ_SIZE \in Nat /\ SQ_SIZE >= 2
  BY QueueAssumption
<1>2. /\ g \in SQ_PTR /\ At(h, 1) = h
      /\ \A k \in 1 .. SQ_SIZE : At(g, k) = At(h, k + 1)
      /\ \A k \in 1 .. SQ_SIZE : SQWrap(At(h, k) + 1) = At(h, k + 1)
  <2>1. /\ g \in SQ_PTR /\ At(h, 1) = h
        /\ \A k \in 1 .. SQ_SIZE : At(g, k) = At(h, k + 1)
    BY RingFacts
  <2>2. ASSUME NEW k \in 1 .. SQ_SIZE PROVE SQWrap(At(h, k) + 1) = At(h, k + 1)
    <3>1. k \in 1 .. SQ_SIZE + 1 /\ 1 \in 0 .. SQ_SIZE /\ k + 1 <= SQ_SIZE + 1
      BY <1>1
    <3> QED BY <3>1, RingFacts
  <2> QED BY <2>1, <2>2
<1> HIDE DEF g
<1>3. m > 1 => At(g, m - 1) = At(h, m)
  <2> SUFFICES ASSUME m > 1 PROVE At(g, m - 1) = At(h, m)
    OBVIOUS
  <2>1. m - 1 \in 1 .. SQ_SIZE /\ (m - 1) + 1 = m
    BY <1>1
  <2> QED BY <1>2, <2>1
<1>4. ASSUME NEW ea, Known(ea, m, h) PROVE Known(ea, m - 1, g)
  <2> SUFFICES ASSUME NEW k \in 1 .. m - 1 PROVE ea[At(g, k)]
    BY DEF Known
  <2>1. k \in 1 .. SQ_SIZE /\ k + 1 \in 1 .. m
    BY <1>1
  <2> QED BY <1>2, <1>4, <2>1 DEF Known
<1>5. ASSUME NEW e, Remembers(e, m, h), e.kind = "store" => m < SQ_SIZE
      PROVE  Remembers(e, m - 1, g)
  <2>1. ASSUME e.kind = "store" PROVE e.index = At(g, (m - 1) + 1)
    <3>1. (m - 1) + 1 = m /\ e.index = At(h, m + 1)
      BY <1>5, <2>1 DEF Remembers
    <3> QED BY <1>2, <3>1
  <2>2. ASSUME e.kind = "load", e.state # "done", m - 1 # 0
        PROVE  e.index = At(g, m - 1) /\ ~e.empty
    <3>1. m # 0 /\ m > 1
      BY <2>2
    <3> QED BY <1>3, <1>5, <2>2, <3>1 DEF Remembers
  <2>3. ASSUME e.kind = "branch", e.state = "waiting"
        PROVE  IF m - 1 = 0 THEN (e.empty /\ e.index = g) \/ SQWrap(e.index + 1) = g
               ELSE ~e.empty /\ e.index = At(g, m - 1)
    <3>1. m # 0
      OBVIOUS
    <3>2. ~e.empty /\ e.index = At(h, m)
      BY <1>5, <2>3, <3>1 DEF Remembers
    <3>3. CASE m = 1
      BY <1>2, <3>2, <3>3 DEF g
    <3>4. CASE m # 1
      <4>1. m > 1 /\ m - 1 # 0
        BY <3>4
      <4> QED BY <1>3, <3>2, <4>1
    <3> QED BY <3>3, <3>4
  <2> QED BY <2>1, <2>2, <2>3 DEF Remembers
<1>6. At(g, m) = At(h, m + 1)
  BY <1>2
<1> QED BY <1>3, <1>4, <1>5, <1>6 DEF g

(* Only a marked store goes, and it leaves the marks of the others.          *)
LEMMA PopMarks ==
  ASSUME NEW h \in SQ_PTR, NEW q \in [SQ_PTR -> SQEntry], NEW r \in 1 .. SQ_SIZE,
         Marked(q, r, h)
  PROVE  Marked([q EXCEPT ![h].retired = FALSE], r - 1, SQWrap(h + 1))
<1> DEFINE g == SQWrap(h + 1)
           s == [q EXCEPT ![h].retired = FALSE]
<1>1. SQ_SIZE \in Nat /\ SQ_SIZE >= 2
  BY QueueAssumption
<1>2. /\ \A k \in 1 .. SQ_SIZE + 1 : At(h, k) \in SQ_PTR
      /\ At(h, 1) = h /\ At(h, SQ_SIZE + 1) = h
      /\ \A j, k \in 1 .. SQ_SIZE : At(h, j) = At(h, k) => j = k
      /\ \A k \in 1 .. SQ_SIZE : At(g, k) = At(h, k + 1)
  BY RingFacts
<1>3. s[h].retired = FALSE /\ \A i \in SQ_PTR : i # h => s[i].retired = q[i].retired
  <2>1. \A i \in SQ_PTR : q[i] \in SQEntry
    OBVIOUS
  <2> QED BY <2>1 DEF SQEntry
<1> HIDE DEF g, s
<1> SUFFICES ASSUME NEW k \in 1 .. SQ_SIZE PROVE s[At(g, k)].retired <=> k <= r - 1
  BY DEF Marked, g, s
<1>4. CASE k = SQ_SIZE
  <2>1. At(g, k) = h /\ ~(k <= r - 1)
    BY <1>1, <1>2, <1>4
  <2> QED BY <1>3, <2>1
<1>5. CASE k # SQ_SIZE
  <2>1. k + 1 \in 1 .. SQ_SIZE /\ 1 \in 1 .. SQ_SIZE /\ k + 1 # 1
        /\ k + 1 \in 1 .. SQ_SIZE + 1
    BY <1>1, <1>5
  <2>2. At(g, k) = At(h, k + 1) /\ At(h, k + 1) # h /\ At(h, k + 1) \in SQ_PTR
    BY <1>2, <2>1
  <2>3. q[At(h, k + 1)].retired <=> k + 1 <= r
    BY <2>1 DEF Marked
  <2>4. k + 1 <= r <=> k <= r - 1
    OBVIOUS
  <2> QED BY <1>3, <2>2, <2>3, <2>4
<1> QED BY <1>4, <1>5

(***************************************************************************)
(* Dispatch.                                                                 *)
(***************************************************************************)
\* What this cycle's instructions are given when o stores are in the queue.
DispatchedWell(isns, o) ==
  LET en == ib_store_en(isns)
      D  == Dispatched(isns)
      m  == Below(D, o, Len(D) + 1)
  IN  /\ D \in Seq(InFlight) /\ Len(D) = Len(isns)
      /\ m \in o .. SQ_SIZE
      /\ Allocated(en) = {At(sq_trueHead, k) : k \in o + 1 .. m}
      /\ tailsum(en) = IF m = 0 THEN sq_trueHead ELSE At(sq_trueHead, m)
      /\ (sq_empty /\ ~en[1] /\ ~en[2]) <=> m = 0
      /\ \A k \in DOMAIN D : /\ D[k].state = "waiting"
                             /\ Remembers(D[k], Below(D, o, k), sq_trueHead)

(* The two instructions of a cycle are given the slots that follow, and the  *)
(* other indices are those of the youngest store before them.  (RS.v:340,    *)
(* BranchStack.v:57, SQ.v:101.)                                              *)
LEMMA DispatchFacts ==
  ASSUME sq_trueHead \in SQ_PTR, sq_tail \in SQ_PTR, sq_empty \in BOOLEAN,
         NEW o \in 0 .. SQ_SIZE, Ends(sq_trueHead, sq_tail, sq_empty, o),
         NEW isns \in Offers
  PROVE  DispatchedWell(isns, o)
<1> DEFINE h  == sq_trueHead
           N  == SQ_SIZE
           l  == Len(isns)
           en == ib_store_en(isns)
           b1 == Bit(en[1])
           b2 == Bit(en[2])
           D  == Dispatched(isns)
           m  == Below(D, o, Len(D) + 1)
           half == halfTailsum(en)
           last == tailsum(en)
<1>1. N \in Nat /\ N >= 2
  BY QueueAssumption
<1>2. /\ isns \in Seq(Kind) /\ l \in 0 .. 2 /\ DOMAIN isns = 1 .. l
      /\ \A k \in 1 .. l : isns[k] \in Kind
      /\ l = 2 => isns[1] # "branch"
      /\ StoresIn(isns) <= sq_nAvailable
  <2>1. \/ isns = <<>>
        \/ \E a \in Kind : isns = <<a>>
        \/ \E a \in Kind \ {"branch"}, b \in Kind : isns = <<a, b>>
    BY DEF Offers
  <2>2. CASE isns = <<>>
    BY <2>2 DEF Offers
  <2>3. CASE \E a \in Kind : isns = <<a>>
    BY <2>3 DEF Offers
  <2>4. CASE \E a \in Kind \ {"branch"}, b \in Kind : isns = <<a, b>>
    BY <2>4 DEF Offers
  <2> QED BY <2>1, <2>2, <2>3, <2>4
<1>3. /\ en[1] \in BOOLEAN /\ en[2] \in BOOLEAN
      /\ en[1] <=> l >= 1 /\ isns[1] = "store"
      /\ en[2] <=> l = 2 /\ isns[2] = "store"
      /\ b1 = (IF en[1] THEN 1 ELSE 0) /\ b2 = (IF en[2] THEN 1 ELSE 0)
  <2>1. /\ en[1] = (1 \in DOMAIN isns /\ isns[1] = "store")
        /\ en[2] = (2 \in DOMAIN isns /\ isns[2] = "store")
    BY DEF ib_store_en
  <2>2. (1 \in DOMAIN isns <=> l >= 1) /\ (2 \in DOMAIN isns <=> l = 2)
    BY <1>2
  <2> HIDE DEF en, l
  <2> QED BY <2>1, <2>2 DEF Bit
<1>4. /\ D = [k \in 1 .. l |-> D[k]]
      /\ \A k \in 1 .. l :
           D[k] = IF isns[k] = "branch"
                  THEN [kind |-> "branch", index |-> CheckpointOf(isns)[1],
                        empty |-> CheckpointOf(isns)[2], state |-> "waiting"]
                  ELSE [kind |-> isns[k], index |-> sq_index(en)[k],
                        empty |-> sq_index_empty(en)[k], state |-> "waiting"]
  BY <1>2 DEF Dispatched
<1> HIDE DEF en
<1>5. \A k \in 1 .. l : D[k].kind = isns[k] /\ D[k].state = "waiting"
  BY <1>4
<1>6. Len(D) = l /\ DOMAIN D = 1 .. l
  BY <1>2, <1>4
<1>7. /\ Below(D, o, 1) = o
      /\ l = 2 => Below(D, o, 2) = o + b1
      /\ m = o + b1 + b2 /\ m = o + StoresIn(isns)
  <2> HIDE DEF D, l, b1, b2
  <2>1. /\ Below(D, o, 1) = o
        /\ \A k \in 1 .. l : Below(D, o, k + 1) = Below(D, o, k) + Bit(D[k].kind = "store")
    <3>1. o \in Nat /\ l \in Nat
      BY <1>2
    <3>2. BelowWell(D, l, o) /\ Below(D, o, 1) = o
      BY <3>1, BelowIsWell, BelowFirst
    <3> QED BY <3>2 DEF BelowWell
  <2>2. l >= 1 => Below(D, o, 2) = o + b1
    <3> SUFFICES ASSUME l >= 1 PROVE Below(D, o, 2) = o + b1
      OBVIOUS
    <3>1. 1 \in 1 .. l /\ 1 + 1 = 2
      BY <1>2
    <3>2. Bit(D[1].kind = "store") = b1
      BY <1>3, <1>5, <3>1 DEF Bit
    <3> QED BY <2>1, <3>1, <3>2
  <2>3. l = 2 => Below(D, o, 3) = o + b1 + b2
    <3> SUFFICES ASSUME l = 2 PROVE Below(D, o, 3) = o + b1 + b2
      OBVIOUS
    <3>1. 2 \in 1 .. l /\ 2 + 1 = 3
      BY <1>2
    <3>2. Bit(D[2].kind = "store") = b2
      BY <1>3, <1>5, <3>1 DEF Bit
    <3> QED BY <2>1, <2>2, <3>1, <3>2
  <2>4. m = o + b1 + b2
    <3>1. CASE l = 0
      BY <1>3, <1>6, <2>1, <3>1
    <3>2. CASE l = 1
      BY <1>3, <1>6, <2>2, <3>2
    <3>3. CASE l = 2
      BY <1>3, <1>6, <2>3, <3>3
    <3> QED BY <1>2, <3>1, <3>2, <3>3
  <2>5. {k \in DOMAIN isns : isns[k] = "store"} = StoresAt(D, 1, l)
    BY <1>2, <1>5 DEF StoresAt
  <2>6. m = o + StoresIn(isns)
    <3>1. (l + 1) - 1 = l
      BY <1>2
    <3> QED BY <1>6, <2>5, <3>1 DEF Below, Count, StoresIn
  <2> HIDE DEF m
  <2> QED BY <2>1, <2>2, <2>4, <2>6
<1> HIDE DEF D, m, l, b1, b2
<1>8. m \in o .. N
  <2>1. sq_nAvailable <= N - o
    <3>1. CASE o = 0
      BY <1>1, <3>1 DEF Ends, sq_nAvailable, slotsOpen
    <3>2. CASE o # 0
      <4>1. SQDist(sq_tail) = o - 1 /\ ~sq_empty
        <5>1. o \in 1 .. N
          BY <3>2
        <5> QED BY <5>1, RingFacts DEF Ends, SQDist
      <4> QED BY <1>1, <4>1 DEF sq_nAvailable, slotsOpen
    <3> QED BY <3>1, <3>2
  <2>2. sq_nAvailable \in Int
    <3>1. SQDist(sq_tail) \in Int
      <4>1. sq_tail - sq_trueHead \in Int /\ -N <= sq_tail - sq_trueHead
            /\ sq_tail - sq_trueHead < 2 * N
        BY <1>1 DEF SQ_PTR
      <4> QED BY <1>1, <4>1, WrapIs DEF SQDist
    <3> QED BY <1>1, <3>1 DEF sq_nAvailable, slotsOpen
  <2>3. StoresIn(isns) = b1 + b2
    <3>1. StoresIn(isns) \in Nat
      <4>1. {k \in DOMAIN isns : isns[k] = "store"} \in SUBSET (1 .. 2)
        BY <1>2
      <4>2. IsFiniteSet(1 .. 2)
        <5>1. 1 \in Int /\ 2 \in Int
          OBVIOUS
        <5> QED BY <5>1, FS_Interval
      <4> QED BY <4>1, <4>2, FS_Subset, FS_CardinalityType DEF StoresIn
    <3> QED BY <1>3, <1>7, <3>1
  <2> QED BY <1>1, <1>2, <1>3, <1>7, <2>1, <2>2, <2>3
<1>9. /\ \A k \in 1 .. N : SQWrap(At(h, k) + 0) = At(h, k)
      /\ \A k \in 1 .. N : SQWrap(At(h, k) + 1) = At(h, k + 1)
      /\ At(h, 1) = h
  <2>1. \A k \in 1 .. N + 1, j \in 0 .. N : k + j <= N + 1 => SQWrap(At(h, k) + j) = At(h, k + j)
    BY <1>1, RingFacts
  <2>2. At(h, 1) = h
    BY <1>1, RingFacts
  <2>3. 0 \in 0 .. N /\ 1 \in 0 .. N
        /\ \A k \in 1 .. N : k \in 1 .. N + 1 /\ k + 0 = k /\ k + 0 <= N + 1 /\ k + 1 <= N + 1
    BY <1>1
  <2> QED BY <2>1, <2>2, <2>3
<1>10. half = IF o + b1 = 0 THEN h ELSE At(h, o + b1)
  <2>1. half = SQWrap(sq_tail + Bit(~sq_empty /\ en[1]))
    BY DEF halfTailsum
  <2>2. CASE o = 0
    <3>1. half = SQWrap(At(h, 1) + 0)
      BY <1>9, <2>1, <2>2 DEF Ends, Bit
    <3> QED BY <1>1, <1>3, <1>9, <2>2, <3>1
  <2>3. CASE o # 0
    <3>1. half = SQWrap(At(h, o) + b1)
      <4>1. ~sq_empty /\ sq_tail = At(h, o)
        BY <2>3 DEF Ends
      <4>2. Bit(~sq_empty /\ en[1]) = b1
        BY <1>3, <4>1 DEF Bit
      <4> QED BY <2>1, <4>1, <4>2
    <3> QED BY <1>1, <1>3, <1>9, <2>3, <3>1
  <2> QED BY <2>2, <2>3
<1>11. last = IF m = 0 THEN h ELSE At(h, m)
  <2>1. last = IF sq_empty /\ ~en[1] THEN half ELSE SQWrap(half + b2)
    BY DEF tailsum, b2
  <2>2. o = 0 <=> sq_empty
    BY DEF Ends
  <2> HIDE DEF half, last
  <2>3. CASE o + b1 = 0
    <3>1. o = 0 /\ ~en[1] /\ last = h
      BY <1>3, <1>10, <2>1, <2>2, <2>3
    <3> QED BY <1>3, <1>7, <1>9, <3>1
  <2>4. CASE o + b1 # 0
    <3>0. ~(sq_empty /\ ~en[1])
      BY <1>3, <2>2, <2>4
    <3>1. o + b1 \in 1 .. N
      BY <1>1, <1>3, <1>7, <1>8, <2>4
    <3>2. last = SQWrap(At(h, o + b1) + b2)
      BY <1>10, <2>1, <2>4, <3>0
    <3> QED BY <1>3, <1>7, <1>9, <3>1, <3>2
  <2> QED BY <2>3, <2>4
<1>12. (sq_empty /\ ~en[1] /\ ~en[2]) <=> m = 0
  BY <1>3, <1>7 DEF Ends
<1>13. Allocated(en) = {At(h, k) : k \in o + 1 .. m}
  <2>1. sq_index(en)[1] = half /\ sq_index(en)[2] = last
    BY DEF sq_index
  <2>2. \A i : i \in Allocated(en) <=> (en[1] /\ i = half) \/ (en[2] /\ i = last)
    BY <2>1 DEF Allocated
  <2>3. \A i : i \in Allocated(en) <=> \E k \in o + 1 .. m : i = At(h, k)
    <3>1. CASE ~en[1] /\ ~en[2]
      <4>1. \A k \in o + 1 .. m : FALSE
        BY <1>3, <1>7, <3>1
      <4> QED BY <2>2, <3>1, <4>1
    <3>2. CASE en[1] /\ ~en[2]
      <4>1. half = At(h, o + 1) /\ o + 1 .. m = {o + 1}
        BY <1>3, <1>7, <1>10, <3>2
      <4> QED BY <2>2, <3>2, <4>1
    <3>3. CASE ~en[1] /\ en[2]
      <4>1. last = At(h, o + 1) /\ o + 1 .. m = {o + 1}
        BY <1>3, <1>7, <1>11, <3>3
      <4> QED BY <2>2, <3>3, <4>1
    <3>4. CASE en[1] /\ en[2]
      <4>1. /\ half = At(h, o + 1) /\ last = At(h, o + 2)
            /\ o + 1 .. m = {o + 1, o + 2}
        BY <1>3, <1>7, <1>10, <1>11, <3>4
      <4> QED BY <2>2, <3>4, <4>1
    <3> QED BY <1>3, <3>1, <3>2, <3>3, <3>4
  <2> QED BY <2>3
<1>14. /\ half \in SQ_PTR /\ last \in SQ_PTR
       /\ CheckpointOf(isns)[1] \in SQ_PTR /\ CheckpointOf(isns)[2] \in BOOLEAN
       /\ sq_index_empty(en)[1] = (sq_empty /\ ~en[1])
       /\ sq_index_empty(en)[2] = (sq_empty /\ ~en[1] /\ ~en[2])
       /\ sq_index(en)[1] = half /\ sq_index(en)[2] = last
       /\ l = 1 => CheckpointOf(isns) = <<sq_tail, sq_empty>>
       /\ l = 2 => /\ CheckpointOf(isns)[1] = IF o + b1 = 0 THEN h ELSE At(h, o + b1)
                   /\ CheckpointOf(isns)[2] = (sq_empty /\ ~en[1])
  <2>0. \A k \in 1 .. N + 1 : At(h, k) \in SQ_PTR
    BY RingFacts
  <2>1. half \in SQ_PTR /\ last \in SQ_PTR
    BY <1>1, <1>3, <1>7, <1>8, <1>10, <1>11, <2>0
  <2>2. l = 1 => CheckpointOf(isns) = <<sq_tail, sq_empty>>
    BY DEF CheckpointOf, l
  <2>3. l # 1 => CheckpointOf(isns) = <<IF sq_empty THEN sq_tail ELSE SQWrap(sq_tail + b1),
                                        sq_empty /\ ~en[1]>>
    BY DEF CheckpointOf, l, en, b1
  <2>4. (IF sq_empty THEN sq_tail ELSE SQWrap(sq_tail + b1))
          = IF o + b1 = 0 THEN h ELSE At(h, o + b1)
    <3>1. CASE o = 0
      <4>1. sq_empty /\ sq_tail = h
        BY <3>1 DEF Ends
      <4> QED BY <1>3, <1>9, <3>1, <4>1
    <3>2. CASE o # 0
      <4>1. ~sq_empty /\ sq_tail = At(h, o) /\ o \in 1 .. N /\ o + b1 # 0
        BY <1>3, <3>2 DEF Ends
      <4> QED BY <1>3, <1>9, <4>1
    <3> QED BY <3>1, <3>2
  <2>5. (IF o + b1 = 0 THEN h ELSE At(h, o + b1)) \in SQ_PTR
    BY <1>10, <2>1
  <2> HIDE DEF half, last, en, b1, h
  <2>6. CheckpointOf(isns)[1] \in SQ_PTR /\ CheckpointOf(isns)[2] \in BOOLEAN
    <3>1. CASE l = 1
      BY <2>2, <3>1
    <3>2. CASE l # 1
      <4>1. /\ CheckpointOf(isns)[1] = (IF o + b1 = 0 THEN h ELSE At(h, o + b1))
            /\ CheckpointOf(isns)[2] = (sq_empty /\ ~en[1])
        BY <2>3, <2>4, <3>2
      <4> QED BY <2>5, <4>1
    <3> QED BY <3>1, <3>2
  <2>7. /\ sq_index(en) = <<half, last>>
        /\ sq_index_empty(en) = <<sq_empty /\ ~en[1], sq_empty /\ ~en[1] /\ ~en[2]>>
    BY DEF sq_index, sq_index_empty, half, last
  <2> QED BY <2>1, <2>2, <2>3, <2>4, <2>6, <2>7
<1>15. ASSUME NEW k \in 1 .. l
       PROVE  D[k] \in InFlight /\ Remembers(D[k], Below(D, o, k), h)
  <2> DEFINE i == IF isns[k] = "branch" THEN CheckpointOf(isns)[1] ELSE sq_index(en)[k]
             e == IF isns[k] = "branch" THEN CheckpointOf(isns)[2] ELSE sq_index_empty(en)[k]
             b == Below(D, o, k)
  <2>1. D[k] = [kind |-> isns[k], index |-> i, empty |-> e, state |-> "waiting"]
    BY <1>4
  <2>2. k = 1 \/ (k = 2 /\ l = 2)
    BY <1>2
  <2>3. b = IF k = 1 THEN o ELSE o + b1
    BY <1>7, <2>2
  <2>4. /\ i \in SQ_PTR /\ e \in BOOLEAN
        /\ isns[k] = "store" => i = At(h, b + 1)
        /\ isns[k] = "load" /\ b # 0 => i = At(h, b) /\ ~e
        /\ isns[k] = "branch" => IF b = 0 THEN e /\ i = h ELSE ~e /\ i = At(h, b)
    <3>1. CASE k = 1
      <4>1. /\ isns[1] = "branch" => l = 1
            /\ b = o /\ (en[1] <=> isns[1] = "store")
        BY <1>2, <1>3, <2>3, <3>1
      <4>2. CASE isns[1] = "branch"
        <5>1. i = sq_tail /\ e = sq_empty
          BY <1>14, <3>1, <4>1, <4>2
        <5> QED BY <3>1, <4>1, <4>2, <5>1 DEF Ends
      <4>3. CASE isns[1] # "branch"
        <5>1. i = half /\ e = (sq_empty /\ ~en[1])
          BY <1>14, <3>1, <4>3
        <5>2. o # 0 => ~sq_empty
          BY DEF Ends
        <5> HIDE DEF i, e, b, half, en
        <5>3. /\ i \in SQ_PTR /\ e \in BOOLEAN
              /\ isns[1] = "store" => i = At(h, o + 1)
              /\ isns[1] = "load" /\ o # 0 => i = At(h, o) /\ ~e
          BY <1>3, <1>10, <1>14, <4>1, <5>1, <5>2
        <5> QED BY <3>1, <4>1, <4>3, <5>3
      <4> QED BY <4>2, <4>3
    <3>2. CASE k = 2 /\ l = 2
      <4>1. b = o + b1 /\ (en[2] <=> isns[2] = "store")
        BY <1>3, <2>3, <3>2
      <4>2. CASE isns[2] = "branch"
        <5>1. /\ i = (IF o + b1 = 0 THEN h ELSE At(h, o + b1))
              /\ e = (sq_empty /\ ~en[1])
          BY <1>14, <3>2, <4>2
        <5>2. o + b1 = 0 <=> sq_empty /\ ~en[1]
          BY <1>3 DEF Ends
        <5>3. i \in SQ_PTR /\ e \in BOOLEAN
          BY <1>14, <3>2, <4>2
        <5> HIDE DEF i, e, b, en
        <5> QED BY <3>2, <4>1, <4>2, <5>1, <5>2, <5>3
      <4>3. CASE isns[2] # "branch"
        <5>1. i = last /\ e = (sq_empty /\ ~en[1] /\ ~en[2])
          BY <1>14, <3>2, <4>3
        <5>2. o + b1 # 0 => ~(sq_empty /\ ~en[1])
          BY <1>3 DEF Ends
        <5> HIDE DEF i, e, b, last, en
        <5>3. /\ i \in SQ_PTR /\ e \in BOOLEAN
              /\ isns[2] = "store" => i = At(h, b + 1)
              /\ isns[2] = "load" /\ b # 0 => i = At(h, b) /\ ~e
          BY <1>3, <1>7, <1>11, <1>14, <4>1, <5>1, <5>2
        <5> QED BY <3>2, <4>3, <5>3
      <4> QED BY <4>2, <4>3
    <3> QED BY <2>2, <3>1, <3>2
  <2> HIDE DEF i, e, b
  <2>5. D[k] \in InFlight
    BY <1>2, <2>1, <2>4 DEF InFlight, State
  <2>6. Remembers(D[k], b, h)
    BY <2>1, <2>4 DEF Remembers
  <2> QED BY <2>5, <2>6 DEF b
<1>16. D \in Seq(InFlight)
  <2>1. l \in Nat /\ \A k \in 1 .. l : D[k] \in InFlight
    BY <1>2, <1>15
  <2>2. D = [k \in 1 .. l |-> D[k]]
    BY <1>4
  <2> QED BY <2>1, <2>2
<1> HIDE DEF en, last, half
<1> QED BY <1>5, <1>6, <1>8, <1>11, <1>12, <1>13, <1>15, <1>16
        DEF DispatchedWell, D, m, en, last, l

(***************************************************************************)
(* Issue.                                                                    *)
(***************************************************************************)
(* What the invariant says of a store: its slot is its place in the queue.   *)
LEMMA StoreSlots ==
  ASSUME TypeOK, NEW r \in Nat, QueueInv(r)
  PROVE  /\ sq_trueHead \in SQ_PTR /\ SQ_SIZE \in Nat /\ SQ_SIZE >= 2
         /\ Len(window) \in Nat /\ DOMAIN window = 1 .. Len(window)
         /\ \A p \in 1 .. Len(window) : window[p] \in InFlight
         /\ r <= Total(r) /\ Total(r) \in 0 .. SQ_SIZE
         /\ \A p \in 1 .. Len(window) + 1 : Below(window, r, p) \in r .. Total(r)
         /\ \A p \in 1 .. Len(window) : window[p].kind = "store" =>
              /\ Below(window, r, p) + 1 \in 1 .. Total(r)
              /\ window[p].index = At(sq_trueHead, Below(window, r, p) + 1)
              /\ ea_calcd[window[p].index] <=> window[p].state = "done"
         /\ \A p, q \in 1 .. Len(window) :
              /\ window[p].kind = "store" /\ window[q].kind = "store"
              /\ window[p].index = window[q].index
              => p = q
<1> DEFINE l == Len(window)
           B(p) == Below(window, r, p)
           T == Total(r)
<1>1. /\ sq_trueHead \in SQ_PTR /\ SQ_SIZE \in Nat /\ SQ_SIZE >= 2
      /\ l \in Nat /\ DOMAIN window = 1 .. l /\ \A p \in 1 .. l : window[p] \in InFlight
  BY QueueAssumption DEF TypeOK
<1> HIDE DEF l
<1>2. /\ \A p \in 1 .. l + 1 : B(p) \in Nat /\ r <= B(p)
      /\ \A p, q \in 1 .. l + 1 : p <= q => B(p) <= B(q)
      /\ \A p, q \in 1 .. l + 1 : p < q /\ window[p].kind = "store" => B(p) < B(q)
  BY <1>1, BelowFacts
<1>3. T = B(l + 1) /\ T <= SQ_SIZE
  BY DEF QueueInv, Total, l
<1> HIDE DEF B, T
<1>4. l + 1 \in 1 .. l + 1 /\ \A p \in 1 .. l : p \in 1 .. l + 1 /\ p < l + 1
  BY <1>1
<1>5. /\ r <= T /\ T \in 0 .. SQ_SIZE
      /\ \A p \in 1 .. l + 1 : B(p) \in r .. T
  <2>1. T \in Nat /\ r <= T
    BY <1>2, <1>3, <1>4
  <2>2. \A p \in 1 .. l + 1 : B(p) \in Nat /\ r <= B(p) /\ B(p) <= T
    <3> TAKE p \in 1 .. l + 1
    <3>1. p <= l + 1
      BY <1>1
    <3> QED BY <1>2, <1>3, <1>4, <3>1
  <2> QED BY <1>1, <1>3, <2>1, <2>2
<1>6. ASSUME NEW p \in 1 .. l, window[p].kind = "store"
      PROVE  /\ B(p) + 1 \in 1 .. T
             /\ window[p].index = At(sq_trueHead, B(p) + 1)
             /\ ea_calcd[window[p].index] <=> window[p].state = "done"
  <2>1. B(p) < T /\ B(p) \in Nat /\ T \in Nat
    BY <1>2, <1>3, <1>4, <1>5, <1>6
  <2>2. Agrees(window[p], B(p), sq_trueHead, ea_calcd)
    BY <1>1 DEF QueueInv, Placed, B
  <2> QED BY <1>6, <2>1, <2>2 DEF Agrees, Remembers
<1>7. ASSUME NEW p \in 1 .. l, NEW q \in 1 .. l, p < q,
             window[p].kind = "store", window[q].kind = "store"
      PROVE  window[p].index # window[q].index
  <2>1. B(p) < B(q)
    BY <1>2, <1>4, <1>7
  <2>2. B(p) + 1 # B(q) + 1
    <3>1. B(p) \in Nat /\ B(q) \in Nat
      BY <1>2, <1>4
    <3> QED BY <2>1, <3>1
  <2>3. B(p) + 1 \in 1 .. SQ_SIZE /\ B(q) + 1 \in 1 .. SQ_SIZE
    BY <1>1, <1>5, <1>6, <1>7
  <2>4. \A j, k \in 1 .. SQ_SIZE : At(sq_trueHead, j) = At(sq_trueHead, k) => j = k
    BY <1>1, RingFacts
  <2> QED BY <1>6, <1>7, <2>2, <2>3, <2>4
<1>8. ASSUME NEW p \in 1 .. l, NEW q \in 1 .. l,
             window[p].kind = "store", window[q].kind = "store",
             window[p].index = window[q].index
      PROVE  p = q
  <2>1. p < q \/ q < p \/ p = q
    BY <1>1
  <2> QED BY <1>7, <1>8, <2>1
<1> QED BY <1>1, <1>5, <1>6, <1>8 DEF l, B, T

(* A load may issue only behind stores that have all executed: sq_ea_ptr is  *)
(* the end of the run of executed slots, and the load's index is at most     *)
(* there.  (RS.v:85, SQ.v:83.)                                               *)
LEMMA IssuesBehindKnown ==
  ASSUME TypeOK, NEW r \in Nat, QueueInv(r),
         NEW p \in Positions("load", "waiting"), canLoadIssue(window[p])
  PROVE  Known(ea_calcd, Below(window, r, p), sq_trueHead)
<1> DEFINE h == sq_trueHead
           N == SQ_SIZE
           m == Below(window, r, p)
           T == Total(r)
           run == {k \in SQ_PTR : \A j \in 0 .. k : ea_calcd[SQWrap(h + j)]}
           c == Cardinality(run)
<1>1. /\ h \in SQ_PTR /\ N \in Nat /\ N >= 2 /\ T \in 0 .. N /\ m \in 0 .. T
      /\ p \in DOMAIN window /\ window[p].kind = "load" /\ window[p].state = "waiting"
  <2>1. p \in DOMAIN window /\ window[p].kind = "load" /\ window[p].state = "waiting"
    BY DEF Positions
  <2>2. /\ h \in SQ_PTR /\ N \in Nat /\ N >= 2 /\ T \in 0 .. N
        /\ Len(window) \in Nat /\ DOMAIN window = 1 .. Len(window)
        /\ \A q \in 1 .. Len(window) + 1 : Below(window, r, q) \in r .. Total(r)
    BY StoreSlots
  <2>3. p \in 1 .. Len(window) + 1
    BY <2>1, <2>2
  <2> QED BY <2>1, <2>2, <2>3
<1>2. CASE m = 0
  BY <1>2 DEF Known
<1>3. CASE m # 0
  <2>1. window[p].index = At(h, m) /\ ~window[p].empty
    <3>1. Agrees(window[p], m, h, ea_calcd)
      BY <1>1 DEF QueueInv, Placed
    <3> QED BY <1>1, <1>3, <3>1 DEF Agrees, Remembers
  <2>2. ~sq_empty /\ sq_tail = At(h, T) /\ m \in 1 .. N /\ T \in 1 .. N
    <3>1. m \in 1 .. N /\ T \in 1 .. N /\ T # 0
      BY <1>1, <1>3
    <3>2. Ends(h, sq_tail, sq_empty, T)
      BY DEF QueueInv
    <3> QED BY <3>1, <3>2 DEF Ends
  <2>3. \A k \in 1 .. N : SQDist(At(h, k)) = k - 1
    BY <1>1, RingFacts DEF SQDist
  <2>4. ~(SQDist(window[p].index) > SQDist(sq_tail))
    BY <1>1, <2>1, <2>2, <2>3
  <2>5. /\ SQDist(window[p].index) <= SQDist(sq_ea_ptr)
        /\ ea_calcd[h]
    BY <2>1, <2>2, <2>4 DEF canLoadIssue, sq_ea_empty
  <2> HIDE DEF m
  <2>6. \A k \in 1 .. N : At(h, k) = SQWrap(h + (k - 1))
    BY <1>1 DEF At, SQ_PTR
  <2>7. /\ run \in SUBSET (0 .. N - 1)
        /\ \A k \in run, j \in 0 .. N - 1 : j <= k => j \in run
    BY <1>1 DEF SQ_PTR
  <2>8. 0 \in run
    <3>1. At(h, 1) = h /\ 1 \in 1 .. N /\ 1 - 1 = 0 /\ 0 \in SQ_PTR
      BY <1>1, RingFacts DEF SQ_PTR
    <3>2. SQWrap(h + 0) = h
      BY <2>6, <3>1
    <3>3. \A j \in 0 .. 0 : j = 0
      OBVIOUS
    <3> QED BY <2>5, <3>1, <3>2, <3>3
  <2>9. \A k \in 1 .. N : k - 1 \in run => Known(ea_calcd, k, h)
    <3> SUFFICES ASSUME NEW k \in 1 .. N, k - 1 \in run, NEW i \in 1 .. k
                 PROVE  ea_calcd[At(h, i)]
      BY DEF Known
    <3>1. i - 1 \in 0 .. k - 1 /\ i \in 1 .. N
      BY <1>1
    <3> QED BY <2>6, <3>1
  <2> HIDE DEF run
  <2>10. IsFiniteSet(run) /\ c \in Nat /\ c >= 1 /\ c <= N
    <3>1. IsFiniteSet(0 .. N - 1) /\ Cardinality(0 .. N - 1) = N
      <4>1. 0 \in Int /\ N - 1 \in Int
        BY <1>1
      <4>2. IsFiniteSet(0 .. N - 1)
            /\ Cardinality(0 .. N - 1) = IF 0 > N - 1 THEN 0 ELSE N - 1 - 0 + 1
        BY <4>1, FS_Interval
      <4> QED BY <1>1, <4>2
    <3>2. IsFiniteSet(run) /\ c <= Cardinality(0 .. N - 1)
      BY <2>7, <3>1, FS_Subset
    <3>3. c \in Nat /\ c # 0
      BY <2>8, <3>2, FS_CardinalityType, FS_EmptySet
    <3> QED BY <3>1, <3>2, <3>3
  <2>11. sq_ea_ptr = At(h, c)
    <3>1. run # {}
      BY <2>8
    <3>2. sq_ea_ptr = SQWrap(h + c - 1)
      BY <3>1 DEF sq_ea_ptr, run
    <3> QED BY <3>2 DEF At
  <2>12. m <= c
    <3> HIDE DEF c
    <3>1. c \in 1 .. N
      BY <1>1, <2>10
    <3>2. m - 1 <= c - 1
      BY <2>1, <2>2, <2>3, <2>5, <2>11, <3>1
    <3> QED BY <2>2, <2>10, <3>2
  <2>13. m - 1 \in run
    <3> SUFFICES ASSUME m - 1 \notin run PROVE FALSE
      OBVIOUS
    <3>1. run \in SUBSET (0 .. m - 2)
      <4> SUFFICES ASSUME NEW k \in run, ~(k <= m - 2) PROVE FALSE
        BY <2>7
      <4>1. k \in 0 .. N - 1 /\ m - 1 \in 0 .. N - 1 /\ m - 1 <= k
        BY <1>1, <2>2, <2>7
      <4> QED BY <2>7, <4>1
    <3>2. IsFiniteSet(0 .. m - 2) /\ Cardinality(0 .. m - 2) = m - 1
      <4>1. 0 \in Int /\ m - 2 \in Int
        BY <2>2
      <4>2. IsFiniteSet(0 .. m - 2)
            /\ Cardinality(0 .. m - 2) = IF 0 > m - 2 THEN 0 ELSE m - 2 - 0 + 1
        BY <4>1, FS_Interval
      <4> QED BY <2>2, <4>2
    <3>3. c <= m - 1
      BY <3>1, <3>2, FS_Subset
    <3> QED BY <2>2, <2>10, <2>12, <3>3
  <2> QED BY <2>2, <2>9, <2>13 DEF m
<1> QED BY <1>1, <1>2, <1>3

(***************************************************************************)
(* Execution and retirement.                                                 *)
(***************************************************************************)
\* How many of the queue's r retired and following stores are retired after
\* the first n of the window have left it.
RetiredAfter(r, n) == Below(window, r, n + 1)

\* The window when its instructions have advanced, against the slots as they
\* are then.
AdvancedWell(r, n, A, st, ea) ==
  /\ A \in Seq(InFlight) /\ Len(A) = Len(window)
  /\ \A p \in DOMAIN window : A[p].kind = window[p].kind
  /\ \A p \in 1 .. Len(window) + 1 : Below(A, r, p) = Below(window, r, p)
  /\ n \in 0 .. 2 /\ n <= Len(window)
  /\ RetiredAfter(r, n) = r + rob_nRetireStores(n)
  /\ ea \in [SQ_PTR -> BOOLEAN] /\ DOMAIN st \in SUBSET SQ_PTR
  /\ \A i \in DOMAIN st : \E k \in 1 .. Total(r) : i = At(sq_trueHead, k)
  /\ Known(ea, RetiredAfter(r, n), sq_trueHead)
  /\ Placed(A, r, sq_trueHead, ea)

(* Stores execute in their own slots and in no other, so the slots and the   *)
(* stations keep saying the same; what retires has executed; a load that is  *)
(* issued has only executed stores before it.                                 *)
LEMMA AdvanceFacts ==
  ASSUME TypeOK, NEW r \in Nat, QueueInv(r),
         NEW n \in Retirements, NEW S \in Executions, NEW st \in Addresses(S),
         NEW L \in SUBSET Positions("load", "waiting"), NEW issued \in Issues(L),
         NEW R \in SUBSET Positions("branch", "waiting"),
         NEW en, NEW o \in Nat, o <= SQ_SIZE,
         Allocated(en) = {At(sq_trueHead, k) : k \in Total(r) + 1 .. o}
  PROVE  AdvancedWell(r, n, Advanced(S \cup Positions("load", "issued") \cup R, issued),
                      st, next_ea_calcd(en, st))
<1> DEFINE l  == Len(window)
           h  == sq_trueHead
           N  == SQ_SIZE
           T  == Total(r)
           B(p) == Below(window, r, p)
           done == S \cup Positions("load", "issued") \cup R
           A  == Advanced(done, issued)
           ea == next_ea_calcd(en, st)
<1>1. /\ h \in SQ_PTR /\ N \in Nat /\ N >= 2
      /\ l \in Nat /\ DOMAIN window = 1 .. l
      /\ \A p \in 1 .. l : window[p] \in InFlight
      /\ r <= T /\ T \in 0 .. N
      /\ \A p \in 1 .. l + 1 : B(p) \in r .. T
      /\ \A p \in 1 .. l : window[p].kind = "store" =>
           /\ B(p) + 1 \in 1 .. T
           /\ window[p].index = At(h, B(p) + 1)
           /\ ea_calcd[window[p].index] <=> window[p].state = "done"
      /\ \A p, q \in 1 .. l :
           /\ window[p].kind = "store" /\ window[q].kind = "store"
           /\ window[p].index = window[q].index
           => p = q
  BY StoreSlots
<1>2. /\ B(1) = r /\ B(l + 1) = T
      /\ \A p, q \in 1 .. l + 1 : p <= q => B(p) <= B(q)
      /\ \A k \in r + 1 .. T : \E p \in 1 .. l : window[p].kind = "store" /\ B(p) = k - 1
  <2>1. B(l + 1) = T
    BY DEF Total
  <2> HIDE DEF l, T
  <2>0. l \in Nat
    BY <1>1
  <2>2. B(1) = r
    BY BelowFirst
  <2>4. \A p, q \in 1 .. l + 1 : p <= q => B(p) <= B(q)
    <3>1. BelowWell(window, l, r)
      BY <2>0, BelowIsWell
    <3> QED BY <3>1 DEF BelowWell
  <2>3. \A k \in r + 1 .. B(l + 1) :
          \E p \in 1 .. l : window[p].kind = "store" /\ B(p) = k - 1
    <3>1. BelowWell(window, l, r)
      BY <2>0, BelowIsWell
    <3> QED BY <3>1 DEF BelowWell
  <2> HIDE DEF B
  <2> QED BY <2>1, <2>2, <2>3, <2>4
<1>3. /\ \A k \in 1 .. N : At(h, k) \in SQ_PTR
      /\ \A j, k \in 1 .. N : At(h, j) = At(h, k) => j = k
  <2>1. \A k \in 1 .. N : k \in 1 .. N + 1
    BY <1>1
  <2> QED BY <1>1, <2>1, RingFacts
<1>4. \A k \in 1 .. T : At(h, k) \notin Allocated(en)
  <2> SUFFICES ASSUME NEW k \in 1 .. T, NEW j \in T + 1 .. o, At(h, k) = At(h, j)
               PROVE  FALSE
    OBVIOUS
  <2>1. k \in 1 .. N /\ j \in 1 .. N /\ k # j
    BY <1>1
  <2> QED BY <1>3, <2>1
<1>5. /\ \A p \in S : p \in 1 .. l /\ window[p].kind = "store" /\ window[p].state = "waiting"
      /\ \A p \in R : p \in 1 .. l /\ window[p].kind = "branch" /\ window[p].state = "waiting"
      /\ \A p \in Positions("load", "issued") :
           p \in 1 .. l /\ window[p].kind = "load" /\ window[p].state = "issued"
      /\ \A p \in issued :
           /\ p \in Positions("load", "waiting") /\ canLoadIssue(window[p])
           /\ p \in 1 .. l /\ window[p].kind = "load" /\ window[p].state = "waiting"
  BY <1>1 DEF Executions, Positions, Issues
<1>6. DOMAIN st = {window[p].index : p \in S}
  BY DEF Addresses
<1> HIDE DEF l, h, T, B
<1>7. ASSUME NEW p \in 1 .. l, window[p].kind = "store"
      PROVE  /\ window[p].index \in DOMAIN st <=> p \in S
             /\ window[p].index \notin Allocated(en) /\ window[p].index \in SQ_PTR
  <2>1. window[p].index \in DOMAIN st <=> p \in S
    BY <1>1, <1>5, <1>6, <1>7
  <2>2. B(p) + 1 \in 1 .. T /\ B(p) + 1 \in 1 .. N /\ window[p].index = At(h, B(p) + 1)
    BY <1>1, <1>7
  <2> QED BY <1>3, <1>4, <2>1, <2>2
<1>8. /\ ea \in [SQ_PTR -> BOOLEAN]
      /\ \A i \in SQ_PTR : ea[i] <=> i \in DOMAIN st \/ (ea_calcd[i] /\ i \notin Allocated(en))
  BY DEF next_ea_calcd, TypeOK
<1> HIDE DEF ea
<1>9. ASSUME NEW k \in 1 .. T, ea_calcd[At(h, k)] PROVE ea[At(h, k)]
  <2>1. At(h, k) \in SQ_PTR
    BY <1>1, <1>3
  <2> QED BY <1>4, <1>8, <1>9, <2>1
<1>10. ASSUME NEW m \in 0 .. T, Known(ea_calcd, m, h) PROVE Known(ea, m, h)
  <2>1. \A k \in 1 .. m : k \in 1 .. T
    BY <1>1
  <2> QED BY <1>9, <1>10, <2>1 DEF Known
<1>11. /\ Len(A) = l /\ DOMAIN A = 1 .. l
       /\ \A p \in 1 .. l :
            A[p] = [kind |-> window[p].kind, index |-> window[p].index,
                    empty |-> window[p].empty,
                    state |-> IF p \in done THEN "done"
                              ELSE IF p \in issued THEN "issued" ELSE window[p].state]
  <2>1. A = [p \in 1 .. l |->
              [kind |-> window[p].kind, index |-> window[p].index,
               empty |-> window[p].empty,
               state |-> IF p \in done THEN "done"
                         ELSE IF p \in issued THEN "issued" ELSE window[p].state]]
    BY <1>1 DEF Advanced
  <2> HIDE DEF done, A
  <2> QED BY <1>1, <2>1
<1> HIDE DEF A
<1>12. \A p \in 1 .. l : /\ A[p].kind = window[p].kind /\ A[p].index = window[p].index
                         /\ A[p].empty = window[p].empty
                         /\ A[p].state = IF p \in done THEN "done"
                                         ELSE IF p \in issued THEN "issued"
                                         ELSE window[p].state
  BY <1>11
<1>13. A \in Seq(InFlight)
  <2>1. ASSUME NEW p \in 1 .. l PROVE A[p] \in InFlight
    <3>1. A[p].state \in State
      BY <1>1, <1>12 DEF InFlight, State
    <3> HIDE DEF done
    <3> QED BY <1>1, <1>11, <1>12, <3>1 DEF InFlight
  <2>2. A = [p \in 1 .. l |-> A[p]]
    BY <1>11 DEF Advanced, A
  <2> QED BY <1>1, <2>1, <2>2
<1>14. ASSUME NEW p \in 1 .. l + 1 PROVE Below(A, r, p) = B(p)
  <2> DEFINE j == p - 1
  <2>1. j \in Nat /\ j <= l
    BY <1>1
  <2> HIDE DEF j
  <2>2. SameKinds(A, window, 1, j, 0)
    BY <1>1, <1>12, <2>1 DEF SameKinds
  <2>3. 0 \in Nat /\ 1 \in Nat /\ 1 = 1 + 0 /\ j = j + 0
    BY <2>1
  <2>4. Count(A, 1, j) = Count(window, 1, j)
    BY <2>1, <2>2, <2>3, CountShift
  <2> QED BY <2>4 DEF Below, B, j
<1>15. /\ n \in 0 .. 2 /\ n <= l /\ \A p \in 1 .. n : window[p].state = "done"
       /\ n + 1 \in 1 .. l + 1
  BY <1>1 DEF Retirements, l
<1>16. B(n + 1) = r + rob_nRetireStores(n)
  <2>1. {p \in 1 .. n : window[p].kind = "store"} = StoresAt(window, 1, n)
    BY DEF StoresAt
  <2>2. (n + 1) - 1 = n
    BY <1>15
  <2> QED BY <2>1, <2>2 DEF B, Below, Count, rob_nRetireStores
<1>17. Known(ea, B(n + 1), h)
  <2> SUFFICES ASSUME NEW k \in 1 .. B(n + 1) PROVE ea[At(h, k)]
    BY DEF Known
  <2>1. k \in 1 .. T
    BY <1>1, <1>15
  <2>2. CASE k <= r
    <3>1. k \in 1 .. r
      BY <2>2
    <3>2. Known(ea_calcd, r, h)
      BY DEF QueueInv, h
    <3> QED BY <1>9, <2>1, <3>1, <3>2 DEF Known
  <2>3. CASE k > r
    <3>1. k \in r + 1 .. T
      BY <2>1, <2>3
    <3>2. PICK p \in 1 .. l : window[p].kind = "store" /\ B(p) = k - 1
      BY <1>2, <3>1
    <3>3. p <= n
      <4> SUFFICES ASSUME ~(p <= n) PROVE FALSE
        OBVIOUS
      <4>1. n + 1 <= p /\ p \in 1 .. l + 1
        BY <1>1, <1>15
      <4>2. B(n + 1) <= B(p) /\ B(n + 1) \in Nat
        BY <1>1, <1>2, <1>15, <4>1
      <4> QED BY <3>2, <4>2
    <3>4. window[p].state = "done"
      BY <1>15, <3>3
    <3>5. At(h, k) = window[p].index /\ ea_calcd[window[p].index]
      <4>1. B(p) + 1 = k
        BY <3>2
      <4> QED BY <1>1, <3>2, <3>4, <4>1
    <3> QED BY <1>9, <2>1, <3>5
  <2> QED BY <1>1, <2>2, <2>3
<1>18. ASSUME NEW p \in 1 .. l PROVE Agrees(A[p], B(p), h, ea)
  <2>1. Agrees(window[p], B(p), h, ea_calcd)
    BY <1>1 DEF QueueInv, Placed, B, h
  <2>2. /\ A[p].kind = window[p].kind /\ A[p].index = window[p].index
        /\ A[p].empty = window[p].empty
        /\ A[p].state = IF p \in done THEN "done"
                        ELSE IF p \in issued THEN "issued" ELSE window[p].state
    BY <1>12
  <2>3. Remembers(A[p], B(p), h)
    <3>1. /\ A[p].state # "done" => window[p].state # "done"
          /\ A[p].kind = "branch" /\ A[p].state = "waiting" => window[p].state = "waiting"
      BY <1>5, <2>2
    <3>2. Remembers(window[p], B(p), h)
      BY <2>1 DEF Agrees
    <3> HIDE DEF done
    <3> QED BY <2>2, <3>1, <3>2 DEF Remembers
  <2>4. ASSUME A[p].kind = "store" PROVE ea[A[p].index] <=> A[p].state = "done"
    <3>1. window[p].kind = "store"
      BY <2>2, <2>4
    <3>2. p \notin issued /\ p \notin R /\ p \notin Positions("load", "issued")
      BY <1>5, <3>1
    <3>3. A[p].state = "done" <=> p \in S \/ window[p].state = "done"
      BY <2>2, <3>2
    <3>4. ea_calcd[window[p].index] <=> window[p].state = "done"
      BY <1>1, <3>1
    <3> HIDE DEF done
    <3> QED BY <1>7, <1>8, <2>2, <3>1, <3>3, <3>4
  <2>5. ASSUME A[p].kind = "load", A[p].state = "issued" PROVE Known(ea, B(p), h)
    <3>1. p \in issued
      <4> SUFFICES ASSUME p \notin issued PROVE FALSE
        OBVIOUS
      <4>1. p \notin done /\ window[p].state = "issued" /\ window[p].kind = "load"
        BY <2>2, <2>5
      <4>2. p \in Positions("load", "issued")
        BY <1>1, <4>1 DEF Positions
      <4> QED BY <4>1, <4>2
    <3>2. p \in Positions("load", "waiting") /\ canLoadIssue(window[p])
      BY <1>5, <3>1
    <3>3. Known(ea_calcd, B(p), h)
      BY <3>2, IssuesBehindKnown DEF B, h
    <3>4. B(p) \in 0 .. T
      BY <1>1
    <3> QED BY <1>10, <3>3, <3>4
  <2> QED BY <2>3, <2>4, <2>5 DEF Agrees
<1>19. Placed(A, r, h, ea)
  <2>1. \A p \in DOMAIN A : p \in 1 .. l /\ p \in 1 .. l + 1
    BY <1>1, <1>11
  <2> QED BY <1>14, <1>18, <2>1 DEF Placed
<1>20. DOMAIN st \in SUBSET SQ_PTR
  BY <1>5, <1>6, <1>7
<1>21. \A i \in DOMAIN st : \E k \in 1 .. T : i = At(h, k)
  BY <1>1, <1>5, <1>6
<1> QED BY <1>1, <1>8, <1>11, <1>12, <1>13, <1>14, <1>15, <1>16, <1>17, <1>19, <1>20, <1>21
        DEF AdvancedWell, RetiredAfter, B, T, l, h, A, ea

(***************************************************************************)
(* The marks and the two heads.                                              *)
(***************************************************************************)
LEMMA MarkedAre ==
  ASSUME NEW h \in SQ_PTR, NEW q, NEW r \in 0 .. SQ_SIZE, Marked(q, r, h)
  PROVE  /\ {i \in SQ_PTR : q[i].retired} = {At(h, k) : k \in 1 .. r}
         /\ Cardinality({i \in SQ_PTR : q[i].retired}) = r
<1> DEFINE M == {At(h, k) : k \in 1 .. r}
           f == [k \in 1 .. r |-> At(h, k)]
<1>1. /\ SQ_SIZE \in Nat
      /\ \A k \in 1 .. SQ_SIZE + 1 : At(h, k) \in SQ_PTR
      /\ \A j, k \in 1 .. SQ_SIZE : At(h, j) = At(h, k) => j = k
      /\ \A i \in SQ_PTR : \E k \in 1 .. SQ_SIZE : At(h, k) = i
  BY QueueAssumption, RingFacts
<1>2. \A k \in 1 .. r : k \in 1 .. SQ_SIZE /\ k \in 1 .. SQ_SIZE + 1
  BY <1>1
<1>3. {i \in SQ_PTR : q[i].retired} = M
  <2>1. ASSUME NEW i \in SQ_PTR PROVE q[i].retired <=> i \in M
    <3>1. PICK k \in 1 .. SQ_SIZE : At(h, k) = i
      BY <1>1
    <3>2. q[i].retired <=> k <= r
      BY <3>1 DEF Marked
    <3>3. i \in M <=> k \in 1 .. r
      BY <1>1, <1>2, <3>1
    <3> QED BY <3>2, <3>3
  <2>2. M \in SUBSET SQ_PTR
    BY <1>1, <1>2
  <2> HIDE DEF M
  <2> QED BY <2>1, <2>2
<1>4. f \in Bijection(1 .. r, M)
  BY <1>1, <1>2 DEF Bijection, Injection, Surjection, IsInjective
<1>5. ExistsBijection(1 .. r, M)
  BY <1>4 DEF ExistsBijection
<1>6. IsFiniteSet(1 .. r) /\ Cardinality(1 .. r) = r
  <2>1. 1 \in Int /\ r \in Int
    OBVIOUS
  <2>2. IsFiniteSet(1 .. r) /\ Cardinality(1 .. r) = IF 1 > r THEN 0 ELSE r - 1 + 1
    BY <2>1, FS_Interval
  <2> QED BY <2>2
<1>7. Cardinality(M) = r
  <2> HIDE DEF M
  <2> QED BY <1>5, <1>6, FS_Bijection
<1> QED BY <1>3, <1>7

(* The stores that retire are marked, and what is allocated is not.          *)
LEMMA RetireMarks ==
  ASSUME TypeOK, NEW r \in Nat, QueueInv(r),
         NEW en, NEW o \in Nat, o <= SQ_SIZE,
         Allocated(en) = {At(sq_trueHead, k) : k \in Total(r) + 1 .. o},
         NEW n \in 0 .. 2, r + n <= Total(r),
         NEW I \in SUBSET SQ_PTR, NEW st \in [I -> ADDR]
  PROVE  /\ nextQueue(en, st, n) \in [SQ_PTR -> SQEntry]
         /\ Marked(nextQueue(en, st, n), r + n, sq_trueHead)
         /\ SQWrap(retireHead + n) = At(sq_trueHead, r + n + 1)
<1> DEFINE h == sq_trueHead
           N == SQ_SIZE
           T == Total(r)
           q == nextQueue(en, st, n)
<1>1. h \in SQ_PTR /\ N \in Nat /\ N >= 2 /\ r <= T /\ T \in 0 .. N
  BY StoreSlots
<1>2. /\ \A k \in 1 .. N + 1 : At(h, k) \in SQ_PTR
      /\ \A j, k \in 1 .. N : At(h, j) = At(h, k) => j = k
      /\ \A k \in 1 .. N + 1, j \in 0 .. N : k + j <= N + 1 => SQWrap(At(h, k) + j) = At(h, k + j)
  BY <1>1, RingFacts
<1>3. /\ retireHead = At(h, r + 1)
      /\ \A k \in 1 .. N : queue[At(h, k)].retired <=> k <= r
  BY DEF QueueInv, Marked
<1>4. \A i \in SQ_PTR : queue[i].addr \in ADDR /\ queue[i].retired \in BOOLEAN
  BY DEF TypeOK, SQEntry
<1>5. /\ q \in [SQ_PTR -> SQEntry]
      /\ \A i \in SQ_PTR : q[i].retired <=> \/ i \in Retiring(n)
                                            \/ queue[i].retired /\ i \notin Allocated(en)
  <2> DEFINE a(i) == IF i \in DOMAIN st THEN st[i]
                     ELSE IF i \in Allocated(en) THEN 0 ELSE queue[i].addr
             b(i) == i \in Retiring(n) \/ (queue[i].retired /\ i \notin Allocated(en))
  <2>1. q = [i \in SQ_PTR |-> [addr |-> a(i), retired |-> b(i)]]
    BY DEF nextQueue
  <2>2. \A i \in SQ_PTR : a(i) \in ADDR /\ b(i) \in BOOLEAN
    BY <1>4, QueueAssumption
  <2> HIDE DEF a, b, q
  <2>3. q \in [SQ_PTR -> SQEntry] /\ \A i \in SQ_PTR : q[i].retired = b(i)
    BY <2>1, <2>2 DEF SQEntry
  <2> QED BY <2>3 DEF b
<1> HIDE DEF h, N, T, q
<1>6. ASSUME NEW j \in 0 .. n PROVE SQWrap(retireHead + j) = At(h, r + 1 + j)
  <2>1. r + 1 \in 1 .. N + 1 /\ j \in 0 .. N /\ r + 1 + j <= N + 1
    BY <1>1 DEF T
  <2> QED BY <1>2, <1>3, <2>1
<1>7. \A k \in 1 .. N : At(h, k) \in Retiring(n) <=> k > r /\ k <= r + n
  <2> TAKE k \in 1 .. N
  <2>1. ASSUME At(h, k) \in Retiring(n) PROVE k > r /\ k <= r + n
    <3>1. PICK j \in 0 .. n - 1 : At(h, k) = SQWrap(retireHead + j)
      BY <2>1 DEF Retiring
    <3>2. At(h, k) = At(h, r + 1 + j) /\ r + 1 + j \in 1 .. N
      BY <1>1, <1>6, <3>1 DEF T
    <3> QED BY <1>2, <3>2
  <2>2. ASSUME k > r, k <= r + n PROVE At(h, k) \in Retiring(n)
    <3>1. k - r - 1 \in 0 .. n - 1 /\ k - r - 1 \in 0 .. n /\ r + 1 + (k - r - 1) = k
      BY <2>2
    <3>2. At(h, k) = SQWrap(retireHead + (k - r - 1))
      BY <1>6, <3>1
    <3> QED BY <3>1, <3>2 DEF Retiring
  <2> QED BY <2>1, <2>2
<1>8. ASSUME NEW k \in 1 .. N PROVE q[At(h, k)].retired <=> k <= r + n
  <2>1. At(h, k) \in SQ_PTR
    BY <1>1, <1>2
  <2>2. k <= r => At(h, k) \notin Allocated(en)
    <3> SUFFICES ASSUME k <= r, NEW j \in T + 1 .. o, At(h, k) = At(h, j) PROVE FALSE
      BY DEF h, T
    <3>1. j \in 1 .. N /\ j # k
      BY <1>1 DEF N
    <3> QED BY <1>2, <3>1
  <2> QED BY <1>1, <1>3, <1>5, <1>7, <2>1, <2>2
<1>9. SQWrap(retireHead + n) = At(h, r + n + 1)
  <2>1. n \in 0 .. n /\ r + 1 + n = r + n + 1
    OBVIOUS
  <2> QED BY <1>6, <2>1
<1> QED BY <1>5, <1>8, <1>9 DEF Marked, h, N, q

(* What both kinds of cycle leave behind in the ring, when fewer or more than *)
(* SQ_SIZE - 1 retired stores are left in it: there nextRetireHead stops one  *)
(* slot short (SQ.v:190).                                                     *)
MovedWell(r, pops) ==
  /\ queue' \in [SQ_PTR -> SQEntry] /\ sq_trueHead' \in SQ_PTR
  /\ Marked(queue', r - Bit(pops), sq_trueHead')
  /\ retireHead' = At(sq_trueHead', r - Bit(pops) + 1)
  /\ pops => r >= 1

LEMMA MoveFacts ==
  ASSUME NEW h \in SQ_PTR, h = sq_trueHead, NEW r \in 0 .. SQ_SIZE,
         NEW en, NEW st, NEW n \in 0 .. 2, NEW pops \in BOOLEAN,
         nextQueue(en, st, n) \in [SQ_PTR -> SQEntry],
         Marked(nextQueue(en, st, n), r, h),
         SQWrap(retireHead + n) = At(h, r + 1),
         pops => sq_mem_en(en, st, n),
         Move(en, st, n, pops),
         Cardinality(RetiredWaiting') # SQ_SIZE - 1
  PROVE  MovedWell(r, pops)
<1> DEFINE N == SQ_SIZE
           q == nextQueue(en, st, n)
           g == SQWrap(h + 1)
           a == At(h, r + 1)
<1>1. N \in Nat /\ N >= 2
  BY QueueAssumption
<1>2. /\ \A k \in 1 .. N + 1 : At(h, k) \in SQ_PTR
      /\ At(h, 1) = h /\ At(h, N + 1) = h
      /\ \A j, k \in 1 .. N : At(h, j) = At(h, k) => j = k
      /\ g \in SQ_PTR
      /\ \A k \in 1 .. N : At(g, k) = At(h, k + 1)
      /\ SQWrap(h + 0) = h
  <2>1. \A k \in 1 .. N + 1, j \in 0 .. N : k + j <= N + 1 => SQWrap(At(h, k) + j) = At(h, k + j)
    BY RingFacts
  <2>2. At(h, 1) = h /\ 1 \in 1 .. N + 1 /\ 0 \in 0 .. N /\ 1 + 0 <= N + 1 /\ 1 + 0 = 1
    BY <1>1, RingFacts
  <2>3. SQWrap(h + 0) = h
    BY <2>1, <2>2
  <2>4. g \in SQ_PTR /\ \A k \in 1 .. N : At(g, k) = At(h, k + 1)
    BY RingFacts
  <2>5. /\ \A k \in 1 .. N + 1 : At(h, k) \in SQ_PTR
        /\ At(h, N + 1) = h
        /\ \A j, k \in 1 .. N : At(h, j) = At(h, k) => j = k
    BY RingFacts
  <2> QED BY <2>2, <2>3, <2>4, <2>5
<1>3. \A k \in 1 .. N : SQWrap(At(h, k) + 1) = At(h, k + 1)
  <2>1. \A k \in 1 .. N + 1, j \in 0 .. N : k + j <= N + 1 => SQWrap(At(h, k) + j) = At(h, k + j)
    BY RingFacts
  <2>2. \A k \in 1 .. N : k \in 1 .. N + 1 /\ 1 \in 0 .. N /\ k + 1 <= N + 1
    BY <1>1
  <2> QED BY <2>1, <2>2
<1>4. /\ queue' = (IF pops THEN [q EXCEPT ![h].retired = FALSE] ELSE q)
      /\ sq_trueHead' = SQWrap(h + Bit(pops))
      /\ retireHead' = IF SQWrap(a + 1) = sq_trueHead' THEN sq_trueHead' ELSE a
  <2>1. /\ queue' = (IF pops THEN [q EXCEPT ![h].retired = FALSE] ELSE q)
        /\ sq_trueHead' = nextTrueHead(pops) /\ retireHead' = nextRetireHead(n, pops)
    BY DEF Move
  <2>2. nextTrueHead(pops) = SQWrap(h + Bit(pops))
    BY DEF nextTrueHead
  <2>3. SQWrap(retireHead + n) = a
    OBVIOUS
  <2> HIDE DEF a, q
  <2>4. retireHead' = IF SQWrap(a + 1) = sq_trueHead' THEN sq_trueHead' ELSE a
    BY <2>1, <2>3 DEF nextRetireHead
  <2> QED BY <2>1, <2>2, <2>4
<1> HIDE DEF q, g, N
<1>5. CASE pops
  <2>1. Bit(pops) = 1 /\ sq_trueHead' = g
    BY <1>4, <1>5 DEF Bit, g
  <2>2. r >= 1
    <3>1. q[h].retired
      BY <1>5 DEF sq_mem_en, q
    <3>2. 1 \in 1 .. N
      BY <1>1
    <3>3. 1 <= r
      BY <1>2, <3>1, <3>2 DEF Marked, q, N
    <3> QED BY <3>3
  <2>3. Marked(queue', r - 1, g)
    <3>1. r \in 1 .. N
      BY <2>2 DEF N
    <3> QED BY <1>4, <1>5, <3>1, PopMarks DEF g, q, N
  <2>4. queue' \in [SQ_PTR -> SQEntry]
    <3>1. q[h] \in SQEntry
      BY DEF q
    <3>2. [q[h] EXCEPT !.retired = FALSE] \in SQEntry
      BY <3>1 DEF SQEntry
    <3>3. q \in [SQ_PTR -> SQEntry]
      BY DEF q
    <3> QED BY <1>4, <1>5, <3>2, <3>3
  <2>5. r - 1 # N - 1
    <3>1. r - 1 \in 0 .. N
      BY <1>1, <2>2 DEF N
    <3>2. Cardinality({i \in SQ_PTR : queue'[i].retired}) = r - 1
      BY <1>2, <2>3, <3>1, MarkedAre DEF N
    <3> QED BY <3>2 DEF RetiredWaiting, N
  <2>6. At(g, r) = a
    <3>1. r \in 1 .. N
      BY <2>2 DEF N
    <3> QED BY <1>2, <3>1
  <2>7. SQWrap(a + 1) # g
    <3>1. At(g, 1) = g /\ \A j, k \in 1 .. N : At(g, j) = At(g, k) => j = k
      BY <1>2, RingFacts DEF N
    <3>2. r \in 1 .. N /\ r + 1 \in 1 .. N /\ r + 1 # 1 /\ 1 \in 1 .. N
      BY <1>1, <2>2, <2>5 DEF N
    <3>3. SQWrap(a + 1) = At(h, r + 1 + 1)
      BY <1>3, <3>2
    <3>4. At(h, r + 1 + 1) = At(g, r + 1)
      BY <1>2, <3>2
    <3> QED BY <3>1, <3>2, <3>3, <3>4
  <2>8. retireHead' = At(g, r - 1 + 1)
    <3>1. r - 1 + 1 = r
      BY <2>2
    <3> HIDE DEF a
    <3> QED BY <1>4, <2>1, <2>6, <2>7, <3>1
  <2> QED BY <1>2, <2>1, <2>2, <2>3, <2>4, <2>8 DEF MovedWell
<1>6. CASE ~pops
  <2>1. Bit(pops) = 0 /\ sq_trueHead' = h /\ queue' = q /\ r - 0 = r
    BY <1>2, <1>4, <1>6 DEF Bit
  <2>2. r # N - 1
    <3>1. Cardinality({i \in SQ_PTR : queue'[i].retired}) = r
      BY <2>1, MarkedAre DEF q
    <3> QED BY <3>1 DEF RetiredWaiting, N
  <2>3. SQWrap(a + 1) # h
    <3>1. CASE r = N
      <4>1. a = At(h, 1) /\ 1 \in 1 .. N /\ 2 \in 1 .. N /\ 1 + 1 = 2
        BY <1>1, <1>2, <3>1
      <4>2. SQWrap(a + 1) = At(h, 2)
        BY <1>3, <4>1
      <4> QED BY <1>2, <4>1, <4>2
    <3>2. CASE r # N
      <4>1. r + 1 \in 1 .. N /\ r + 2 \in 1 .. N /\ r + 1 + 1 = r + 2 /\ 1 \in 1 .. N /\ r + 2 # 1
        BY <1>1, <2>2, <3>2 DEF N
      <4>2. SQWrap(a + 1) = At(h, r + 2)
        BY <1>3, <4>1
      <4> QED BY <1>2, <4>1, <4>2
    <3> QED BY <3>1, <3>2
  <2>4. retireHead' = At(h, r + 1)
    BY <1>4, <2>1, <2>3
  <2>5. Marked(queue', r, h) /\ queue' \in [SQ_PTR -> SQEntry]
    BY <2>1 DEF q
  <2> QED BY <1>6, <2>1, <2>4, <2>5 DEF MovedWell
<1> QED BY <1>5, <1>6

(***************************************************************************)
(* The window after a cycle.                                                 *)
(***************************************************************************)
\* The head after a cycle that sends a store, or none.
HeadAfter(h, pops) == SQWrap(h + Bit(pops))

LEMMA HeadAfterIs ==
  ASSUME NEW h \in SQ_PTR
  PROVE  /\ HeadAfter(h, TRUE) = SQWrap(h + 1) /\ HeadAfter(h, FALSE) = h
         /\ \A pops \in BOOLEAN : HeadAfter(h, pops) \in SQ_PTR
<1>1. HeadAfter(h, TRUE) = SQWrap(h + 1) /\ SQWrap(h + 1) \in SQ_PTR
  BY RingFacts DEF HeadAfter, Bit
<1>2. HeadAfter(h, FALSE) = h
  <2>1. SQWrap(h + 0) = h
    BY QueueAssumption, WrapIs DEF SQ_PTR
  <2> QED BY <2>1 DEF HeadAfter, Bit
<1> QED BY <1>1, <1>2

LEMMA PopKnown ==
  ASSUME NEW h \in SQ_PTR, NEW r \in 0 .. SQ_SIZE, NEW pops \in BOOLEAN,
         pops => r >= 1, NEW ea, Known(ea, r, h)
  PROVE  Known(ea, r - Bit(pops), HeadAfter(h, pops))
<1>1. CASE pops
  <2>1. r \in 1 .. SQ_SIZE /\ r - Bit(pops) = r - 1
    BY <1>1 DEF Bit
  <2> QED BY <1>1, <2>1, PopKeeps, HeadAfterIs
<1>2. CASE ~pops
  <2>1. r - Bit(pops) = r
    BY <1>2 DEF Bit
  <2> QED BY <1>2, <2>1, HeadAfterIs
<1> QED BY <1>1, <1>2

(* A window counted from the next head on, when the oldest store is sent.    *)
LEMMA PopPlaced ==
  ASSUME NEW h \in SQ_PTR, NEW v \in Seq(InFlight), NEW r \in Nat, NEW ea,
         NEW pops \in BOOLEAN, pops => r >= 1,
         Below(v, r, Len(v) + 1) <= SQ_SIZE, Placed(v, r, h, ea)
  PROVE  /\ Placed(v, r - Bit(pops), HeadAfter(h, pops), ea)
         /\ Below(v, r - Bit(pops), Len(v) + 1) = Below(v, r, Len(v) + 1) - Bit(pops)
<1> DEFINE l == Len(v)
<1>1. l \in Nat /\ DOMAIN v = 1 .. l /\ SQ_SIZE \in Nat
  BY QueueAssumption
<1> HIDE DEF l
<1>2. \A p \in 1 .. l + 1 : Count(v, 1, p - 1) \in Nat
  <2> TAKE p \in 1 .. l + 1
  <2>1. 1 \in Nat /\ p - 1 \in Nat
    BY <1>1
  <2> QED BY <2>1, CountFacts
<1>3. \A p \in 1 .. l + 1 : Below(v, r - Bit(pops), p) = Below(v, r, p) - Bit(pops)
  BY <1>2 DEF Below, Bit
<1>4. l + 1 \in 1 .. l + 1 /\ \A p \in 1 .. l : p \in 1 .. l + 1
  BY <1>1
<1>5. CASE ~pops
  <2>1. r - Bit(pops) = r
    BY <1>5 DEF Bit
  <2>2. HeadAfter(h, pops) = h
    BY <1>5, HeadAfterIs
  <2> QED BY <1>3, <1>4, <2>1, <2>2 DEF l
<1>6. CASE pops
  <2> DEFINE g == HeadAfter(h, pops)
  <2>1. Bit(pops) = 1 /\ r >= 1 /\ g = SQWrap(h + 1)
    BY <1>6, HeadAfterIs DEF Bit
  <2> HIDE DEF g
  <2>2. ASSUME NEW p \in 1 .. l PROVE Agrees(v[p], Below(v, r, p) - 1, g, ea)
    <3> DEFINE m == Below(v, r, p)
    <3>1. Agrees(v[p], m, h, ea)
      BY <1>1 DEF Placed
    <3>2. /\ m \in Nat /\ r <= m /\ m <= SQ_SIZE
          /\ v[p].kind = "store" => m < SQ_SIZE
      <4>1. \A q \in 1 .. l + 1 : Below(v, r, q) \in Nat /\ r <= Below(v, r, q)
        BY <1>1, BelowFacts
      <4>2. \A i, j \in 1 .. l + 1 : i <= j => Below(v, r, i) <= Below(v, r, j)
        BY <1>1, BelowFacts
      <4>3. \A i, j \in 1 .. l + 1 :
              i < j /\ v[i].kind = "store" => Below(v, r, i) < Below(v, r, j)
        BY <1>1, BelowFacts
      <4>4. p < l + 1 /\ p <= l + 1 /\ Below(v, r, l + 1) <= SQ_SIZE
        BY <1>1 DEF l
      <4> QED BY <1>1, <1>4, <4>1, <4>2, <4>3, <4>4
    <3> HIDE DEF m
    <3>3. m \in 1 .. SQ_SIZE
      BY <1>1, <2>1, <3>2
    <3>4. Remembers(v[p], m - 1, g)
      BY <2>1, <3>1, <3>2, <3>3, PopKeeps DEF Agrees
    <3>5. Known(ea, m, h) => Known(ea, m - 1, g)
      BY <2>1, <3>3, PopKeeps
    <3> QED BY <3>1, <3>4, <3>5 DEF Agrees, m
  <2>3. Placed(v, r - 1, g, ea)
    <3>1. \A p \in 1 .. l : Below(v, r - 1, p) = Below(v, r, p) - 1
      BY <1>3, <1>4, <2>1
    <3> QED BY <1>1, <2>2, <3>1 DEF Placed
  <2> QED BY <1>3, <1>4, <2>1, <2>3 DEF l, g
<1> QED BY <1>5, <1>6

\* A window of l, behind r retired stores, with o stores in the queue.
LeftWell(v, l, r, h, ea, o) ==
  /\ v \in Seq(InFlight) /\ Len(v) = l
  /\ Placed(v, r, h, ea)
  /\ Below(v, r, Len(v) + 1) = o

(* What a cycle leaves of the window: without its first n and what follows   *)
(* place z.                                                                   *)
LEMMA LeftPlaced ==
  ASSUME NEW h \in SQ_PTR, NEW E \in Seq(InFlight), NEW n \in Nat, NEW z \in Nat,
         n <= z, z <= Len(E), NEW r \in Nat, NEW ea, NEW pops \in BOOLEAN,
         pops => Below(E, r, n + 1) >= 1,
         Below(E, r, z + 1) <= SQ_SIZE, Placed(E, r, h, ea)
  PROVE  LeftWell(SubSeq(E, n + 1, z), z - n, Below(E, r, n + 1) - Bit(pops),
                  HeadAfter(h, pops), ea, Below(E, r, z + 1) - Bit(pops))
<1> DEFINE v == SubSeq(E, n + 1, z)
           c == Below(E, r, n + 1)
<1>1. /\ v \in Seq(InFlight) /\ Len(v) = z - n
      /\ \A p \in 1 .. z - n : v[p] = E[p + n]
  BY BelowShift
<1>2. \A p \in 1 .. (z - n) + 1 : Below(v, c, p) = Below(E, r, p + n)
  BY BelowShift
<1>3. c \in Nat
  <2>1. Len(E) \in Nat /\ n + 1 \in 1 .. Len(E) + 1
    OBVIOUS
  <2>2. \A p \in 1 .. Len(E) + 1 : Below(E, r, p) \in Nat
    BY <2>1, BelowFacts
  <2> QED BY <2>1, <2>2
<1> HIDE DEF v, c
<1>4. Below(v, c, Len(v) + 1) = Below(E, r, z + 1)
  <2>1. (z - n) + 1 \in 1 .. (z - n) + 1 /\ (z - n) + 1 + n = z + 1
    OBVIOUS
  <2> QED BY <1>1, <1>2, <2>1
<1>5. Placed(v, c, h, ea)
  <2> SUFFICES ASSUME NEW p \in 1 .. z - n PROVE Agrees(v[p], Below(v, c, p), h, ea)
    BY <1>1 DEF Placed
  <2>1. p \in 1 .. (z - n) + 1 /\ p + n \in DOMAIN E
    OBVIOUS
  <2>2. Agrees(E[p + n], Below(E, r, p + n), h, ea)
    BY <2>1 DEF Placed
  <2> QED BY <1>1, <1>2, <2>1, <2>2
<1>6. /\ Placed(v, c - Bit(pops), HeadAfter(h, pops), ea)
      /\ Below(v, c - Bit(pops), Len(v) + 1) = Below(v, c, Len(v) + 1) - Bit(pops)
  <2>1. pops => c >= 1
    BY DEF c
  <2>2. Below(v, c, Len(v) + 1) <= SQ_SIZE
    BY <1>4
  <2> QED BY <1>1, <1>3, <1>5, <2>1, <2>2, PopPlaced
<1> QED BY <1>1, <1>4, <1>6 DEF v, c, LeftWell

(* What is dispatched comes after the others.                                *)
Joins(E, A, D, r, n) ==
  /\ Len(E) = Len(A) + Len(D)
  /\ \A p \in 1 .. Len(A) : E[p] = A[p]
  /\ \A p \in 1 .. Len(D) : E[p + Len(A)] = D[p]
  /\ \A p \in 1 .. Len(A) + 1 : Below(E, r, p) = Below(A, r, p)
  /\ \A p \in 1 .. Len(D) + 1 :
       Below(E, r, p + Len(A)) = Below(D, Below(A, r, Len(A) + 1), p)
  /\ SubSeq(E, n + 1, Len(E)) = SubSeq(A, n + 1, Len(A)) \o D

LEMMA Appended ==
  ASSUME NEW A \in Seq(InFlight), NEW D \in Seq(InFlight), NEW r \in Nat,
         NEW n \in Nat, n <= Len(A)
  PROVE  A \o D \in Seq(InFlight) /\ Joins(A \o D, A, D, r, n)
<1> DEFINE E == A \o D
           a == Len(A)
           d == Len(D)
           t == Below(A, r, a + 1)
<1>1. /\ E \in Seq(InFlight) /\ Len(E) = a + d /\ a \in Nat /\ d \in Nat
      /\ \A p \in 1 .. a : E[p] = A[p]
      /\ \A p \in 1 .. d : E[p + a] = D[p]
  OBVIOUS
<1> HIDE DEF E, a, d
<1>2. SubSeq(E, n + 1, Len(E)) = SubSeq(A, n + 1, a) \o D
  <2> DEFINE v == SubSeq(E, n + 1, Len(E))
             w == SubSeq(A, n + 1, a) \o D
             c == (a - n) + d
  <2>1. n \in 0 .. a /\ a = Len(A) /\ d = Len(D)
    BY <1>1 DEF a, d
  <2>2. v \in Seq(InFlight) /\ Len(v) = c /\ \A i \in 1 .. c : v[i] = E[n + i]
    BY <1>1, <2>1
  <2>3. /\ SubSeq(A, n + 1, a) \in Seq(InFlight) /\ Len(SubSeq(A, n + 1, a)) = a - n
        /\ \A i \in 1 .. a - n : SubSeq(A, n + 1, a)[i] = A[n + i]
    BY <1>1, <2>1
  <2>4. /\ w \in Seq(InFlight) /\ Len(w) = c
        /\ \A i \in 1 .. c : w[i] = IF i <= a - n THEN A[n + i] ELSE D[i - (a - n)]
    <3> DEFINE x == SubSeq(A, n + 1, a)
    <3> HIDE DEF x
    <3>1. x \in Seq(InFlight) /\ Len(x) = a - n /\ \A i \in 1 .. a - n : x[i] = A[n + i]
      BY <2>3 DEF x
    <3>2. /\ x \o D \in Seq(InFlight) /\ Len(x \o D) = c
          /\ \A i \in 1 .. c : (x \o D)[i] = IF i <= a - n THEN x[i] ELSE D[i - (a - n)]
      <4>1. /\ x \o D \in Seq(InFlight) /\ Len(x \o D) = Len(x) + Len(D)
            /\ \A i \in 1 .. Len(x) + Len(D) :
                 (x \o D)[i] = IF i <= Len(x) THEN x[i] ELSE D[i - Len(x)]
        <5>1. x \in Seq(InFlight) /\ D \in Seq(InFlight)
          BY <3>1
        <5>2. x \o D \in Seq(InFlight) /\ Len(x \o D) = Len(x) + Len(D)
          BY <5>1
        <5>3. \A i \in 1 .. Len(x) + Len(D) :
                 (x \o D)[i] = IF i <= Len(x) THEN x[i] ELSE D[i - Len(x)]
          BY <5>1
        <5> QED BY <5>2, <5>3
      <4> QED BY <2>1, <3>1, <4>1
    <3> QED BY <2>1, <3>1, <3>2 DEF x
  <2>5. ASSUME NEW i \in 1 .. c PROVE E[n + i] = IF i <= a - n THEN A[n + i] ELSE D[i - (a - n)]
    <3>1. CASE i <= a - n
      <4>1. n + i \in 1 .. a
        BY <1>1, <2>1, <3>1
      <4> QED BY <1>1, <3>1, <4>1
    <3>2. CASE ~(i <= a - n)
      <4>1. i - (a - n) \in 1 .. d /\ (i - (a - n)) + a = n + i
        BY <1>1, <2>1, <3>2
      <4> QED BY <1>1, <3>2, <4>1
    <3> QED BY <3>1, <3>2
  <2> HIDE DEF v, w
  <2>6. c \in Nat /\ DOMAIN v = 1 .. c /\ DOMAIN w = 1 .. c /\ \A i \in 1 .. c : v[i] = w[i]
    <3>1. c \in Nat
      BY <1>1, <2>1
    <3>2. DOMAIN v = 1 .. c /\ DOMAIN w = 1 .. c
      BY <2>2, <2>4
    <3>3. \A i \in 1 .. c : v[i] = w[i]
      BY <2>2, <2>4, <2>5
    <3> QED BY <3>1, <3>2, <3>3
  <2>7. v = [i \in 1 .. c |-> v[i]] /\ w = [i \in 1 .. c |-> w[i]]
    BY <2>2, <2>4, <2>6
  <2> HIDE DEF c
  <2>8. v = w
    BY <2>6, <2>7
  <2> QED BY <2>8 DEF v, w
<1>3. ASSUME NEW p \in 1 .. a + 1 PROVE Below(E, r, p) = Below(A, r, p)
  <2> DEFINE j == p - 1
  <2>1. j \in Nat /\ j <= a
    BY <1>1
  <2> HIDE DEF j
  <2>2. SameKinds(E, A, 1, j, 0)
    <3>1. \A q \in 1 .. j : q \in 1 .. a /\ q + 0 = q
      BY <1>1, <2>1
    <3>2. \A q \in 1 .. j : E[q] = A[q + 0]
      BY <1>1, <3>1
    <3> QED BY <3>2 DEF SameKinds
  <2>3. 0 \in Nat /\ 1 \in Nat /\ 1 = 1 + 0 /\ j = j + 0
    BY <2>1
  <2>4. Count(E, 1, j) = Count(A, 1, j)
    BY <2>1, <2>2, <2>3, CountShift
  <2> QED BY <2>4 DEF Below, j
<1>4. ASSUME NEW p \in 1 .. d + 1 PROVE Below(E, r, p + a) = Below(D, t, p)
  <2> DEFINE j == p - 1
             k == (p + a) - 1
             b == a + 1
  <2>1. /\ j \in Nat /\ j <= d /\ k \in Nat /\ a <= k /\ k = j + a /\ b = 1 + a
        /\ b \in Nat /\ 1 \in Nat /\ 1 <= a + 1
    BY <1>1
  <2> HIDE DEF j, k, b
  <2>2. SameKinds(D, E, 1, j, a)
    <3>0. d \in Nat /\ j \in Nat /\ j <= d
      BY <1>1, <2>1
    <3>1. \A q \in 1 .. j : q \in 1 .. d
      BY <3>0
    <3>2. \A q \in 1 .. j : E[q + a] = D[q]
      BY <1>1, <3>1
    <3> QED BY <3>2 DEF SameKinds
  <2>3. Count(D, 1, j) = Count(E, b, k)
    <3>1. /\ a \in Nat /\ 1 \in Nat /\ b \in Nat /\ j \in Nat /\ k \in Nat
          /\ b = 1 + a /\ k = j + a
      BY <1>1, <2>1
    <3> QED BY <2>2, <3>1, CountShift
  <2>4. Count(E, 1, k) = Count(E, 1, a) + Count(E, b, k)
    <3>1. a \in Nat /\ k \in Nat /\ 1 \in Nat /\ 1 <= a + 1 /\ a <= k
      BY <1>1, <2>1
    <3>2. Count(E, 1, k) = Count(E, 1, a) + Count(E, a + 1, k)
      BY <3>1, CountSplit
    <3> QED BY <3>2 DEF b
  <2>5. Count(E, 1, a) \in Nat /\ Count(E, b, k) \in Nat
    BY <1>1, <2>1, CountFacts
  <2>6. Below(E, r, a + 1) = t
    <3>1. a + 1 \in 1 .. a + 1
      BY <1>1
    <3> QED BY <1>3, <3>1
  <2>7. Below(E, r, a + 1) = r + Count(E, 1, a)
    <3>1. (a + 1) - 1 = a
      BY <1>1
    <3> QED BY <3>1 DEF Below
  <2>8. Below(E, r, p + a) = r + Count(E, 1, k)
    BY DEF Below, k
  <2>9. Below(D, t, p) = t + Count(D, 1, j)
    BY DEF Below, j
  <2> HIDE DEF t
  <2> QED BY <2>3, <2>4, <2>5, <2>6, <2>7, <2>8, <2>9
<1> QED BY <1>1, <1>2, <1>3, <1>4 DEF E, a, d, t, Joins

(***************************************************************************)
(* A cycle.                                                                  *)
(***************************************************************************)
\* After the cycle m of the stores are left, r of them retired.
LeftWith(r, m) ==
  /\ r \in Nat
  /\ QueueInv(r)' /\ Total(r)' = m
  /\ TypeOK'

(* The three parts of a cycle: the ring moves, the pointers meet the stores  *)
(* that are left, and so does the window.                                     *)
LEMMA CycleKeeps ==
  ASSUME sq_trueHead \in SQ_PTR,
         NEW r \in 0 .. SQ_SIZE, NEW pops \in BOOLEAN, NEW o \in 0 .. SQ_SIZE,
         MovedWell(r, pops), sq_trueHead' = HeadAfter(sq_trueHead, pops),
         ea_calcd' \in [SQ_PTR -> BOOLEAN], Known(ea_calcd', r, sq_trueHead),
         window' \in Seq(InFlight), Len(window') <= WINDOW,
         Placed(window', r - Bit(pops), sq_trueHead', ea_calcd'),
         Below(window', r - Bit(pops), Len(window') + 1) = o - Bit(pops),
         Ends(sq_trueHead', sq_tail', sq_empty', o - Bit(pops)),
         sq_tail' \in SQ_PTR, sq_empty' \in BOOLEAN
  PROVE  LeftWith(r - Bit(pops), o - Bit(pops))
<1> DEFINE b == r - Bit(pops)
           g == sq_trueHead'
<1>1. /\ SQ_SIZE \in Nat /\ b \in 0 .. SQ_SIZE /\ o - Bit(pops) <= SQ_SIZE
      /\ g \in SQ_PTR
  BY QueueAssumption DEF MovedWell, Bit
<1>2. Known(ea_calcd', b, g)
  BY PopKnown DEF MovedWell
<1>3. retireHead' = At(g, b + 1) /\ retireHead' \in SQ_PTR
  <2>1. b + 1 \in 1 .. SQ_SIZE + 1
    BY <1>1
  <2>2. retireHead' = At(g, b + 1)
    BY DEF MovedWell
  <2> HIDE DEF b, g
  <2> QED BY <1>1, <2>1, <2>2, RingFacts
<1>4. Total(b)' = o - Bit(pops)
  BY DEF Total
<1>5. TypeOK'
  BY <1>1, <1>3 DEF TypeOK, MovedWell
<1>6. QueueInv(b)'
  BY <1>1, <1>2, <1>3, <1>4 DEF QueueInv, MovedWell
<1> QED BY <1>1, <1>4, <1>5, <1>6 DEF LeftWith

LEMMA RetireAtMostTwo ==
  ASSUME NEW n \in 0 .. 2
  PROVE  rob_nRetireStores(n) \in 0 .. 2
<1>1. IsFiniteSet(1 .. n) /\ Cardinality(1 .. n) = n
  <2>1. 1 \in Int /\ n \in Int
    OBVIOUS
  <2>2. IsFiniteSet(1 .. n) /\ Cardinality(1 .. n) = IF 1 > n THEN 0 ELSE n - 1 + 1
    BY <2>1, FS_Interval
  <2> QED BY <2>2
<1> DEFINE M == {p \in 1 .. n : window[p].kind = "store"}
<1>2. M \in SUBSET (1 .. n)
  OBVIOUS
<1> HIDE DEF M
<1>3. IsFiniteSet(M) /\ Cardinality(M) <= n
  BY <1>1, <1>2, FS_Subset
<1>4. Cardinality(M) \in Nat
  BY <1>3, FS_CardinalityType
<1> QED BY <1>3, <1>4 DEF rob_nRetireStores, M

(* A cycle that dispatches.                                                  *)
LEMMA DispatchStep ==
  ASSUME TypeOK, NEW r \in Nat, QueueInv(r),
         NEW n \in Retirements, NEW isns \in Offers, NEW S \in Executions,
         NEW pops \in BOOLEAN, NEW issued \in Issues(Positions("load", "waiting")),
         NEW resolved \in Resolved, NEW st \in Addresses(S),
         Len(window) - n + Len(isns) <= WINDOW,
         Cycle(isns, n, S, st, issued, resolved, pops),
         Cardinality(RetiredWaiting') # SQ_SIZE - 1
  PROVE  LET D == Dispatched(isns)
         IN  LeftWith(RetiredAfter(r, n) - Bit(pops),
                      Below(D, Total(r), Len(D) + 1) - Bit(pops))
<1> DEFINE h  == sq_trueHead
           N  == SQ_SIZE
           T  == Total(r)
           l  == Len(window)
           en == ib_store_en(isns)
           D  == Dispatched(isns)
           o  == Below(D, T, Len(D) + 1)
           A  == Advanced(S \cup Positions("load", "issued") \cup resolved, issued)
           ea == next_ea_calcd(en, st)
           ns == rob_nRetireStores(n)
           s  == RetiredAfter(r, n)
           E  == A \o D
<1>1. /\ h \in SQ_PTR /\ N \in Nat /\ N >= 2 /\ l \in Nat
      /\ r <= T /\ T \in 0 .. N
      /\ \A p \in 1 .. l + 1 : Below(window, r, p) \in r .. T
  BY StoreSlots
<1>2. /\ D \in Seq(InFlight) /\ Len(D) = Len(isns)
      /\ o \in T .. N
      /\ Allocated(en) = {At(h, k) : k \in T + 1 .. o}
      /\ tailsum(en) = IF o = 0 THEN h ELSE At(h, o)
      /\ (sq_empty /\ ~en[1] /\ ~en[2]) <=> o = 0
      /\ \A k \in DOMAIN D : D[k].state = "waiting" /\ Remembers(D[k], Below(D, T, k), h)
  <2>1. sq_tail \in SQ_PTR /\ sq_empty \in BOOLEAN
    BY DEF TypeOK
  <2>2. Ends(h, sq_tail, sq_empty, T)
    BY DEF QueueInv
  <2>3. DispatchedWell(isns, T)
    BY <1>1, <2>1, <2>2, DispatchFacts
  <2> QED BY <2>3 DEF DispatchedWell
<1> HIDE DEF o, D
<1>3. AdvancedWell(r, n, A, st, ea)
  <2>1. resolved \in SUBSET Positions("branch", "waiting")
    BY DEF Resolved
  <2>2. o \in Nat /\ o <= N /\ Positions("load", "waiting") \in SUBSET Positions("load", "waiting")
    BY <1>1, <1>2
  <2> QED BY <1>2, <2>1, <2>2, AdvanceFacts
<1> HIDE DEF A
<1>4. /\ A \in Seq(InFlight) /\ Len(A) = l
      /\ \A p \in 1 .. l + 1 : Below(A, r, p) = Below(window, r, p)
      /\ n \in 0 .. 2 /\ n <= l /\ s = r + ns
      /\ ea \in [SQ_PTR -> BOOLEAN] /\ DOMAIN st \in SUBSET SQ_PTR
      /\ \A i \in DOMAIN st : \E k \in 1 .. T : i = At(h, k)
      /\ Known(ea, s, h) /\ Placed(A, r, h, ea)
  BY <1>3 DEF AdvancedWell
<1>5. ns \in 0 .. 2 /\ s \in r .. T
  <2>1. n + 1 \in 1 .. l + 1
    BY <1>1, <1>4
  <2> QED BY <1>1, <1>4, <2>1, RetireAtMostTwo DEF RetiredAfter
<1>6. /\ pops => sq_mem_en(en, st, ns)
      /\ Move(en, st, ns, pops)
      /\ sq_tail' = IF Empties(en, pops) THEN nextTrueHead(pops) ELSE tailsum(en)
      /\ sq_empty' <=> (Empties(en, pops) \/ (sq_empty /\ ~en[1] /\ ~en[2]))
      /\ sq_empty' \in BOOLEAN
      /\ window' = SubSeq(A, n + 1, l) \o D
  <2>1. SubSeq(A, n + 1, Len(window)) \o D = window'
    BY DEF Cycle, A, D
  <2> QED BY <2>1 DEF Cycle, SQCycle
<1>7. MovedWell(s, pops)
  <2>1. st \in [DOMAIN st -> ADDR]
    BY DEF Addresses
  <2>2. o \in Nat /\ o <= N /\ r + ns <= T
    BY <1>1, <1>2, <1>4, <1>5
  <2>3. /\ nextQueue(en, st, ns) \in [SQ_PTR -> SQEntry]
        /\ Marked(nextQueue(en, st, ns), r + ns, h)
        /\ SQWrap(retireHead + ns) = At(h, r + ns + 1)
    <3> HIDE DEF en, ns
    <3> QED BY <1>2, <1>4, <1>5, <2>1, <2>2, RetireMarks
  <2>4. s \in 0 .. N
    BY <1>1, <1>5
  <2> HIDE DEF en, ns, s
  <2> QED BY <1>1, <1>4, <1>5, <1>6, <2>3, <2>4, MoveFacts
<1>8. sq_trueHead' = HeadAfter(h, pops) /\ ea_calcd' = ea
  BY <1>6 DEF Move, HeadAfter, nextTrueHead
<1>9. Placed(E, r, h, ea) /\ Below(E, r, Len(E) + 1) = o
      /\ E \in Seq(InFlight) /\ Len(E) = l + Len(D)
      /\ window' = SubSeq(E, n + 1, Len(E)) /\ Below(E, r, n + 1) = s
  <2> DEFINE d == Len(D)
  <2>1. d \in Nat /\ DOMAIN D = 1 .. d /\ DOMAIN A = 1 .. l
    BY <1>1, <1>2, <1>4
  <2>2. /\ E \in Seq(InFlight) /\ Len(E) = l + d
        /\ \A p \in 1 .. l : E[p] = A[p]
        /\ \A p \in 1 .. d : E[p + l] = D[p]
        /\ \A p \in 1 .. l + 1 : Below(E, r, p) = Below(A, r, p)
        /\ \A p \in 1 .. d + 1 : Below(E, r, p + l) = Below(D, Below(A, r, l + 1), p)
        /\ SubSeq(E, n + 1, Len(E)) = SubSeq(A, n + 1, l) \o D
    <3>1. n \in Nat /\ n <= Len(A)
      BY <1>4
    <3>2. E \in Seq(InFlight) /\ Joins(E, A, D, r, n)
      BY <1>2, <1>4, <3>1, Appended
    <3>6. Len(A) = l
      BY <1>4
    <3> HIDE DEF E, l
    <3> QED BY <3>2, <3>6 DEF Joins, d
  <2>3. Below(A, r, l + 1) = T
    <3>1. l + 1 \in 1 .. l + 1
      BY <1>1
    <3> QED BY <1>4, <3>1 DEF Total
  <2> HIDE DEF E, d, T, ea, en, l
  <2>4. ASSUME NEW p \in 1 .. l PROVE Agrees(E[p], Below(E, r, p), h, ea)
    <3>1. p \in 1 .. l + 1
      BY <1>1
    <3> QED BY <1>4, <2>1, <2>2, <3>1 DEF Placed
  <2>5. ASSUME NEW k \in 1 .. d PROVE Agrees(D[k], Below(D, T, k), h, ea)
    <3>1. D[k].state = "waiting" /\ Remembers(D[k], Below(D, T, k), h)
      BY <1>2, <2>1
    <3>2. ASSUME D[k].kind = "store" PROVE ~ea[D[k].index]
      <4> DEFINE m == Below(D, T, k) + 1
      <4>1. D[k].index = At(h, m)
        BY <3>1, <3>2 DEF Remembers
      <4>2. /\ \A p \in 1 .. d + 1 : Below(D, T, p) \in Nat /\ T <= Below(D, T, p)
            /\ \A p, q \in 1 .. d + 1 :
                 p < q /\ D[p].kind = "store" => Below(D, T, p) < Below(D, T, q)
        <5>1. T \in Nat
          BY <1>1
        <5>2. BelowWell(D, d, T)
          BY <2>1, <5>1, BelowIsWell
        <5> QED BY <5>2 DEF BelowWell
      <4>3. k \in 1 .. d + 1 /\ d + 1 \in 1 .. d + 1 /\ k < d + 1
        BY <2>1
      <4>4. Below(D, T, d + 1) = o
        BY DEF o, d
      <4>5. m \in T + 1 .. o
        <5>1. /\ Below(D, T, k) \in Nat /\ T <= Below(D, T, k)
              /\ Below(D, T, k) < Below(D, T, d + 1)
          BY <3>2, <4>2, <4>3
        <5>2. T \in Nat /\ o \in Nat
          BY <1>1, <1>2
        <5> HIDE DEF T
        <5> QED BY <4>4, <5>1, <5>2
      <4> HIDE DEF m
      <4>6. At(h, m) \in Allocated(en)
        BY <1>2, <4>5
      <4>7. \A j, i \in 1 .. N : At(h, j) = At(h, i) => j = i
        BY <1>1, RingFacts
      <4>8. At(h, m) \notin DOMAIN st
        <5> SUFFICES ASSUME NEW i \in 1 .. T, At(h, m) = At(h, i) PROVE FALSE
          BY <1>4
        <5>1. i \in 1 .. N /\ m \in 1 .. N /\ m # i
          BY <1>1, <1>2, <4>5
        <5> QED BY <4>7, <5>1
      <4>9. At(h, m) \in SQ_PTR
        <5>1. m \in 1 .. N + 1
          BY <1>1, <1>2, <4>5
        <5> QED BY <1>1, <5>1, RingFacts
      <4> QED BY <4>1, <4>6, <4>8, <4>9 DEF ea, next_ea_calcd
    <3> QED BY <3>1, <3>2 DEF Agrees
  <2>6. ASSUME NEW p \in 1 .. l + d PROVE Agrees(E[p], Below(E, r, p), h, ea)
    <3>1. CASE p <= l
      <4>1. p \in 1 .. l
        BY <1>1, <3>1
      <4> QED BY <2>4, <4>1
    <3>2. CASE ~(p <= l)
      <4>1. p - l \in 1 .. d /\ (p - l) + l = p /\ p - l \in 1 .. d + 1
        BY <1>1, <2>1, <3>2
      <4>2. E[p] = D[p - l] /\ Below(E, r, p) = Below(D, T, p - l)
        BY <2>2, <2>3, <4>1
      <4> QED BY <2>5, <4>1, <4>2
    <3> QED BY <3>1, <3>2
  <2>7. Placed(E, r, h, ea)
    BY <2>2, <2>6 DEF Placed
  <2>8. Below(E, r, Len(E) + 1) = o
    <3>1. d + 1 \in 1 .. d + 1 /\ (d + 1) + l = (l + d) + 1
      BY <1>1, <2>1
    <3> QED BY <2>2, <2>3, <3>1 DEF o, d
  <2>9. Below(E, r, n + 1) = s
    <3>1. n + 1 \in 1 .. l + 1
      BY <1>1, <1>4
    <3> QED BY <1>4, <2>2, <3>1 DEF RetiredAfter
  <2> QED BY <1>6, <2>2, <2>7, <2>8, <2>9 DEF d
<1> HIDE DEF E, ea, s, en, ns, T, l
<1>10. /\ window' \in Seq(InFlight) /\ Len(window') = (l + Len(D)) - n
       /\ Placed(window', s - Bit(pops), HeadAfter(h, pops), ea)
       /\ Below(window', s - Bit(pops), Len(window') + 1) = o - Bit(pops)
  <2>1. n \in Nat /\ Len(E) \in Nat /\ n <= Len(E) /\ Len(E) <= Len(E)
    BY <1>1, <1>2, <1>4, <1>9
  <2>2. pops => Below(E, r, n + 1) >= 1
    BY <1>7, <1>9 DEF MovedWell
  <2>3. Below(E, r, Len(E) + 1) <= SQ_SIZE
    BY <1>2, <1>9
  <2>4. LeftWell(SubSeq(E, n + 1, Len(E)), Len(E) - n, Below(E, r, n + 1) - Bit(pops),
                 HeadAfter(h, pops), ea, Below(E, r, Len(E) + 1) - Bit(pops))
    BY <1>1, <1>9, <2>1, <2>2, <2>3, LeftPlaced
  <2> QED BY <1>9, <2>4 DEF LeftWell
<1>11. Ends(HeadAfter(h, pops), sq_tail', sq_empty', o - Bit(pops))
       /\ sq_tail' \in SQ_PTR /\ sq_empty' \in BOOLEAN
  <2>1. /\ nextTrueHead(pops) = HeadAfter(h, pops)
        /\ Empties(en, pops) <=> pops /\ h = tailsum(en)
    BY DEF nextTrueHead, HeadAfter, Empties
  <2>2. /\ At(h, 1) = h /\ \A j, k \in 1 .. N : At(h, j) = At(h, k) => j = k
        /\ \A k \in 1 .. N + 1 : At(h, k) \in SQ_PTR
    BY <1>1, RingFacts
  <2>3. \A k \in 1 .. N : k \in 1 .. N + 1
    BY <1>1
  <2>4. sq_tail' \in SQ_PTR /\ sq_empty' \in BOOLEAN
    <3>1. tailsum(en) \in SQ_PTR
      <4>1. CASE o = 0
        BY <1>1, <1>2, <4>1
      <4>2. CASE o # 0
        <5>1. o \in 1 .. N
          BY <1>1, <1>2, <4>2
        <5> QED BY <1>2, <2>2, <2>3, <4>2, <5>1
      <4> QED BY <4>1, <4>2
    <3>2. HeadAfter(h, pops) \in SQ_PTR
      BY <1>1, HeadAfterIs
    <3> QED BY <1>6, <2>1, <3>1, <3>2
  <2>5. ASSUME pops PROVE Ends(HeadAfter(h, pops), sq_tail', sq_empty', o - Bit(pops))
    <3>1. o \in 1 .. N /\ Bit(pops) = 1 /\ tailsum(en) = At(h, o) /\ 1 \in 1 .. N
      BY <1>1, <1>2, <1>5, <1>7, <2>5 DEF MovedWell, Bit
    <3>2. Empties(en, pops) <=> o = 1
      BY <2>1, <2>2, <2>5, <3>1
    <3>3. CASE o = 1
      BY <1>6, <2>1, <3>1, <3>2, <3>3 DEF Ends
    <3>4. CASE o # 1
      <4>1. /\ sq_tail' = At(h, o) /\ ~sq_empty'
            /\ o - 1 # 0 /\ o > 1
        BY <1>2, <1>6, <3>1, <3>2, <3>4
      <4>2. At(SQWrap(h + 1), o - 1) = At(h, o)
        BY <1>1, <3>1, <4>1, PopKeeps
      <4>3. HeadAfter(h, pops) = SQWrap(h + 1)
        BY <1>1, <2>5, HeadAfterIs
      <4> QED BY <3>1, <4>1, <4>2, <4>3 DEF Ends
    <3> QED BY <3>3, <3>4
  <2>6. ASSUME ~pops PROVE Ends(HeadAfter(h, pops), sq_tail', sq_empty', o - Bit(pops))
    <3>1. Bit(pops) = 0 /\ o - 0 = o /\ HeadAfter(h, pops) = h /\ ~Empties(en, pops)
      <4>1. pops = FALSE /\ ~Empties(en, pops)
        BY <2>1, <2>6
      <4>2. HeadAfter(h, pops) = h
        BY <1>1, <4>1, HeadAfterIs
      <4>3. Bit(pops) = 0 /\ o - 0 = o
        BY <1>1, <1>2, <2>6 DEF Bit
      <4> QED BY <4>1, <4>2, <4>3
    <3>2. Ends(h, sq_tail', sq_empty', o)
      BY <1>2, <1>6, <3>1 DEF Ends
    <3> QED BY <3>1, <3>2
  <2> QED BY <2>4, <2>5, <2>6
<1>12. Len(window') <= WINDOW
  <2>1. Len(D) = Len(isns) /\ Len(D) \in Nat
    BY <1>2
  <2>2. l - n + Len(isns) <= WINDOW
    BY DEF l
  <2> QED BY <1>1, <1>4, <1>10, <2>1, <2>2, WindowAssumption
<1>13. s \in 0 .. SQ_SIZE /\ o \in 0 .. SQ_SIZE
  BY <1>1, <1>2, <1>5
<1>14. /\ ea_calcd' \in [SQ_PTR -> BOOLEAN] /\ Known(ea_calcd', s, h)
       /\ Placed(window', s - Bit(pops), sq_trueHead', ea_calcd')
       /\ Ends(sq_trueHead', sq_tail', sq_empty', o - Bit(pops))
  BY <1>4, <1>8, <1>10, <1>11
<1>15. LeftWith(s - Bit(pops), o - Bit(pops))
  BY <1>1, <1>7, <1>8, <1>10, <1>11, <1>12, <1>13, <1>14, CycleKeeps
<1> QED BY <1>15 DEF s, o, D, T

(* What the pointers say is what the window's stores and the retired ones    *)
(* are; those older than a place are what is left without the others.         *)
LEMMA OlderIs ==
  ASSUME TypeOK, NEW r \in Nat, QueueInv(r)
  PROVE  /\ Occupancy = Total(r)
         /\ \A p \in DOMAIN window : OlderCount(p) = Below(window, r, p)
<1> DEFINE h == sq_trueHead
           T == Total(r)
           l == Len(window)
<1>1. /\ h \in SQ_PTR /\ T \in 0 .. SQ_SIZE /\ SQ_SIZE \in Nat
      /\ l \in Nat /\ DOMAIN window = 1 .. l
  BY StoreSlots
<1>2. Ends(h, sq_tail, sq_empty, T)
  BY DEF QueueInv
<1> HIDE DEF l
<1>3. Occupancy = T
  <2>1. CASE T = 0
    BY <1>2, <2>1 DEF Ends, Occupancy
  <2>2. CASE T # 0
    <3>1. T \in 1 .. SQ_SIZE
      BY <1>1, <2>2
    <3>2. ~sq_empty /\ sq_tail = At(h, T)
      BY <1>2, <2>2 DEF Ends
    <3>3. SQDist(sq_tail) = T - 1
      BY <1>1, <3>1, <3>2, RingFacts DEF SQDist
    <3> HIDE DEF T
    <3> QED BY <3>1, <3>2, <3>3 DEF Occupancy
  <2> QED BY <2>1, <2>2
<1>4. ASSUME NEW p \in 1 .. l PROVE OlderCount(p) = Below(window, r, p)
  <2> DEFINE j == p - 1
  <2>1. j \in Nat /\ j + 1 = p /\ 1 <= j + 1 /\ j <= l /\ 1 \in Nat /\ p \in Nat
    BY <1>1
  <2> HIDE DEF j
  <2>2. Count(window, 1, l) = Count(window, 1, j) + Count(window, j + 1, l)
    BY <1>1, <2>1, CountSplit
  <2>3. Count(window, 1, j) \in Nat /\ Count(window, p, l) \in Nat
    BY <1>1, <2>1, CountFacts
  <2>4. T = r + Count(window, 1, l)
    <3>1. (l + 1) - 1 = l
      BY <1>1
    <3> QED BY <3>1 DEF Total, Below, l
  <2>5. OlderCount(p) = T - Count(window, p, l)
    BY <1>3 DEF OlderCount, Count, StoresAt, l
  <2>6. Below(window, r, p) = r + Count(window, 1, j)
    BY DEF Below, j
  <2>7. Count(window, 1, l) = Count(window, 1, j) + Count(window, p, l)
    BY <2>1, <2>2
  <2> HIDE DEF T
  <2>8. T - Count(window, p, l) = r + Count(window, 1, j)
    BY <2>3, <2>4, <2>7
  <2> QED BY <2>5, <2>6, <2>8
<1> QED BY <1>1, <1>3, <1>4

(* A cycle in which the branch at place b was mispredicted: its checkpoint   *)
(* takes the tail back to the stores older than it.                           *)
LEMMA RecoverStep ==
  ASSUME TypeOK, NEW r \in Nat, QueueInv(r),
         NEW b \in Positions("branch", "waiting"), ~AllOlder(b),
         NEW n \in Retirements, NEW S \in Executions, NEW pops \in BOOLEAN,
         NEW st \in Addresses(S),
         NEW issued \in Issues({p \in Positions("load", "waiting") : p < b}),
         Recover(b, n, S, st, issued, pops),
         Cardinality(RetiredWaiting') # SQ_SIZE - 1
  PROVE  LeftWith(RetiredAfter(r, n) - Bit(pops), Below(window, r, b) - Bit(pops))
<1> DEFINE h  == sq_trueHead
           N  == SQ_SIZE
           T  == Total(r)
           l  == Len(window)
           en == <<FALSE, FALSE>>
           A  == Advanced(S \cup Positions("load", "issued") \cup {b}, issued)
           ea == next_ea_calcd(en, st)
           ns == rob_nRetireStores(n)
           s  == RetiredAfter(r, n)
           o  == Below(window, r, b)
           t  == window[b].index
           e  == window[b].empty
<1>1. /\ h \in SQ_PTR /\ N \in Nat /\ N >= 2 /\ l \in Nat /\ DOMAIN window = 1 .. l
      /\ r <= T /\ T \in 0 .. N
      /\ \A p \in 1 .. l : window[p] \in InFlight
      /\ \A p \in 1 .. l + 1 : Below(window, r, p) \in r .. T
  BY StoreSlots
<1> HIDE DEF l
<1>2. /\ b \in 1 .. l /\ window[b].kind = "branch" /\ window[b].state = "waiting"
      /\ t \in SQ_PTR /\ e \in BOOLEAN
  BY <1>1 DEF Positions, InFlight
<1>3. Allocated(en) = {At(h, k) : k \in T + 1 .. T}
  <2>1. Allocated(en) = {}
    <3>1. ~en[1] /\ ~en[2]
      OBVIOUS
    <3>2. {j \in 1 .. 2 : en[j]} = {}
      <4> HIDE DEF en
      <4> QED BY <3>1
    <3> HIDE DEF en
    <3> QED BY <3>2 DEF Allocated
  <2>2. T + 1 .. T = {}
    BY <1>1
  <2> QED BY <2>1, <2>2
<1>4. AdvancedWell(r, n, A, st, ea)
  <2>1. {b} \in SUBSET Positions("branch", "waiting")
    OBVIOUS
  <2>2. T \in Nat /\ T <= N
    BY <1>1
  <2>3. {p \in Positions("load", "waiting") : p < b} \in SUBSET Positions("load", "waiting")
    OBVIOUS
  <2> HIDE DEF en
  <2> QED BY <1>3, <2>1, <2>2, <2>3, AdvanceFacts
<1> HIDE DEF A
<1>5. /\ A \in Seq(InFlight) /\ Len(A) = l
      /\ \A p \in DOMAIN window : A[p].kind = window[p].kind
      /\ \A p \in 1 .. l + 1 : Below(A, r, p) = Below(window, r, p)
      /\ n \in 0 .. 2 /\ n <= l /\ s = r + ns
      /\ ea \in [SQ_PTR -> BOOLEAN] /\ DOMAIN st \in SUBSET SQ_PTR
      /\ Known(ea, s, h) /\ Placed(A, r, h, ea)
  BY <1>4 DEF AdvancedWell, l
<1>6. n < b
  <2>1. \A p \in 1 .. n : window[p].state = "done"
    BY DEF Retirements
  <2> SUFFICES ASSUME ~(n < b) PROVE FALSE
    OBVIOUS
  <2>2. b \in 1 .. n
    BY <1>1, <1>2, <1>5
  <2> QED BY <1>2, <2>1, <2>2
<1>7. ns \in 0 .. 2 /\ s \in r .. T /\ o \in r .. T /\ s <= o
  <2>1. n + 1 \in 1 .. l + 1 /\ b \in 1 .. l + 1 /\ n + 1 <= b
    BY <1>1, <1>2, <1>5, <1>6
  <2>2. Below(window, r, n + 1) <= Below(window, r, b)
    BY <1>1, <2>1, BelowFacts
  <2>3. s = Below(window, r, n + 1)
    BY DEF RetiredAfter
  <2> HIDE DEF s
  <2> QED BY <1>1, <1>5, <2>1, <2>2, <2>3, RetireAtMostTwo
<1> HIDE DEF o
<1>8. /\ pops => sq_mem_en(en, st, ns)
      /\ Move(en, st, ns, pops)
      /\ sq_tail' = IF SQWrap(t + 1) = nextTrueHead(pops) THEN nextTrueHead(pops) ELSE t
      /\ sq_empty' <=> \/ SQWrap(t + 1) = nextTrueHead(pops)
                       \/ e \/ sq_empty \/ Empties(en, pops)
      /\ sq_empty' \in BOOLEAN
      /\ window' = SubSeq(A, n + 1, b)
  BY <1>2 DEF Recover, SQRecover, A, TypeOK
<1> HIDE DEF t, e
<1>9. MovedWell(s, pops)
  <2>1. st \in [DOMAIN st -> ADDR]
    BY DEF Addresses
  <2>2. T \in Nat /\ T <= N /\ r + ns <= T
    BY <1>1, <1>5, <1>7
  <2>3. /\ nextQueue(en, st, ns) \in [SQ_PTR -> SQEntry]
        /\ Marked(nextQueue(en, st, ns), r + ns, h)
        /\ SQWrap(retireHead + ns) = At(h, r + ns + 1)
    <3> HIDE DEF en, ns
    <3> QED BY <1>3, <1>5, <1>7, <2>1, <2>2, RetireMarks
  <2>4. s \in 0 .. N
    BY <1>1, <1>7
  <2> HIDE DEF en, ns, s
  <2> QED BY <1>1, <1>5, <1>7, <1>8, <2>3, <2>4, MoveFacts
<1>10. sq_trueHead' = HeadAfter(h, pops) /\ ea_calcd' = ea
  BY <1>8 DEF Move, HeadAfter, nextTrueHead
<1>11. Below(A, r, n + 1) = s /\ Below(A, r, b + 1) = o
  <2>1. n + 1 \in 1 .. l + 1 /\ b + 1 \in 1 .. l + 1 /\ b \in 1 .. l + 1
    BY <1>1, <1>2, <1>5
  <2>2. Below(A, r, n + 1) = s
    BY <1>5, <2>1 DEF RetiredAfter
  <2>3. Below(window, r, b + 1) = Below(window, r, b) + Bit(window[b].kind = "store")
    <3>1. \A p \in 1 .. l : Below(window, r, p + 1)
                              = Below(window, r, p) + Bit(window[p].kind = "store")
      BY <1>1, BelowFacts
    <3> QED BY <1>2, <3>1
  <2>4. Below(window, r, b + 1) = o
    BY <1>2, <1>7, <2>3 DEF Bit, o
  <2> QED BY <1>5, <2>1, <2>2, <2>4
<1> HIDE DEF ea, s, ns
<1>12. /\ window' \in Seq(InFlight) /\ Len(window') = b - n
       /\ Placed(window', s - Bit(pops), HeadAfter(h, pops), ea)
       /\ Below(window', s - Bit(pops), Len(window') + 1) = o - Bit(pops)
  <2>1. n \in Nat /\ b \in Nat /\ n <= b /\ b <= Len(A)
    BY <1>1, <1>2, <1>5, <1>6
  <2>2. pops => Below(A, r, n + 1) >= 1
    BY <1>9, <1>11 DEF MovedWell
  <2>3. Below(A, r, b + 1) <= SQ_SIZE
    BY <1>1, <1>7, <1>11
  <2>4. LeftWell(SubSeq(A, n + 1, b), b - n, Below(A, r, n + 1) - Bit(pops),
                 HeadAfter(h, pops), ea, Below(A, r, b + 1) - Bit(pops))
    BY <1>1, <1>5, <2>1, <2>2, <2>3, LeftPlaced
  <2> QED BY <1>8, <1>11, <2>4 DEF LeftWell
<1>13. Ends(HeadAfter(h, pops), sq_tail', sq_empty', o - Bit(pops))
       /\ sq_tail' \in SQ_PTR /\ sq_empty' \in BOOLEAN
  <2>1. nextTrueHead(pops) = HeadAfter(h, pops)
    BY DEF nextTrueHead, HeadAfter
  <2>2. /\ At(h, 1) = h /\ At(h, N + 1) = h
        /\ \A j, k \in 1 .. N : At(h, j) = At(h, k) => j = k
        /\ \A k \in 1 .. N : SQWrap(At(h, k) + 1) = At(h, k + 1)
    <3>1. /\ At(h, 1) = h /\ At(h, N + 1) = h
          /\ \A j, k \in 1 .. N : At(h, j) = At(h, k) => j = k
      BY <1>1, RingFacts
    <3>2. \A k \in 1 .. N + 1, j \in 0 .. N : k + j <= N + 1 => SQWrap(At(h, k) + j) = At(h, k + j)
      BY <1>1, RingFacts
    <3>3. \A k \in 1 .. N : k \in 1 .. N + 1 /\ 1 \in 0 .. N /\ k + 1 <= N + 1
      BY <1>1
    <3> QED BY <3>1, <3>2, <3>3
  <2>3. sq_tail' \in SQ_PTR /\ sq_empty' \in BOOLEAN
    <3>1. HeadAfter(h, pops) \in SQ_PTR
      BY <1>1, HeadAfterIs
    <3> QED BY <1>2, <1>8, <2>1, <3>1
  <2>4. IF o = 0 THEN (e /\ t = h) \/ SQWrap(t + 1) = h ELSE ~e /\ t = At(h, o)
    <3>1. Agrees(window[b], Below(window, r, b), h, ea_calcd)
      BY <1>1, <1>2 DEF QueueInv, Placed
    <3> QED BY <1>2, <3>1 DEF Agrees, Remembers, o, t, e
  <2>5. Ends(h, sq_tail, sq_empty, T)
    BY DEF QueueInv
  <2>6. ASSUME pops PROVE Ends(HeadAfter(h, pops), sq_tail', sq_empty', o - Bit(pops))
    <3>1. /\ o \in 1 .. N /\ Bit(pops) = 1 /\ 1 \in 1 .. N /\ 2 \in 1 .. N
          /\ ~e /\ t = At(h, o)
          /\ T \in 1 .. N /\ o <= T
      BY <1>1, <1>7, <1>9, <2>4, <2>6 DEF MovedWell, Bit
    <3>2. HeadAfter(h, pops) = At(h, 2)
      <4>1. HeadAfter(h, pops) = SQWrap(h + 1)
        BY <1>1, <2>6, HeadAfterIs
      <4>2. SQWrap(At(h, 1) + 1) = At(h, 2)
        BY <2>2, <3>1
      <4> QED BY <2>2, <4>1, <4>2
    <3>3. SQWrap(t + 1) = HeadAfter(h, pops) <=> o = 1
      <4>1. SQWrap(t + 1) = At(h, o + 1)
        BY <2>2, <3>1
      <4>2. CASE o = N
        <5>1. At(h, o + 1) = At(h, 1)
          BY <2>2, <4>2
        <5>2. At(h, 1) # At(h, 2)
          BY <2>2, <3>1
        <5> QED BY <1>1, <3>2, <4>1, <4>2, <5>1, <5>2
      <4>3. CASE o # N
        <5>1. o + 1 \in 1 .. N /\ (o + 1 = 2 <=> o = 1)
          BY <1>1, <3>1, <4>3
        <5> QED BY <2>2, <3>1, <3>2, <4>1, <5>1
      <4> QED BY <4>2, <4>3
    <3>4. CASE o = 1
      <4>1. sq_tail' = HeadAfter(h, pops) /\ sq_empty' /\ o - Bit(pops) = 0
        BY <1>8, <2>1, <3>1, <3>3, <3>4
      <4> QED BY <4>1 DEF Ends
    <3>5. CASE o # 1
      <4>1. o - 1 # 0 /\ o > 1 /\ T # 1
        BY <3>1, <3>5
      <4>2. ~sq_empty /\ sq_tail = At(h, T)
        BY <2>5, <3>1 DEF Ends
      <4>3. tailsum(en) = At(h, T)
        <5>1. SQWrap(At(h, T) + 0) = At(h, T)
          <6>1. \A k \in 1 .. N + 1, j \in 0 .. N : k + j <= N + 1 => SQWrap(At(h, k) + j) = At(h, k + j)
            BY <1>1, RingFacts
          <6>2. T \in 1 .. N + 1 /\ 0 \in 0 .. N /\ T + 0 <= N + 1 /\ T + 0 = T
            BY <1>1, <3>1
          <6> QED BY <6>1, <6>2
        <5>2. halfTailsum(en) = SQWrap(sq_tail + 0)
          BY DEF halfTailsum, Bit
        <5>3. tailsum(en) = SQWrap(halfTailsum(en) + 0)
          BY <4>2 DEF tailsum, Bit
        <5> QED BY <4>2, <5>1, <5>2, <5>3
      <4>4. ~Empties(en, pops)
        <5>1. h # At(h, T)
          BY <2>2, <3>1, <4>1
        <5> QED BY <4>3, <5>1 DEF Empties
      <4>5. sq_tail' = At(h, o) /\ ~sq_empty'
        BY <1>8, <2>1, <3>1, <3>3, <3>5, <4>2, <4>4
      <4>6. At(HeadAfter(h, pops), o - 1) = At(h, o)
        <5>1. HeadAfter(h, pops) = SQWrap(h + 1)
          BY <1>1, <2>6, HeadAfterIs
        <5> QED BY <1>1, <3>1, <4>1, <5>1, PopKeeps
      <4> QED BY <3>1, <4>1, <4>5, <4>6 DEF Ends
    <3> QED BY <3>4, <3>5
  <2>7. ASSUME ~pops PROVE Ends(HeadAfter(h, pops), sq_tail', sq_empty', o - Bit(pops))
    <3>1. pops = FALSE /\ HeadAfter(h, pops) = h /\ o - Bit(pops) = o /\ ~Empties(en, pops)
      <4>1. pops = FALSE
        BY <2>7
      <4>2. HeadAfter(h, pops) = h
        BY <1>1, <4>1, HeadAfterIs
      <4>3. o - Bit(pops) = o
        BY <1>1, <1>7, <2>7 DEF Bit
      <4>4. ~Empties(en, pops)
        BY <2>7 DEF Empties
      <4> QED BY <4>1, <4>2, <4>3, <4>4
    <3>2. CASE o = 0
      <4>1. sq_tail' = h /\ sq_empty'
        BY <1>8, <2>1, <2>4, <3>1, <3>2
      <4> QED BY <3>1, <3>2, <4>1 DEF Ends
    <3>3. CASE o # 0
      <4>1. ~e /\ t = At(h, o) /\ o \in 1 .. N /\ T \in 1 .. N
        BY <1>1, <1>7, <2>4, <3>3
      <4>2. ~sq_empty
        BY <2>5, <4>1 DEF Ends
      <4>3. o # N
        <5>1. OlderCount(b) = o
          BY <1>1, <1>2, OlderIs DEF o
        <5>2. sq_trueHead' = sq_trueHead
          BY <1>10, <3>1
        <5> QED BY <5>1, <5>2 DEF AllOlder
      <4>4. SQWrap(t + 1) # h
        <5>1. SQWrap(t + 1) = At(h, o + 1) /\ o + 1 \in 1 .. N /\ o + 1 # 1 /\ 1 \in 1 .. N
          BY <1>1, <2>2, <4>1, <4>3
        <5> QED BY <2>2, <5>1
      <4>5. sq_tail' = At(h, o) /\ ~sq_empty'
        BY <1>8, <2>1, <3>1, <4>1, <4>2, <4>4
      <4> QED BY <3>1, <3>3, <4>5 DEF Ends
    <3> QED BY <3>2, <3>3
  <2> QED BY <2>3, <2>6, <2>7
<1>14. Len(window') <= WINDOW
  <2>1. l <= WINDOW
    BY DEF TypeOK, l
  <2> QED BY <1>1, <1>2, <1>5, <1>12, <2>1, WindowAssumption
<1>15. s \in 0 .. SQ_SIZE /\ o \in 0 .. SQ_SIZE
  BY <1>1, <1>7
<1>16. /\ ea_calcd' \in [SQ_PTR -> BOOLEAN] /\ Known(ea_calcd', s, h)
       /\ Placed(window', s - Bit(pops), sq_trueHead', ea_calcd')
       /\ Ends(sq_trueHead', sq_tail', sq_empty', o - Bit(pops))
  BY <1>5, <1>10, <1>12, <1>13
<1>17. LeftWith(s - Bit(pops), o - Bit(pops))
  BY <1>1, <1>9, <1>10, <1>12, <1>13, <1>14, <1>15, <1>16, CycleKeeps
<1> QED BY <1>17 DEF s, o

(***************************************************************************)
(* The invariant.                                                            *)
(***************************************************************************)
LEMMA OrderInit == Init => IInv
<1> SUFFICES ASSUME Init PROVE IInv
  OBVIOUS
<1>1. SQ_SIZE \in Nat /\ SQ_SIZE >= 2 /\ 0 \in SQ_PTR /\ WINDOW \in Nat
  BY QueueAssumption, WindowAssumption DEF SQ_PTR
<1>2. /\ window = <<>> /\ Len(window) = 0 /\ DOMAIN window = {}
      /\ window \in Seq(InFlight)
  BY DEF Init
<1>3. /\ queue = [i \in SQ_PTR |-> [addr |-> 0, retired |-> FALSE]]
      /\ ea_calcd = [i \in SQ_PTR |-> FALSE]
      /\ retireHead = 0 /\ sq_trueHead = 0 /\ sq_tail = 0 /\ sq_empty = TRUE
  BY DEF Init, SQInit
<1>4. TypeOK
  <2>1. [addr |-> 0, retired |-> FALSE] \in SQEntry
    BY QueueAssumption DEF SQEntry
  <2> QED BY <1>1, <1>2, <1>3, <2>1 DEF TypeOK
<1>5. Total(0) = 0
  <2>1. Below(window, 0, 1) = 0
    <3>1. 0 \in Nat
      OBVIOUS
    <3> QED BY <3>1, BelowFirst
  <2> QED BY <1>2, <2>1 DEF Total
<1>6. Ends(sq_trueHead, sq_tail, sq_empty, Total(0))
  BY <1>3, <1>5 DEF Ends
<1>7. retireHead = At(sq_trueHead, 0 + 1)
  <2>1. At(0, 1) = 0
    BY <1>1, RingFacts
  <2> QED BY <1>3, <2>1
<1>8. Marked(queue, 0, sq_trueHead)
  <2> SUFFICES ASSUME NEW k \in 1 .. SQ_SIZE PROVE ~queue[At(0, k)].retired /\ ~(k <= 0)
    BY <1>3 DEF Marked
  <2>1. k \in 1 .. SQ_SIZE + 1
    BY <1>1
  <2>2. At(0, k) \in SQ_PTR
    BY <1>1, <2>1, RingFacts
  <2> QED BY <1>3, <2>2
<1>9. Known(ea_calcd, 0, sq_trueHead)
  BY DEF Known
<1>10. Placed(window, 0, sq_trueHead, ea_calcd)
  BY <1>2 DEF Placed
<1>11. QueueInv(0)
  BY <1>1, <1>5, <1>6, <1>7, <1>8, <1>9, <1>10 DEF QueueInv
<1> QED BY <1>4, <1>11 DEF IInv, OrderInv

LEMMA OrderNext == IInv /\ [SafeNext]_vars => IInv'
<1> SUFFICES ASSUME IInv, [SafeNext]_vars PROVE IInv'
  OBVIOUS
<1>1. TypeOK /\ \E r \in Nat : QueueInv(r)
  BY DEF IInv, OrderInv
<1>2. PICK r \in Nat : QueueInv(r)
  BY <1>1
<1>3. ASSUME NEW q, NEW m, LeftWith(q, m) PROVE IInv'
  BY <1>3 DEF LeftWith, IInv, OrderInv
<1>4. CASE DispatchCycle /\ Cardinality(RetiredWaiting') # SQ_SIZE - 1
  <2>1. PICK n \in Retirements, isns \in Offers, S \in Executions, pops \in BOOLEAN,
             issued \in Issues(Positions("load", "waiting")), resolved \in Resolved :
          \E st \in Addresses(S) :
            /\ Len(window) - n + Len(isns) <= WINDOW
            /\ Cycle(isns, n, S, st, issued, resolved, pops)
    BY <1>4 DEF DispatchCycle
  <2>2. PICK st \in Addresses(S) :
          /\ Len(window) - n + Len(isns) <= WINDOW
          /\ Cycle(isns, n, S, st, issued, resolved, pops)
    BY <2>1
  <2>3. LeftWith(RetiredAfter(r, n) - Bit(pops),
                 Below(Dispatched(isns), Total(r), Len(Dispatched(isns)) + 1) - Bit(pops))
    BY <1>1, <1>2, <1>4, <2>1, <2>2, DispatchStep
  <2> QED BY <1>3, <2>3
<1>5. CASE /\ \E b \in Positions("branch", "waiting") : RecoverCycle(b) /\ ~AllOlder(b)
           /\ Cardinality(RetiredWaiting') # SQ_SIZE - 1
  <2>1. PICK b \in Positions("branch", "waiting") : RecoverCycle(b) /\ ~AllOlder(b)
    BY <1>5
  <2>2. PICK n \in Retirements, S \in Executions, pops \in BOOLEAN :
          \E st \in Addresses(S),
             issued \in Issues({p \in Positions("load", "waiting") : p < b}) :
            Recover(b, n, S, st, issued, pops)
    BY <2>1 DEF RecoverCycle
  <2>3. PICK st \in Addresses(S),
             issued \in Issues({p \in Positions("load", "waiting") : p < b}) :
          Recover(b, n, S, st, issued, pops)
    BY <2>2
  <2>4. LeftWith(RetiredAfter(r, n) - Bit(pops), Below(window, r, b) - Bit(pops))
    BY <1>1, <1>2, <1>5, <2>1, <2>2, <2>3, RecoverStep
  <2> QED BY <1>3, <2>4
<1>6. CASE UNCHANGED vars
  <2>1. TypeOK'
    BY <1>1, <1>6 DEF TypeOK, vars
  <2>2. QueueInv(r)'
    <3>1. Total(r)' = Total(r)
      BY <1>6 DEF Total, Below, Count, StoresAt, vars
    <3>2. Placed(window', r, sq_trueHead', ea_calcd')
      BY <1>2, <1>6 DEF QueueInv, vars
    <3> QED BY <1>2, <1>6, <3>1, <3>2 DEF QueueInv, vars
  <2> QED BY <2>1, <2>2 DEF IInv, OrderInv
<1> QED BY <1>4, <1>5, <1>6 DEF SafeNext

(* In every behaviour of SafeSpec the queue is some number of retired stores  *)
(* and then those of the window; what each instruction in flight and each     *)
(* checkpoint remembers of the queue agrees with the stores below it.         *)
THEOREM OrderInvariant == SafeSpec => []IInv
BY OrderInit, OrderNext, PTL DEF SafeSpec

(* Every register of the store queue, and every index a station or a          *)
(* checkpoint keeps, has its width.                                           *)
THEOREM TypesHold == SafeSpec => []TypeOK
<1>1. IInv => TypeOK
  BY DEF IInv
<1> QED BY <1>1, OrderInvariant, PTL

(***************************************************************************)
(* What the invariant says.                                                  *)
(***************************************************************************)
\* The places of the window's stores.
StorePlaces == {p \in DOMAIN window : window[p].kind = "store"}

(* The k-th store of the window has k - 1 stores of the window below it.      *)
LEMMA StoresInOrder ==
  ASSUME TypeOK, NEW r \in Nat
  PROVE  /\ Len(Stores) \in Nat /\ DOMAIN Stores = 1 .. Len(Stores)
         /\ Total(r) = r + Len(Stores)
         /\ \A k \in 1 .. Len(Stores) :
              \E p \in 1 .. Len(window) :
                /\ window[p].kind = "store" /\ Stores[k] = window[p]
                /\ Below(window, r, p) = r + k - 1
<1> DEFINE l == Len(window)
           K == StorePlaces
           c == Cardinality(K)
<1>1. window \in Seq(InFlight) /\ l \in Nat /\ DOMAIN window = 1 .. l
  BY DEF TypeOK
<1>2. K \in SUBSET (DOMAIN window) /\ K \in SUBSET (1 .. l)
  BY <1>1 DEF StorePlaces
<1>3. Stores = Picked(window, K)
  BY DEF Stores, StorePlaces
<1>4. K = StoresAt(window, 1, l)
  BY <1>1 DEF StorePlaces, StoresAt
<1> HIDE DEF l, K
<1>5. /\ Stores \in Seq(InFlight) /\ Len(Stores) = c /\ c \in Nat
      /\ \A k \in 1 .. c : Nth(K, k) \in K /\ Stores[k] = window[Nth(K, k)]
  BY <1>1, <1>2, <1>3, PickedFacts
<1>6. \A k \in 1 .. c : Rank(K, Nth(K, k)) = k
  BY <1>1, <1>2, RankFacts
<1>7. c = Count(window, 1, l)
  BY <1>4 DEF Count
<1>8. Total(r) = r + c
  <2>1. (l + 1) - 1 = l
    BY <1>1
  <2> QED BY <1>7, <2>1 DEF Total, Below, l
<1>9. ASSUME NEW p \in K PROVE Below(window, r, p) = r + Rank(K, p) - 1
  <2> DEFINE j == p - 1
  <2>1. p \in 1 .. l /\ window[p].kind = "store"
    BY <1>2, <1>4 DEF StoresAt
  <2>2. {q \in K : q <= p} = StoresAt(window, 1, p)
    BY <1>1, <1>4, <2>1 DEF StoresAt
  <2>3. Rank(K, p) = Count(window, 1, p)
    BY <2>2 DEF Rank, Count
  <2>4. j \in Nat /\ 1 \in Nat /\ 1 <= j + 1 /\ j + 1 = p
    BY <1>1, <2>1
  <2> HIDE DEF j
  <2>5. Count(window, 1, j + 1) = Count(window, 1, j) + Bit(window[j + 1].kind = "store")
        /\ Count(window, 1, j) \in Nat
    BY <2>4, CountFacts
  <2>6. Below(window, r, p) = r + Count(window, 1, j)
    BY DEF Below, j
  <2>7. Count(window, 1, p) = Count(window, 1, j) + 1
    BY <2>1, <2>4, <2>5 DEF Bit
  <2> QED BY <2>3, <2>5, <2>6, <2>7
<1> HIDE DEF c
<1>10. ASSUME NEW k \in 1 .. c
       PROVE  \E p \in 1 .. l : /\ window[p].kind = "store" /\ Stores[k] = window[p]
                                /\ Below(window, r, p) = r + k - 1
  <2>1. Nth(K, k) \in K /\ Stores[k] = window[Nth(K, k)] /\ Rank(K, Nth(K, k)) = k
    BY <1>5, <1>6 DEF c
  <2>2. Nth(K, k) \in 1 .. l /\ window[Nth(K, k)].kind = "store"
    BY <1>2, <1>4, <2>1 DEF StoresAt
  <2>3. Below(window, r, Nth(K, k)) = r + k - 1
    BY <1>9, <2>1
  <2> QED BY <2>1, <2>2, <2>3
<1>11. Len(Stores) = c /\ c \in Nat /\ DOMAIN Stores = 1 .. Len(Stores)
  BY <1>5 DEF c
<1> QED BY <1>8, <1>10, <1>11 DEF l

LEMMA SlotIs == \A k : Slot(k) = At(sq_trueHead, k)
BY DEF Slot, At

(* How many retired stores wait, and where they are.                          *)
LEMMA RetiredAre ==
  ASSUME TypeOK, NEW r \in Nat, QueueInv(r)
  PROVE  /\ RetiredWaiting = {At(sq_trueHead, k) : k \in 1 .. r}
         /\ Cardinality(RetiredWaiting) = r
         /\ Occupancy = Total(r)
<1>1. sq_trueHead \in SQ_PTR /\ r \in 0 .. SQ_SIZE
  BY StoreSlots
<1>2. Marked(queue, r, sq_trueHead)
  BY DEF QueueInv
<1>3. /\ {i \in SQ_PTR : queue[i].retired} = {At(sq_trueHead, k) : k \in 1 .. r}
      /\ Cardinality({i \in SQ_PTR : queue[i].retired}) = r
  BY <1>1, <1>2, MarkedAre
<1> QED BY <1>3, OlderIs DEF RetiredWaiting

LEMMA ProgramOrder == IInv => QueueHoldsProgramOrder
<1> SUFFICES ASSUME IInv PROVE QueueHoldsProgramOrder
  OBVIOUS
<1>1. TypeOK /\ \E r \in Nat : QueueInv(r)
  BY DEF IInv, OrderInv
<1>2. PICK r \in Nat : QueueInv(r)
  BY <1>1
<1> DEFINE h == sq_trueHead
           s == Len(Stores)
<1>3. /\ RetiredWaiting = {At(h, k) : k \in 1 .. r}
      /\ Cardinality(RetiredWaiting) = r
      /\ Occupancy = Total(r)
  BY <1>1, <1>2, RetiredAre
<1>4. /\ s \in Nat /\ DOMAIN Stores = 1 .. s /\ Total(r) = r + s
      /\ \A k \in 1 .. s :
           \E p \in 1 .. Len(window) :
             /\ window[p].kind = "store" /\ Stores[k] = window[p]
             /\ Below(window, r, p) = r + k - 1
  BY <1>1, StoresInOrder
<1>5. \A p \in 1 .. Len(window) : window[p].kind = "store" =>
        /\ window[p].index = At(h, Below(window, r, p) + 1)
        /\ ea_calcd[window[p].index] <=> window[p].state = "done"
  BY <1>1, <1>2, StoreSlots
<1> HIDE DEF s
<1>6. RetiredWaiting = {Slot(k) : k \in 1 .. r}
  BY <1>3, SlotIs
<1>7. retireHead = Slot(r + 1)
  BY <1>2, SlotIs DEF QueueInv
<1>8. \A k \in 1 .. r : ea_calcd[Slot(k)]
  BY <1>2, SlotIs DEF QueueInv, Known
<1>9. ASSUME NEW k \in DOMAIN Stores
      PROVE  /\ Stores[k].index = Slot(r + k)
             /\ ea_calcd[Slot(r + k)] <=> Stores[k].state = "done"
  <2>1. PICK p \in 1 .. Len(window) : /\ window[p].kind = "store" /\ Stores[k] = window[p]
                                      /\ Below(window, r, p) = r + k - 1
    BY <1>4
  <2>2. (r + k - 1) + 1 = r + k
    BY <1>4
  <2>3. window[p].index = At(h, r + k)
    BY <1>5, <2>1, <2>2
  <2> QED BY <1>5, <2>1, <2>3, SlotIs
<1>10. sq_empty => sq_tail = sq_trueHead
  BY <1>2 DEF QueueInv, Ends
<1>11. Occupancy = r + Len(Stores)
  BY <1>3, <1>4 DEF s
<1> QED BY <1>3, <1>6, <1>7, <1>8, <1>9, <1>10, <1>11 DEF QueueHoldsProgramOrder

LEMMA CheckpointsGood == IInv => CheckpointsKeepTheOlder
<1> SUFFICES ASSUME IInv, NEW b \in Positions("branch", "waiting")
             PROVE  IF OlderCount(b) = 0
                    THEN \/ window[b].empty /\ window[b].index = sq_trueHead
                         \/ sq_empty
                         \/ SQWrap(window[b].index + 1) = sq_trueHead
                    ELSE ~window[b].empty /\ window[b].index = Slot(OlderCount(b))
  BY DEF CheckpointsKeepTheOlder
<1>1. TypeOK /\ \E r \in Nat : QueueInv(r)
  BY DEF IInv, OrderInv
<1>2. PICK r \in Nat : QueueInv(r)
  BY <1>1
<1>3. b \in 1 .. Len(window) /\ window[b].kind = "branch" /\ window[b].state = "waiting"
  BY <1>1 DEF Positions, TypeOK
<1>4. OlderCount(b) = Below(window, r, b)
  BY <1>1, <1>2, <1>3, OlderIs
<1>5. Agrees(window[b], Below(window, r, b), sq_trueHead, ea_calcd)
  BY <1>1, <1>2, <1>3 DEF QueueInv, Placed, TypeOK
<1>6. IF Below(window, r, b) = 0
      THEN (window[b].empty /\ window[b].index = sq_trueHead)
           \/ SQWrap(window[b].index + 1) = sq_trueHead
      ELSE ~window[b].empty /\ window[b].index = At(sq_trueHead, Below(window, r, b))
  BY <1>3, <1>5 DEF Agrees, Remembers
<1> QED BY <1>4, <1>6, SlotIs

LEMMA LoadsWaited == IInv => LoadsWaitForOlder
<1> SUFFICES ASSUME IInv, NEW p \in Positions("load", "issued"),
                    NEW k \in 1 .. OlderCount(p)
             PROVE  ea_calcd[Slot(k)]
  BY DEF LoadsWaitForOlder
<1>1. TypeOK /\ \E r \in Nat : QueueInv(r)
  BY DEF IInv, OrderInv
<1>2. PICK r \in Nat : QueueInv(r)
  BY <1>1
<1>3. p \in 1 .. Len(window) /\ window[p].kind = "load" /\ window[p].state = "issued"
  BY <1>1 DEF Positions, TypeOK
<1>4. OlderCount(p) = Below(window, r, p)
  BY <1>1, <1>2, <1>3, OlderIs
<1>5. Known(ea_calcd, Below(window, r, p), sq_trueHead)
  BY <1>1, <1>2, <1>3 DEF QueueInv, Placed, Agrees, TypeOK
<1> QED BY <1>4, <1>5, SlotIs DEF Known

(* A set of places that is not empty has a last one. *)
LEMMA LastOf ==
  ASSUME NEW n \in Nat, NEW K \in SUBSET (1 .. n), K # {}
  PROVE  \E k \in K : \A q \in K : q <= k
<1> DEFINE c == Cardinality(K)
<1>1. /\ c \in Nat /\ \A q \in K : q \in Nat /\ Rank(K, q) \in 1 .. c
      /\ \A p, q \in K : p < q => Rank(K, p) < Rank(K, q)
      /\ \A k \in 1 .. c : Nth(K, k) \in K /\ Rank(K, Nth(K, k)) = k
  BY RankFacts
<1> HIDE DEF c
<1>2. PICK x \in K : TRUE
  OBVIOUS
<1>3. c \in 1 .. c
  BY <1>1, <1>2
<1>4. Nth(K, c) \in K /\ Rank(K, Nth(K, c)) = c
  BY <1>1, <1>3
<1>5. ASSUME NEW q \in K PROVE q <= Nth(K, c)
  <2>1. ~(Nth(K, c) < q)
    <3>1. Rank(K, q) <= c /\ Rank(K, q) \in Nat
      BY <1>1
    <3>2. ~(c < Rank(K, q))
      BY <1>1, <3>1
    <3> QED BY <1>1, <1>4, <3>2
  <2>2. q \in Nat /\ Nth(K, c) \in Nat
    BY <1>1, <1>4
  <2> QED BY <2>1, <2>2
<1> QED BY <1>4, <1>5

LEMMA YoungestSeen == IInv => LoadSeesYoungestOlder
<1> SUFFICES ASSUME IInv, NEW p \in Positions("load", "issued"), NEW a \in ADDR,
                    OlderCount(p) > 0
             PROVE  LET same == {k \in 1 .. OlderCount(p) : queue[Slot(k)].addr = a}
                        idx  == window[p].index
                    IN  /\ sq_ld_match(idx, a) <=> same # {}
                        /\ same # {} => \E k \in same : /\ sq_ld_slot(idx, a) = Slot(k)
                                                        /\ \A j \in same : j <= k
  BY DEF LoadSeesYoungestOlder
<1>1. TypeOK /\ \E r \in Nat : QueueInv(r)
  BY DEF IInv, OrderInv
<1>2. PICK r \in Nat : QueueInv(r)
  BY <1>1
<1> DEFINE h    == sq_trueHead
           m    == OlderCount(p)
           idx  == window[p].index
           same == {k \in 1 .. m : queue[Slot(k)].addr = a}
           hits == sq_ld_hits(idx, a)
<1>3. p \in 1 .. Len(window) /\ window[p].kind = "load" /\ window[p].state = "issued"
  BY <1>1 DEF Positions, TypeOK
<1>4. /\ h \in SQ_PTR /\ SQ_SIZE \in Nat /\ Total(r) \in 0 .. SQ_SIZE
      /\ m = Below(window, r, p) /\ m \in r .. Total(r)
  <2>1. p \in 1 .. Len(window) + 1 /\ p \in DOMAIN window
    BY <1>1, <1>3 DEF TypeOK
  <2> QED BY <1>1, <1>2, <2>1, StoreSlots, OlderIs
<1>5. m \in 1 .. SQ_SIZE /\ Total(r) # 0
  BY <1>2, <1>4
<1>6. ~sq_empty
  BY <1>2, <1>5 DEF QueueInv, Ends
<1>7. idx = At(h, m)
  <2>1. Agrees(window[p], Below(window, r, p), h, ea_calcd)
    BY <1>1, <1>2, <1>3 DEF QueueInv, Placed, TypeOK
  <2> QED BY <1>3, <1>4, <1>5, <2>1 DEF Agrees, Remembers
<1>8. SQDist(idx) = m - 1
  BY <1>4, <1>5, <1>7, RingFacts DEF SQDist
<1> HIDE DEF m, idx
<1>9. \A j \in 0 .. m - 1 : SQWrap(h + j) = Slot(j + 1)
  <2> SUFFICES ASSUME NEW j \in 0 .. m - 1 PROVE SQWrap(h + j) = SQWrap(h + (j + 1) - 1)
    BY DEF Slot
  <2>1. h \in Int /\ h + (j + 1) - 1 = h + j
    BY <1>4 DEF SQ_PTR
  <2> QED BY <2>1
<1>10. hits = {j \in 0 .. m - 1 : j + 1 \in same}
  <2>1. hits = {j \in 0 .. m - 1 : queue[SQWrap(h + j)].addr = a}
    BY <1>6, <1>8 DEF sq_ld_hits
  <2>2. \A j \in 0 .. m - 1 : j + 1 \in 1 .. m
    BY <1>5
  <2> QED BY <1>9, <2>1, <2>2
<1>11. \A k \in same : k \in 1 .. m /\ k - 1 \in hits /\ k - 1 \in 0 .. m - 1
  <2> SUFFICES ASSUME NEW k \in same
               PROVE  k \in 1 .. m /\ k - 1 \in hits /\ k - 1 \in 0 .. m - 1
    OBVIOUS
  <2>1. k \in 1 .. m
    OBVIOUS
  <2>2. k - 1 \in 0 .. m - 1 /\ (k - 1) + 1 = k
    BY <1>5, <2>1
  <2> QED BY <1>10, <2>1, <2>2
<1>12. \A j \in hits : j \in 0 .. m - 1 /\ j + 1 \in same
  BY <1>10
<1> HIDE DEF hits
<1>13. sq_ld_match(idx, a) <=> same # {}
  BY <1>11, <1>12 DEF sq_ld_match, hits
<1>14. ASSUME same # {}
       PROVE  \E k \in same : sq_ld_slot(idx, a) = Slot(k) /\ \A j \in same : j <= k
  <2>1. m \in Nat /\ same \in SUBSET (1 .. m)
    BY <1>5
  <2> HIDE DEF same
  <2>2. PICK k \in same : \A q \in same : q <= k
    BY <1>14, <2>1, LastOf
  <2> DEFINE last(j) == \A i \in hits : i <= j
             x == CHOOSE j \in hits : last(j)
  <2>3. last(k - 1)
    <3> SUFFICES ASSUME NEW i \in hits PROVE i <= k - 1
      OBVIOUS
    <3>1. i + 1 <= k /\ i \in Nat /\ k \in Nat
      BY <1>5, <1>12, <2>1, <2>2
    <3> QED BY <3>1
  <2>4. x \in hits /\ last(x)
    <3>1. k - 1 \in hits
      BY <1>11, <2>2
    <3> QED BY <2>3, <3>1
  <2>5. x = k - 1
    <3>1. k - 1 <= x /\ x <= k - 1
      BY <1>11, <2>2, <2>3, <2>4
    <3>2. x \in Int /\ k - 1 \in Int
      BY <1>11, <1>12, <2>2, <2>4
    <3> HIDE DEF x, last
    <3> QED BY <3>1, <3>2
  <2>6. sq_ld_slot(idx, a) = SQWrap(h + x)
    BY DEF sq_ld_slot, hits
  <2> HIDE DEF x, last
  <2>7. SQWrap(h + x) = Slot(k)
    <3>1. k - 1 \in 0 .. m - 1 /\ (k - 1) + 1 = k
      BY <1>11, <2>1, <2>2
    <3> QED BY <1>9, <2>5, <3>1
  <2> QED BY <2>2, <2>6, <2>7
<1> HIDE DEF same
<1>15. /\ sq_ld_match(idx, a) <=> same # {}
       /\ same # {} => \E k \in same : /\ sq_ld_slot(idx, a) = Slot(k)
                                       /\ \A j \in same : j <= k
  BY <1>13, <1>14
<1> QED BY <1>15 DEF same, idx, m

(***************************************************************************)
(* The refinement.                                                           *)
(***************************************************************************)
LEMMA SameSeq ==
  ASSUME NEW C, NEW s \in Seq(C), NEW t \in Seq(C), Len(s) = Len(t),
         \A i \in 1 .. Len(s) : s[i] = t[i]
  PROVE  s = t
OBVIOUS

(* StoreFifo counts as this module does. *)
LEMMA SameCount == \A C : Fifo!Cardinality(C) = Cardinality(C)
BY DEF Fifo!Cardinality, Cardinality

(* In a sequence that retires from the front, the retired ones are so many.   *)
RetiredFirst(s, c) == \A k \in DOMAIN s : s[k].retired <=> k <= c

LEMMA RetiredCount ==
  ASSUME NEW s, NEW t \in Nat, DOMAIN s = 1 .. t, NEW c \in 0 .. t, RetiredFirst(s, c)
  PROVE  Fifo!NRetired(s) = c
<1>1. {i \in DOMAIN s : s[i].retired} = 1 .. c
  BY DEF RetiredFirst
<1>2. Cardinality(1 .. c) = c
  <2>1. 1 \in Int /\ c \in Int
    OBVIOUS
  <2>2. Cardinality(1 .. c) = IF 1 > c THEN 0 ELSE c - 1 + 1
    BY <2>1, FS_Interval
  <2> QED BY <2>2
<1> QED BY <1>1, <1>2, SameCount DEF Fifo!NRetired

\* Store k of the queue when those of F have got their addresses and the first
\* c have retired.
Taken(k, F, address, c) ==
  [addr |-> IF k \in F THEN address[k] ELSE FifoView[k].addr,
   executed |-> IF k \in F THEN TRUE ELSE FifoView[k].executed,
   retired |-> k <= c]

LEMMA TakenRetired ==
  \A k, F, address, c : Taken(k, F, address, c).retired <=> k <= c
BY DEF Taken

\* A cycle seen as a step of the queue: r of T stores are retired, n retire, F
\* execute, the oldest is sent or not, and o are left before it is.
FifoMove(T, r, n, F, address, pops, o) ==
  /\ FifoView \in Seq(Fifo!Store) /\ Len(FifoView) = T
  /\ RetiredFirst(FifoView, r)
  /\ \A k \in 1 .. r + n : FifoView[k].executed
  /\ r + n <= T /\ r + n <= o /\ o <= T + 2 /\ o <= SQ_SIZE
  /\ pops => r + n >= 1
  /\ FifoView' \in Seq(Fifo!Store) /\ Len(FifoView') = o - Bit(pops)
  /\ \A k \in 1 .. o - Bit(pops) :
       FifoView'[k] = IF k + Bit(pops) <= T THEN Taken(k + Bit(pops), F, address, r + n)
                      ELSE Fifo!NewStore

LEMMA MoveIsStep ==
  ASSUME NEW T \in Nat, NEW r \in Nat, NEW n \in 0 .. 2, NEW pops \in BOOLEAN, NEW o \in Nat,
         NEW F \in SUBSET {k \in DOMAIN FifoView : ~FifoView[k].executed},
         Cardinality(F) <= 2,
         NEW address \in [F -> ADDR],
         FifoMove(T, r, n, F, address, pops, o)
  PROVE  Fifo!Next
<1> DEFINE v == FifoView
           c == r + n
           b == Bit(pops)
           marked == Fifo!Retired(Fifo!Executed(v, F, address), n)
           rest   == Fifo!Sent(marked, pops)
<1>1. /\ v \in Seq(Fifo!Store) /\ Len(v) = T /\ DOMAIN v = 1 .. T
      /\ \A k \in 1 .. T : v[k] \in Fifo!Store
      /\ RetiredFirst(v, r)
      /\ r <= T /\ c \in Nat /\ c <= T /\ c <= o /\ b \in 0 .. 1 /\ b <= c
      /\ SQ_SIZE \in Nat /\ o <= T + 2 /\ o <= SQ_SIZE
  BY QueueAssumption DEF FifoMove, Bit
<1>2. /\ v' \in Seq(Fifo!Store) /\ Len(v') = o - b
      /\ \A k \in 1 .. o - b :
           v'[k] = IF k + b <= T THEN Taken(k + b, F, address, c) ELSE Fifo!NewStore
  BY DEF FifoMove
<1>3. Fifo!NRetired(v) = r
  <2>1. r \in 0 .. T
    BY <1>1
  <2> QED BY <1>1, <2>1, RetiredCount
<1>4. /\ Fifo!NRetired(v) + n <= Len(v)
      /\ \A i \in 1 .. Fifo!NRetired(v) + n : v[i].executed
  BY <1>1, <1>3 DEF FifoMove
<1>5. DOMAIN Fifo!Executed(v, F, address) = 1 .. T
      /\ RetiredFirst(Fifo!Executed(v, F, address), r)
  BY <1>1 DEF Fifo!Executed, RetiredFirst
<1>6. Fifo!NRetired(Fifo!Executed(v, F, address)) = r
  <2>1. r \in 0 .. T
    BY <1>1
  <2> QED BY <1>5, <2>1, RetiredCount
<1>7. marked = [k \in 1 .. T |-> Taken(k, F, address, c)]
  <2>1. marked = [k \in 1 .. T |-> [addr |-> Fifo!Executed(v, F, address)[k].addr,
                                    executed |-> Fifo!Executed(v, F, address)[k].executed,
                                    retired |-> k <= c]]
    BY <1>5, <1>6 DEF Fifo!Retired
  <2>2. ASSUME NEW k \in 1 .. T
        PROVE  /\ Fifo!Executed(v, F, address)[k].addr
                    = (IF k \in F THEN address[k] ELSE v[k].addr)
               /\ Fifo!Executed(v, F, address)[k].executed
                    = (IF k \in F THEN TRUE ELSE v[k].executed)
    BY <1>1 DEF Fifo!Executed
  <2> QED BY <2>1, <2>2 DEF Taken
<1>8. \A k \in 1 .. T : Taken(k, F, address, c) \in Fifo!Store
  <2> SUFFICES ASSUME NEW k \in 1 .. T PROVE Taken(k, F, address, c) \in Fifo!Store
    OBVIOUS
  <2>1. v[k].addr \in ADDR /\ v[k].executed \in BOOLEAN
    BY <1>1 DEF Fifo!Store
  <2>2. k \in F => address[k] \in ADDR
    OBVIOUS
  <2>3. (IF k \in F THEN address[k] ELSE v[k].addr) \in ADDR
    BY <2>1, <2>2
  <2>4. (IF k \in F THEN TRUE ELSE v[k].executed) \in BOOLEAN
    BY <2>1
  <2>5. (k <= c) \in BOOLEAN
    OBVIOUS
  <2> QED BY <2>3, <2>4, <2>5 DEF Taken, Fifo!Store, v
<1> HIDE DEF marked, v
<1>9. marked \in Seq(Fifo!Store) /\ Len(marked) = T /\ DOMAIN marked = 1 .. T
      /\ \A k \in 1 .. T : marked[k] = Taken(k, F, address, c)
  BY <1>7, <1>8
<1>10. /\ rest \in Seq(Fifo!Store) /\ Len(rest) = T - b
       /\ \A k \in 1 .. T - b : rest[k] = Taken(k + b, F, address, c)
  <2>1. CASE pops
    <3>1. b = 1 /\ rest = Tail(marked) /\ T >= 1
      BY <1>1, <2>1 DEF Fifo!Sent, Bit
    <3>2. marked # <<>>
      BY <1>9, <3>1
    <3>3. /\ Tail(marked) \in Seq(Fifo!Store) /\ Len(Tail(marked)) = T - 1
          /\ \A k \in 1 .. T - 1 : Tail(marked)[k] = marked[k + 1]
      BY <1>9, <3>1, <3>2
    <3>4. \A k \in 1 .. T - 1 : k + 1 \in 1 .. T
      OBVIOUS
    <3> HIDE DEF rest, b
    <3> QED BY <1>9, <3>1, <3>3, <3>4
  <2>2. CASE ~pops
    <3>1. b = 0 /\ rest = marked
      BY <2>2 DEF Fifo!Sent, Bit
    <3> HIDE DEF rest, b
    <3> QED BY <1>9, <3>1
  <2> QED BY <2>1, <2>2
<1>11. Fifo!NRetired(marked) = c
  <2>1. RetiredFirst(marked, c)
    <3>1. \A k \in 1 .. T : marked[k].retired <=> k <= c
      BY <1>9, TakenRetired
    <3> QED BY <1>9, <3>1 DEF RetiredFirst
  <2>2. c \in 0 .. T
    BY <1>1
  <2> HIDE DEF c
  <2> QED BY <1>9, <2>1, <2>2, RetiredCount
<1> HIDE DEF rest, b, c
<1>12. Fifo!NRetired(rest) = c - b
  <2>1. DOMAIN rest = 1 .. T - b /\ T - b \in Nat /\ c - b \in 0 .. T - b
    BY <1>1, <1>10
  <2>2. RetiredFirst(rest, c - b)
    <3>1. \A k \in 1 .. T - b : (k + b <= c) <=> (k <= c - b)
      BY <1>1
    <3>2. \A k \in 1 .. T - b : rest[k].retired <=> k + b <= c
      BY <1>10, TakenRetired
    <3> QED BY <2>1, <3>1, <3>2 DEF RetiredFirst
  <2> QED BY <2>1, <2>2, RetiredCount
<1>13. pops => Fifo!NRetired(marked) > 0
  <2>1. pops => b = 1
    BY DEF b, Bit
  <2> QED BY <1>1, <1>11, <2>1
<1>14. \/ \E new \in 0 .. 2 : /\ Len(v) + new <= SQ_SIZE
                              /\ v' = rest \o [k \in 1 .. new |-> Fifo!NewStore]
       \/ \E kept \in Fifo!NRetired(rest) .. Len(rest) : v' = SubSeq(rest, 1, kept)
  <2>1. CASE o >= T
    <3> DEFINE d == o - T
               new == [k \in 1 .. d |-> Fifo!NewStore]
               w == rest \o new
    <3>1. d \in 0 .. 2 /\ d \in Nat /\ Len(v) + d <= SQ_SIZE /\ (T - b) + d = o - b
      BY <1>1, <2>1
    <3> HIDE DEF d
    <3>2. new \in Seq(Fifo!Store) /\ Len(new) = d /\ \A k \in 1 .. d : new[k] = Fifo!NewStore
      <4>1. Fifo!NewStore \in Fifo!Store
        BY QueueAssumption DEF Fifo!NewStore, Fifo!Store
      <4> QED BY <3>1, <4>1
    <3> HIDE DEF new
    <3>3. /\ w \in Seq(Fifo!Store) /\ Len(w) = (T - b) + d
          /\ \A k \in 1 .. (T - b) + d :
               w[k] = IF k <= T - b THEN rest[k] ELSE new[k - (T - b)]
      BY <1>1, <1>10, <3>1, <3>2
    <3> HIDE DEF w
    <3>4. ASSUME NEW k \in 1 .. o - b PROVE v'[k] = w[k]
      <4>1. CASE k + b <= T
        <5>1. k \in 1 .. T - b /\ k <= T - b
          BY <1>1, <4>1
        <5> QED BY <1>2, <1>10, <3>1, <3>3, <4>1, <5>1
      <4>2. CASE ~(k + b <= T)
        <5>1. ~(k <= T - b) /\ k - (T - b) \in 1 .. d
          BY <1>1, <3>1, <4>2
        <5> QED BY <1>2, <3>1, <3>2, <3>3, <4>2, <5>1
      <4> QED BY <4>1, <4>2
    <3>5. v' = w
      BY <1>2, <3>1, <3>3, <3>4, SameSeq
    <3> QED BY <3>1, <3>5 DEF w, new
  <2>2. CASE ~(o >= T)
    <3> DEFINE kept == o - b
               w == SubSeq(rest, 1, kept)
    <3>1. kept \in Nat /\ kept \in c - b .. T - b /\ kept <= Len(rest)
      BY <1>1, <1>10, <2>2
    <3>2. kept \in Fifo!NRetired(rest) .. Len(rest)
      BY <1>10, <1>12, <3>1
    <3> HIDE DEF kept
    <3>3. w \in Seq(Fifo!Store) /\ Len(w) = kept /\ \A k \in 1 .. kept : w[k] = rest[k]
      BY <1>10, <3>1
    <3> HIDE DEF w
    <3>4. ASSUME NEW k \in 1 .. kept PROVE v'[k] = w[k]
      <4>1. k + b <= T /\ k \in 1 .. T - b
        BY <1>1, <3>1
      <4>2. k \in 1 .. o - b
        BY DEF kept
      <4> QED BY <1>2, <1>10, <3>3, <4>1, <4>2
    <3>5. v' = w
      <4>1. Len(v') = kept
        BY <1>2 DEF kept
      <4> QED BY <1>2, <3>3, <3>4, <4>1, SameSeq
    <3> QED BY <3>2, <3>5 DEF w
  <2> QED BY <2>1, <2>2
<1>15. Fifo!Step(F, n, pops)
  BY <1>13, <1>14 DEF Fifo!Step, marked, rest, v
<1> QED BY <1>4, <1>15, SameCount DEF Fifo!Next, v

\* The queue of o stores from slot h on.
ViewOf(q, ea, h, o) ==
  [k \in 1 .. o |-> [addr |-> q[At(h, k)].addr, executed |-> ea[At(h, k)],
                     retired |-> q[At(h, k)].retired]]

Shows(v, q, ea, h, o) ==
  /\ v \in Seq(Fifo!Store) /\ Len(v) = o /\ DOMAIN v = 1 .. o
  /\ \A k \in 1 .. o : /\ v[k] \in Fifo!Store
                       /\ v[k].addr = q[At(h, k)].addr
                       /\ v[k].executed = ea[At(h, k)]
                       /\ v[k].retired = q[At(h, k)].retired

LEMMA ViewFacts ==
  ASSUME NEW q \in [SQ_PTR -> SQEntry], NEW ea \in [SQ_PTR -> BOOLEAN], NEW h \in SQ_PTR,
         NEW o \in 0 .. SQ_SIZE
  PROVE  Shows(ViewOf(q, ea, h, o), q, ea, h, o)
<1>1. \A k \in 1 .. o : At(h, k) \in SQ_PTR
  <2>1. \A k \in 1 .. SQ_SIZE + 1 : At(h, k) \in SQ_PTR
    BY RingFacts
  <2>2. \A k \in 1 .. o : k \in 1 .. SQ_SIZE + 1
    BY QueueAssumption
  <2> QED BY <2>1, <2>2
<1>2. \A k \in 1 .. o : [addr |-> q[At(h, k)].addr, executed |-> ea[At(h, k)],
                         retired |-> q[At(h, k)].retired] \in Fifo!Store
  <2> SUFFICES ASSUME NEW k \in 1 .. o
               PROVE  [addr |-> q[At(h, k)].addr, executed |-> ea[At(h, k)],
                       retired |-> q[At(h, k)].retired] \in Fifo!Store
    OBVIOUS
  <2>1. q[At(h, k)] \in SQEntry /\ ea[At(h, k)] \in BOOLEAN
    BY <1>1
  <2> QED BY <2>1 DEF SQEntry, Fifo!Store
<1>3. o \in Nat
  BY QueueAssumption
<1>4. /\ ViewOf(q, ea, h, o) \in Seq(Fifo!Store) /\ Len(ViewOf(q, ea, h, o)) = o
      /\ DOMAIN ViewOf(q, ea, h, o) = 1 .. o
  BY <1>2, <1>3 DEF ViewOf
<1>5. \A k \in 1 .. o : /\ ViewOf(q, ea, h, o)[k] \in Fifo!Store
                        /\ ViewOf(q, ea, h, o)[k].addr = q[At(h, k)].addr
                        /\ ViewOf(q, ea, h, o)[k].executed = ea[At(h, k)]
                        /\ ViewOf(q, ea, h, o)[k].retired = q[At(h, k)].retired
  BY <1>2 DEF ViewOf
<1> QED BY <1>4, <1>5 DEF Shows

LEMMA OccupancyIs ==
  ASSUME NEW h \in SQ_PTR, NEW o \in 0 .. SQ_SIZE, NEW tail, NEW empty,
         Ends(h, tail, empty, o)
  PROVE  (IF empty THEN 0 ELSE SQWrap(tail - h) + 1) = o
<1>1. CASE o = 0
  BY <1>1 DEF Ends
<1>2. CASE o # 0
  <2>1. o \in 1 .. SQ_SIZE
    BY <1>2, QueueAssumption
  <2>2. SQWrap(At(h, o) - h) = o - 1
    BY <2>1, RingFacts
  <2>3. ~empty /\ tail = At(h, o)
    BY <1>2 DEF Ends
  <2>4. (o - 1) + 1 = o
    BY <2>1
  <2> QED BY <2>2, <2>3, <2>4
<1> QED BY <1>1, <1>2

\* What the queue shows after a cycle.
ViewStep(T, F, address, c, b, o) ==
  \A k \in 1 .. o - b :
    FifoView'[k] = IF k + b <= T THEN Taken(k + b, F, address, c) ELSE Fifo!NewStore

\* The places that execute when the slots I do, and their addresses.
Fired(I, h, o)  == {k \in 1 .. o : At(h, k) \in I}
Given(F, st, h) == [k \in F |-> st[At(h, k)]]
Within(I, h, o) == \A i \in I : \E k \in 1 .. o : i = At(h, k)

LEMMA ViewMoves ==
  ASSUME NEW h \in SQ_PTR, h = sq_trueHead, NEW T \in 0 .. SQ_SIZE, NEW a \in 0 .. SQ_SIZE,
         T <= a, NEW o \in 0 .. a, NEW c \in 0 .. T, NEW pops \in BOOLEAN,
         queue \in [SQ_PTR -> SQEntry], ea_calcd \in [SQ_PTR -> BOOLEAN],
         NEW en, NEW n, NEW I \in SUBSET SQ_PTR, NEW st \in [I -> ADDR],
         Allocated(en) = {At(h, k) : k \in T + 1 .. a},
         Within(I, h, T),
         nextQueue(en, st, n) \in [SQ_PTR -> SQEntry],
         Marked(nextQueue(en, st, n), c, h),
         Move(en, st, n, pops), queue' \in [SQ_PTR -> SQEntry],
         ea_calcd' \in [SQ_PTR -> BOOLEAN],
         FifoView = ViewOf(queue, ea_calcd, h, T),
         FifoView' = ViewOf(queue', ea_calcd', sq_trueHead', o - Bit(pops)),
         pops => o >= 1
  PROVE  ViewStep(T, Fired(I, h, T), Given(Fired(I, h, T), st, h), c, Bit(pops), o)
<1> DEFINE b == Bit(pops)
           F == Fired(I, h, T)
           address == Given(F, st, h)
           N == SQ_SIZE
           q == nextQueue(en, st, n)
<1>1. /\ N \in Nat /\ N >= 2 /\ b \in 0 .. 1 /\ (pops <=> b = 1)
      /\ o - b \in 0 .. N /\ T \in Nat /\ a \in Nat /\ o \in Nat /\ c \in Nat
  BY QueueAssumption DEF Bit
<1>2. /\ \A k \in 1 .. N + 1 : At(h, k) \in SQ_PTR
      /\ At(h, 1) = h
      /\ \A j, k \in 1 .. N : At(h, j) = At(h, k) => j = k
      /\ \A k \in 1 .. N : At(SQWrap(h + 1), k) = At(h, k + 1)
  BY RingFacts
<1>3. /\ sq_trueHead' = HeadAfter(h, pops) /\ HeadAfter(h, pops) \in SQ_PTR
      /\ pops => HeadAfter(h, pops) = SQWrap(h + 1)
      /\ ~pops => HeadAfter(h, pops) = h
  <2>1. sq_trueHead' = HeadAfter(h, pops)
    BY DEF Move, HeadAfter, nextTrueHead
  <2> QED BY <2>1, HeadAfterIs
<1>4. /\ ea_calcd' = next_ea_calcd(en, st)
      /\ queue' = IF pops THEN [q EXCEPT ![h].retired = FALSE] ELSE q
  BY DEF Move
<1>5. /\ DOMAIN st = I
      /\ \A i \in SQ_PTR :
           /\ q[i].addr = IF i \in I THEN st[i] ELSE IF i \in Allocated(en) THEN 0 ELSE queue[i].addr
           /\ ea_calcd'[i] <=> i \in I \/ (ea_calcd[i] /\ i \notin Allocated(en))
  BY <1>4 DEF nextQueue, next_ea_calcd
<1>6. \A k \in 1 .. T : /\ FifoView[k].addr = queue[At(h, k)].addr
                        /\ FifoView[k].executed = ea_calcd[At(h, k)]
  <2>1. Shows(FifoView, queue, ea_calcd, h, T)
    BY ViewFacts
  <2> QED BY <2>1 DEF Shows
<1>7. /\ FifoView' \in Seq(Fifo!Store) /\ DOMAIN FifoView' = 1 .. o - b
      /\ \A k \in 1 .. o - b :
           /\ FifoView'[k].addr = queue'[At(sq_trueHead', k)].addr
           /\ FifoView'[k].executed = ea_calcd'[At(sq_trueHead', k)]
           /\ FifoView'[k].retired = queue'[At(sq_trueHead', k)].retired
      /\ \A k \in 1 .. o - b : FifoView'[k] \in Fifo!Store
  <2>1. Shows(FifoView', queue', ea_calcd', sq_trueHead', o - b)
    BY <1>1, <1>3, ViewFacts
  <2> HIDE DEF b
  <2> QED BY <2>1 DEF Shows
<1>f. /\ F = {k \in 1 .. T : At(h, k) \in I}
      /\ \A k \in F : address[k] = st[At(h, k)]
  BY DEF Fired, Given
<1> HIDE DEF b, q, N, F, address
<1> SUFFICES ASSUME NEW k \in 1 .. o - b
             PROVE  FifoView'[k] = IF k + b <= T THEN Taken(k + b, F, address, c)
                                   ELSE Fifo!NewStore
  BY DEF ViewStep, b, F, address
<1> DEFINE j == k + b
           i == At(h, j)
           w == FifoView'[k]
<1>8. j \in 1 .. N /\ j <= o /\ k \in 1 .. N /\ j \in 1 .. N + 1 /\ (pops => j # 1)
  BY <1>1 DEF N
<1>9. At(sq_trueHead', k) = i
  <2>1. CASE pops
    BY <1>1, <1>2, <1>3, <1>8, <2>1
  <2>2. CASE ~pops
    <3>1. j = k
      BY <1>1, <2>2
    <3> QED BY <1>3, <2>2, <3>1
  <2> QED BY <2>1, <2>2
<1>10. i \in SQ_PTR /\ (pops => i # h)
  <2>1. 1 \in 1 .. N
    BY <1>1
  <2> HIDE DEF j
  <2> QED BY <1>2, <1>8, <2>1
<1> HIDE DEF i
<1>11. queue'[i] = q[i]
  BY <1>4, <1>10 DEF q
<1>12. w \in Fifo!Store /\ w.addr = q[i].addr
       /\ (w.executed <=> i \in I \/ (ea_calcd[i] /\ i \notin Allocated(en)))
       /\ (w.retired <=> j <= c)
  <2>1. w \in Fifo!Store
    BY <1>7
  <2>2. q[i].retired <=> j <= c
    BY <1>8 DEF Marked, N, q, i
  <2>3. /\ w.addr = queue'[i].addr /\ w.executed = ea_calcd'[i]
        /\ w.retired = queue'[i].retired
    BY <1>7, <1>9
  <2> QED BY <1>5, <1>10, <1>11, <2>1, <2>2, <2>3
<1> HIDE DEF w
<1>13. w = [addr |-> w.addr, executed |-> w.executed, retired |-> w.retired]
       /\ w.executed \in BOOLEAN /\ w.retired \in BOOLEAN
  BY <1>12 DEF Fifo!Store
<1>14. CASE j <= T
  <2>1. j \in 1 .. T
    BY <1>1, <1>8, <1>14
  <2>2. i \notin Allocated(en)
    <3> SUFFICES ASSUME NEW m \in T + 1 .. a, i = At(h, m) PROVE FALSE
      OBVIOUS
    <3>1. m \in 1 .. N /\ m # j
      BY <1>1, <2>1 DEF N
    <3> QED BY <1>2, <1>8, <3>1 DEF i
  <2>3. i \in I <=> j \in F
    BY <1>f, <2>1 DEF i
  <2>4. j \in F => address[j] = st[i]
    BY <1>f DEF i
  <2>5. FifoView[j].addr = queue[i].addr /\ FifoView[j].executed = ea_calcd[i]
    BY <1>6, <2>1 DEF i
  <2>6. ea_calcd[i] \in BOOLEAN
    BY <1>10
  <2> HIDE DEF j
  <2>7. w.addr = (IF j \in F THEN address[j] ELSE FifoView[j].addr)
    BY <1>5, <1>10, <1>12, <2>2, <2>3, <2>4, <2>5
  <2>8. w.executed = (IF j \in F THEN TRUE ELSE FifoView[j].executed)
    BY <1>12, <1>13, <2>2, <2>3, <2>5, <2>6
  <2>9. w.retired = (j <= c)
    BY <1>12, <1>13
  <2>10. w = Taken(j, F, address, c)
    BY <1>13, <2>7, <2>8, <2>9 DEF Taken
  <2> QED BY <1>14, <2>10 DEF w, j
<1>15. CASE ~(j <= T)
  <2>1. j \in T + 1 .. a /\ ~(j <= c)
    BY <1>1, <1>8, <1>15
  <2>2. i \in Allocated(en)
    BY <2>1 DEF i
  <2>3. i \notin I
    <3> SUFFICES ASSUME NEW m \in 1 .. T, i = At(h, m) PROVE FALSE
      BY DEF Within
    <3>1. m \in 1 .. N /\ m # j
      BY <1>1, <2>1 DEF N
    <3> QED BY <1>2, <1>8, <3>1 DEF i
  <2> HIDE DEF j
  <2>4. w.addr = 0 /\ w.executed = FALSE /\ w.retired = FALSE
    BY <1>5, <1>10, <1>12, <1>13, <2>1, <2>2, <2>3
  <2>5. w = Fifo!NewStore
    BY <1>13, <2>4 DEF Fifo!NewStore
  <2> QED BY <1>15, <2>5 DEF w, j
<1> QED BY <1>14, <1>15 DEF w, j

(* The queue as the outside sees it. *)
LEMMA ViewIs ==
  ASSUME TypeOK, NEW r \in Nat, QueueInv(r)
  PROVE  FifoView = ViewOf(queue, ea_calcd, sq_trueHead, Total(r))
<1>1. Occupancy = Total(r)
  BY OlderIs
<1> QED BY <1>1, SlotIs DEF FifoView, ViewOf

LEMMA ViewAfterIs ==
  ASSUME NEW r, NEW o, LeftWith(r, o)
  PROVE  /\ FifoView' = ViewOf(queue', ea_calcd', sq_trueHead', o) /\ o \in 0 .. SQ_SIZE
         /\ queue' \in [SQ_PTR -> SQEntry] /\ ea_calcd' \in [SQ_PTR -> BOOLEAN]
         /\ sq_trueHead' \in SQ_PTR /\ r \in Nat
<1>1. /\ r \in Nat /\ QueueInv(r)' /\ Total(r)' = o
      /\ queue' \in [SQ_PTR -> SQEntry] /\ ea_calcd' \in [SQ_PTR -> BOOLEAN]
      /\ sq_trueHead' \in SQ_PTR /\ window' \in Seq(InFlight)
  BY DEF LeftWith, TypeOK
<1>2. o \in Nat
  <2>1. Len(window') \in Nat /\ Len(window') + 1 \in 1 .. Len(window') + 1
    BY <1>1
  <2>2. \A p \in 1 .. Len(window') + 1 : Below(window', r, p) \in Nat
    BY <1>1, <2>1, BelowFacts
  <2>3. Below(window', r, Len(window') + 1) = o
    BY <1>1 DEF Total
  <2> QED BY <2>1, <2>2, <2>3
<1>3. o \in 0 .. SQ_SIZE
  BY <1>1, <1>2, QueueAssumption DEF QueueInv
<1>4. Ends(sq_trueHead', sq_tail', sq_empty', o)
  BY <1>1 DEF QueueInv
<1>5. (IF sq_empty' THEN 0 ELSE SQWrap(sq_tail' - sq_trueHead') + 1) = o
  BY <1>1, <1>3, <1>4, OccupancyIs
<1>6. Occupancy' = o
  BY <1>5 DEF Occupancy, SQDist
<1>7. \A k : Slot(k)' = At(sq_trueHead', k)
  BY DEF Slot, At
<1> QED BY <1>1, <1>3, <1>6, <1>7 DEF FifoView, ViewOf

(* What retires in a cycle had executed before it. *)
LEMMA RetiresExecuted ==
  ASSUME TypeOK, NEW r \in Nat, QueueInv(r), NEW n \in Retirements
  PROVE  Known(ea_calcd, RetiredAfter(r, n), sq_trueHead)
<1> DEFINE h == sq_trueHead
           l == Len(window)
<1>1. /\ l \in Nat
      /\ \A p \in 1 .. l : window[p].kind = "store" =>
           /\ window[p].index = At(h, Below(window, r, p) + 1)
           /\ ea_calcd[window[p].index] <=> window[p].state = "done"
  BY StoreSlots
<1>2. n \in Nat /\ n <= l /\ \A p \in 1 .. n : window[p].state = "done"
  BY <1>1 DEF Retirements
<1>3. \A k \in r + 1 .. Below(window, r, n + 1) :
        \E p \in 1 .. n : window[p].kind = "store" /\ Below(window, r, p) = k - 1
  BY <1>2, BelowFacts
<1> SUFFICES ASSUME NEW k \in 1 .. Below(window, r, n + 1) PROVE ea_calcd[At(h, k)]
  BY DEF Known, RetiredAfter
<1>4. CASE k <= r
  <2>1. k \in 1 .. r
    BY <1>4
  <2> QED BY <2>1 DEF QueueInv, Known
<1>5. CASE ~(k <= r)
  <2>1. k \in r + 1 .. Below(window, r, n + 1)
    BY <1>5
  <2>2. PICK p \in 1 .. n : window[p].kind = "store" /\ Below(window, r, p) = k - 1
    BY <1>3, <2>1
  <2>3. p \in 1 .. l /\ (k - 1) + 1 = k
    BY <1>1, <1>2
  <2> QED BY <1>1, <1>2, <2>2, <2>3
<1> QED BY <1>4, <1>5

(* At most two stores execute, and none a second time. *)
LEMMA ExecutesOnce ==
  ASSUME TypeOK, NEW r \in Nat, QueueInv(r), NEW S \in Executions, NEW st \in Addresses(S),
         NEW F, F = Fired(DOMAIN st, sq_trueHead, Total(r))
  PROVE  /\ \A k \in F : ~ea_calcd[At(sq_trueHead, k)]
         /\ Cardinality(F) <= 2
<1> DEFINE h == sq_trueHead
           l == Len(window)
           T == Total(r)
           f == [p \in S |-> Below(window, r, p) + 1]
<1>1. /\ h \in SQ_PTR /\ SQ_SIZE \in Nat /\ T \in 0 .. SQ_SIZE
      /\ l \in Nat /\ DOMAIN window = 1 .. l
      /\ \A p \in 1 .. l : window[p].kind = "store" =>
           /\ Below(window, r, p) + 1 \in 1 .. T
           /\ window[p].index = At(h, Below(window, r, p) + 1)
           /\ ea_calcd[window[p].index] <=> window[p].state = "done"
  BY StoreSlots
<1> HIDE DEF l, T
<1>2. /\ S \in SUBSET (1 .. l)
      /\ \A p \in S : window[p].kind = "store" /\ window[p].state = "waiting"
      /\ Cardinality(S) + Cardinality(Positions("load", "issued")) <= 2
  BY <1>1 DEF Executions, Positions
<1>3. DOMAIN st = {window[p].index : p \in S}
  BY DEF Addresses
<1>4. ASSUME NEW k \in F
      PROVE  ~ea_calcd[At(h, k)] /\ \E p \in S : f[p] = k
  <2>1. k \in 1 .. T /\ At(h, k) \in DOMAIN st
    BY DEF T, Fired
  <2>2. PICK p \in S : window[p].index = At(h, k)
    BY <1>3, <2>1
  <2>3. /\ Below(window, r, p) + 1 \in 1 .. T
        /\ window[p].index = At(h, Below(window, r, p) + 1)
        /\ ~ea_calcd[window[p].index]
    BY <1>1, <1>2
  <2>4. \A i, j \in 1 .. SQ_SIZE : At(h, i) = At(h, j) => i = j
    BY <1>1, RingFacts
  <2>5. k \in 1 .. SQ_SIZE /\ Below(window, r, p) + 1 \in 1 .. SQ_SIZE
    BY <1>1, <2>1, <2>3
  <2>6. Below(window, r, p) + 1 = k
    BY <2>2, <2>3, <2>4, <2>5
  <2> QED BY <2>2, <2>3, <2>6
<1>5. \A p \in S : f[p] \in F
  <2> SUFFICES ASSUME NEW p \in S PROVE Below(window, r, p) + 1 \in F
    OBVIOUS
  <2>1. /\ Below(window, r, p) + 1 \in 1 .. T
        /\ At(h, Below(window, r, p) + 1) \in DOMAIN st
    BY <1>1, <1>2, <1>3
  <2> QED BY <2>1 DEF T, Fired
<1>6. f \in Surjection(S, F)
  BY <1>4, <1>5 DEF Surjection
<1>7. IsFiniteSet(S)
  <2>1. IsFiniteSet(1 .. l)
    <3>1. 1 \in Int /\ l \in Int
      BY <1>1
    <3> QED BY <3>1, FS_Interval
  <2> QED BY <1>2, <2>1, FS_Subset
<1> HIDE DEF f
<1>8. Cardinality(F) <= Cardinality(S)
  BY <1>6, <1>7, FS_Surjection
<1>9. Cardinality(Positions("load", "issued")) \in Nat
  <2>1. IsFiniteSet(1 .. l) /\ Positions("load", "issued") \in SUBSET (1 .. l)
    <3>1. 1 \in Int /\ l \in Int
      BY <1>1
    <3> QED BY <1>1, <3>1, FS_Interval DEF Positions
  <2> QED BY <2>1, FS_Subset, FS_CardinalityType
<1>10. IsFiniteSet(F) /\ Cardinality(F) \in Nat /\ Cardinality(S) \in Nat
  <2>1. IsFiniteSet(F)
    BY <1>6, <1>7, FS_Surjection
  <2> QED BY <1>7, <2>1, FS_CardinalityType
<1>11. Cardinality(F) <= 2
  BY <1>2, <1>8, <1>9, <1>10
<1> QED BY <1>4, <1>11

LEMMA CycleImplements ==
  ASSUME TypeOK, NEW r \in Nat, QueueInv(r),
         NEW n \in Retirements, NEW S \in Executions, NEW st \in Addresses(S),
         NEW pops \in BOOLEAN, NEW en, NEW a \in Nat, a <= SQ_SIZE,
         Total(r) <= a, a <= Total(r) + 2,
         Allocated(en) = {At(sq_trueHead, k) : k \in Total(r) + 1 .. a},
         Move(en, st, rob_nRetireStores(n), pops),
         NEW o \in Nat, RetiredAfter(r, n) <= o, o <= a,
         LeftWith(RetiredAfter(r, n) - Bit(pops), o - Bit(pops))
  PROVE  Fifo!Next
<1> DEFINE h  == sq_trueHead
           N  == SQ_SIZE
           T  == Total(r)
           l  == Len(window)
           ns == rob_nRetireStores(n)
           c  == RetiredAfter(r, n)
           I  == DOMAIN st
           F  == Fired(I, h, T)
           address == Given(F, st, h)
           E  == {}
           A  == Advanced(S \cup Positions("load", "issued") \cup E, E)
<1>1. /\ h \in SQ_PTR /\ N \in Nat /\ N >= 2 /\ l \in Nat
      /\ r <= T /\ T \in 0 .. N
      /\ \A p \in 1 .. l + 1 : Below(window, r, p) \in r .. T
  BY StoreSlots
<1>2. AdvancedWell(r, n, A, st, next_ea_calcd(en, st))
  <2>1. /\ E \in SUBSET Positions("load", "waiting")
        /\ E \in SUBSET Positions("branch", "waiting")
    OBVIOUS
  <2>2. E \in Issues(E)
    BY DEF Issues
  <2> HIDE DEF E
  <2> QED BY <2>1, <2>2, AdvanceFacts
<1>3. /\ n \in 0 .. 2 /\ n <= l /\ c = r + ns /\ I \in SUBSET SQ_PTR
      /\ \A i \in I : \E k \in 1 .. T : i = At(h, k)
  BY <1>2 DEF AdvancedWell
<1> HIDE DEF E, A
<1>4. ns \in 0 .. 2 /\ c \in r .. T /\ c \in 0 .. T /\ c \in Nat
  <2>1. n + 1 \in 1 .. l + 1
    BY <1>1, <1>3
  <2> QED BY <1>1, <1>3, <2>1, RetireAtMostTwo DEF RetiredAfter
<1>5. st \in [I -> ADDR] /\ I \in SUBSET SQ_PTR
  BY <1>3 DEF Addresses
<1>6. /\ nextQueue(en, st, ns) \in [SQ_PTR -> SQEntry]
      /\ Marked(nextQueue(en, st, ns), c, h)
  <2>1. r + ns <= T
    BY <1>1, <1>3, <1>4
  <2> HIDE DEF I, ns
  <2>2. /\ nextQueue(en, st, ns) \in [SQ_PTR -> SQEntry]
        /\ Marked(nextQueue(en, st, ns), r + ns, h)
    BY <1>4, <1>5, <2>1, RetireMarks
  <2> QED BY <1>3, <2>2
<1>7. /\ FifoView' = ViewOf(queue', ea_calcd', sq_trueHead', o - Bit(pops))
      /\ o - Bit(pops) \in 0 .. N /\ c - Bit(pops) \in Nat
      /\ queue' \in [SQ_PTR -> SQEntry] /\ ea_calcd' \in [SQ_PTR -> BOOLEAN]
      /\ sq_trueHead' \in SQ_PTR
  BY ViewAfterIs
<1>8. /\ queue \in [SQ_PTR -> SQEntry] /\ ea_calcd \in [SQ_PTR -> BOOLEAN]
      /\ FifoView = ViewOf(queue, ea_calcd, h, T)
  BY ViewIs DEF TypeOK
<1>9. pops => c >= 1 /\ o >= 1
  <2>1. pops => Bit(pops) = 1
    BY DEF Bit
  <2>2. c \in Nat /\ c - Bit(pops) \in Nat /\ o - Bit(pops) \in Nat
    BY <1>1, <1>4, <1>7
  <2> HIDE DEF c
  <2>3. c - 1 \in Nat => c >= 1
    BY <2>2
  <2>4. o - 1 \in Nat => o >= 1
    OBVIOUS
  <2> QED BY <2>1, <2>2, <2>3, <2>4
<1>10. /\ \A k \in F : ~ea_calcd[At(h, k)]
       /\ Cardinality(F) <= 2
  <2> HIDE DEF F
  <2>1. F = Fired(DOMAIN st, sq_trueHead, Total(r))
    BY DEF F
  <2> QED BY <2>1, ExecutesOnce
<1>11. Known(ea_calcd, c, h)
  BY RetiresExecuted
<1> HIDE DEF c, ns, I
<1>12. ViewStep(T, F, address, c, Bit(pops), o)
  <2>1. a \in 0 .. N /\ o \in 0 .. a /\ T <= a
    BY <1>1
  <2>2. F = Fired(I, h, T) /\ address = Given(Fired(I, h, T), st, h)
    OBVIOUS
  <2>3. Move(en, st, ns, pops)
    BY DEF ns
  <2>4. Allocated(en) = {At(h, k) : k \in T + 1 .. a} /\ Within(I, h, T)
    BY <1>3 DEF Within
  <2> HIDE DEF F, address, T
  <2> QED BY <1>1, <1>4, <1>5, <1>6, <1>7, <1>8, <1>9, <2>1, <2>2, <2>3, <2>4, ViewMoves
<1>13. /\ FifoView \in Seq(Fifo!Store) /\ Len(FifoView) = T /\ DOMAIN FifoView = 1 .. T
       /\ \A k \in 1 .. T : /\ FifoView[k].executed = ea_calcd[At(h, k)]
                            /\ FifoView[k].retired = queue[At(h, k)].retired
  <2>1. Shows(FifoView, queue, ea_calcd, h, T)
    BY <1>1, <1>8, ViewFacts
  <2> QED BY <2>1 DEF Shows
<1>14. FifoView' \in Seq(Fifo!Store) /\ Len(FifoView') = o - Bit(pops)
  <2>1. Shows(FifoView', queue', ea_calcd', sq_trueHead', o - Bit(pops))
    BY <1>7, ViewFacts
  <2> QED BY <2>1 DEF Shows
<1>15. RetiredFirst(FifoView, r)
  <2> SUFFICES ASSUME NEW k \in 1 .. T PROVE queue[At(h, k)].retired <=> k <= r
    BY <1>13 DEF RetiredFirst
  <2>1. k \in 1 .. N
    BY <1>1
  <2> QED BY <2>1 DEF QueueInv, Marked
<1>16. \A k \in 1 .. c : FifoView[k].executed
  <2> SUFFICES ASSUME NEW k \in 1 .. c PROVE FifoView[k].executed
    OBVIOUS
  <2>1. k \in 1 .. T
    BY <1>1, <1>4
  <2> QED BY <1>11, <1>13, <2>1 DEF Known
<1>17. FifoMove(T, r, ns, F, address, pops, o)
  <2>1. /\ c <= T /\ c <= o /\ o <= T + 2 /\ o <= SQ_SIZE
    BY <1>1, <1>4 DEF c
  <2> HIDE DEF F, address, T
  <2> QED BY <1>3, <1>9, <1>12, <1>13, <1>14, <1>15, <1>16, <2>1 DEF FifoMove, ViewStep
<1>18. F \in SUBSET {k \in DOMAIN FifoView : ~FifoView[k].executed}
  <2>1. F \in SUBSET (1 .. T)
    BY DEF Fired
  <2> HIDE DEF F
  <2> QED BY <1>10, <1>13, <2>1
<1>19. address \in [F -> ADDR]
  <2>1. \A k \in F : st[At(h, k)] \in ADDR
    BY <1>5 DEF Fired
  <2> HIDE DEF F
  <2> QED BY <2>1 DEF Given
<1>20. T \in Nat
  BY <1>1
<1> HIDE DEF F, address, T
<1> QED BY <1>4, <1>10, <1>17, <1>18, <1>19, <1>20, MoveIsStep

LEMMA StutterImplements ==
  ASSUME UNCHANGED vars
  PROVE  FifoView' = FifoView
<1>1. Occupancy' = Occupancy /\ \A k : Slot(k)' = Slot(k)
  BY DEF vars, Occupancy, SQDist, Slot
<1> QED BY <1>1 DEF vars, FifoView

LEMMA QueueImplements == IInv /\ [SafeNext]_vars => [Fifo!Next]_FifoView
<1> SUFFICES ASSUME IInv, [SafeNext]_vars PROVE Fifo!Next \/ FifoView' = FifoView
  OBVIOUS
<1>1. TypeOK /\ \E r \in Nat : QueueInv(r)
  BY DEF IInv, OrderInv
<1>2. PICK r \in Nat : QueueInv(r)
  BY <1>1
<1> DEFINE h == sq_trueHead
           T == Total(r)
<1>3. /\ h \in SQ_PTR /\ SQ_SIZE \in Nat /\ Len(window) \in Nat /\ DOMAIN window = 1 .. Len(window)
      /\ T \in 0 .. SQ_SIZE
      /\ \A p \in 1 .. Len(window) + 1 : Below(window, r, p) \in r .. T
  BY <1>1, <1>2, StoreSlots
<1>4. CASE DispatchCycle /\ Cardinality(RetiredWaiting') # SQ_SIZE - 1
  <2>1. PICK n \in Retirements, isns \in Offers, S \in Executions, pops \in BOOLEAN,
             issued \in Issues(Positions("load", "waiting")), resolved \in Resolved :
          \E st \in Addresses(S) :
            /\ Len(window) - n + Len(isns) <= WINDOW
            /\ Cycle(isns, n, S, st, issued, resolved, pops)
    BY <1>4 DEF DispatchCycle
  <2>2. PICK st \in Addresses(S) :
          /\ Len(window) - n + Len(isns) <= WINDOW
          /\ Cycle(isns, n, S, st, issued, resolved, pops)
    BY <2>1
  <2> DEFINE en == ib_store_en(isns)
             D  == Dispatched(isns)
             o  == Below(D, T, Len(D) + 1)
  <2>3. LeftWith(RetiredAfter(r, n) - Bit(pops), o - Bit(pops))
    BY <1>1, <1>2, <1>4, <2>1, <2>2, DispatchStep
  <2>4. /\ D \in Seq(InFlight) /\ Len(D) = Len(isns) /\ o \in T .. SQ_SIZE
        /\ Allocated(en) = {At(h, k) : k \in T + 1 .. o}
    <3>1. sq_tail \in SQ_PTR /\ sq_empty \in BOOLEAN
      BY <1>1 DEF TypeOK
    <3>2. Ends(h, sq_tail, sq_empty, T)
      BY <1>2 DEF QueueInv
    <3>3. DispatchedWell(isns, T)
      BY <1>3, <3>1, <3>2, DispatchFacts
    <3> QED BY <3>3 DEF DispatchedWell
  <2>5. Move(en, st, rob_nRetireStores(n), pops)
    BY <2>2 DEF Cycle, SQCycle
  <2>6. o <= T + 2
    <3>1. Len(D) \in 0 .. 2
      BY <2>4 DEF Offers
    <3>2. /\ Below(D, T, 1) = T
          /\ \A p \in 1 .. Len(D) : Below(D, T, p + 1) = Below(D, T, p) + Bit(D[p].kind = "store")
      <4>1. T \in Nat /\ Len(D) \in Nat
        BY <1>3, <3>1
      <4> HIDE DEF D, T
      <4> QED BY <4>1, BelowFacts
    <3> DEFINE B(p) == Below(D, T, p)
               K(p) == Bit(D[p].kind = "store")
    <3>3. \A p : K(p) \in 0 .. 1
      BY DEF Bit
    <3> HIDE DEF D, T, B, K
    <3>4. B(1) = T /\ \A p \in 1 .. Len(D) : B(p + 1) = B(p) + K(p)
      BY <3>2 DEF B, K
    <3>5. CASE Len(D) = 0
      <4>1. o = B(1)
        BY <3>5 DEF o, B
      <4> QED BY <1>3, <3>4, <4>1
    <3>6. CASE Len(D) = 1
      <4>1. o = B(2) /\ B(1 + 1) = B(1) + K(1)
        BY <3>4, <3>6 DEF o, B
      <4> QED BY <1>3, <3>3, <3>4, <4>1
    <3>7. CASE Len(D) = 2
      <4>1. o = B(3) /\ B(1 + 1) = B(1) + K(1) /\ B(2 + 1) = B(2) + K(2)
        BY <3>4, <3>7 DEF o, B
      <4> QED BY <1>3, <3>3, <3>4, <4>1
    <3> QED BY <3>1, <3>5, <3>6, <3>7
  <2>7. n + 1 \in 1 .. Len(window) + 1
    BY <1>3 DEF Retirements
  <2>8. RetiredAfter(r, n) \in r .. T
    BY <1>3, <2>7 DEF RetiredAfter
  <2> HIDE DEF o, en, D
  <2>9. o \in Nat /\ T <= o /\ o <= SQ_SIZE /\ RetiredAfter(r, n) <= o /\ o <= o
    BY <1>3, <2>4, <2>8
  <2> QED BY <1>1, <1>2, <2>3, <2>4, <2>5, <2>6, <2>9, CycleImplements
<1>5. CASE /\ \E b \in Positions("branch", "waiting") : RecoverCycle(b) /\ ~AllOlder(b)
           /\ Cardinality(RetiredWaiting') # SQ_SIZE - 1
  <2>1. PICK b \in Positions("branch", "waiting") : RecoverCycle(b) /\ ~AllOlder(b)
    BY <1>5
  <2>2. PICK n \in Retirements, S \in Executions, pops \in BOOLEAN :
          \E st \in Addresses(S),
             issued \in Issues({p \in Positions("load", "waiting") : p < b}) :
            Recover(b, n, S, st, issued, pops)
    BY <2>1 DEF RecoverCycle
  <2>3. PICK st \in Addresses(S),
             issued \in Issues({p \in Positions("load", "waiting") : p < b}) :
          Recover(b, n, S, st, issued, pops)
    BY <2>2
  <2> DEFINE en == <<FALSE, FALSE>>
             o  == Below(window, r, b)
  <2>4. LeftWith(RetiredAfter(r, n) - Bit(pops), o - Bit(pops))
    BY <1>1, <1>2, <1>5, <2>1, <2>2, <2>3, RecoverStep
  <2>5. Move(en, st, rob_nRetireStores(n), pops)
    BY <2>3 DEF Recover, SQRecover
  <2>6. Allocated(en) = {At(h, k) : k \in T + 1 .. T}
    <3>1. Allocated(en) = {}
      <4>1. ~en[1] /\ ~en[2]
        OBVIOUS
      <4>2. {j \in 1 .. 2 : en[j]} = {}
        <5> HIDE DEF en
        <5> QED BY <4>1
      <4> HIDE DEF en
      <4> QED BY <4>2 DEF Allocated
    <3>2. T + 1 .. T = {}
      BY <1>3
    <3> QED BY <3>1, <3>2
  <2>7. RetiredAfter(r, n) <= o /\ o \in r .. T
    <3>1. /\ b \in 1 .. Len(window) /\ window[b].state = "waiting"
          /\ n \in 0 .. 2 /\ \A p \in 1 .. n : window[p].state = "done"
      BY <1>3 DEF Positions, Retirements
    <3>2. n < b
      <4> SUFFICES ASSUME ~(n < b) PROVE FALSE
        OBVIOUS
      <4>1. b \in 1 .. n
        BY <3>1
      <4> QED BY <3>1, <4>1
    <3>3. n + 1 \in 1 .. Len(window) + 1 /\ b \in 1 .. Len(window) + 1 /\ n + 1 <= b
      BY <1>3, <3>1, <3>2
    <3>4. \A p, q \in 1 .. Len(window) + 1 : p <= q => Below(window, r, p) <= Below(window, r, q)
      BY <1>3, BelowFacts
    <3> QED BY <1>3, <3>3, <3>4 DEF RetiredAfter
  <2> HIDE DEF o, en
  <2>8. T \in Nat /\ T <= SQ_SIZE /\ T <= T /\ T <= T + 2 /\ o \in Nat /\ o <= T
    BY <1>2, <1>3, <2>7
  <2> QED BY <1>1, <1>2, <2>2, <2>3, <2>4, <2>5, <2>6, <2>7, <2>8, CycleImplements
<1>6. CASE UNCHANGED vars
  BY <1>6, StutterImplements
<1> QED BY <1>4, <1>5, <1>6 DEF SafeNext

LEMMA FifoInit == Init => Fifo!Init
<1> SUFFICES ASSUME Init PROVE FifoView = <<>>
  BY DEF Fifo!Init
<1>1. Occupancy = 0
  BY DEF Init, SQInit, Occupancy
<1>2. 1 .. Occupancy = {}
  BY <1>1
<1> QED BY <1>2 DEF FifoView

(***************************************************************************)
(* The theorems.                                                             *)
(***************************************************************************)
(* The queue is the retired stores and then the stores of the window, in      *)
(* program order, each in the slot its station knows: neither the wrap nor a  *)
(* recovery nor a queue that becomes empty loses one.  (SQ.v:101-146,         *)
(* 178-223.)                                                                  *)
THEOREM QueueHoldsProgramOrderHolds == SafeSpec => []QueueHoldsProgramOrder
BY OrderInvariant, ProgramOrder, PTL

(* Every checkpoint knows where the stores older than its branch end.         *)
(* (BranchStack.v:62, 70; SQ.v:208-219.)                                      *)
THEOREM CheckpointsKeepTheOlderHolds == SafeSpec => []CheckpointsKeepTheOlder
BY OrderInvariant, CheckpointsGood, PTL

(* No load is issued past an older store whose address is unknown, whatever   *)
(* has been sent, dispatched or squashed since the load got its index.        *)
(* (RS.v:86-89, SQ.v:83-94.)                                                  *)
THEOREM LoadsWaitForOlderHolds == SafeSpec => []LoadsWaitForOlder
BY OrderInvariant, LoadsWaited, PTL

(* The look-up finds the youngest older store with the load's address.        *)
(* (SQ.v:159-176.)                                                            *)
THEOREM LoadSeesYoungestOlderHolds == SafeSpec => []LoadSeesYoungestOlder
BY OrderInvariant, YoungestSeen, PTL

(* Whatever the ring does in a cycle, it is a step of a queue that stores     *)
(* enter in program order, leave in that order for memory, once, after they   *)
(* have executed and retired, and that a misprediction cuts down to the       *)
(* stores older than the branch.                                              *)
THEOREM QueueImplementsFifo == SafeSpec => ImplementsFifo
BY OrderInvariant, QueueImplements, FifoInit, PTL
   DEF SafeSpec, ImplementsFifo, Fifo!Spec
=============================================================================
