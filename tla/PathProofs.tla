------------------------------ MODULE PathProofs -----------------------------
(***************************************************************************)
(* The path of a result from the stations to the bus, for any number of tags, *)
(* of checkpoints and of instructions in flight: what the program order says  *)
(* of an instruction and how a cycle changes it; then through a unit of one    *)
(* cycle that drops what is mispredicted while it is computed (the ALUs and    *)
(* the branch unit); then through the multiplier, for any number of stages.    *)
(***************************************************************************)
EXTENDS ResultPathProps, MultPathProps

Members == {Instr(t) : t \in TAG} \cup {Branch(b) : b \in BRANCH}

\* The instructions and branches of a window, and the branches before one of
\* its instructions.
Tags(w)     == {t \in TAG : \E p \in DOMAIN w : w[p] = Instr(t)}
Branches(w) == {b \in BRANCH : \E p \in DOMAIN w : w[p] = Branch(b)}
Older(w, t) ==
  {b \in BRANCH : \E p, q \in DOMAIN w : p < q /\ w[p] = Branch(b) /\ w[q] = Instr(t)}

OnceEach(w) == \A p, q \in DOMAIN w : w[p] = w[q] => p = q
InOrder(w)  == w \in Seq(Members) /\ OnceEach(w)

LEMMA MemberKinds ==
  /\ \A t, u : Instr(t) = Instr(u) => t = u
  /\ \A b, c : Branch(b) = Branch(c) => b = c
  /\ \A t, b : Instr(t) # Branch(b)
  /\ \A m \in Members : \/ ~m.branch /\ m.id \in TAG /\ m = Instr(m.id)
                        \/ m.branch /\ m.id \in BRANCH /\ m = Branch(m.id)
BY DEF Members, Instr, Branch

(* The operators of Station, said of the window's members. *)
LEMMA WindowReads ==
  ASSUME InOrder(window)
  PROVE  /\ LiveTags = Tags(window) /\ Unresolved = Branches(window)
         /\ \A t \in LiveTags : OlderBranches(t) = Older(window, t)
<1>1. /\ DOMAIN window = 1 .. Len(window) /\ Len(window) \in Nat
      /\ \A p \in DOMAIN window : window[p] \in Members
  BY DEF InOrder
<1>2. LiveTags = Tags(window)
  <2>1. \A p \in DOMAIN window :
          /\ ~window[p].branch => window[p].id \in TAG /\ window[p] = Instr(window[p].id)
          /\ \A t : window[p] = Instr(t) => ~window[p].branch /\ window[p].id = t
    BY <1>1, MemberKinds DEF Instr
  <2>2. \A t \in LiveTags : t \in Tags(window)
    BY <2>1 DEF LiveTags, Tags
  <2>3. \A t \in Tags(window) : t \in LiveTags
    BY <2>1 DEF LiveTags, Tags
  <2> QED BY <2>2, <2>3
<1>3. Unresolved = Branches(window)
  <2>1. \A p \in DOMAIN window :
          /\ window[p].branch => window[p].id \in BRANCH /\ window[p] = Branch(window[p].id)
          /\ \A b : window[p] = Branch(b) => window[p].branch /\ window[p].id = b
    BY <1>1, MemberKinds DEF Branch
  <2>2. \A b \in Unresolved : b \in Branches(window)
    BY <2>1 DEF Unresolved, Branches
  <2>3. \A b \in Branches(window) : b \in Unresolved
    BY <2>1 DEF Unresolved, Branches
  <2> QED BY <2>2, <2>3
<1>4. ASSUME NEW t \in LiveTags PROVE OlderBranches(t) = Older(window, t)
  <2>1. PICK q \in DOMAIN window : window[q] = Instr(t)
    BY <1>2 DEF Tags
  <2>2. PlaceOf(t) = q
    BY <2>1 DEF PlaceOf, InOrder, OnceEach
  <2>3. \A r \in DOMAIN window : window[r] = Instr(t) => r = q
    BY <2>1 DEF InOrder, OnceEach
  <2> QED BY <1>3, <2>1, <2>2, <2>3 DEF OlderBranches, Older, Branches
<1> QED BY <1>2, <1>3, <1>4

(* The window names each of its members once. *)
LEMMA WindowOnce ==
  ASSUME InOrder(window)
  PROVE  WindowOK /\ IsFiniteSet(LiveTags)
<1> DEFINE n == Len(window)
           P == {p \in 1 .. n : ~window[p].branch}
           Q == {p \in 1 .. n : window[p].branch}
<1>1. /\ DOMAIN window = 1 .. n /\ n \in Nat
      /\ \A p \in 1 .. n : window[p] \in Members
  BY DEF InOrder
<1>2. /\ IsFiniteSet(P) /\ IsFiniteSet(Q)
      /\ Cardinality(P) + Cardinality(Q) = n
      /\ Cardinality(P) \in Nat /\ Cardinality(Q) \in Nat
  <2>1. IsFiniteSet(1 .. n) /\ Cardinality(1 .. n) = n
    <3>1. 1 \in Int /\ n \in Int
      BY <1>1
    <3>2. IsFiniteSet(1 .. n) /\ Cardinality(1 .. n) = IF 1 > n THEN 0 ELSE n - 1 + 1
      BY <3>1, FS_Interval
    <3> QED BY <1>1, <3>2
  <2>2. P \in SUBSET (1 .. n) /\ Q \in SUBSET (1 .. n) /\ P \cup Q = 1 .. n /\ P \cap Q = {}
    OBVIOUS
  <2> HIDE DEF P, Q
  <2>3. IsFiniteSet(P) /\ IsFiniteSet(Q)
    BY <2>1, <2>2, FS_Subset
  <2>4. Cardinality(P \cup Q) = Cardinality(P) + Cardinality(Q) - Cardinality(P \cap Q)
    BY <2>3, FS_Union
  <2>5. Cardinality(P \cap Q) = 0
    BY <2>2, FS_EmptySet
  <2>6. Cardinality(P) \in Nat /\ Cardinality(Q) \in Nat
    BY <2>3, FS_CardinalityType
  <2>7. Cardinality(P \cup Q) = n
    BY <2>1, <2>2, Zenon
  <2> HIDE DEF n
  <2> QED BY <2>3, <2>4, <2>5, <2>6, <2>7
<1>3. ASSUME NEW R \in SUBSET (1 .. n), IsFiniteSet(R), NEW I,
             I = {window[p].id : p \in R},
             \A p, q \in R : window[p].id = window[q].id => p = q
      PROVE  IsFiniteSet(I) /\ Cardinality(I) = Cardinality(R)
  <2> DEFINE f == [p \in R |-> window[p].id]
  <2>1. f \in Bijection(R, I)
    BY <1>3 DEF Bijection, Injection, Surjection, IsInjective
  <2>2. ExistsBijection(R, I)
    BY <2>1 DEF ExistsBijection
  <2> QED BY <1>3, <2>2, FS_Bijection
<1>4. LiveTags = {window[p].id : p \in P} /\ Unresolved = {window[p].id : p \in Q}
  BY <1>1 DEF LiveTags, Unresolved
<1>5. /\ \A p, q \in P : window[p].id = window[q].id => p = q
      /\ \A p, q \in Q : window[p].id = window[q].id => p = q
  <2>1. \A p, q \in 1 .. n : window[p] = window[q] => p = q
    BY <1>1 DEF InOrder, OnceEach
  <2>2. \A p \in P : window[p] = Instr(window[p].id)
    BY <1>1, MemberKinds
  <2>3. \A p \in Q : window[p] = Branch(window[p].id)
    BY <1>1, MemberKinds
  <2> QED BY <2>1, <2>2, <2>3
<1>6. P \in SUBSET (1 .. n) /\ Q \in SUBSET (1 .. n)
  OBVIOUS
<1>7. \A p \in DOMAIN window : \/ window[p].branch /\ window[p].id \in BRANCH
                               \/ ~window[p].branch /\ window[p].id \in TAG
  BY <1>1, MemberKinds
<1> HIDE DEF P, Q
<1>8. /\ IsFiniteSet(LiveTags) /\ Cardinality(LiveTags) = Cardinality(P)
      /\ Cardinality(Unresolved) = Cardinality(Q)
  <2>1. IsFiniteSet(LiveTags) /\ Cardinality(LiveTags) = Cardinality(P)
    BY <1>2, <1>3, <1>4, <1>5, <1>6
  <2>2. Cardinality(Unresolved) = Cardinality(Q)
    BY <1>2, <1>3, <1>4, <1>5, <1>6
  <2> QED BY <2>1, <2>2
<1> QED BY <1>2, <1>7, <1>8 DEF WindowOK

-----------------------------------------------------------------------------
(* What a cycle does to the window: tags are broadcast, the branches of      *)
(* cleared and killed resolve, isns are dispatched.                           *)
Resolves(cleared, killed) ==
  /\ cleared \subseteq BRANCH /\ killed \subseteq Branches(window)
  /\ \A b, c \in killed : b = c

\* The places of the window that remain.
Keeps(tags, cleared, killed) ==
  {p \in DOMAIN window :
     /\ \A q \in DOMAIN window, b \in killed : window[q] = Branch(b) => p < q
     /\ window[p].id \notin (IF window[p].branch THEN cleared ELSE tags)}

LEMMA RemainingPicks ==
  ASSUME NEW tags, NEW cleared, NEW killed, InOrder(window), Resolves(cleared, killed)
  PROVE  Remaining(tags, cleared, killed) = Picked(window, Keeps(tags, cleared, killed))
<1> DEFINE n == Len(window)
           last == IF killed = {} THEN n ELSE Upto(CHOOSE b \in killed : TRUE) - 1
<1>1. DOMAIN window = 1 .. n /\ n \in Nat
  BY DEF InOrder
<1>2. /\ last \in 0 .. n
      /\ \A p \in 1 .. n :
           p <= last <=> \A q \in DOMAIN window, b \in killed : window[q] = Branch(b) => p < q
  <2>1. CASE killed = {}
    BY <1>1, <2>1
  <2>2. CASE killed # {}
    <3> DEFINE k == CHOOSE b \in killed : TRUE
    <3>1. k \in killed /\ \A b \in killed : b = k
      BY <2>2 DEF Resolves
    <3>2. PICK r \in DOMAIN window : window[r] = Branch(k)
      BY <3>1 DEF Resolves, Branches
    <3>3. \A q \in DOMAIN window : window[q] = Branch(k) => q = r
      BY <3>2 DEF InOrder, OnceEach
    <3> HIDE DEF k
    <3>4. Upto(k) = r
      BY <3>2, <3>3 DEF Upto
    <3>5. last = r - 1
      BY <2>2, <3>4 DEF k
    <3> HIDE DEF last, n
    <3>6. r \in 1 .. n
      BY <1>1, <3>2
    <3>7. last \in 0 .. n
      BY <1>1, <3>5, <3>6
    <3>8. ASSUME NEW p \in 1 .. n
          PROVE p <= last <=> \A q \in DOMAIN window, b \in killed : window[q] = Branch(b) => p < q
      <4>1. p <= last <=> p < r
        BY <1>1, <3>5, <3>6
      <4>2. (\A q \in DOMAIN window, b \in killed : window[q] = Branch(b) => p < q) <=> p < r
        BY <3>1, <3>2, <3>3
      <4> QED BY <4>1, <4>2
    <3> QED BY <3>7, <3>8
  <2> QED BY <2>1, <2>2
<1>3. Keeps(tags, cleared, killed)
        = {p \in 1 .. last : window[p].id \notin (IF window[p].branch THEN cleared ELSE tags)}
  <2> HIDE DEF last
  <2>1. \A p : p \in 1 .. last <=> p \in 1 .. n /\ p <= last
    BY <1>1, <1>2
  <2> QED BY <1>1, <1>2, <2>1 DEF Keeps
<1> QED BY <1>3 DEF Remaining

(* The window w after the cycle. *)
Passes(w, isns, tags, cleared, killed) ==
  /\ InOrder(w) /\ Len(w) <= Len(window) + Len(isns)
  /\ \A t \in Tags(w) :
       \/ /\ t \in Tags(window) /\ t \notin tags
          /\ Older(window, t) \cap killed = {}
          /\ Older(w, t) = Older(window, t) \ cleared
       \/ /\ t \notin Tags(window) /\ isns = <<Instr(t)>>
          /\ Older(w, t) = Branches(window) \ cleared
  /\ \A t \in Tags(window) :
       t \notin tags /\ Older(window, t) \cap killed = {} => t \in Tags(w)
  /\ \A t \in TAG : isns = <<Instr(t)>> => t \in Tags(w) /\ t \notin Tags(window)

LEMMA WindowCycle ==
  ASSUME InOrder(window), NEW isns \in Offers, NEW tags, NEW cleared, NEW killed,
         Resolves(cleared, killed), killed # {} => isns = <<>>
  PROVE  Passes(Remaining(tags, cleared, killed) \o isns, isns, tags, cleared, killed)
<1> DEFINE K == Keeps(tags, cleared, killed)
           c == Cardinality(K)
           r == Remaining(tags, cleared, killed)
           w == r \o isns
<1>1. /\ DOMAIN window = 1 .. Len(window) /\ Len(window) \in Nat
      /\ \A p \in DOMAIN window : window[p] \in Members
      /\ window \in Seq(Members) /\ OnceEach(window)
  BY DEF InOrder
<1>2. K \in SUBSET (DOMAIN window)
  BY DEF Keeps
<1>3. /\ r \in Seq(Members)
      /\ Len(r) = c /\ c \in Nat /\ c <= Len(window)
      /\ \A k \in 1 .. c : Nth(K, k) \in K /\ r[k] = window[Nth(K, k)]
      /\ \A k, m \in 1 .. c : k < m => Nth(K, k) < Nth(K, m)
      /\ \A p \in K : Rank(K, p) \in 1 .. c /\ r[Rank(K, p)] = window[p]
      /\ \A p, q \in K : p < q => Rank(K, p) < Rank(K, q)
  <2>1. r = Picked(window, K)
    BY RemainingPicks
  <2> HIDE DEF K
  <2> QED BY <1>1, <1>2, <2>1, PickedFacts
<1>4. /\ isns = <<>> \/ (\E t \in TAG \ Tags(window) : isns = <<Instr(t)>>)
                     \/ (\E b \in BRANCH \ Branches(window) : isns = <<Branch(b)>>)
  BY WindowReads DEF Offers
<1>5. isns \in Seq(Members) /\ Len(isns) \in 0 .. 1
  <2>1. \A t \in TAG : Instr(t) \in Members
    BY DEF Members
  <2>2. \A b \in BRANCH : Branch(b) \in Members
    BY DEF Members
  <2>3. \A m \in Members : <<m>> \in Seq(Members) /\ Len(<<m>>) = 1
    OBVIOUS
  <2>4. <<>> \in Seq(Members) /\ Len(<<>>) = 0
    OBVIOUS
  <2>5. isns = <<>> \/ \E m \in Members : isns = <<m>>
    BY <1>4, <2>1, <2>2
  <2>6. ASSUME NEW m \in Members, isns = <<m>> PROVE isns \in Seq(Members) /\ Len(isns) = 1
    BY <2>3, <2>6, Zenon
  <2>7. ASSUME isns = <<>> PROVE isns \in Seq(Members) /\ Len(isns) = 0
    BY <2>4, <2>7, Zenon
  <2>8. isns \in Seq(Members) /\ (Len(isns) = 0 \/ Len(isns) = 1)
    BY <2>5, <2>6, <2>7
  <2> QED BY <2>8
<1>6. \A p \in DOMAIN window :
        p \in K <=> /\ \A q \in DOMAIN window, b \in killed : window[q] = Branch(b) => p < q
                    /\ window[p].id \notin (IF window[p].branch THEN cleared ELSE tags)
  BY DEF Keeps
<1> HIDE DEF K, c, r
<1>7. /\ w \in Seq(Members) /\ Len(w) = c + Len(isns) /\ DOMAIN w = 1 .. (c + Len(isns))
      /\ \A k \in 1 .. c : w[k] = r[k]
      /\ Len(isns) = 1 => w[c + 1] = isns[1]
  <2>0. \A S : \A a, b \in Seq(S) : a \o b \in Seq(S) /\ Len(a \o b) = Len(a) + Len(b)
    OBVIOUS
  <2>1. w \in Seq(Members) /\ Len(w) = Len(r) + Len(isns)
    BY <1>3, <1>5, <2>0
  <2>2. \A k \in 1 .. (Len(r) + Len(isns)) : w[k] = IF k <= Len(r) THEN r[k] ELSE isns[k - Len(r)]
    BY <1>3, <1>5
  <2> HIDE DEF w
  <2>3. DOMAIN w = 1 .. (c + Len(isns))
    BY <1>3, <1>5, <2>1
  <2>4. \A k \in 1 .. c : w[k] = r[k]
    BY <1>3, <1>5, <2>2
  <2>5. Len(isns) = 1 => w[c + 1] = isns[1]
    <3> SUFFICES ASSUME Len(isns) = 1 PROVE w[c + 1] = isns[1]
      OBVIOUS
    <3>1. c + 1 \in 1 .. (Len(r) + Len(isns)) /\ ~(c + 1 <= Len(r)) /\ (c + 1) - Len(r) = 1
      BY <1>3
    <3> QED BY <2>2, <3>1
  <2> QED BY <1>3, <2>1, <2>3, <2>4, <2>5
<1> HIDE DEF w
<1>8. \A k \in DOMAIN w : \/ k \in 1 .. c
                          \/ k = c + 1 /\ Len(isns) = 1
  <2> DEFINE l == Len(isns)
  <2>1. DOMAIN w = 1 .. (c + l) /\ l \in 0 .. 1 /\ c \in Nat
    BY <1>3, <1>5, <1>7
  <2> HIDE DEF l
  <2>2. \A k \in DOMAIN w : k \in 1 .. c \/ (k = c + 1 /\ l = 1)
    BY <2>1
  <2> QED BY <2>2 DEF l
<1>9. \A k \in 1 .. c : /\ Nth(K, k) \in DOMAIN window /\ Nth(K, k) \in K
                        /\ w[k] = window[Nth(K, k)] /\ k \in DOMAIN w
  <2> DEFINE l == Len(isns)
  <2>1. DOMAIN w = 1 .. (c + l) /\ l \in 0 .. 1 /\ c \in Nat
    BY <1>3, <1>5, <1>7
  <2> HIDE DEF l
  <2>2. \A k \in 1 .. c : k \in DOMAIN w
    BY <2>1
  <2> QED BY <1>2, <1>3, <1>7, <2>2
<1>10. Len(isns) = 1 => \A p \in DOMAIN window : window[p] # isns[1]
  <2>1. \A t \in TAG \ Tags(window) : \A p \in DOMAIN window : window[p] # Instr(t)
    BY DEF Tags
  <2>2. \A b \in BRANCH \ Branches(window) : \A p \in DOMAIN window : window[p] # Branch(b)
    BY DEF Branches
  <2> QED BY <1>4, <2>1, <2>2
<1>11. OnceEach(w)
  <2> SUFFICES ASSUME NEW k \in DOMAIN w, NEW m \in DOMAIN w, w[k] = w[m]
               PROVE  k = m
    BY DEF OnceEach
  <2>1. CASE k \in 1 .. c /\ m \in 1 .. c
    <3>1. Nth(K, k) = Nth(K, m)
      BY <1>1, <1>9, <2>1 DEF OnceEach
    <3>2. ~(k < m) /\ ~(m < k)
      <4>1. Nth(K, k) \in Nat
        BY <1>1, <1>9, <2>1
      <4> QED BY <1>3, <2>1, <3>1, <4>1
    <3> QED BY <1>3, <2>1, <3>2
  <2>2. ~(k \in 1 .. c /\ m \notin 1 .. c) /\ ~(m \in 1 .. c /\ k \notin 1 .. c)
    BY <1>7, <1>8, <1>9, <1>10
  <2> QED BY <1>8, <2>1, <2>2
\* A member of the window that stays, and one that comes.
<1>12. ASSUME NEW p \in K
       PROVE  /\ Rank(K, p) \in DOMAIN w /\ Rank(K, p) \in 1 .. c
              /\ w[Rank(K, p)] = window[p]
  BY <1>3, <1>5, <1>7
<1>13. ASSUME NEW t \in TAG, NEW q \in DOMAIN window, window[q] = Instr(t)
       PROVE  q \in K <=> t \notin tags /\ Older(window, t) \cap killed = {}
  <2>1. ~window[q].branch /\ window[q].id = t
    BY <1>13 DEF Instr
  <2>2. (\A p \in DOMAIN window, b \in killed : window[p] = Branch(b) => q < p)
          <=> Older(window, t) \cap killed = {}
    <3>1. \A p \in DOMAIN window, b \in killed : window[p] = Branch(b) => p # q
      BY <1>13, MemberKinds
    <3>2. \A p \in DOMAIN window : window[p] = Instr(t) => p = q
      BY <1>1, <1>13 DEF OnceEach
    <3>3. \A p \in DOMAIN window : p # q => (q < p <=> ~(p < q))
      BY <1>1
    <3>4. killed \subseteq BRANCH /\ \A b \in killed : \E p \in DOMAIN window : window[p] = Branch(b)
      BY DEF Resolves, Branches
    <3>5. \A b \in killed : b \in Older(window, t)
            <=> \E p \in DOMAIN window : window[p] = Branch(b) /\ p < q
      BY <1>13, <3>2, <3>4 DEF Older
    <3>6. \A b \in killed, p, pp \in DOMAIN window :
            window[p] = Branch(b) /\ window[pp] = Branch(b) => p = pp
      BY <1>1 DEF OnceEach
    <3> QED BY <3>1, <3>3, <3>5
  <2> QED BY <1>6, <2>1, <2>2
<1>14. ASSUME NEW t \in TAG, NEW q \in K, window[q] = Instr(t)
       PROVE  t \in Tags(w) /\ Older(w, t) = Older(window, t) \ cleared
  <2> DEFINE m == Rank(K, q)
  <2>1. m \in DOMAIN w /\ w[m] = Instr(t) /\ m \in 1 .. c
    BY <1>12, <1>14
  <2>2. q \in DOMAIN window
    BY <1>2
  <2>3. \A k \in DOMAIN w : w[k] = Instr(t) => k = m
    BY <1>11, <2>1 DEF OnceEach
  <2>4. \A p \in DOMAIN window : window[p] = Instr(t) => p = q
    BY <1>1, <1>14, <2>2 DEF OnceEach
  <2> HIDE DEF m
  <2>5. ASSUME NEW b \in Older(w, t) PROVE b \in Older(window, t) \ cleared
    <3>1. PICK k \in DOMAIN w : k < m /\ w[k] = Branch(b) /\ b \in BRANCH
      BY <2>3 DEF Older
    <3>2. k \in 1 .. c
      BY <1>3, <1>8, <2>1, <3>1
    <3> DEFINE p == Nth(K, k)
    <3>3. p \in K /\ p \in DOMAIN window /\ window[p] = Branch(b)
      BY <1>9, <3>1, <3>2
    <3> HIDE DEF p
    <3>4. p < q
      <4>1. p # q
        BY <1>14, <3>3, MemberKinds
      <4>2. Nth(K, m) = q
        <5>1. Nth(K, m) \in DOMAIN window /\ window[Nth(K, m)] = Instr(t)
          BY <1>9, <2>1
        <5> QED BY <2>4, <5>1
      <4> QED BY <1>3, <2>1, <3>1, <3>2, <4>2 DEF p
    <3>5. b \notin cleared
      <4>1. window[p].branch /\ window[p].id = b
        BY <3>3 DEF Branch
      <4> QED BY <1>6, <3>3, <4>1
    <3> QED BY <1>14, <2>2, <3>1, <3>3, <3>4, <3>5 DEF Older
  <2>6. ASSUME NEW b \in Older(window, t) \ cleared PROVE b \in Older(w, t)
    <3>1. PICK p \in DOMAIN window : p < q /\ window[p] = Branch(b) /\ b \in BRANCH
      BY <2>4 DEF Older
    <3>2. p \in K
      <4>1. window[p].branch /\ window[p].id = b
        BY <3>1 DEF Branch
      <4>2. \A s \in DOMAIN window, d \in killed : window[s] = Branch(d) => p < s
        BY <1>1, <1>6, <2>2, <3>1
      <4> QED BY <1>6, <4>1, <4>2
    <3>3. Rank(K, p) < m /\ Rank(K, p) \in DOMAIN w /\ w[Rank(K, p)] = Branch(b)
      BY <1>3, <1>12, <3>1, <3>2 DEF m
    <3> QED BY <2>1, <3>1, <3>3 DEF Older
  <2> QED BY <2>1, <2>5, <2>6 DEF Tags
<1>15. ASSUME NEW t \in TAG, isns = <<Instr(t)>>
       PROVE  /\ t \notin Tags(window) /\ t \in Tags(w)
              /\ Older(w, t) = Branches(window) \ cleared
  <2>1. Len(isns) = 1 /\ isns[1] = Instr(t) /\ killed = {}
    <3>1. Len(<<Instr(t)>>) = 1 /\ <<Instr(t)>>[1] = Instr(t) /\ <<Instr(t)>> # <<>>
      OBVIOUS
    <3> QED BY <1>15, <3>1
  <2>2. c + 1 \in DOMAIN w /\ w[c + 1] = Instr(t)
    BY <1>3, <1>7, <2>1
  <2>3. \A k \in DOMAIN w : w[k] = Instr(t) => k = c + 1
    BY <1>11, <2>2 DEF OnceEach
  <2>4. t \notin Tags(window)
    BY <1>10, <2>1 DEF Tags
  <2>5. ASSUME NEW b \in Older(w, t) PROVE b \in Branches(window) \ cleared
    <3>1. PICK k \in DOMAIN w : k < c + 1 /\ w[k] = Branch(b) /\ b \in BRANCH
      BY <2>3 DEF Older
    <3>2. k \in 1 .. c
      BY <1>3, <1>8, <3>1
    <3> DEFINE p == Nth(K, k)
    <3>3. p \in K /\ p \in DOMAIN window /\ window[p] = Branch(b)
      BY <1>9, <3>1, <3>2
    <3> HIDE DEF p
    <3>4. window[p].branch /\ window[p].id = b
      BY <3>3 DEF Branch
    <3> QED BY <1>6, <3>1, <3>3, <3>4 DEF Branches
  <2>6. ASSUME NEW b \in Branches(window) \ cleared PROVE b \in Older(w, t)
    <3>1. PICK p \in DOMAIN window : window[p] = Branch(b) /\ b \in BRANCH
      BY DEF Branches
    <3>2. window[p].branch /\ window[p].id = b
      BY <3>1 DEF Branch
    <3>3. p \in K
      BY <1>6, <2>1, <3>2
    <3>4. Rank(K, p) \in DOMAIN w /\ Rank(K, p) \in 1 .. c /\ w[Rank(K, p)] = Branch(b)
      BY <1>12, <3>1, <3>3
    <3>5. Rank(K, p) < c + 1
      BY <1>3, <3>4
    <3> QED BY <2>2, <3>1, <3>4, <3>5 DEF Older
  <2> QED BY <2>2, <2>4, <2>5, <2>6 DEF Tags
<1>16. ASSUME NEW t \in Tags(w)
       PROVE  \/ isns = <<Instr(t)>>
              \/ \E q \in K : window[q] = Instr(t)
  <2>1. PICK k \in DOMAIN w : w[k] = Instr(t) /\ t \in TAG
    BY DEF Tags
  <2>2. CASE k \in 1 .. c
    BY <1>9, <2>1, <2>2
  <2>3. CASE k = c + 1 /\ Len(isns) = 1
    <3>1. isns[1] = Instr(t)
      BY <1>7, <2>1, <2>3
    <3>2. \A m : <<m>>[1] = m /\ Len(<<>>) # 1
      OBVIOUS
    <3> QED BY <1>4, <2>1, <2>3, <3>1, <3>2, MemberKinds
  <2> QED BY <1>8, <2>2, <2>3
<1>17. InOrder(w) /\ Len(w) <= Len(window) + Len(isns)
  BY <1>1, <1>3, <1>5, <1>7, <1>11 DEF InOrder
<1>18. ASSUME NEW t \in Tags(w)
       PROVE  \/ /\ t \in Tags(window) /\ t \notin tags
                 /\ Older(window, t) \cap killed = {}
                 /\ Older(w, t) = Older(window, t) \ cleared
              \/ /\ t \notin Tags(window) /\ isns = <<Instr(t)>>
                 /\ Older(w, t) = Branches(window) \ cleared
  <2>1. t \in TAG
    BY DEF Tags
  <2>2. CASE isns = <<Instr(t)>>
    BY <1>15, <2>1, <2>2
  <2>3. ASSUME NEW q \in K, window[q] = Instr(t)
        PROVE  /\ t \in Tags(window) /\ t \notin tags
               /\ Older(window, t) \cap killed = {}
               /\ Older(w, t) = Older(window, t) \ cleared
    <3>1. q \in DOMAIN window
      BY <1>2
    <3> QED BY <1>13, <1>14, <2>1, <2>3, <3>1 DEF Tags
  <2> QED BY <1>16, <2>2, <2>3
<1>19. ASSUME NEW t \in Tags(window), t \notin tags, Older(window, t) \cap killed = {}
       PROVE  t \in Tags(w)
  <2>1. PICK q \in DOMAIN window : window[q] = Instr(t) /\ t \in TAG
    BY DEF Tags
  <2>2. q \in K
    BY <1>13, <1>19, <2>1
  <2> QED BY <1>14, <2>1, <2>2
<1>20. Passes(w, isns, tags, cleared, killed)
  BY <1>15, <1>17, <1>18, <1>19 DEF Passes
<1> QED BY <1>20 DEF w, r

-----------------------------------------------------------------------------
(* Entries: what a station, the unit or the buffer holds of an instruction.  *)
Known(w, e)      == e.tag \in Tags(w) /\ e.bmask = Older(w, e.tag)
Stays(e, killed) == e.valid /\ ~Hit(e, killed)

LEMMA EntryKinds ==
  /\ \A e \in FubEntry : /\ e.valid \in BOOLEAN
                         /\ e.valid <=> e \in Result
                         /\ e.valid \/ e = NoResult
  /\ NoResult \in FubEntry /\ ~NoResult.valid
  /\ \A e \in Result : e.valid /\ e.tag \in TAG /\ e.bmask \subseteq BRANCH /\ e \in FubEntry
<1>1. ~NoResult.valid /\ NoResult.valid = FALSE
  BY DEF NoResult
<1>2. \A e \in Result : e.valid = TRUE /\ e.tag \in TAG /\ e.bmask \subseteq BRANCH
  BY DEF Result
<1> QED BY <1>1, <1>2 DEF FubEntry

LEMMA Cleared ==
  ASSUME NEW e \in FubEntry, NEW cleared
  PROVE  /\ Clear(e, cleared) \in FubEntry
         /\ Clear(e, cleared).valid <=> e.valid
         /\ e.valid => /\ Clear(e, cleared) \in Result
                       /\ Clear(e, cleared).tag = e.tag
                       /\ Clear(e, cleared).bmask = e.bmask \ cleared
         /\ Clear(Clear(e, cleared), cleared) = Clear(e, cleared)
<1>1. CASE e.valid
  <2>1. e.tag \in TAG /\ e.bmask \subseteq BRANCH
    BY <1>1, EntryKinds
  <2> QED BY <1>1, <2>1 DEF Clear, FubEntry, Result
<1>2. CASE ~e.valid
  BY <1>2, EntryKinds DEF Clear
<1> QED BY <1>1, <1>2

(* What stays is known to the next window: x is e after the cycle. *)
LEMMA StaysKnown ==
  ASSUME NEW w, NEW isns, NEW tags, NEW cleared, NEW killed,
         Passes(w, isns, tags, cleared, killed),
         NEW e, Known(window, e), e.bmask \cap killed = {}, e.tag \notin tags,
         NEW x, x.tag = e.tag, x.bmask = e.bmask \ cleared
  PROVE  Known(w, x)
<1>1. Older(window, e.tag) \cap killed = {}
  BY DEF Known
<1>2. e.tag \in Tags(w) /\ e.tag \in Tags(window)
  BY <1>1 DEF Passes, Known
<1>3. Older(w, e.tag) = Older(window, e.tag) \ cleared
  BY <1>2 DEF Passes
<1> QED BY <1>2, <1>3 DEF Known

LEMMA EntryStaysKnown ==
  ASSUME NEW w, NEW isns, NEW tags, NEW cleared, NEW killed,
         Passes(w, isns, tags, cleared, killed),
         NEW e \in FubEntry, Known(window, e), Stays(e, killed), e.tag \notin tags
  PROVE  Known(w, Clear(e, cleared)) /\ Clear(e, cleared).tag = e.tag
<1>1. /\ Clear(e, cleared).tag = e.tag
      /\ Clear(e, cleared).bmask = e.bmask \ cleared
  BY Cleared DEF Stays
<1>2. e.bmask \cap killed = {}
  BY DEF Stays, Hit
<1> QED BY <1>1, <1>2, StaysKnown

(* What the next window knows of the old one stays. *)
LEMMA KnownStays ==
  ASSUME NEW w, NEW isns, NEW tags, NEW cleared, NEW killed,
         Passes(w, isns, tags, cleared, killed),
         NEW e, Known(window, e), e.tag \in Tags(w)
  PROVE  e.bmask \cap killed = {} /\ e.tag \notin tags
BY DEF Passes, Known

LEMMA EntryKnownStays ==
  ASSUME NEW w, NEW isns, NEW tags, NEW cleared, NEW killed,
         Passes(w, isns, tags, cleared, killed),
         NEW e, e.valid, Known(window, e), e.tag \in Tags(w)
  PROVE  Stays(e, killed) /\ e.tag \notin tags
BY KnownStays DEF Stays, Hit

(* What is dispatched waits with the mask that program order gives it.       *)
LEMMA EntriesKnown ==
  ASSUME NEW w, NEW isns \in Offers, NEW tags, NEW cleared, NEW killed, InOrder(window),
         Passes(w, isns, tags, cleared, killed)
  PROVE  /\ \A e \in Entries(isns, cleared) :
              /\ e \in Result /\ Known(w, e)
              /\ e.tag \notin Tags(window) /\ isns = <<Instr(e.tag)>>
         /\ \A t \in TAG : isns = <<Instr(t)>> =>
              \E e \in Entries(isns, cleared) : e.tag = t
         /\ \A d, e \in Entries(isns, cleared) : d = e
<1>1. \/ isns = <<>> \/ (\E t \in TAG : isns = <<Instr(t)>>)
      \/ (\E b \in BRANCH : isns = <<Branch(b)>>)
  BY DEF Offers
<1>2. Unresolved = Branches(window) /\ Branches(window) \subseteq BRANCH
  BY WindowReads DEF Branches
<1>3. CASE isns = <<>>
  <2>1. Entries(isns, cleared) = {}
    BY <1>3 DEF Entries
  <2>2. \A t : <<>> # <<Instr(t)>>
    OBVIOUS
  <2> QED BY <1>3, <2>1, <2>2
<1>4. ASSUME NEW b \in BRANCH, isns = <<Branch(b)>>
      PROVE  Entries(isns, cleared) = {} /\ \A t : isns # <<Instr(t)>>
  <2>1. DOMAIN isns = {1} /\ isns[1] = Branch(b) /\ Branch(b).branch
    BY <1>4 DEF Branch
  <2>2. \A t : <<Instr(t)>>[1] = Instr(t)
    OBVIOUS
  <2> QED BY <1>4, <2>1, <2>2, MemberKinds DEF Entries
<1>5. ASSUME NEW t \in TAG, isns = <<Instr(t)>>
      PROVE  /\ Entries(isns, cleared)
                  = {[valid |-> TRUE, tag |-> t, bmask |-> Branches(window) \ cleared]}
             /\ \A u : isns = <<Instr(u)>> => u = t
  <2>1. DOMAIN isns = {1} /\ isns[1] = Instr(t) /\ ~Instr(t).branch /\ Instr(t).id = t
    BY <1>5 DEF Instr
  <2>2. \A u : <<Instr(u)>>[1] = Instr(u)
    OBVIOUS
  <2>3. {k \in DOMAIN isns : ~isns[k].branch} = {1}
    BY <2>1
  <2>4. Entries(isns, cleared)
          = {[valid |-> TRUE, tag |-> isns[k].id, bmask |-> Branches(window) \ cleared] : k \in {1}}
    BY <1>2, <2>3 DEF Entries
  <2>5. {[valid |-> TRUE, tag |-> isns[k].id, bmask |-> Branches(window) \ cleared] : k \in {1}}
          = {[valid |-> TRUE, tag |-> t, bmask |-> Branches(window) \ cleared]}
    BY <2>1
  <2> QED BY <1>5, <2>1, <2>2, <2>4, <2>5, MemberKinds
<1>6. ASSUME NEW t \in TAG, isns = <<Instr(t)>>
      PROVE  /\ \A e \in Entries(isns, cleared) :
                  /\ e \in Result /\ Known(w, e)
                  /\ e.tag \notin Tags(window) /\ isns = <<Instr(e.tag)>>
             /\ \A u \in TAG : isns = <<Instr(u)>> =>
                  \E e \in Entries(isns, cleared) : e.tag = u
             /\ \A d, e \in Entries(isns, cleared) : d = e
  <2> DEFINE e == [valid |-> TRUE, tag |-> t, bmask |-> Branches(window) \ cleared]
  <2>1. Entries(isns, cleared) = {e} /\ \A u : isns = <<Instr(u)>> => u = t
    BY <1>5, <1>6
  <2>2. e \in Result /\ e.tag = t /\ e.bmask = Branches(window) \ cleared
    BY <1>2 DEF Result
  <2>3. t \in Tags(w) /\ t \notin Tags(window)
    BY <1>6 DEF Passes
  <2>4. Older(w, t) = Branches(window) \ cleared
    BY <2>3 DEF Passes
  <2> HIDE DEF e
  <2> QED BY <1>6, <2>1, <2>2, <2>3, <2>4 DEF Known
<1> QED BY <1>1, <1>3, <1>4, <1>6

(* The entries kept in the stations. *)
LEMMA KeptStay ==
  ASSUME rs \subseteq Result, NEW killed, NEW cleared
  PROVE  /\ \A e \in Kept(killed, cleared) :
              \E f \in rs : Stays(f, killed) /\ e = Clear(f, cleared)
         /\ \A f \in rs : Stays(f, killed) => Clear(f, cleared) \in Kept(killed, cleared)
         /\ Kept(killed, cleared) \subseteq Result
         /\ \A e \in Issuable(killed, cleared, TRUE) : e = NoResult
         /\ \A busy : \A e \in Issuable(killed, cleared, busy) :
              e = NoResult \/ (e \in Kept(killed, cleared) /\ ~busy)
<1>1. \A f \in rs : f \in Result /\ f.valid /\ f \in FubEntry
  BY EntryKinds
<1>2. \A f \in rs : Clear(f, cleared) \in Result
  BY <1>1, Cleared
<1> QED BY <1>1, <1>2 DEF Kept, Stays, Issuable

-----------------------------------------------------------------------------
(* The result buffer: what stays moves up in its order, and what the unit    *)
(* has computed goes behind it; when two entries are left, the unit was told  *)
(* that the buffer is busy.                                                   *)
Shifts(n, b, fu, stall, killed, cleared) ==
  LET one  == stall /\ Stays(b[1], killed)
      zero == Stays(b[0], killed)
      new  == fu.valid /\ ~b[0].valid
  IN  /\ n \in [{0, 1} -> FubEntry]
      /\ n[1] = IF one THEN Clear(b[1], cleared)
                ELSE IF zero THEN Clear(b[0], cleared)
                ELSE IF new THEN Clear(fu, cleared) ELSE NoResult
      /\ n[0] = IF ~one THEN NoResult
                ELSE IF zero THEN Clear(b[0], cleared)
                ELSE IF new THEN Clear(fu, cleared) ELSE NoResult
      /\ n[0].valid => n[1].valid /\ fub_busy(b, fu, stall, killed)

LEMMA BufferShifts ==
  ASSUME NEW b \in [{0, 1} -> FubEntry], NEW fu \in FubEntry, NEW stall \in BOOLEAN,
         NEW killed, NEW cleared,
         b[0].valid => b[1].valid, ~Hit(fu, killed),
         ~stall => Stays(b[1], killed)
  PROVE  Shifts(next_buffer(b, fu, stall, killed, cleared), b, fu, stall, killed, cleared)
<1> DEFINE n    == next_buffer(b, fu, stall, killed, cleared)
           one  == stall /\ Stays(b[1], killed)
           zero == Stays(b[0], killed)
           new  == fu.valid /\ ~b[0].valid
           f    == Clear(fu, cleared)
           m    == IF killed # {} THEN Squashed(b, f, stall, killed) ELSE Moved(b, f, stall)
<1>1. b[0] \in FubEntry /\ b[1] \in FubEntry /\ f \in FubEntry /\ NoResult \in FubEntry
  BY Cleared, EntryKinds
<1>2. /\ f.valid <=> fu.valid
      /\ \A e \in FubEntry : ~e.valid => e = NoResult
      /\ ~NoResult.valid /\ NoResult.valid \in BOOLEAN
  BY Cleared, EntryKinds
<1>3. \A x, y : Pair(x, y)[1] = x /\ Pair(x, y)[0] = y
  BY DEF Pair
<1>4. killed = {} => ~Hit(b[0], killed) /\ ~Hit(b[1], killed)
  BY DEF Hit
<1>5. \A e \in FubEntry : Hit(e, killed) => e.valid
  BY DEF Hit
<1> HIDE DEF f
<1>6. /\ m[1] = IF one THEN b[1] ELSE IF zero THEN b[0] ELSE IF new THEN f ELSE NoResult
      /\ m[0] = IF ~one THEN NoResult
                ELSE IF zero THEN b[0] ELSE IF new THEN f ELSE NoResult
  <2>1. CASE killed = {}
    BY <1>1, <1>2, <1>3, <1>4, <2>1 DEF Moved, Stays
  <2>2. CASE killed # {} /\ (Hit(b[1], killed) \/ ~b[1].valid)
    BY <1>1, <1>2, <1>3, <1>5, <2>2 DEF Squashed, Stays
  <2>3. CASE killed # {} /\ ~(Hit(b[1], killed) \/ ~b[1].valid) /\ Hit(b[0], killed)
    BY <1>1, <1>2, <1>3, <1>5, <2>3 DEF Squashed, Stays
  <2>4. CASE killed # {} /\ ~(Hit(b[1], killed) \/ ~b[1].valid) /\ ~Hit(b[0], killed)
    BY <1>1, <1>2, <1>3, <1>5, <2>4 DEF Squashed, Moved, Stays
  <2> QED BY <2>1, <2>2, <2>3, <2>4
<1>7. /\ n[1] = Clear(m[1], cleared) /\ n[0] = Clear(m[0], cleared)
      /\ n = Pair(Clear(m[1], cleared), Clear(m[0], cleared))
  BY <1>3 DEF next_buffer, f
<1>8. Clear(NoResult, cleared) = NoResult
  BY <1>2 DEF Clear
<1>9. Clear(f, cleared) = Clear(fu, cleared)
  BY Cleared DEF f
<1> HIDE DEF n, m
<1>10. /\ n[1] = IF one THEN Clear(b[1], cleared)
                 ELSE IF zero THEN Clear(b[0], cleared)
                 ELSE IF new THEN Clear(fu, cleared) ELSE NoResult
       /\ n[0] = IF ~one THEN NoResult
                 ELSE IF zero THEN Clear(b[0], cleared)
                 ELSE IF new THEN Clear(fu, cleared) ELSE NoResult
  <2> HIDE DEF one, zero, new
  <2> QED BY <1>6, <1>7, <1>8, <1>9
<1>11. n \in [{0, 1} -> FubEntry]
  <2>1. m[1] \in FubEntry /\ m[0] \in FubEntry
    <3> HIDE DEF one, zero, new
    <3> QED BY <1>1, <1>6
  <2>2. Clear(m[1], cleared) \in FubEntry /\ Clear(m[0], cleared) \in FubEntry
    BY <2>1, Cleared
  <2> QED BY <1>7, <2>2 DEF Pair
<1>12. n[0].valid => n[1].valid /\ fub_busy(b, fu, stall, killed)
  <2> SUFFICES ASSUME n[0].valid PROVE n[1].valid /\ fub_busy(b, fu, stall, killed)
    OBVIOUS
  <2>1. one /\ (zero \/ new)
    BY <1>2, <1>10
  <2>2. n[1] = Clear(b[1], cleared) /\ b[1].valid
    BY <1>10, <2>1 DEF Stays
  <2>3. n[1].valid
    BY <1>1, <2>2, Cleared
  <2>4. ~Hit(b[0], killed)
    BY <2>1 DEF Stays, Hit
  <2> QED BY <2>1, <2>3, <2>4 DEF fub_busy, Stays
<1>13. Shifts(n, b, fu, stall, killed, cleared)
  BY <1>10, <1>11, <1>12 DEF Shifts
<1> QED BY <1>13 DEF n

-----------------------------------------------------------------------------
(* A unit of one cycle.                                                        *)

Types ==
  /\ InOrder(window) /\ Len(window) <= WINDOW
  /\ rs \subseteq Result
  /\ fus \in FubEntry
  /\ fub \in [{0, 1} -> FubEntry]

\* What the unit is given finds room behind it.
FusHasRoom == fus.valid => ~fub[0].valid

\* Every entry is that of an instruction of the window, with its mask.
AllKnown ==
  /\ \A e \in rs : Known(window, e)
  /\ fus.valid => Known(window, fus)
  /\ \A i \in {0, 1} : fub[i].valid => Known(window, fub[i])

\* No two entries are of the same instruction.
AllApart ==
  /\ \A d, e \in rs : d.tag = e.tag => d = e
  /\ \A e \in rs : fus.valid => e.tag # fus.tag
  /\ \A e \in rs, i \in {0, 1} : fub[i].valid => e.tag # fub[i].tag
  /\ \A i \in {0, 1} : fus.valid /\ fub[i].valid => fus.tag # fub[i].tag
  /\ fub[0].valid /\ fub[1].valid => fub[0].tag # fub[1].tag

\* Every instruction of the window has an entry.
AllHeld ==
  \A t \in Tags(window) :
    \/ \E e \in rs : e.tag = t
    \/ fus.valid /\ fus.tag = t
    \/ \E i \in {0, 1} : fub[i].valid /\ fub[i].tag = t

IInv == Types /\ NothingBehindAGap /\ FusHasRoom /\ AllKnown /\ AllApart /\ AllHeld

(* What the unit hands over. *)
LEMMA UnitResult ==
  ASSUME GATED, fus \in FubEntry, NEW killed
  PROVE  /\ fu_done(killed) \in FubEntry /\ ~Hit(fu_done(killed), killed)
         /\ fu_done(killed).valid <=> Stays(fus, killed)
         /\ fu_done(killed).valid => fu_done(killed) = fus
<1>1. NoResult \in FubEntry /\ ~NoResult.valid
  BY EntryKinds
<1> QED BY <1>1, EntryKinds DEF fu_done, Stays, Hit

(* One cycle, with or without a misprediction. *)
LEMMA CycleStep ==
  ASSUME IInv, GATED, NEW isns \in Offers, NEW cleared, NEW killed, NEW stall \in Stalls(killed),
         NEW issued \in Issuable(killed, cleared, fub_busy(fub, fu_done(killed), stall, killed)),
         Resolves(cleared, killed), killed # {} => isns = <<>>,
         Len(window) + Len(isns) <= WINDOW,
         Cycle(isns, issued, stall, killed, cleared)
  PROVE  IInv'
<1> DEFINE f    == fu_done(killed)
           tags == IF stall THEN {} ELSE {fub[1].tag}
           busy == fub_busy(fub, f, stall, killed)
           kept == Kept(killed, cleared)
           new  == Entries(isns, cleared)
<1>0. /\ Types /\ NothingBehindAGap /\ FusHasRoom /\ AllKnown /\ AllApart /\ AllHeld
      /\ fub[0] \in FubEntry /\ fub[1] \in FubEntry /\ fus \in FubEntry
  BY DEF IInv, Types
<1>1. stall \in BOOLEAN /\ (~stall => Stays(fub[1], killed))
  BY DEF Stalls, Stays
<1>2. /\ window' = Remaining(tags, cleared, killed) \o isns
      /\ rs' = (kept \ {issued}) \cup new /\ fus' = issued
      /\ fub' = next_buffer(fub, f, stall, killed, cleared)
  BY DEF Cycle, StationCycle
<1>3. Passes(window', isns, tags, cleared, killed)
  BY <1>0, <1>2, WindowCycle DEF Types
<1>4. /\ f \in FubEntry /\ ~Hit(f, killed)
      /\ f.valid <=> Stays(fus, killed)
      /\ f.valid => f = fus
  BY <1>0, UnitResult
<1>5. Shifts(fub', fub, f, stall, killed, cleared)
  BY <1>0, <1>1, <1>2, <1>4, BufferShifts DEF Types, NothingBehindAGap
<1> HIDE DEF f
\* Where the entries of the next cycle come from.
<1>6. /\ fub' \in [{0, 1} -> FubEntry]
      /\ fub'[1].valid => \/ /\ stall /\ Stays(fub[1], killed)
                             /\ fub'[1] = Clear(fub[1], cleared)
                          \/ /\ ~(stall /\ Stays(fub[1], killed))
                             /\ Stays(fub[0], killed) /\ fub'[1] = Clear(fub[0], cleared)
                          \/ /\ ~(stall /\ Stays(fub[1], killed))
                             /\ Stays(fus, killed) /\ fub'[1] = Clear(fus, cleared)
      /\ fub'[0].valid => /\ stall /\ Stays(fub[1], killed)
                          /\ fub'[1] = Clear(fub[1], cleared)
                          /\ \/ Stays(fub[0], killed) /\ fub'[0] = Clear(fub[0], cleared)
                             \/ Stays(fus, killed) /\ fub'[0] = Clear(fus, cleared)
                          /\ fub'[1].valid /\ busy
  <2>1. ~NoResult.valid
    BY EntryKinds
  <2> QED BY <1>4, <1>5, <2>1 DEF Shifts
<1>7. /\ \A x \in kept : \E e \in rs : Stays(e, killed) /\ x = Clear(e, cleared)
      /\ \A e \in rs : Stays(e, killed) => Clear(e, cleared) \in kept
      /\ kept \subseteq Result
      /\ issued = NoResult \/ (issued \in kept /\ ~busy)
  <2>1. rs \subseteq Result
    BY <1>0 DEF Types
  <2>2. issued \in Issuable(killed, cleared, busy)
    BY DEF f
  <2> HIDE DEF busy
  <2> QED BY <2>1, <2>2, KeptStay
<1>8. /\ \A e \in new : /\ e \in Result /\ Known(window', e)
                        /\ e.tag \notin Tags(window) /\ isns = <<Instr(e.tag)>>
      /\ \A t \in TAG : isns = <<Instr(t)>> => \E e \in new : e.tag = t
      /\ \A d, e \in new : d = e
  <2>1. InOrder(window)
    BY <1>0 DEF Types
  <2>2. \A e \in new : /\ e \in Result /\ Known(window', e)
                       /\ e.tag \notin Tags(window) /\ isns = <<Instr(e.tag)>>
    BY <1>3, <2>1, EntriesKnown
  <2>3. /\ \A t \in TAG : isns = <<Instr(t)>> => \E e \in new : e.tag = t
        /\ \A d, e \in new : d = e
    BY <1>3, <2>1, EntriesKnown
  <2> QED BY <2>2, <2>3
\* Who stays is not broadcast.
<1>9. /\ \A e \in rs : e.tag \notin tags
      /\ fus.valid => fus.tag \notin tags
      /\ fub[0].valid => fub[0].tag \notin tags
      /\ stall => fub[1].tag \notin tags
  BY <1>0, <1>1 DEF AllApart, Stays
<1> HIDE DEF tags
<1>10. ASSUME NEW e \in FubEntry, Stays(e, killed), Known(window, e), e.tag \notin tags
       PROVE  Known(window', Clear(e, cleared)) /\ Clear(e, cleared).tag = e.tag
  BY <1>3, <1>10, EntryStaysKnown
<1>11. /\ \A e \in rs : Stays(e, killed) =>
            Known(window', Clear(e, cleared)) /\ Clear(e, cleared).tag = e.tag
       /\ Stays(fus, killed) =>
            Known(window', Clear(fus, cleared)) /\ Clear(fus, cleared).tag = fus.tag
       /\ Stays(fub[0], killed) =>
            Known(window', Clear(fub[0], cleared)) /\ Clear(fub[0], cleared).tag = fub[0].tag
       /\ stall /\ Stays(fub[1], killed) =>
            Known(window', Clear(fub[1], cleared)) /\ Clear(fub[1], cleared).tag = fub[1].tag
  <2>1. \A e \in rs : e \in FubEntry /\ Known(window, e)
    BY <1>0, EntryKinds DEF Types, AllKnown
  <2>2. /\ Stays(fus, killed) => fus.valid /\ Known(window, fus)
        /\ Stays(fub[0], killed) => fub[0].valid /\ Known(window, fub[0])
        /\ Stays(fub[1], killed) => fub[1].valid /\ Known(window, fub[1])
    BY <1>0 DEF AllKnown, Stays
  <2>3. \A e \in rs : Stays(e, killed) =>
            Known(window', Clear(e, cleared)) /\ Clear(e, cleared).tag = e.tag
    BY <1>9, <1>10, <2>1
  <2> QED BY <1>0, <1>9, <1>10, <2>2, <2>3
<1>12. \A x \in kept : \E e \in rs : /\ Stays(e, killed) /\ x = Clear(e, cleared)
                                     /\ x.tag = e.tag /\ Known(window', x)
                                     /\ e.tag \in Tags(window)
  BY <1>0, <1>7, <1>11 DEF AllKnown, Known
<1>13. Types'
  <2>1. InOrder(window') /\ Len(window') <= WINDOW
    <3>1. InOrder(window') /\ Len(window') <= Len(window) + Len(isns)
      BY <1>3 DEF Passes
    <3>2. Len(window') \in Nat /\ Len(window) \in Nat /\ Len(isns) \in Nat
      <4>1. \A m : Len(<<>>) \in Nat /\ Len(<<m>>) \in Nat
        OBVIOUS
      <4>2. Len(isns) \in Nat
        BY <4>1 DEF Offers
      <4> QED BY <1>0, <3>1, <4>2 DEF InOrder, Types
    <3> QED BY <3>1, <3>2, WindowAssumption
  <2>2. rs' \subseteq Result /\ fus' \in FubEntry
    BY <1>2, <1>7, <1>8, EntryKinds
  <2> QED BY <1>6, <2>1, <2>2 DEF Types
<1>14. NothingBehindAGap' /\ FusHasRoom'
  <2>1. NothingBehindAGap'
    BY <1>6 DEF NothingBehindAGap
  <2>2. FusHasRoom'
    BY <1>2, <1>6, <1>7, EntryKinds DEF FusHasRoom
  <2> QED BY <2>1, <2>2
<1>15. AllKnown'
  <2>1. \A e \in rs' : Known(window', e)
    BY <1>2, <1>8, <1>12
  <2>2. fus'.valid => Known(window', fus')
    BY <1>2, <1>7, <1>12, EntryKinds
  <2>3. fub'[0].valid => Known(window', fub'[0])
    BY <1>6, <1>11
  <2>4. fub'[1].valid => Known(window', fub'[1])
    BY <1>6, <1>11
  <2> QED BY <2>1, <2>2, <2>3, <2>4 DEF AllKnown
<1>16. AllApart'
  <2>1. ASSUME NEW x \in kept, NEW y \in kept, x.tag = y.tag PROVE x = y
    BY <1>0, <1>12, <2>1 DEF AllApart
  <2>2. ASSUME NEW x \in kept, NEW y \in new PROVE x.tag # y.tag
    BY <1>8, <1>12
  <2>3. \A d, e \in rs' : d.tag = e.tag => d = e
    BY <1>2, <1>8, <2>1, <2>2
  <2>4. \A e \in rs' : fus'.valid => e.tag # fus'.tag
    BY <1>2, <1>7, <2>1, <2>2, EntryKinds
  <2>5. ASSUME NEW i \in {0, 1}, fub'[i].valid
        PROVE  \/ stall /\ Stays(fub[1], killed) /\ fub'[i].tag = fub[1].tag
               \/ Stays(fub[0], killed) /\ fub'[i].tag = fub[0].tag
               \/ Stays(fus, killed) /\ fub'[i].tag = fus.tag
    BY <1>6, <1>11, <2>5
  <2>6. /\ Stays(fub[1], killed) => fub[1].valid /\ fub[1].tag \in Tags(window)
        /\ Stays(fub[0], killed) => fub[0].valid /\ fub[0].tag \in Tags(window)
        /\ Stays(fus, killed) => fus.valid /\ fus.tag \in Tags(window)
    BY <1>0 DEF AllKnown, Known, Stays
  <2>7. \A x \in kept, i \in {0, 1} : fub'[i].valid => x.tag # fub'[i].tag
    BY <1>0, <1>12, <2>5, <2>6 DEF AllApart
  <2>8. \A x \in new, i \in {0, 1} : fub'[i].valid => x.tag # fub'[i].tag
    BY <1>8, <2>5, <2>6
  <2>9. \A e \in rs', i \in {0, 1} : fub'[i].valid => e.tag # fub'[i].tag
    BY <1>2, <2>7, <2>8
  <2>10. \A i \in {0, 1} : fus'.valid /\ fub'[i].valid => fus'.tag # fub'[i].tag
    BY <1>2, <1>7, <2>7, EntryKinds
  <2>11. fub'[0].valid /\ fub'[1].valid => fub'[0].tag # fub'[1].tag
    BY <1>0, <1>6, <1>11, <2>6 DEF AllApart
  <2> QED BY <2>3, <2>4, <2>9, <2>10, <2>11 DEF AllApart
<1>17. AllHeld'
  <2> SUFFICES ASSUME NEW t \in Tags(window')
               PROVE  \/ \E e \in rs' : e.tag = t
                      \/ fus'.valid /\ fus'.tag = t
                      \/ \E i \in {0, 1} : fub'[i].valid /\ fub'[i].tag = t
    BY DEF AllHeld
  <2>1. t \in TAG
    BY DEF Tags
  <2>2. CASE isns = <<Instr(t)>>
    BY <1>2, <1>8, <2>1, <2>2
  <2>3. CASE isns # <<Instr(t)>>
    <3>1. t \in Tags(window)
      BY <1>3, <2>3 DEF Passes
    <3>2. ASSUME NEW e \in FubEntry, e.valid, Known(window, e), e.tag = t
          PROVE  Stays(e, killed) /\ e.tag \notin tags
      BY <1>3, <3>2, EntryKnownStays
    <3>3. ASSUME NEW e \in rs, e.tag = t
          PROVE  \/ \E x \in rs' : x.tag = t
                 \/ fus'.valid /\ fus'.tag = t
      <4>1. Stays(e, killed)
        BY <1>0, <3>2, <3>3, EntryKinds DEF AllKnown, Types
      <4>2. Clear(e, cleared) \in kept /\ Clear(e, cleared).tag = t
        BY <1>7, <1>11, <3>3, <4>1
      <4>3. \A x \in kept : x.valid
        BY <1>7, EntryKinds
      <4> QED BY <1>2, <4>2, <4>3
    <3>4. ASSUME fub[1].valid, fub[1].tag = t
          PROVE  fub'[1].valid /\ fub'[1].tag = t
      <4>1. Stays(fub[1], killed) /\ fub[1].tag \notin tags
        BY <1>0, <3>2, <3>4 DEF AllKnown
      <4>2. stall
        BY <1>1, <4>1 DEF tags
      <4>3. fub'[1] = Clear(fub[1], cleared)
        BY <1>5, <4>1, <4>2 DEF Shifts
      <4> QED BY <1>0, <1>11, <3>4, <4>1, <4>2, <4>3, Cleared
    <3>5. ASSUME fub[0].valid, fub[0].tag = t
          PROVE  \E i \in {0, 1} : fub'[i].valid /\ fub'[i].tag = t
      <4>1. Stays(fub[0], killed)
        BY <1>0, <3>2, <3>5 DEF AllKnown
      <4>2. fub'[0] = Clear(fub[0], cleared) \/ fub'[1] = Clear(fub[0], cleared)
        BY <1>5, <4>1 DEF Shifts
      <4>3. Clear(fub[0], cleared).valid /\ Clear(fub[0], cleared).tag = t
        BY <1>0, <1>11, <3>5, <4>1, Cleared
      <4> QED BY <4>2, <4>3
    <3>6. ASSUME fus.valid, fus.tag = t
          PROVE  \E i \in {0, 1} : fub'[i].valid /\ fub'[i].tag = t
      <4>1. Stays(fus, killed)
        BY <1>0, <3>2, <3>6 DEF AllKnown
      <4>2. ~fub[0].valid /\ f.valid /\ f = fus
        BY <1>0, <1>4, <3>6, <4>1 DEF FusHasRoom
      <4>3. fub'[0] = Clear(fus, cleared) \/ fub'[1] = Clear(fus, cleared)
        BY <1>5, <4>2 DEF Shifts, Stays
      <4>4. Clear(fus, cleared).valid /\ Clear(fus, cleared).tag = t
        BY <1>0, <1>11, <3>6, <4>1, Cleared
      <4> QED BY <4>3, <4>4
    <3> QED BY <1>0, <3>1, <3>3, <3>4, <3>5, <3>6 DEF AllHeld
  <2> QED BY <2>2, <2>3
<1> QED BY <1>13, <1>14, <1>15, <1>16, <1>17 DEF IInv

LEMMA InvInit == Init => IInv
<1> SUFFICES ASSUME Init PROVE IInv
  OBVIOUS
<1>1. /\ window = <<>> /\ rs = {} /\ fus = NoResult
      /\ fub \in [{0, 1} -> FubEntry] /\ \A i \in {0, 1} : fub[i] = NoResult
  BY EntryKinds DEF Init, StationInit
<1>2. InOrder(window) /\ Len(window) <= WINDOW /\ Tags(window) = {}
  <2>1. <<>> \in Seq(Members) /\ DOMAIN <<>> = {} /\ Len(<<>>) = 0
    OBVIOUS
  <2>2. InOrder(<<>>)
    BY <2>1 DEF InOrder, OnceEach
  <2>3. Tags(<<>>) = {}
    BY <2>1 DEF Tags
  <2>4. Len(<<>>) <= WINDOW
    BY <2>1, WindowAssumption
  <2> QED BY <1>1, <2>2, <2>3, <2>4
<1> QED BY <1>1, <1>2, EntryKinds
        DEF IInv, Types, NothingBehindAGap, FusHasRoom, AllKnown, AllApart, AllHeld

LEMMA InvNext == GATED => (IInv /\ [Next]_vars => IInv')
<1> SUFFICES ASSUME GATED, IInv, [Next]_vars PROVE IInv'
  OBVIOUS
<1>0. InOrder(window) /\ Unresolved = Branches(window) /\ Branches(window) \subseteq BRANCH
      /\ Len(window) \in Nat /\ Len(window) <= WINDOW
  BY WindowReads DEF IInv, Types, InOrder, Branches
<1>1. ASSUME NEW cleared, cleared = {} \/ (\E b \in Unresolved : cleared = {b}),
             DispatchCycle(cleared)
      PROVE  IInv'
  <2>1. PICK isns \in Offers, stall \in Stalls({}) :
          \E issued \in Issuable({}, cleared, fub_busy(fub, fu_done({}), stall, {})) :
            /\ Len(window) + Len(isns) <= WINDOW
            /\ Cycle(isns, issued, stall, {}, cleared)
    BY <1>1 DEF DispatchCycle
  <2>2. PICK issued \in Issuable({}, cleared, fub_busy(fub, fu_done({}), stall, {})) :
            /\ Len(window) + Len(isns) <= WINDOW
            /\ Cycle(isns, issued, stall, {}, cleared)
    BY <2>1
  <2>3. Resolves(cleared, {})
    BY <1>0, <1>1 DEF Resolves
  <2> QED BY <2>2, <2>3, CycleStep
<1>2. ASSUME NEW b \in Unresolved, RecoverCycle(b) PROVE IInv'
  <2>1. PICK stall \in Stalls({b}) :
          \E issued \in Issuable({b}, {}, fub_busy(fub, fu_done({b}), stall, {b})) :
            Cycle(<<>>, issued, stall, {b}, {})
    BY <1>2 DEF RecoverCycle
  <2>2. PICK issued \in Issuable({b}, {}, fub_busy(fub, fu_done({b}), stall, {b})) :
            Cycle(<<>>, issued, stall, {b}, {})
    BY <2>1
  <2>3. Resolves({}, {b})
    BY <1>0 DEF Resolves
  <2>4. <<>> \in Offers /\ Len(window) + Len(<<>>) <= WINDOW
    <3>1. Len(<<>>) = 0
      OBVIOUS
    <3> QED BY <1>0, <3>1 DEF Offers
  <2>5. \A k \in {{b}} : k # {} => <<>> = <<>>
    OBVIOUS
  <2> QED BY <2>2, <2>3, <2>4, CycleStep
<1>3. CASE UNCHANGED vars
  <2>1. window' = window /\ rs' = rs /\ fus' = fus /\ fub' = fub
    BY <1>3 DEF vars
  <2> QED BY <2>1 DEF IInv, Types, NothingBehindAGap, FusHasRoom, AllKnown, AllApart, AllHeld
<1> QED BY <1>1, <1>2, <1>3 DEF Next

LEMMA InvHolds == GATED => (Spec => []IInv)
<1> SUFFICES ASSUME GATED PROVE Spec => []IInv
  OBVIOUS
<1>1. IInv /\ [Next]_vars => IInv'
  BY InvNext
<1> QED BY <1>1, InvInit, PTL DEF Spec

-----------------------------------------------------------------------------
(* What the properties say of the places follows from the invariant. *)
LEMMA Units ==
  /\ Unit[1] = fus /\ Unit[2] = fub[0] /\ Unit[3] = fub[1]
  /\ \A c : c \in Held <=> \/ \E e \in rs : c = <<0, e>>
                           \/ \E i \in 1 .. 3 : Unit[i].valid /\ c = <<i, Unit[i]>>
BY DEF Unit, Held

LEMMA HeldKnown ==
  ASSUME IInv
  PROVE  /\ \A c \in Held : Known(window, c[2])
         /\ \A c, d \in Held : c[2].tag = d[2].tag => c = d
         /\ {c[2].tag : c \in Held} = Tags(window)
<1>0. Types /\ AllKnown /\ AllApart /\ AllHeld
  BY DEF IInv
<1>1. \A i \in 1 .. 3 : i = 1 \/ i = 2 \/ i = 3
  OBVIOUS
<1>2. \A i \in 1 .. 3 : Unit[i].valid => Known(window, Unit[i])
  BY <1>0, <1>1, Units DEF AllKnown
<1>3. \A i, j \in 1 .. 3 : Unit[i].valid /\ Unit[j].valid /\ Unit[i].tag = Unit[j].tag => i = j
  BY <1>0, <1>1, Units DEF AllApart
<1>4. \A i \in 1 .. 3, e \in rs : Unit[i].valid => Unit[i].tag # e.tag
  BY <1>0, <1>1, Units DEF AllApart
<1>5. \A t \in Tags(window) : \/ \E e \in rs : e.tag = t
                              \/ \E i \in 1 .. 3 : Unit[i].valid /\ Unit[i].tag = t
  BY <1>0, Units DEF AllHeld
<1>6. \A c \in Held : Known(window, c[2])
  BY <1>0, <1>2, Units DEF AllKnown
<1>7. ASSUME NEW c \in Held, NEW d \in Held, c[2].tag = d[2].tag PROVE c = d
  <2>1. \/ \E e \in rs : c = <<0, e>> /\ c[2] = e
        \/ \E i \in 1 .. 3 : Unit[i].valid /\ c = <<i, Unit[i]>> /\ c[2] = Unit[i]
    BY Units
  <2>2. \/ \E e \in rs : d = <<0, e>> /\ d[2] = e
        \/ \E i \in 1 .. 3 : Unit[i].valid /\ d = <<i, Unit[i]>> /\ d[2] = Unit[i]
    BY Units
  <2>3. \A d1, e1 \in rs : d1.tag = e1.tag => d1 = e1
    BY <1>0 DEF AllApart
  <2> QED BY <1>3, <1>4, <1>7, <2>1, <2>2, <2>3
<1>8. \A t \in Tags(window) : \E c \in Held : c[2].tag = t
  <2> SUFFICES ASSUME NEW t \in Tags(window) PROVE \E c \in Held : c[2].tag = t
    OBVIOUS
  <2>1. ASSUME NEW e \in rs, e.tag = t PROVE \E c \in Held : c[2].tag = t
    <3>1. <<0, e>> \in Held /\ <<0, e>>[2] = e
      BY Units
    <3> QED BY <2>1, <3>1
  <2>2. ASSUME NEW i \in 1 .. 3, Unit[i].valid, Unit[i].tag = t
        PROVE  \E c \in Held : c[2].tag = t
    <3>1. <<i, Unit[i]>> \in Held /\ <<i, Unit[i]>>[2] = Unit[i]
      BY <2>2, Units
    <3> QED BY <2>2, <3>1
  <2> QED BY <1>5, <2>1, <2>2
<1> QED BY <1>6, <1>7, <1>8 DEF Known

LEMMA Consequences ==
  IInv => TypeOK /\ EachResultOnce /\ MasksExact /\ NothingBehindAGap
<1> SUFFICES ASSUME IInv PROVE TypeOK /\ EachResultOnce /\ MasksExact /\ NothingBehindAGap
  OBVIOUS
<1>0. Types /\ InOrder(window) /\ NothingBehindAGap
  BY DEF IInv, Types
<1>1. /\ LiveTags = Tags(window) /\ \A t \in LiveTags : OlderBranches(t) = Older(window, t)
      /\ WindowOK /\ IsFiniteSet(LiveTags)
  BY <1>0, WindowReads, WindowOnce
<1>2. TypeOK
  BY <1>0, <1>1 DEF TypeOK, Types
<1>3. MasksExact
  BY <1>1, HeldKnown DEF MasksExact, Known
<1>4. EachResultOnce
  <2> DEFINE at(t) == CHOOSE c \in Held : c[2].tag = t
             h == [t \in LiveTags |-> at(t)]
  <2>0. \A t \in LiveTags : at(t) \in Held /\ at(t)[2].tag = t
    BY <1>1, HeldKnown
  <2> HIDE DEF at
  <2>1. h \in Bijection(LiveTags, Held)
    <3>1. \A t, u \in LiveTags : at(t) = at(u) => t = u
      BY <2>0
    <3>2. \A c \in Held : c[2].tag \in LiveTags /\ at(c[2].tag) = c
      BY <1>1, <2>0, HeldKnown
    <3> QED BY <2>0, <3>1, <3>2 DEF Bijection, Injection, Surjection, IsInjective
  <2>2. ExistsBijection(LiveTags, Held)
    BY <2>1 DEF ExistsBijection
  <2>3. Cardinality(Held) = Cardinality(LiveTags)
    BY <1>1, <2>2, FS_Bijection
  <2> QED BY <1>1, <2>3, HeldKnown DEF EachResultOnce
<1> QED BY <1>0, <1>2, <1>3, <1>4

(* The registers of the path have their types, and the window names each of  *)
(* its members once.                                                          *)
THEOREM TypesHold == GATED => (Spec => []TypeOK)
BY InvHolds, Consequences, PTL

(* No result is lost, doubled, or broadcast after its squash (RS.v:150-263,   *)
(* FUBi.v:49-152).                                                            *)
THEOREM EachResultOnceHolds == GATED => (Spec => []EachResultOnce)
BY InvHolds, Consequences, PTL

(* A mask is exactly the unresolved branches before its instruction, in       *)
(* whatever order they resolve (RS.v:137-148, FUBi.v:43-45, 128-130).         *)
THEOREM MasksExactHolds == GATED => (Spec => []MasksExact)
BY InvHolds, Consequences, PTL

(* The bus never overlooks a result: nothing waits behind an empty entry      *)
(* (FUBi.v:31).                                                               *)
THEOREM NothingBehindAGapHolds == GATED => (Spec => []NothingBehindAGap)
BY InvHolds, Consequences, PTL

-----------------------------------------------------------------------------
(* The multiplier.                                                             *)

MultTypes ==
  /\ InOrder(window) /\ Len(window) <= WINDOW
  /\ rs \subseteq Result
  /\ fus \in FubEntry
  /\ fub \in [{0, 1} -> FubEntry]
  /\ stage \in [1 .. STAGES -> Stage]

\* Every entry is that of an instruction of the window, with its mask.
AllProductsKnown ==
  /\ \A e \in rs : Known(window, e)
  /\ fus.valid => Known(window, fus)
  /\ \A i \in {0, 1} : fub[i].valid => Known(window, fub[i])
  /\ \A i \in 1 .. STAGES : stage[i].done => Known(window, stage[i])

\* No two entries are of the same instruction, but for the last stage's that
\* the buffer has taken.
AllProductsApart ==
  /\ \A d, e \in rs : d.tag = e.tag => d = e
  /\ \A e \in rs : fus.valid => e.tag # fus.tag
  /\ \A e \in rs, i \in {0, 1} : fub[i].valid => e.tag # fub[i].tag
  /\ \A e \in rs, i \in 1 .. STAGES : stage[i].done => e.tag # stage[i].tag
  /\ \A i \in {0, 1} : fus.valid /\ fub[i].valid => fus.tag # fub[i].tag
  /\ \A i \in 1 .. STAGES : fus.valid /\ stage[i].done => fus.tag # stage[i].tag
  /\ fub[0].valid /\ fub[1].valid => fub[0].tag # fub[1].tag
  /\ \A i \in 1 .. STAGES : fub[1].valid /\ stage[i].done => fub[1].tag # stage[i].tag
  /\ \A i \in 1 .. STAGES :
       fub[0].valid /\ stage[i].done /\ fub[0].tag = stage[i].tag => i = STAGES
  /\ \A i, j \in 1 .. STAGES :
       stage[i].done /\ stage[j].done /\ stage[i].tag = stage[j].tag => i = j

\* Every instruction of the window has an entry.
AllProductsHeld ==
  \A t \in Tags(window) :
    \/ \E e \in rs : e.tag = t
    \/ fus.valid /\ fus.tag = t
    \/ \E i \in 1 .. STAGES : stage[i].done /\ stage[i].tag = t
    \/ \E i \in {0, 1} : fub[i].valid /\ fub[i].tag = t

MultInv == MultTypes /\ FullMeansCopied /\ AllProductsKnown /\ AllProductsApart /\ AllProductsHeld

-----------------------------------------------------------------------------
(* The stages with the unit's input before them: what moves along.           *)
Src(k) == Input(k + 1)

LEMMA SrcFacts ==
  ASSUME MultInv
  PROVE  /\ STAGES \in Nat /\ STAGES >= 1
         /\ Src(0) = [done |-> fus.valid, tag |-> fus.tag, bmask |-> fus.bmask]
         /\ \A k \in 1 .. STAGES : Src(k) = stage[k]
         /\ \A i \in 1 .. STAGES : Input(i) = Src(i - 1) /\ i - 1 \in 0 .. STAGES
         /\ \A k \in 0 .. STAGES : Src(k).done => Known(window, Src(k))
         /\ \A k, m \in 0 .. STAGES :
              Src(k).done /\ Src(m).done /\ Src(k).tag = Src(m).tag => k = m
         /\ \A k \in 0 .. STAGES, e \in rs : Src(k).done => e.tag # Src(k).tag
         /\ \A k \in 0 .. STAGES : Src(k).done /\ fub[1].valid => fub[1].tag # Src(k).tag
         /\ \A k \in 0 .. STAGES :
              Src(k).done /\ fub[0].valid /\ fub[0].tag = Src(k).tag => k = STAGES
<1>0. /\ STAGES \in Nat /\ STAGES >= 1 /\ AllProductsKnown /\ AllProductsApart
  BY PipeAssumption DEF MultInv
<1>1. Src(0) = [done |-> fus.valid, tag |-> fus.tag, bmask |-> fus.bmask]
  BY DEF Src, Input
<1>2. \A k \in 1 .. STAGES : Src(k) = stage[k]
  <2> SUFFICES ASSUME NEW k \in 1 .. STAGES PROVE Src(k) = stage[k]
    OBVIOUS
  <2>1. k + 1 # 1 /\ (k + 1) - 1 = k
    BY <1>0
  <2> QED BY <2>1 DEF Src, Input
<1>3. \A i \in 1 .. STAGES : Input(i) = Src(i - 1) /\ i - 1 \in 0 .. STAGES
  <2> SUFFICES ASSUME NEW i \in 1 .. STAGES PROVE Input(i) = Src(i - 1) /\ i - 1 \in 0 .. STAGES
    OBVIOUS
  <2>1. (i - 1) + 1 = i /\ i - 1 \in 0 .. STAGES
    BY <1>0
  <2> QED BY <2>1 DEF Src
<1>4. \A k \in 0 .. STAGES : k = 0 \/ k \in 1 .. STAGES
  BY <1>0
<1>5. /\ Src(0).done <=> fus.valid
      /\ Src(0).tag = fus.tag /\ Src(0).bmask = fus.bmask
  BY <1>1
<1>6. 0 \notin 1 .. STAGES
  OBVIOUS
<1>7. \A k \in 0 .. STAGES : Src(k).done => Known(window, Src(k))
  BY <1>0, <1>2, <1>4, <1>5 DEF AllProductsKnown, Known
<1>8. \A k, m \in 0 .. STAGES :
        Src(k).done /\ Src(m).done /\ Src(k).tag = Src(m).tag => k = m
  BY <1>0, <1>2, <1>4, <1>5 DEF AllProductsApart
<1>9. \A k \in 0 .. STAGES, e \in rs : Src(k).done => e.tag # Src(k).tag
  BY <1>0, <1>2, <1>4, <1>5 DEF AllProductsApart
<1>10. \A k \in 0 .. STAGES : Src(k).done /\ fub[1].valid => fub[1].tag # Src(k).tag
  BY <1>0, <1>2, <1>4, <1>5 DEF AllProductsApart
<1>11. \A k \in 0 .. STAGES :
         Src(k).done /\ fub[0].valid /\ fub[0].tag = Src(k).tag => k = STAGES
  BY <1>0, <1>2, <1>4, <1>5 DEF AllProductsApart
<1> HIDE DEF Src
<1> QED BY <1>0, <1>1, <1>2, <1>3, <1>7, <1>8, <1>9, <1>10, <1>11

(* What the last stage offers to the buffer. *)
LEMMA MultDone ==
  ASSUME MultInv, NEW killed
  PROVE  LET last == stage[STAGES]
         IN  /\ mult_done(killed) \in FubEntry
             /\ mult_done(killed).valid <=> last.done /\ last.bmask \cap killed = {}
             /\ mult_done(killed).valid =>
                  mult_done(killed).tag = last.tag /\ mult_done(killed).bmask = last.bmask
             /\ ~Hit(mult_done(killed), killed)
<1> DEFINE last == stage[STAGES]
<1>1. STAGES \in 1 .. STAGES
  BY PipeAssumption
<1>2. last \in Stage /\ (last.done => Known(window, last))
  BY <1>1 DEF MultInv, MultTypes, AllProductsKnown
<1>3. last.bmask \subseteq BRANCH /\ (last.done => last.tag \in TAG)
  BY <1>2 DEF Stage, Known, Tags
<1> DEFINE d == [valid |-> TRUE, tag |-> last.tag, bmask |-> last.bmask]
<1>4. last.done => d \in Result
  BY <1>3 DEF Result
<1>5. d.valid /\ d.tag = last.tag /\ d.bmask = last.bmask
  OBVIOUS
<1>6. mult_done(killed) = IF last.done /\ last.bmask \cap killed = {} THEN d ELSE NoResult
  BY DEF mult_done
<1> HIDE DEF d, last
<1>7. /\ mult_done(killed) \in FubEntry
      /\ mult_done(killed).valid <=> last.done /\ last.bmask \cap killed = {}
      /\ mult_done(killed).valid =>
           mult_done(killed).tag = last.tag /\ mult_done(killed).bmask = last.bmask
      /\ ~Hit(mult_done(killed), killed)
  BY <1>4, <1>5, <1>6, EntryKinds DEF Hit
<1> QED BY <1>7 DEF last

(* When the last stage is held, and what is held is a run of stages up to it. *)
LEMMA HeldStages ==
  ASSUME MultInv, NEW stall, NEW killed
  PROVE  /\ \A i \in 1 .. STAGES :
              Stalled(stall, killed)[i] <=> Stalled(stall, killed)[i + 1] /\ stage[i].done
         /\ Stalled(stall, killed)[STAGES + 1] <=> LastStalls(stall, killed)
         /\ \A i \in 1 .. STAGES : Stalled(stall, killed)[i] => LastStalls(stall, killed)
<1>0. STAGES \in Nat /\ STAGES >= 1
  BY PipeAssumption
<1>1. \A i \in 1 .. (STAGES + 1) :
        Stalled(stall, killed)[i]
          <=> LastStalls(stall, killed) /\ \A j \in i .. STAGES : stage[j].done
  BY DEF Stalled
<1>2. \A i \in 1 .. STAGES : i \in 1 .. (STAGES + 1) /\ i + 1 \in 1 .. (STAGES + 1)
  BY <1>0
<1>3. STAGES + 1 \in 1 .. (STAGES + 1) /\ \A j : j \notin (STAGES + 1) .. STAGES
  BY <1>0
<1>4. \A i \in 1 .. STAGES, j \in Int : j \in i .. STAGES <=> j = i \/ j \in (i + 1) .. STAGES
  BY <1>0
<1>5. \A i \in 1 .. STAGES : (\A j \in i .. STAGES : stage[j].done)
        <=> stage[i].done /\ \A j \in (i + 1) .. STAGES : stage[j].done
  BY <1>0, <1>4
<1> QED BY <1>1, <1>2, <1>3, <1>5

(* In a sound cycle a stage holds what it has or takes what comes, and what   *)
(* it then has is not mispredicted and keeps its own mask.                     *)
Moves(i, stall, killed, cleared) ==
  LET e == IF Stalled(stall, killed)[i] THEN stage[i] ELSE Input(i)
  IN  /\ stage'[i].done <=> e.done /\ e.bmask \cap killed = {}
      /\ stage'[i].done => /\ stage'[i].tag = e.tag
                           /\ stage'[i].bmask = e.bmask \ cleared

LEMMA StageMoves ==
  ASSUME MultInv, NEW stall, NEW killed, NEW cleared, Sound(stall, killed),
         stage' = next_stage(stall, killed, cleared), NEW i \in 1 .. STAGES
  PROVE  Moves(i, stall, killed, cleared)
<1> DEFINE held == Stalled(stall, killed)[i]
<1>1. held <=> Stalled(stall, killed)[i + 1] /\ stage[i].done
  BY HeldStages
<1>2. /\ stage'[i].done <=> IF held THEN stage[i].done
                            ELSE Input(i).done /\ Input(i).bmask \cap killed = {}
      /\ stage'[i].tag = IF held THEN stage[i].tag ELSE Input(i).tag
      /\ stage'[i].bmask = StageMask(i, stall, killed, cleared)
  BY DEF next_stage
<1>3. StageMask(i, stall, killed, cleared)
        = (IF Stalled(stall, killed)[i + 1] THEN stage[i].bmask ELSE Input(i).bmask)
            \ (killed \cup cleared)
  BY DEF StageMask
<1>4. Stalled(stall, killed)[i + 1] /\ ~stage[i].done /\ Input(i).done
        => Input(i).bmask = stage[i].bmask
  BY DEF Sound, KeepsMask
<1>5. held => stage[i].bmask \cap killed = {}
  BY DEF Sound, HoldsSquashed
<1> HIDE DEF held
<1>6. CASE held
  BY <1>1, <1>2, <1>3, <1>5, <1>6 DEF Moves, held
<1>7. CASE ~held
  <2>1. Input(i).done => StageMask(i, stall, killed, cleared) = Input(i).bmask \ (killed \cup cleared)
    BY <1>1, <1>3, <1>4, <1>7
  <2> QED BY <1>2, <1>7, <2>1 DEF Moves, held
<1> QED BY <1>6, <1>7

(* One sound cycle, with or without a misprediction. *)
LEMMA MultCycleStep ==
  ASSUME MultInv, NEW isns \in Offers, NEW cleared, NEW killed, NEW stall \in Stalls(killed),
         NEW issued \in Issuable(killed, cleared, mult_busy(stall, killed)),
         Sound(stall, killed), Resolves(cleared, killed), killed # {} => isns = <<>>,
         Len(window) + Len(isns) <= WINDOW,
         MultCycle(isns, issued, stall, killed, cleared)
  PROVE  MultInv'
<1> DEFINE d    == mult_done(killed)
           f    == Clear(d, cleared)
           L    == stage[STAGES]
           tags == IF stall THEN {} ELSE {fub[1].tag}
           kept == Kept(killed, cleared)
           new  == Entries(isns, cleared)
           full == LastStalls(stall, killed)
           held(i) == Stalled(stall, killed)[i]
           Up   == stall /\ Stays(fub[1], killed)
<1>0. /\ MultTypes /\ FullMeansCopied /\ AllProductsKnown /\ AllProductsApart /\ AllProductsHeld
      /\ fub[0] \in FubEntry /\ fub[1] \in FubEntry /\ fus \in FubEntry
      /\ STAGES \in Nat /\ STAGES >= 1 /\ STAGES \in 1 .. STAGES /\ STAGES \in 0 .. STAGES
  BY PipeAssumption DEF MultInv, MultTypes
<1>1. stall \in BOOLEAN /\ (~stall => Stays(fub[1], killed))
  BY DEF Stalls, Stays
<1>2. /\ window' = Remaining(tags, cleared, killed) \o isns
      /\ rs' = (kept \ {issued}) \cup new /\ fus' = issued
      /\ fub' = next_buffer(fub, f, stall, killed, cleared)
      /\ stage' = next_stage(stall, killed, cleared)
  BY DEF MultCycle, StationCycle
<1>3. Passes(window', isns, tags, cleared, killed)
  BY <1>0, <1>2, WindowCycle DEF MultTypes
\* The last stage and what it offers.
<1>4. /\ d \in FubEntry /\ ~Hit(d, killed)
      /\ d.valid <=> L.done /\ L.bmask \cap killed = {}
      /\ d.valid => d.tag = L.tag /\ d.bmask = L.bmask
  BY MultDone
<1>5. /\ f \in FubEntry /\ ~Hit(f, killed) /\ (f.valid <=> d.valid)
      /\ f.valid => f.tag = L.tag /\ f.bmask = L.bmask \ cleared
      /\ Clear(f, cleared) = f
      /\ full <=> fub_busy(fub, f, stall, killed) /\ f.valid
  <2>1. /\ f \in FubEntry /\ (f.valid <=> d.valid)
        /\ f.valid => f.tag = L.tag /\ f.bmask = L.bmask \ cleared
        /\ Clear(f, cleared) = f
    BY <1>4, Cleared
  <2>2. ~Hit(f, killed)
    BY <1>4, <2>1 DEF Hit
  <2>3. full <=> fub_busy(fub, f, stall, killed) /\ f.valid
    BY <2>1 DEF LastStalls, fub_busy
  <2> QED BY <2>1, <2>2, <2>3
<1>6. Shifts(fub', fub, f, stall, killed, cleared)
  <2>1. fub[0].valid => fub[1].valid
    BY <1>0 DEF FullMeansCopied
  <2> HIDE DEF f
  <2> QED BY <1>0, <1>1, <1>2, <1>5, <2>1, BufferShifts DEF MultTypes
<1> HIDE DEF d, f
\* Where the entries of the buffer come from.
<1>7. /\ fub' \in [{0, 1} -> FubEntry]
      /\ fub'[1].valid => \/ Up /\ fub'[1] = Clear(fub[1], cleared)
                          \/ ~Up /\ Stays(fub[0], killed) /\ fub'[1] = Clear(fub[0], cleared)
                          \/ ~Up /\ ~fub[0].valid /\ f.valid /\ fub'[1] = f
      /\ fub'[0].valid => /\ Up /\ fub'[1] = Clear(fub[1], cleared) /\ fub'[1].valid
                          /\ fub_busy(fub, f, stall, killed)
                          /\ \/ Stays(fub[0], killed) /\ fub'[0] = Clear(fub[0], cleared)
                             \/ ~fub[0].valid /\ f.valid /\ fub'[0] = f
  <2>1. ~NoResult.valid
    BY EntryKinds
  <2> QED BY <1>5, <1>6, <2>1 DEF Shifts
<1>8. ~Up => ~full
  BY <1>1, <1>5 DEF fub_busy, Stays
<1>9. /\ \A x \in kept : \E e \in rs : Stays(e, killed) /\ x = Clear(e, cleared)
      /\ \A e \in rs : Stays(e, killed) => Clear(e, cleared) \in kept
      /\ kept \subseteq Result
      /\ issued = NoResult \/ (issued \in kept /\ ~mult_busy(stall, killed))
  <2>1. rs \subseteq Result
    BY <1>0 DEF MultTypes
  <2> QED BY <2>1, KeptStay
<1>10. /\ \A e \in new : /\ e \in Result /\ Known(window', e)
                         /\ e.tag \notin Tags(window) /\ isns = <<Instr(e.tag)>>
       /\ \A t \in TAG : isns = <<Instr(t)>> => \E e \in new : e.tag = t
       /\ \A a, e \in new : a = e
  <2>1. InOrder(window)
    BY <1>0 DEF MultTypes
  <2>2. \A e \in new : /\ e \in Result /\ Known(window', e)
                       /\ e.tag \notin Tags(window) /\ isns = <<Instr(e.tag)>>
    BY <1>3, <2>1, EntriesKnown
  <2>3. /\ \A t \in TAG : isns = <<Instr(t)>> => \E e \in new : e.tag = t
        /\ \A a, e \in new : a = e
    BY <1>3, <2>1, EntriesKnown
  <2> QED BY <2>2, <2>3
\* The stages.
<1>11. /\ Src(0) = [done |-> fus.valid, tag |-> fus.tag, bmask |-> fus.bmask]
       /\ \A k \in 1 .. STAGES : Src(k) = stage[k]
       /\ \A i \in 1 .. STAGES : Input(i) = Src(i - 1) /\ i - 1 \in 0 .. STAGES
       /\ \A k \in 0 .. STAGES : Src(k).done => Known(window, Src(k))
       /\ \A k, m \in 0 .. STAGES :
            Src(k).done /\ Src(m).done /\ Src(k).tag = Src(m).tag => k = m
       /\ \A k \in 0 .. STAGES, e \in rs : Src(k).done => e.tag # Src(k).tag
       /\ \A k \in 0 .. STAGES : Src(k).done /\ fub[1].valid => fub[1].tag # Src(k).tag
       /\ \A k \in 0 .. STAGES :
            Src(k).done /\ fub[0].valid /\ fub[0].tag = Src(k).tag => k = STAGES
  BY SrcFacts
<1>12. /\ \A i \in 1 .. STAGES : held(i) <=> held(i + 1) /\ stage[i].done
       /\ held(STAGES + 1) <=> full
       /\ \A i \in 1 .. STAGES : held(i) => full
       /\ mult_busy(stall, killed) <=> held(1)
  BY HeldStages DEF mult_busy
<1>13. \A i \in 1 .. STAGES : Moves(i, stall, killed, cleared)
  BY <1>2, StageMoves
<1> HIDE DEF held, full
\* A stage's entry comes from itself or from the one before.
<1>14. ASSUME NEW i \in 1 .. STAGES, stage'[i].done
       PROVE  \E k \in 0 .. STAGES :
                /\ Src(k).done /\ Src(k).bmask \cap killed = {}
                /\ stage'[i].tag = Src(k).tag /\ stage'[i].bmask = Src(k).bmask \ cleared
                /\ (k = i /\ held(i)) \/ (k = i - 1 /\ ~held(i))
  <2>1. CASE held(i)
    <3>1. /\ stage[i].done /\ stage[i].bmask \cap killed = {}
          /\ stage'[i].tag = stage[i].tag /\ stage'[i].bmask = stage[i].bmask \ cleared
      BY <1>13, <1>14, <2>1 DEF Moves, held
    <3>2. i \in 0 .. STAGES /\ Src(i) = stage[i]
      BY <1>0, <1>11
    <3> QED BY <2>1, <3>1, <3>2
  <2>2. CASE ~held(i)
    <3>1. /\ Input(i).done /\ Input(i).bmask \cap killed = {}
          /\ stage'[i].tag = Input(i).tag /\ stage'[i].bmask = Input(i).bmask \ cleared
      BY <1>13, <1>14, <2>2 DEF Moves, held
    <3>2. i - 1 \in 0 .. STAGES /\ Src(i - 1) = Input(i)
      BY <1>11
    <3> QED BY <2>2, <3>1, <3>2
  <2> QED BY <2>1, <2>2
\* Who stays is not broadcast.
<1>15. /\ \A e \in rs : e.tag \notin tags
       /\ \A k \in 0 .. STAGES : Src(k).done => Src(k).tag \notin tags
       /\ fub[0].valid => fub[0].tag \notin tags
       /\ stall => fub[1].tag \notin tags
  BY <1>0, <1>1, <1>11 DEF AllProductsApart, Stays
<1> HIDE DEF tags
<1>16. /\ \A e \in rs : Stays(e, killed) =>
            Known(window', Clear(e, cleared)) /\ Clear(e, cleared).tag = e.tag
       /\ Stays(fub[0], killed) =>
            Known(window', Clear(fub[0], cleared)) /\ Clear(fub[0], cleared).tag = fub[0].tag
       /\ Up => Known(window', Clear(fub[1], cleared)) /\ Clear(fub[1], cleared).tag = fub[1].tag
  <2>1. \A e \in rs : e \in FubEntry /\ Known(window, e)
    BY <1>0, EntryKinds DEF MultTypes, AllProductsKnown
  <2>2. /\ Stays(fub[0], killed) => Known(window, fub[0])
        /\ Stays(fub[1], killed) => Known(window, fub[1])
    BY <1>0 DEF AllProductsKnown, Stays
  <2>3. ASSUME NEW e \in rs, Stays(e, killed)
        PROVE  Known(window', Clear(e, cleared)) /\ Clear(e, cleared).tag = e.tag
    BY <1>3, <1>15, <2>1, <2>3, EntryStaysKnown
  <2>4. ASSUME Stays(fub[0], killed)
        PROVE  Known(window', Clear(fub[0], cleared)) /\ Clear(fub[0], cleared).tag = fub[0].tag
    <3>1. fub[0].tag \notin tags
      BY <1>15, <2>4 DEF Stays
    <3> QED BY <1>0, <1>3, <2>2, <2>4, <3>1, EntryStaysKnown
  <2>5. ASSUME Up
        PROVE  Known(window', Clear(fub[1], cleared)) /\ Clear(fub[1], cleared).tag = fub[1].tag
    BY <1>0, <1>3, <1>15, <2>2, <2>5, EntryStaysKnown
  <2> QED BY <2>3, <2>4, <2>5
<1>17. ASSUME NEW k \in 0 .. STAGES, Src(k).done, Src(k).bmask \cap killed = {},
              NEW x, x.tag = Src(k).tag, x.bmask = Src(k).bmask \ cleared
       PROVE  Known(window', x)
  <2>1. Known(window, Src(k)) /\ Src(k).tag \notin tags
    BY <1>11, <1>15, <1>17
  <2> QED BY <1>3, <1>17, <2>1, StaysKnown
<1>18. f.valid => /\ Known(window', f) /\ Src(STAGES).done /\ f.tag = Src(STAGES).tag
  <2>1. Src(STAGES) = L
    BY <1>0, <1>11
  <2> HIDE DEF L
  <2>2. f.valid => /\ L.done /\ L.bmask \cap killed = {}
                   /\ f.tag = L.tag /\ f.bmask = L.bmask \ cleared
    BY <1>4, <1>5
  <2> QED BY <1>0, <1>17, <2>1, <2>2
<1>19. \A x \in kept : \E e \in rs : /\ Stays(e, killed) /\ x = Clear(e, cleared)
                                     /\ x.tag = e.tag /\ Known(window', x)
                                     /\ e.tag \in Tags(window)
  BY <1>0, <1>9, <1>16 DEF AllProductsKnown, Known
<1> HIDE DEF kept, new
<1>20. MultTypes'
  <2>1. InOrder(window') /\ Len(window') <= WINDOW
    <3>1. InOrder(window') /\ Len(window') <= Len(window) + Len(isns)
      BY <1>3 DEF Passes
    <3>2. Len(window') \in Nat /\ Len(window) \in Nat /\ Len(isns) \in Nat
      <4>1. \A m : Len(<<>>) \in Nat /\ Len(<<m>>) \in Nat
        OBVIOUS
      <4>2. Len(isns) \in Nat
        BY <4>1 DEF Offers
      <4> QED BY <1>0, <3>1, <4>2 DEF InOrder, MultTypes
    <3> QED BY <3>1, <3>2, WindowAssumption
  <2>2. rs' \subseteq Result /\ fus' \in FubEntry
    BY <1>2, <1>9, <1>10, EntryKinds
  <2>3. stage' \in [1 .. STAGES -> Stage]
    <3>1. \A i \in 1 .. STAGES : stage[i] \in Stage
      BY <1>0 DEF MultTypes
    <3>2. [done |-> fus.valid, tag |-> fus.tag, bmask |-> fus.bmask] \in Stage
      <4>1. /\ fus.valid \in BOOLEAN /\ fus.tag \in TAG \cup {PHYS_ZERO_REG}
            /\ fus.bmask \subseteq BRANCH
        BY <1>0, EntryKinds DEF NoResult
      <4> QED BY <4>1 DEF Stage
    <3>3. \A i \in 1 .. STAGES : Input(i) \in Stage
      <4>1. \A k \in 0 .. STAGES : k = 0 \/ k \in 1 .. STAGES
        BY <1>0
      <4>2. \A k \in 0 .. STAGES : Src(k) \in Stage
        BY <1>11, <3>1, <3>2, <4>1
      <4> QED BY <1>11, <4>2
    <3>4. ASSUME NEW i \in 1 .. STAGES
          PROVE  /\ StageMask(i, stall, killed, cleared) \in SUBSET BRANCH
                 /\ stage[i].done \in BOOLEAN /\ stage[i].tag \in TAG \cup {PHYS_ZERO_REG}
                 /\ Input(i).done \in BOOLEAN /\ Input(i).tag \in TAG \cup {PHYS_ZERO_REG}
      <4>1. stage[i] \in Stage /\ Input(i) \in Stage
        BY <3>1, <3>3
      <4> QED BY <4>1 DEF StageMask, Stage
    <3> QED BY <1>2, <3>4 DEF next_stage, Stage
  <2> QED BY <1>7, <2>1, <2>2, <2>3 DEF MultTypes
<1>21. FullMeansCopied'
  <2> SUFFICES ASSUME fub'[0].valid
               PROVE  /\ fub'[1].valid
                      /\ stage'[STAGES].done /\ stage'[STAGES].tag = fub'[0].tag
    BY DEF FullMeansCopied, Copied
  <2>1. /\ fub'[1].valid /\ fub_busy(fub, f, stall, killed)
        /\ \/ Stays(fub[0], killed) /\ fub'[0] = Clear(fub[0], cleared)
           \/ ~fub[0].valid /\ f.valid /\ fub'[0] = f
    BY <1>7
  <2>2. f.valid /\ fub'[0].tag = L.tag
    <3>1. CASE ~fub[0].valid /\ f.valid /\ fub'[0] = f
      BY <1>5, <3>1
    <3>2. CASE Stays(fub[0], killed) /\ fub'[0] = Clear(fub[0], cleared)
      <4>1. L.done /\ L.tag = fub[0].tag
        BY <1>0, <3>2 DEF FullMeansCopied, Copied, Stays
      <4>2. Known(window, fub[0]) /\ Known(window, L)
        BY <1>0, <3>2, <4>1 DEF AllProductsKnown, Stays
      <4>3. L.bmask \cap killed = {}
        BY <3>2, <4>1, <4>2 DEF Known, Stays, Hit
      <4> QED BY <1>4, <1>5, <1>16, <3>2, <4>1, <4>3
    <3> QED BY <2>1, <3>1, <3>2
  <2>3. full /\ L.done /\ L.bmask \cap killed = {}
    BY <1>4, <1>5, <2>1, <2>2
  <2>4. held(STAGES)
    BY <1>0, <1>12, <2>3
  <2>5. stage'[STAGES].done /\ stage'[STAGES].tag = L.tag
    <3>1. Moves(STAGES, stall, killed, cleared)
      BY <1>0, <1>13
    <3> QED BY <2>3, <2>4, <3>1 DEF Moves, held
  <2> QED BY <2>1, <2>2, <2>5
<1>22. AllProductsKnown'
  <2>1. \A e \in rs' : Known(window', e)
    BY <1>2, <1>10, <1>19
  <2>2. fus'.valid => Known(window', fus')
    BY <1>2, <1>9, <1>19, EntryKinds
  <2>3. fub'[0].valid => Known(window', fub'[0])
    BY <1>7, <1>16, <1>18
  <2>4. fub'[1].valid => Known(window', fub'[1])
    BY <1>7, <1>16, <1>18
  <2>5. ASSUME NEW i \in 1 .. STAGES, stage'[i].done PROVE Known(window', stage'[i])
    <3>1. PICK k \in 0 .. STAGES :
             /\ Src(k).done /\ Src(k).bmask \cap killed = {}
             /\ stage'[i].tag = Src(k).tag /\ stage'[i].bmask = Src(k).bmask \ cleared
      BY <1>14, <2>5
    <3> QED BY <1>17, <3>1
  <2> QED BY <2>1, <2>2, <2>3, <2>4, <2>5 DEF AllProductsKnown
<1>23. AllProductsApart'
  <2>1. ASSUME NEW x \in kept, NEW y \in kept, x.tag = y.tag PROVE x = y
    BY <1>0, <1>19, <2>1 DEF AllProductsApart
  <2>2. ASSUME NEW x \in kept, NEW y \in new PROVE x.tag # y.tag
    BY <1>10, <1>19
  <2>3. \A a, e \in rs' : a.tag = e.tag => a = e
    BY <1>2, <1>10, <2>1, <2>2
  <2>4. \A e \in rs' : fus'.valid => e.tag # fus'.tag
    BY <1>2, <1>9, <2>1, <2>2, EntryKinds
  \* The tags in the buffer and in the stages are old.
  <2>5. /\ Up => fub[1].valid /\ fub[1].tag \in Tags(window)
        /\ Stays(fub[0], killed) => fub[0].valid /\ fub[0].tag \in Tags(window)
        /\ f.valid => f.tag \in Tags(window)
        /\ \A k \in 0 .. STAGES : Src(k).done => Src(k).tag \in Tags(window)
    BY <1>0, <1>11, <1>18 DEF AllProductsKnown, Known, Stays
  <2>6. ASSUME NEW i \in {0, 1}, fub'[i].valid
        PROVE  \/ Up /\ fub'[i].tag = fub[1].tag
               \/ Stays(fub[0], killed) /\ fub'[i].tag = fub[0].tag
               \/ f.valid /\ fub'[i].tag = f.tag
    BY <1>7, <1>16, <2>6
  <2>7. ASSUME NEW i \in 1 .. STAGES, stage'[i].done
        PROVE  \E k \in 0 .. STAGES :
                 /\ Src(k).done /\ stage'[i].tag = Src(k).tag
                 /\ (k = i /\ held(i)) \/ (k = i - 1 /\ ~held(i))
    BY <1>14, <2>7
  <2>8. \A x \in kept, i \in {0, 1} : fub'[i].valid => x.tag # fub'[i].tag
    BY <1>0, <1>11, <1>18, <1>19, <2>5, <2>6 DEF AllProductsApart
  <2>9. \A x \in new, i \in {0, 1} : fub'[i].valid => x.tag # fub'[i].tag
    BY <1>10, <2>5, <2>6
  <2>10. \A x \in kept, i \in 1 .. STAGES : stage'[i].done => x.tag # stage'[i].tag
    BY <1>11, <1>19, <2>7
  <2>11. \A x \in new, i \in 1 .. STAGES : stage'[i].done => x.tag # stage'[i].tag
    BY <1>10, <2>5, <2>7
  <2>12. /\ \A e \in rs', i \in {0, 1} : fub'[i].valid => e.tag # fub'[i].tag
         /\ \A e \in rs', i \in 1 .. STAGES : stage'[i].done => e.tag # stage'[i].tag
    BY <1>2, <2>8, <2>9, <2>10, <2>11
  <2>13. /\ \A i \in {0, 1} : fus'.valid /\ fub'[i].valid => fus'.tag # fub'[i].tag
         /\ \A i \in 1 .. STAGES : fus'.valid /\ stage'[i].done => fus'.tag # stage'[i].tag
    BY <1>2, <1>9, <2>8, <2>10, EntryKinds
  <2>14. fub'[0].valid =>
           /\ fub'[1].tag = fub[1].tag /\ Up
           /\ \/ Stays(fub[0], killed) /\ fub'[0].tag = fub[0].tag
              \/ f.valid /\ fub'[0].tag = f.tag
           /\ fub'[0].tag = Src(STAGES).tag /\ Src(STAGES).done
    <3>1. fub[0].valid => L.done /\ L.tag = fub[0].tag
      BY <1>0 DEF FullMeansCopied, Copied
    <3>2. Src(STAGES) = L
      BY <1>0, <1>11
    <3> HIDE DEF L
    <3> QED BY <1>7, <1>16, <1>18, <2>5, <3>1, <3>2
  <2>15. fub'[0].valid /\ fub'[1].valid => fub'[0].tag # fub'[1].tag
    BY <1>0, <1>11, <2>5, <2>14
  <2>16. ASSUME NEW i \in 1 .. STAGES, fub'[1].valid, stage'[i].done
         PROVE  fub'[1].tag # stage'[i].tag
    <3>1. PICK k \in 0 .. STAGES : /\ Src(k).done /\ stage'[i].tag = Src(k).tag
                                   /\ (k = i /\ held(i)) \/ (k = i - 1 /\ ~held(i))
      BY <2>7, <2>16
    <3>2. CASE Up /\ fub'[1] = Clear(fub[1], cleared)
      BY <1>11, <1>16, <2>5, <3>1, <3>2
    <3>3. CASE ~Up /\ Stays(fub[0], killed) /\ fub'[1] = Clear(fub[0], cleared)
      <4>1. k # STAGES
        BY <1>0, <1>8, <1>12, <3>1, <3>3
      <4> QED BY <1>11, <1>16, <2>5, <3>1, <3>3, <4>1
    <3>4. CASE ~Up /\ ~fub[0].valid /\ f.valid /\ fub'[1] = f
      <4>1. k # STAGES
        BY <1>0, <1>8, <1>12, <3>1, <3>4
      <4> QED BY <1>0, <1>11, <1>18, <3>1, <3>4, <4>1
    <3> QED BY <1>7, <2>16, <3>2, <3>3, <3>4
  <2>17. ASSUME NEW i \in 1 .. STAGES, fub'[0].valid, stage'[i].done,
                fub'[0].tag = stage'[i].tag
         PROVE  i = STAGES
    <3>1. PICK k \in 0 .. STAGES : /\ Src(k).done /\ stage'[i].tag = Src(k).tag
                                   /\ (k = i /\ held(i)) \/ (k = i - 1 /\ ~held(i))
      BY <2>7, <2>17
    <3>2. k = STAGES
      BY <1>0, <1>11, <2>14, <2>17, <3>1
    <3> QED BY <1>0, <3>1, <3>2
  <2>18. ASSUME NEW i \in 1 .. STAGES, NEW j \in 1 .. STAGES,
                stage'[i].done, stage'[j].done, stage'[i].tag = stage'[j].tag
         PROVE  i = j
    <3>1. PICK k \in 0 .. STAGES : /\ Src(k).done /\ stage'[i].tag = Src(k).tag
                                   /\ (k = i /\ held(i)) \/ (k = i - 1 /\ ~held(i))
      BY <2>7, <2>18
    <3>2. PICK m \in 0 .. STAGES : /\ Src(m).done /\ stage'[j].tag = Src(m).tag
                                   /\ (m = j /\ held(j)) \/ (m = j - 1 /\ ~held(j))
      BY <2>7, <2>18
    <3>3. k = m
      BY <1>11, <2>18, <3>1, <3>2
    <3>4. \A p \in 1 .. STAGES : held(p) => held(p + 1)
      BY <1>12
    <3> QED BY <1>0, <3>1, <3>2, <3>3, <3>4
  <2> QED BY <2>3, <2>4, <2>12, <2>13, <2>15, <2>16, <2>17, <2>18 DEF AllProductsApart
<1>24. AllProductsHeld'
  <2> SUFFICES ASSUME NEW t \in Tags(window')
               PROVE  \/ \E e \in rs' : e.tag = t
                      \/ fus'.valid /\ fus'.tag = t
                      \/ \E i \in 1 .. STAGES : stage'[i].done /\ stage'[i].tag = t
                      \/ \E i \in {0, 1} : fub'[i].valid /\ fub'[i].tag = t
    BY DEF AllProductsHeld
  <2>1. t \in TAG
    BY DEF Tags
  <2>2. CASE isns = <<Instr(t)>>
    BY <1>2, <1>10, <2>1, <2>2
  <2>3. CASE isns # <<Instr(t)>>
    <3>1. t \in Tags(window)
      BY <1>3, <2>3 DEF Passes
    <3>2. ASSUME NEW e, Known(window, e), e.tag = t
          PROVE  e.bmask \cap killed = {} /\ e.tag \notin tags
      BY <1>3, <3>2, KnownStays
    <3>3. ASSUME NEW e \in rs, e.tag = t
          PROVE  \/ \E x \in rs' : x.tag = t
                 \/ fus'.valid /\ fus'.tag = t
      <4>0. e.valid /\ e.bmask \cap killed = {}
        BY <1>0, <3>2, <3>3, EntryKinds DEF AllProductsKnown, MultTypes
      <4>1. Stays(e, killed)
        BY <4>0 DEF Stays, Hit
      <4>2. Clear(e, cleared) \in kept /\ Clear(e, cleared).tag = t
        BY <1>9, <1>16, <3>3, <4>1
      <4>3. \A x \in kept : x.valid
        BY <1>9, EntryKinds
      <4> QED BY <1>2, <4>2, <4>3
    <3>4. ASSUME fub[1].valid, fub[1].tag = t
          PROVE  fub'[1].valid /\ fub'[1].tag = t
      <4>1. Stays(fub[1], killed) /\ fub[1].tag \notin tags
        BY <1>0, <3>2, <3>4 DEF AllProductsKnown, Stays, Hit
      <4>2. stall
        BY <1>1, <4>1 DEF tags
      <4>3. fub'[1] = Clear(fub[1], cleared)
        BY <1>6, <4>1, <4>2 DEF Shifts
      <4> QED BY <1>0, <1>16, <3>4, <4>1, <4>2, <4>3, Cleared
    <3>5. ASSUME fub[0].valid, fub[0].tag = t
          PROVE  \E i \in {0, 1} : fub'[i].valid /\ fub'[i].tag = t
      <4>1. Stays(fub[0], killed)
        BY <1>0, <3>2, <3>5 DEF AllProductsKnown, Stays, Hit
      <4>2. fub'[0] = Clear(fub[0], cleared) \/ fub'[1] = Clear(fub[0], cleared)
        BY <1>6, <4>1 DEF Shifts
      <4>3. Clear(fub[0], cleared).valid /\ Clear(fub[0], cleared).tag = t
        BY <1>0, <1>16, <3>5, <4>1, Cleared
      <4> QED BY <4>2, <4>3
    <3>6. ASSUME NEW i \in 1 .. STAGES, ~held(i), Input(i).done, Input(i).tag = t
          PROVE  stage'[i].done /\ stage'[i].tag = t
      <4>1. Input(i).bmask \cap killed = {}
        BY <1>11, <3>2, <3>6
      <4> QED BY <1>13, <3>6, <4>1 DEF Moves, held
    <3>7. ASSUME fus.valid, fus.tag = t
          PROVE  \E i \in 1 .. STAGES : stage'[i].done /\ stage'[i].tag = t
      <4>1. ~held(1)
        BY <1>12, <3>7 DEF Sound, Arrives
      <4>2. 1 \in 1 .. STAGES /\ Input(1).done /\ Input(1).tag = t
        BY <1>0, <3>7 DEF Input
      <4> QED BY <3>6, <4>1, <4>2
    <3>8. ASSUME NEW i \in 1 .. STAGES, stage[i].done, stage[i].tag = t
          PROVE  \/ \E j \in 1 .. STAGES : stage'[j].done /\ stage'[j].tag = t
                 \/ \E j \in {0, 1} : fub'[j].valid /\ fub'[j].tag = t
      <4>0. stage[i].bmask \cap killed = {}
        BY <1>0, <3>2, <3>8 DEF AllProductsKnown
      <4>1. CASE held(i)
        BY <1>13, <3>8, <4>0, <4>1 DEF Moves, held
      <4>2. CASE ~held(i) /\ i # STAGES
        <5>1. i + 1 \in 1 .. STAGES /\ Input(i + 1) = stage[i] /\ i \in 0 .. STAGES
          <6>1. i + 1 \in 1 .. STAGES /\ i + 1 # 1 /\ (i + 1) - 1 = i /\ i \in 0 .. STAGES
            BY <1>0, <4>2
          <6> QED BY <6>1 DEF Input
        <5>2. ~held(i + 1)
          BY <1>12, <3>8, <4>2
        <5> QED BY <3>6, <3>8, <5>1, <5>2
      <4>3. CASE ~held(i) /\ i = STAGES
        <5>1. ~full /\ L.done /\ L.tag = t /\ L.bmask \cap killed = {}
          BY <1>12, <3>8, <4>0, <4>3
        <5>2. f.valid /\ f.tag = t
          BY <1>4, <1>5, <5>1
        <5>3. CASE fub[0].valid
          <6>1. fub[0].tag = t
            BY <1>0, <5>1, <5>3 DEF FullMeansCopied, Copied
          <6> QED BY <3>5, <5>3, <6>1
        <5>4. CASE ~fub[0].valid
          <6>1. fub'[0] = f \/ fub'[1] = f
            BY <1>5, <1>6, <5>2, <5>4 DEF Shifts, Stays
          <6> QED BY <5>2, <6>1
        <5> QED BY <5>3, <5>4
      <4> QED BY <4>1, <4>2, <4>3
    <3> QED BY <1>0, <3>1, <3>3, <3>4, <3>5, <3>7, <3>8 DEF AllProductsHeld
  <2> QED BY <2>2, <2>3
<1> QED BY <1>20, <1>21, <1>22, <1>23, <1>24 DEF MultInv

LEMMA MultInvInit == MultInit => MultInv
<1> SUFFICES ASSUME MultInit PROVE MultInv
  OBVIOUS
<1>1. /\ window = <<>> /\ rs = {} /\ fus = NoResult
      /\ fub \in [{0, 1} -> FubEntry] /\ \A i \in {0, 1} : fub[i] = NoResult
  BY EntryKinds DEF MultInit, StationInit
<1>2. stage \in [1 .. STAGES -> Stage] /\ \A i \in 1 .. STAGES : ~stage[i].done
  BY DEF MultInit, Stage
<1>3. InOrder(window) /\ Len(window) <= WINDOW /\ Tags(window) = {}
  <2>1. <<>> \in Seq(Members) /\ DOMAIN <<>> = {} /\ Len(<<>>) = 0
    OBVIOUS
  <2>2. InOrder(<<>>)
    BY <2>1 DEF InOrder, OnceEach
  <2>3. Tags(<<>>) = {}
    BY <2>1 DEF Tags
  <2>4. Len(<<>>) <= WINDOW
    BY <2>1, WindowAssumption
  <2> QED BY <1>1, <2>2, <2>3, <2>4
<1>4. MultTypes
  BY <1>1, <1>2, <1>3, EntryKinds DEF MultTypes
<1>5. FullMeansCopied /\ AllProductsKnown /\ AllProductsApart /\ AllProductsHeld
  BY <1>1, <1>2, <1>3, EntryKinds DEF FullMeansCopied, AllProductsKnown, AllProductsApart, AllProductsHeld
<1> QED BY <1>4, <1>5 DEF MultInv

LEMMA MultInvNext == MultInv /\ [MultSafeNext]_mult_vars => MultInv'
<1> SUFFICES ASSUME MultInv, [MultSafeNext]_mult_vars PROVE MultInv'
  OBVIOUS
<1>0. InOrder(window) /\ Unresolved = Branches(window) /\ Branches(window) \subseteq BRANCH
      /\ Len(window) \in Nat /\ Len(window) <= WINDOW
  BY WindowReads DEF MultInv, MultTypes, InOrder, Branches
<1>1. ASSUME NEW cleared, cleared = {} \/ (\E b \in Unresolved : cleared = {b}),
             MultDispatchCycle(cleared, MultSafeStalls({}))
      PROVE  MultInv'
  <2>1. PICK isns \in Offers, stall \in MultSafeStalls({}) :
          \E issued \in Issuable({}, cleared, mult_busy(stall, {})) :
            /\ Len(window) + Len(isns) <= WINDOW
            /\ MultCycle(isns, issued, stall, {}, cleared)
    BY <1>1 DEF MultDispatchCycle
  <2>2. PICK issued \in Issuable({}, cleared, mult_busy(stall, {})) :
            /\ Len(window) + Len(isns) <= WINDOW
            /\ MultCycle(isns, issued, stall, {}, cleared)
    BY <2>1
  <2>3. Resolves(cleared, {})
    BY <1>0, <1>1 DEF Resolves
  <2>4. stall \in Stalls({}) /\ Sound(stall, {})
    BY DEF MultSafeStalls
  <2> QED BY <2>2, <2>3, <2>4, MultCycleStep
<1>2. ASSUME NEW b \in Unresolved, MultRecoverCycle(b, MultSafeStalls({b})) PROVE MultInv'
  <2>1. PICK stall \in MultSafeStalls({b}) :
          \E issued \in Issuable({b}, {}, mult_busy(stall, {b})) :
            MultCycle(<<>>, issued, stall, {b}, {})
    BY <1>2 DEF MultRecoverCycle
  <2>2. PICK issued \in Issuable({b}, {}, mult_busy(stall, {b})) :
            MultCycle(<<>>, issued, stall, {b}, {})
    BY <2>1
  <2>3. Resolves({}, {b})
    BY <1>0 DEF Resolves
  <2>4. <<>> \in Offers /\ Len(window) + Len(<<>>) <= WINDOW
    <3>1. Len(<<>>) = 0
      OBVIOUS
    <3> QED BY <1>0, <3>1 DEF Offers
  <2>5. stall \in Stalls({b}) /\ Sound(stall, {b})
    BY DEF MultSafeStalls
  <2> QED BY <2>2, <2>3, <2>4, <2>5, MultCycleStep
<1>3. CASE UNCHANGED mult_vars
  <2>1. window' = window /\ rs' = rs /\ fus' = fus /\ fub' = fub /\ stage' = stage
    BY <1>3 DEF mult_vars
  <2> QED BY <2>1 DEF MultInv, MultTypes, FullMeansCopied, Copied, AllProductsKnown, AllProductsApart, AllProductsHeld
<1> QED BY <1>1, <1>2, <1>3 DEF MultSafeNext

LEMMA MultInvHolds == MultSafeSpec => []MultInv
BY MultInvInit, MultInvNext, PTL DEF MultSafeSpec

-----------------------------------------------------------------------------
(* What the properties say of the places follows from the invariant. *)
At(i, e) == [at |-> i, tag |-> e.tag, bmask |-> e.bmask]

LEMMA Places ==
  ASSUME NEW c
  PROVE  c \in HeldProducts <=>
           \/ \E e \in rs : c = At(0, e)
           \/ \E i \in InStages : c = At(i, stage[i])
           \/ \E i \in {0, 1} : fub[i].valid /\ c = At(STAGES + 1 + i, fub[i])
           \/ fus.valid /\ c = At(STAGES + 3, fus)
BY DEF HeldProducts, At

LEMMA HeldProductsKnown ==
  ASSUME MultInv
  PROVE  /\ \A c \in HeldProducts : Known(window, c)
         /\ \A c, d \in HeldProducts : c.tag = d.tag => c = d
         /\ \A t \in Tags(window) : \E c \in HeldProducts : c.tag = t
<1>0. /\ MultTypes /\ AllProductsKnown /\ AllProductsApart /\ AllProductsHeld /\ FullMeansCopied
      /\ STAGES \in 1 .. STAGES
  BY PipeAssumption DEF MultInv
<1>1. /\ \A i, e : At(i, e).tag = e.tag /\ At(i, e).bmask = e.bmask
      /\ \A i \in InStages : i \in 1 .. STAGES /\ stage[i].done
  BY DEF At, InStages
<1>2. \A i, e, w : Known(w, e) => Known(w, At(i, e))
  BY <1>1 DEF Known
<1>3. ASSUME NEW c \in HeldProducts PROVE Known(window, c)
  <2>1. \/ \E e \in rs : c = At(0, e)
        \/ \E i \in InStages : c = At(i, stage[i])
        \/ \E i \in {0, 1} : fub[i].valid /\ c = At(STAGES + 1 + i, fub[i])
        \/ fus.valid /\ c = At(STAGES + 3, fus)
    BY Places
  <2> QED BY <1>0, <1>1, <1>2, <2>1 DEF AllProductsKnown
<1>4. ASSUME NEW c \in HeldProducts, NEW d \in HeldProducts, c.tag = d.tag PROVE c = d
  \* The places, each with what is in it.
  <2> DEFINE In(x) ==
        \/ \E e \in rs : x = At(0, e) /\ x.tag = e.tag
        \/ \E i \in InStages : x = At(i, stage[i]) /\ x.tag = stage[i].tag
        \/ fub[0].valid /\ x = At(STAGES + 1 + 0, fub[0]) /\ x.tag = fub[0].tag
        \/ fub[1].valid /\ x = At(STAGES + 1 + 1, fub[1]) /\ x.tag = fub[1].tag
        \/ fus.valid /\ x = At(STAGES + 3, fus) /\ x.tag = fus.tag
  <2>1. In(c) /\ In(d)
    BY <1>1, Places
  <2>2. \A i \in InStages : fub[0].valid => stage[i].tag # fub[0].tag
    <3>1. \A i \in InStages : fub[0].valid => i # STAGES
      BY <1>0 DEF InStages, FullMeansCopied
    <3> QED BY <1>0, <1>1, <3>1 DEF AllProductsApart
  <2>3. \A i, j \in InStages : stage[i].tag = stage[j].tag => i = j
    BY <1>0, <1>1 DEF AllProductsApart
  <2>4. /\ \A a, e \in rs : a.tag = e.tag => a = e
        /\ \A e \in rs : /\ fus.valid => e.tag # fus.tag
                         /\ fub[0].valid => e.tag # fub[0].tag
                         /\ fub[1].valid => e.tag # fub[1].tag
        /\ \A e \in rs, i \in InStages : e.tag # stage[i].tag
        /\ fus.valid /\ fub[0].valid => fus.tag # fub[0].tag
        /\ fus.valid /\ fub[1].valid => fus.tag # fub[1].tag
        /\ \A i \in InStages : fus.valid => fus.tag # stage[i].tag
        /\ \A i \in InStages : fub[1].valid => fub[1].tag # stage[i].tag
        /\ fub[0].valid /\ fub[1].valid => fub[0].tag # fub[1].tag
    BY <1>0, <1>1 DEF AllProductsApart
  <2> QED BY <1>4, <2>1, <2>2, <2>3, <2>4
<1>5. ASSUME NEW t \in Tags(window) PROVE \E c \in HeldProducts : c.tag = t
  <2>1. ASSUME NEW e \in rs, e.tag = t PROVE \E c \in HeldProducts : c.tag = t
    <3>1. At(0, e) \in HeldProducts
      BY Places
    <3> QED BY <1>1, <2>1, <3>1
  <2>2. ASSUME fus.valid, fus.tag = t PROVE \E c \in HeldProducts : c.tag = t
    <3>1. At(STAGES + 3, fus) \in HeldProducts
      BY <2>2, Places
    <3> QED BY <1>1, <2>2, <3>1
  <2>3. ASSUME NEW i \in {0, 1}, fub[i].valid, fub[i].tag = t PROVE \E c \in HeldProducts : c.tag = t
    <3>1. At(STAGES + 1 + i, fub[i]) \in HeldProducts
      BY <2>3, Places
    <3> QED BY <1>1, <2>3, <3>1
  <2>4. ASSUME NEW i \in 1 .. STAGES, stage[i].done, stage[i].tag = t
        PROVE  \E c \in HeldProducts : c.tag = t
    <3>1. CASE i \in InStages
      <4>1. At(i, stage[i]) \in HeldProducts
        BY <3>1, Places
      <4> QED BY <1>1, <2>4, <4>1
    <3>2. CASE i \notin InStages
      <4>1. fub[0].valid /\ fub[0].tag = t /\ 0 \in {0, 1}
        BY <2>4, <3>2 DEF InStages, Copied
      <4> QED BY <2>3, <4>1
    <3> QED BY <3>1, <3>2
  <2> QED BY <1>0, <2>1, <2>2, <2>3, <2>4 DEF AllProductsHeld
<1> QED BY <1>3, <1>4, <1>5

LEMMA MultConsequences == MultInv => EachProductOnce /\ ProductMasksExact /\ FullMeansCopied
<1> SUFFICES ASSUME MultInv PROVE EachProductOnce /\ ProductMasksExact /\ FullMeansCopied
  OBVIOUS
<1>0. InOrder(window) /\ FullMeansCopied
  BY DEF MultInv, MultTypes
<1>1. /\ LiveTags = Tags(window) /\ \A t \in LiveTags : OlderBranches(t) = Older(window, t)
      /\ IsFiniteSet(LiveTags)
  BY <1>0, WindowReads, WindowOnce
<1>2. /\ \A c \in HeldProducts : Known(window, c) /\ c.tag \in LiveTags
      /\ \A c, d \in HeldProducts : c.tag = d.tag => c = d
      /\ \A t \in LiveTags : \E c \in HeldProducts : c.tag = t
  BY <1>1, HeldProductsKnown DEF Known
<1>3. ProductMasksExact
  BY <1>1, <1>2 DEF ProductMasksExact, Known
<1>4. EachProductOnce
  <2> DEFINE in(t) == CHOOSE c \in HeldProducts : c.tag = t
             h == [t \in LiveTags |-> in(t)]
  <2>0. \A t \in LiveTags : in(t) \in HeldProducts /\ in(t).tag = t
    BY <1>2
  <2> HIDE DEF in
  <2>1. h \in Bijection(LiveTags, HeldProducts)
    <3>1. \A t, u \in LiveTags : in(t) = in(u) => t = u
      BY <2>0
    <3>2. \A c \in HeldProducts : c.tag \in LiveTags /\ in(c.tag) = c
      BY <1>2, <2>0
    <3> QED BY <2>0, <3>1, <3>2 DEF Bijection, Injection, Surjection, IsInjective
  <2>2. ExistsBijection(LiveTags, HeldProducts)
    BY <2>1 DEF ExistsBijection
  <2>3. Cardinality(HeldProducts) = Cardinality(LiveTags)
    BY <1>1, <2>2, FS_Bijection
  <2>4. {c.tag : c \in HeldProducts} = LiveTags
    BY <1>2
  <2> QED BY <2>3, <2>4 DEF EachProductOnce
<1> QED BY <1>0, <1>3, <1>4

(* Unless one of the three losses of pipe_mult_fu.v:45-84 happens, no result   *)
(* is lost or doubled in the multiplier, however its stages stall.            *)
THEOREM EachProductOnceHolds == MultSafeSpec => []EachProductOnce
BY MultInvHolds, MultConsequences, PTL

(* Every instruction keeps its own mask on the way through the stages.        *)
THEOREM ProductMasksExactHolds == MultSafeSpec => []ProductMasksExact
BY MultInvHolds, MultConsequences, PTL

(* A full buffer is full because of the stage before it, which holds what the *)
(* buffer has taken: what the buffer drops (FUBi.v:110-121) is a copy.        *)
THEOREM FullMeansCopiedHolds == MultSafeSpec => []FullMeansCopied
BY MultInvHolds, MultConsequences, PTL
=============================================================================
