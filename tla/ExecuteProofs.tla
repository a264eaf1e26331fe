---------------------------- MODULE ExecuteProofs ----------------------------
(***************************************************************************)
(* Out-of-order execution, for any number of stations, units, registers and   *)
(* instructions in flight.                                                     *)
(***************************************************************************)
EXTENDS ExecuteProps, WellFoundedInduction, NaturalsInduction

(* A set of numbers that is not empty has a least one. *)
LEMMA MinIsLeast ==
  ASSUME NEW S \in SUBSET Nat, S # {}
  PROVE  Min(S) \in S
<1>1. PICK x \in S : \A y \in S : <<y, x>> \notin OpToRel(<, Nat)
  BY WFMin, NatLessThanWellFounded, Zenon
<1>2. \A y \in S : ~(y < x)
  BY <1>1, Zenon DEF OpToRel
<1>3. \A y \in S : x <= y
  BY <1>2
<1> QED BY <1>3 DEF Min

-----------------------------------------------------------------------------
(***************************************************************************)
(* The invariant.                                                            *)
(***************************************************************************)
Register     == TAG \cup {PHYS_ZERO_REG}
StationEntry ==
  [valid : {TRUE}, fuType : {"LDST", "ALU"}, rd_mem : BOOLEAN, tag : TAG,
   tagA : Register, aReady : BOOLEAN, tagB : Register, bReady : BOOLEAN,
   bmask : SUBSET BRANCH]
Issue == [slot : RS_PTR, unit : FUB, entry : StationEntry]

Types ==
  /\ entries \in [RS_PTR -> {Vacant} \cup StationEntry]
  /\ rs_issue \in Seq(Issue) /\ Len(rs_issue) <= 2
  /\ fub \in [FUB -> [{0, 1} -> FubEntry]]
  /\ window \in Seq([tag : TAG, done : BOOLEAN])
  /\ checkpoint \in {NoCheckpoint} \cup 0 .. Len(window)

\* Every register is the destination of one instruction of the window.
OnceEach == \A p, q \in DOMAIN window : window[p].tag = window[q].tag => p = q

\* The unresolved branch is older than t; s is older than t.
Behind(t)   == checkpoint # NoCheckpoint
               /\ \E p \in DOMAIN window : window[p].tag = t /\ p > checkpoint
Older(s, t) == \E p, q \in DOMAIN window : p < q /\ window[p].tag = s /\ window[q].tag = t
MaskOf(t)   == IF Behind(t) THEN BRANCH ELSE {}

\* What is held is of an instruction that is not done, with its mask.
Known(e) == e.tag \in Pending /\ e.bmask = MaskOf(e.tag)
AllKnown ==
  /\ \A i \in RS_PTR : entries[i].valid => Known(entries[i])
  /\ \A k \in DOMAIN rs_issue : Known(rs_issue[k].entry)
  /\ \A u \in FUB, j \in {0, 1} : fub[u][j].valid => Known(fub[u][j])

\* No two places hold the same instruction.
AllApart ==
  /\ \A h, i \in RS_PTR :
       entries[h].valid /\ entries[i].valid /\ entries[h].tag = entries[i].tag => h = i
  /\ \A i \in RS_PTR, k \in DOMAIN rs_issue :
       entries[i].valid => entries[i].tag # rs_issue[k].entry.tag
  /\ \A i \in RS_PTR, u \in FUB, j \in {0, 1} :
       entries[i].valid /\ fub[u][j].valid => entries[i].tag # fub[u][j].tag
  /\ \A k, l \in DOMAIN rs_issue : rs_issue[k].entry.tag = rs_issue[l].entry.tag => k = l
  /\ \A k \in DOMAIN rs_issue, u \in FUB, j \in {0, 1} :
       fub[u][j].valid => rs_issue[k].entry.tag # fub[u][j].tag
  /\ \A t, u \in FUB, i, j \in {0, 1} :
       fub[t][i].valid /\ fub[u][j].valid /\ fub[t][i].tag = fub[u][j].tag => t = u /\ i = j

\* Every instruction that is not done is somewhere.
AllHeld ==
  \A t \in Pending :
    \/ \E i \in RS_PTR : entries[i].valid /\ entries[i].tag = t
    \/ \E k \in DOMAIN rs_issue : rs_issue[k].entry.tag = t
    \/ \E u \in FUB, j \in {0, 1} : fub[u][j].valid /\ fub[u][j].tag = t

\* A unit computes one instruction, and finds room for it.
UnitsFree ==
  /\ \A k, l \in DOMAIN rs_issue : rs_issue[k].unit = rs_issue[l].unit => k = l
  /\ \A k \in DOMAIN rs_issue : ~fub[rs_issue[k].unit][0].valid
  /\ \A u \in FUB : fub[u][0].valid => fub[u][1].valid

\* Who is waited for is older than who waits.
OperandsOlder ==
  \A i \in RS_PTR : entries[i].valid =>
    \A o \in {entries[i].tagA, entries[i].tagB} : o \in Pending => Older(o, entries[i].tag)

IInv ==
  /\ Types /\ OnceEach /\ AllKnown /\ AllApart /\ AllHeld /\ UnitsFree /\ OperandsOlder
  /\ OperandsExact /\ OneLoadIssued

-----------------------------------------------------------------------------
(***************************************************************************)
(* What a cycle is given.                                                    *)
(***************************************************************************)
\* Instruction k of a dispatch: a noop or halt that names a register, or one
\* with a new register, whose operands are known.
Allocates(isns, k) ==
  /\ isns[k].fuType \in {"LDST", "ALU"} /\ isns[k].rd_mem \in BOOLEAN
  /\ isns[k].tag \in TAG \ (Live \cup Named)
  /\ \A o \in {isns[k].tagA, isns[k].tagB} :
       \/ o \in Operands
       \/ k = 2 /\ isns[1].allocates /\ o = Awaited(isns[1].tag)
Waits(isns, k) ==
  /\ isns[k].tag = PHYS_ZERO_REG /\ isns[k].tagA \in Operands /\ isns[k].tagB = NoOperand

Dispatchable(isns) ==
  /\ DOMAIN isns = 1 .. Len(isns) /\ Len(isns) \in 0 .. 2
  /\ \A k \in DOMAIN isns :
       /\ isns[k].allocates \in BOOLEAN
       /\ IF isns[k].allocates THEN Allocates(isns, k) ELSE Waits(isns, k)
  /\ Len(isns) = 2 /\ isns[1].allocates /\ isns[2].allocates => isns[1].tag # isns[2].tag
  /\ isns # <<>> => Free # {}

LEMMA FirstIn == \A S \in SUBSET TAG : First(S) \subseteq S
BY ExecuteAssumption, MinIsLeast DEF First

LEMMA DispatchesAre ==
  ASSUME NEW isns \in Dispatches
  PROVE  Dispatchable(isns)
<1>1. \A i \in Idle : /\ ~i.allocates /\ i.allocates \in BOOLEAN /\ i.tag = PHYS_ZERO_REG
                      /\ i.tagA \in Operands /\ i.tagB = NoOperand
  BY DEF Idle, Noop
<1>2. \A tags, operands : \A i \in Instructions(tags, operands) :
        /\ i.allocates = TRUE /\ i.fuType \in {"LDST", "ALU"} /\ i.rd_mem \in BOOLEAN
        /\ i.tag \in tags
        /\ i.tagA \in operands \cup {NoOperand} /\ i.tagB \in operands \cup {NoOperand}
  <2> SUFFICES ASSUME NEW tags, NEW operands, NEW i \in Instructions(tags, operands)
               PROVE  /\ i.allocates = TRUE /\ i.fuType \in {"LDST", "ALU"} /\ i.rd_mem \in BOOLEAN
                      /\ i.tag \in tags
                      /\ i.tagA \in operands \cup {NoOperand}
                      /\ i.tagB \in operands \cup {NoOperand}
    OBVIOUS
  <2>1. \/ \E t \in tags, b \in operands : i = Instruction("LDST", t, NoOperand, b)
        \/ \E t \in tags, a \in operands, b \in operands : i = Instruction("ALU", t, a, b)
    BY DEF Instructions
  <2>2. CASE \E t \in tags, b \in operands : i = Instruction("LDST", t, NoOperand, b)
    BY <2>2 DEF Instruction
  <2>3. CASE \E t \in tags, a \in operands, b \in operands : i = Instruction("ALU", t, a, b)
    BY <2>3 DEF Instruction
  <2> QED BY <2>1, <2>2, <2>3
<1>3. NoOperand \in Operands
  BY DEF Operands
<1>4. \A i \in Singles :
        /\ i.allocates \in BOOLEAN
        /\ i.allocates =>
             /\ i.fuType \in {"LDST", "ALU"} /\ i.rd_mem \in BOOLEAN
             /\ i.tag \in TAG \ (Live \cup Named)
             /\ i.tagA \in Operands /\ i.tagB \in Operands
        /\ ~i.allocates => /\ i.tag = PHYS_ZERO_REG /\ i.tagA \in Operands
                           /\ i.tagB = NoOperand
  <2>1. First(TAG \ (Live \cup Named)) \subseteq TAG \ (Live \cup Named)
    BY FirstIn
  <2> DEFINE tags == First(TAG \ (Live \cup Named))
  <2>2. \A i \in Singles : i \in Idle \/ i \in Instructions(tags, Operands)
    BY DEF Singles
  <2> HIDE DEF tags
  <2>3. \A i \in Instructions(tags, Operands) :
          /\ i.allocates = TRUE /\ i.fuType \in {"LDST", "ALU"} /\ i.rd_mem \in BOOLEAN
          /\ i.tag \in tags /\ i.tagA \in Operands /\ i.tagB \in Operands
    BY <1>2, <1>3
  <2> QED BY <1>1, <2>1, <2>2, <2>3 DEF tags
<1>5. \A i \in Singles : \A j \in Seconds(i) :
        /\ j.allocates \in BOOLEAN
        /\ j.allocates =>
             /\ j.fuType \in {"LDST", "ALU"} /\ j.rd_mem \in BOOLEAN
             /\ j.tag \in TAG \ (Live \cup Named) /\ j.tag # i.tag
             /\ \A o \in {j.tagA, j.tagB} :
                  o \in Operands \/ (i.allocates /\ o = Awaited(i.tag))
        /\ ~j.allocates => /\ j.tag = PHYS_ZERO_REG /\ j.tagA \in Operands
                           /\ j.tagB = NoOperand
  <2> SUFFICES ASSUME NEW i \in Singles, NEW j \in Seconds(i)
               PROVE /\ j.allocates \in BOOLEAN
                     /\ j.allocates =>
                          /\ j.fuType \in {"LDST", "ALU"} /\ j.rd_mem \in BOOLEAN
                          /\ j.tag \in TAG \ (Live \cup Named) /\ j.tag # i.tag
                          /\ \A o \in {j.tagA, j.tagB} :
                               o \in Operands \/ (i.allocates /\ o = Awaited(i.tag))
                     /\ ~j.allocates => /\ j.tag = PHYS_ZERO_REG /\ j.tagA \in Operands
                                        /\ j.tagB = NoOperand
    OBVIOUS
  <2> DEFINE more == IF i.allocates THEN {Awaited(i.tag)} ELSE {}
             tags == First(TAG \ (Live \cup Named \cup {i.tag}))
  <2>1. tags \subseteq TAG \ (Live \cup Named \cup {i.tag})
    BY FirstIn
  <2>2. CASE j = Noop
    BY <1>3, <2>2 DEF Noop
  <2>3. CASE j \in Instructions(tags, Operands \cup more)
    <3>1. /\ j.allocates = TRUE /\ j.fuType \in {"LDST", "ALU"} /\ j.rd_mem \in BOOLEAN
          /\ j.tag \in tags
          /\ \A o \in {j.tagA, j.tagB} : o \in Operands \cup more
      <4> HIDE DEF tags, more
      <4> QED BY <1>2, <1>3, <2>3
    <3>2. \A o \in more : i.allocates /\ o = Awaited(i.tag)
      OBVIOUS
    <3> HIDE DEF tags, more
    <3> QED BY <2>1, <3>1, <3>2
  <2> QED BY <2>2, <2>3 DEF Seconds
<1>6. rs_availableSlots >= 1 => Free # {}
  BY FS_EmptySet DEF rs_availableSlots
<1>7. \/ isns = <<>>
      \/ Free # {} /\ \E i \in Singles : isns = <<i>>
      \/ Free # {} /\ \E i \in Singles : \E j \in Seconds(i) : isns = <<i, j>>
  <2>1. rs_availableSlots >= 2 => rs_availableSlots >= 1
    <3>1. rs_availableSlots \in Nat
      <4>1. RS_PTR \in SUBSET (0 .. RS_SIZE - 1) /\ IsFiniteSet(0 .. RS_SIZE - 1)
        BY StationsAssumption, FS_Interval DEF RS_PTR
      <4>2. IsFiniteSet(Free)
        BY <4>1, FS_Subset DEF Free
      <4> QED BY <4>2, FS_CardinalityType DEF rs_availableSlots
    <3> QED BY <3>1
  <2> QED BY <1>6, <2>1 DEF Dispatches
<1>8. CASE isns = <<>>
  BY <1>8 DEF Dispatchable
<1>9. ASSUME NEW i \in Singles, isns = <<i>>, Free # {} PROVE Dispatchable(isns)
  <2>1. DOMAIN isns = {1} /\ Len(isns) = 1 /\ isns[1] = i
    BY <1>9
  <2>2. i.allocates => Allocates(isns, 1)
    BY <1>4, <2>1 DEF Allocates
  <2>3. ~i.allocates => Waits(isns, 1)
    BY <1>4, <2>1 DEF Waits
  <2>4. i.allocates \in BOOLEAN
    BY <1>4
  <2> QED BY <1>9, <2>1, <2>2, <2>3, <2>4 DEF Dispatchable
<1>10. ASSUME NEW i \in Singles, NEW j \in Seconds(i), isns = <<i, j>>, Free # {}
       PROVE  Dispatchable(isns)
  <2>1. DOMAIN isns = {1, 2} /\ Len(isns) = 2 /\ isns[1] = i /\ isns[2] = j
    BY <1>10
  <2>2. /\ i.allocates => Allocates(isns, 1)
        /\ j.allocates => Allocates(isns, 2)
    BY <1>4, <1>5, <2>1 DEF Allocates
  <2>3. /\ ~i.allocates => Waits(isns, 1)
        /\ ~j.allocates => Waits(isns, 2)
    BY <1>4, <1>5, <2>1 DEF Waits
  <2>4. i.allocates \in BOOLEAN /\ j.allocates \in BOOLEAN /\ (j.allocates => i.tag # j.tag)
    BY <1>4, <1>5
  <2> QED BY <1>10, <2>1, <2>2, <2>3, <2>4 DEF Dispatchable
<1> QED BY <1>7, <1>8, <1>9, <1>10

-----------------------------------------------------------------------------
(***************************************************************************)
(* The window in a cycle.                                                    *)
(***************************************************************************)
Resolves(isns, r, killed, cleared) ==
  \/ /\ killed = {} /\ cleared = {}
     /\ checkpoint' \in
          IF checkpoint # NoCheckpoint THEN {checkpoint - r}
          ELSE {NoCheckpoint} \cup (IF Len(isns) = 1 THEN {Len(window')} ELSE {})
  \/ /\ checkpoint # NoCheckpoint /\ killed = {} /\ cleared = BRANCH
     /\ checkpoint' = NoCheckpoint
  \/ /\ checkpoint # NoCheckpoint /\ killed = BRANCH /\ cleared = {} /\ isns = <<>>
     /\ checkpoint' = NoCheckpoint

Advances(isns, r, killed, cdb) ==
  LET size == IF killed # {} THEN checkpoint ELSE Len(window)
      told == [p \in 1 .. size |->
                 [window[p] EXCEPT !.done = @ \/ window[p].tag \in cdb]]
  IN  window' = SubSeq(told, r + 1, size) \o Entering(isns)

Remains(t, cdb, killed) == t \in Pending \ cdb /\ (killed # {} => ~Behind(t))
Enters(t, isns) == \E k \in DOMAIN isns : isns[k].allocates /\ isns[k].tag = t

InFlight == [tag : TAG, done : BOOLEAN]

LEMMA EnteringIs ==
  ASSUME NEW isns, Dispatchable(isns)
  PROVE  LET E == Entering(isns)
         IN  /\ E \in Seq(InFlight)
             /\ \A j \in DOMAIN E : ~E[j].done /\ Enters(E[j].tag, isns)
             /\ \A t : Enters(t, isns) => \E j \in DOMAIN E : E[j].tag = t
             /\ \A i, j \in DOMAIN E : E[i].tag = E[j].tag => i = j
             /\ Len(isns) = 2 /\ isns[1].allocates /\ isns[2].allocates =>
                  \E i, j \in DOMAIN E : i < j /\ E[i].tag = isns[1].tag
                                         /\ E[j].tag = isns[2].tag
<1> DEFINE s == [k \in DOMAIN isns |-> [tag |-> isns[k].tag, done |-> FALSE]]
           K == {k \in DOMAIN isns : isns[k].tag # PHYS_ZERO_REG}
           E == Entering(isns)
           S == [tag : Register, done : {FALSE}]
<1>1. /\ DOMAIN isns = 1 .. Len(isns) /\ Len(isns) \in 0 .. 2
      /\ \A k \in DOMAIN isns : IF isns[k].allocates THEN isns[k].tag \in TAG
                                ELSE isns[k].tag = PHYS_ZERO_REG
      /\ Len(isns) = 2 /\ isns[1].allocates /\ isns[2].allocates => isns[1].tag # isns[2].tag
  BY DEF Dispatchable, Allocates, Waits
<1>2. K = {k \in DOMAIN isns : isns[k].allocates}
  BY <1>1, TagAssumption
<1>3. s \in Seq(S) /\ DOMAIN s = DOMAIN isns /\ K \in SUBSET DOMAIN s
  <2>1. \A k \in DOMAIN isns : [tag |-> isns[k].tag, done |-> FALSE] \in S
    BY <1>1 DEF Register
  <2>2. Len(isns) \in Nat
    BY <1>1
  <2> HIDE DEF S
  <2> QED BY <1>1, <2>1, <2>2
<1>4. \A k \in DOMAIN isns : s[k] = [tag |-> isns[k].tag, done |-> FALSE]
  OBVIOUS
<1>5. E = Picked(s, K)
  BY DEF Entering
<1> HIDE DEF s, K, E, S
<1>6. /\ E \in Seq(S) /\ Len(E) = Cardinality(K) /\ Cardinality(K) \in Nat
      /\ \A k \in 1 .. Cardinality(K) : Nth(K, k) \in K /\ E[k] = s[Nth(K, k)]
      /\ \A k, m \in 1 .. Cardinality(K) : k < m => Nth(K, k) < Nth(K, m)
      /\ \A p \in K : Rank(K, p) \in 1 .. Cardinality(K) /\ E[Rank(K, p)] = s[p]
      /\ \A p, q \in K : p < q => Rank(K, p) < Rank(K, q)
  BY <1>3, <1>5, PickedFacts
<1>7. DOMAIN E = 1 .. Cardinality(K)
  BY <1>6
<1>8. \A j \in DOMAIN E : /\ E[j] \in InFlight /\ ~E[j].done /\ Enters(E[j].tag, isns)
                          /\ Nth(K, j) \in K /\ E[j].tag = isns[Nth(K, j)].tag
  <2> SUFFICES ASSUME NEW j \in DOMAIN E
               PROVE  /\ E[j] \in InFlight /\ ~E[j].done /\ Enters(E[j].tag, isns)
                      /\ Nth(K, j) \in K /\ E[j].tag = isns[Nth(K, j)].tag
    OBVIOUS
  <2> DEFINE k == Nth(K, j)
  <2>1. k \in K /\ E[j] = s[k]
    BY <1>6, <1>7
  <2> HIDE DEF k
  <2>2. k \in DOMAIN isns /\ isns[k].allocates /\ isns[k].tag \in TAG
    BY <1>1, <1>2, <2>1
  <2>3. E[j] = [tag |-> isns[k].tag, done |-> FALSE]
    BY <1>4, <2>1, <2>2
  <2> QED BY <2>1, <2>2, <2>3 DEF InFlight, Enters, k
<1>9. E \in Seq(InFlight)
  <2>1. Len(E) \in Nat /\ DOMAIN E = 1 .. Len(E)
    BY <1>6
  <2>2. E = [j \in 1 .. Len(E) |-> E[j]]
    BY <1>6
  <2> QED BY <1>8, <2>1, <2>2
<1>10. \A t : Enters(t, isns) => \E j \in DOMAIN E : E[j].tag = t
  <2>1. \A k \in K : s[k].tag = isns[k].tag
    <3> SUFFICES ASSUME NEW k \in K PROVE s[k].tag = isns[k].tag
      OBVIOUS
    <3>1. k \in DOMAIN isns
      BY <1>2
    <3>2. s[k] = [tag |-> isns[k].tag, done |-> FALSE]
      BY <1>4, <3>1
    <3> QED BY <3>2
  <2>2. \A t : Enters(t, isns) => \E k \in K : s[k].tag = t
    BY <1>2, <2>1 DEF Enters
  <2> QED BY <1>6, <1>7, <2>2
<1>11. \A i, j \in DOMAIN E : E[i].tag = E[j].tag => i = j
  <2> SUFFICES ASSUME NEW i \in DOMAIN E, NEW j \in DOMAIN E, i < j
               PROVE  E[i].tag # E[j].tag
    BY <1>7, <1>6
  <2>1. Nth(K, i) < Nth(K, j)
    BY <1>6, <1>7
  <2>2. Nth(K, i) \in K /\ Nth(K, j) \in K
    BY <1>8
  <2>3. Nth(K, i) = 1 /\ Nth(K, j) = 2 /\ Len(isns) = 2
    BY <1>1, <1>2, <2>1, <2>2
  <2> QED BY <1>1, <1>2, <1>8, <2>2, <2>3
<1>12. Len(isns) = 2 /\ isns[1].allocates /\ isns[2].allocates =>
         \E i, j \in DOMAIN E : i < j /\ E[i].tag = isns[1].tag /\ E[j].tag = isns[2].tag
  <2> SUFFICES ASSUME Len(isns) = 2, isns[1].allocates, isns[2].allocates
               PROVE  \E i, j \in DOMAIN E : i < j /\ E[i].tag = isns[1].tag
                                             /\ E[j].tag = isns[2].tag
    OBVIOUS
  <2>1. 1 \in K /\ 2 \in K
    BY <1>1, <1>2
  <2>2. Rank(K, 1) < Rank(K, 2)
    BY <1>6, <2>1
  <2> QED BY <1>1, <1>4, <1>6, <1>7, <2>1, <2>2
<1> QED BY <1>8, <1>9, <1>10, <1>11, <1>12 DEF E

LEMMA WindowMoves ==
  ASSUME Types, OnceEach, NEW isns, Dispatchable(isns), NEW r \in Retirements,
         NEW killed, NEW cleared, Resolves(isns, r, killed, cleared), NEW cdb,
         Advances(isns, r, killed, cdb)
  PROVE  /\ window' \in Seq(InFlight) /\ OnceEach'
         /\ checkpoint' \in {NoCheckpoint} \cup 0 .. Len(window')
         /\ \A t : t \in Pending' <=> Remains(t, cdb, killed) \/ Enters(t, isns)
         /\ \A t : Remains(t, cdb, killed) => MaskOf(t)' = MaskOf(t) \ cleared
         /\ \A t : Enters(t, isns) => MaskOf(t)' = bs_bmask \ cleared
         /\ \A s, t : Older(s, t) /\ Remains(s, cdb, killed) /\ Remains(t, cdb, killed)
                        => Older(s, t)'
         /\ \A s, t : Remains(s, cdb, killed) /\ Enters(t, isns) => Older(s, t)'
         /\ Len(isns) = 2 /\ isns[1].allocates /\ isns[2].allocates
              => Older(isns[1].tag, isns[2].tag)'
<1> DEFINE n    == Len(window)
           size == IF killed # {} THEN checkpoint ELSE n
           told == [p \in 1 .. size |->
                      [window[p] EXCEPT !.done = @ \/ window[p].tag \in cdb]]
           m    == size - r
           E    == Entering(isns)
           e    == Len(E)
<1>1. /\ window \in Seq(InFlight) /\ n \in Nat /\ DOMAIN window = 1 .. n
      /\ \A p \in 1 .. n : window[p] \in InFlight
      /\ checkpoint = NoCheckpoint \/ checkpoint \in 0 .. n
      /\ NoCheckpoint \in Int /\ NoCheckpoint < 0
  <2>1. window \in Seq(InFlight) /\ checkpoint \in {NoCheckpoint} \cup 0 .. n
    BY DEF Types, InFlight
  <2>2. NoCheckpoint \in Int /\ NoCheckpoint < 0
    BY DEF NoCheckpoint
  <2> QED BY <2>1, <2>2
<1>2. /\ r \in {0, 1}
      /\ r = 1 => n >= 1 /\ window[1].done /\ checkpoint # 0
  BY <1>1 DEF Retirements
<1>t. r \in Nat /\ n \in Nat
  BY <1>1, <1>2
<1>3. /\ size \in 0 .. n /\ r <= size /\ m \in Nat
      /\ killed # {} => size = checkpoint /\ checkpoint # NoCheckpoint
  <2> HIDE DEF n
  <2>1. killed # {} => checkpoint # NoCheckpoint /\ checkpoint \in 0 .. n
    BY <1>1, ExecuteAssumption DEF Resolves
  <2>2. size \in 0 .. n /\ r <= size
    BY <1>1, <1>2, <2>1
  <2>3. m \in Nat
    <3> HIDE DEF size
    <3> QED BY <1>t, <2>2
  <2> QED BY <2>1, <2>2, <2>3
<1> HIDE DEF n, size
<1>4. \A p \in 1 .. size :
        /\ told[p] \in InFlight /\ told[p].tag = window[p].tag
        /\ told[p].done <=> window[p].done \/ window[p].tag \in cdb
  <2> SUFFICES ASSUME NEW p \in 1 .. size
               PROVE  /\ told[p] \in InFlight /\ told[p].tag = window[p].tag
                      /\ told[p].done <=> window[p].done \/ window[p].tag \in cdb
    OBVIOUS
  <2>1. window[p] \in InFlight
    BY <1>1, <1>t, <1>3
  <2>2. told[p] = [window[p] EXCEPT !.done = @ \/ window[p].tag \in cdb]
    OBVIOUS
  <2> HIDE DEF told
  <2> QED BY <2>1, <2>2 DEF InFlight
<1>5. told \in Seq(InFlight) /\ Len(told) = size
  <2> DEFINE f(p) == [window[p] EXCEPT !.done = @ \/ window[p].tag \in cdb]
  <2>1. \A p \in 1 .. size : f(p) \in InFlight
    BY <1>4
  <2>2. told = [p \in 1 .. size |-> f(p)] /\ size \in Nat
    BY <1>t, <1>3
  <2> HIDE DEF f, told
  <2> QED BY <2>1, <2>2
<1>6. /\ E \in Seq(InFlight) /\ e \in Nat /\ DOMAIN E = 1 .. e
      /\ \A j \in 1 .. e : E[j] \in InFlight /\ ~E[j].done /\ Enters(E[j].tag, isns)
      /\ \A t : Enters(t, isns) => \E j \in 1 .. e : E[j].tag = t
      /\ \A i, j \in 1 .. e : E[i].tag = E[j].tag => i = j
      /\ Len(isns) = 2 /\ isns[1].allocates /\ isns[2].allocates =>
           \E i, j \in 1 .. e : i < j /\ E[i].tag = isns[1].tag /\ E[j].tag = isns[2].tag
  <2>1. /\ E \in Seq(InFlight)
        /\ \A j \in DOMAIN E : ~E[j].done /\ Enters(E[j].tag, isns)
        /\ \A t : Enters(t, isns) => \E j \in DOMAIN E : E[j].tag = t
        /\ \A i, j \in DOMAIN E : E[i].tag = E[j].tag => i = j
        /\ Len(isns) = 2 /\ isns[1].allocates /\ isns[2].allocates =>
             \E i, j \in DOMAIN E : i < j /\ E[i].tag = isns[1].tag /\ E[j].tag = isns[2].tag
    BY EnteringIs
  <2> HIDE DEF E, told, m
  <2>2. e \in Nat /\ DOMAIN E = 1 .. e /\ \A j \in 1 .. e : E[j] \in InFlight
    BY <2>1
  <2> HIDE DEF e
  <2> QED BY <2>1, <2>2
<1>7. \A t : Enters(t, isns) => \A p \in 1 .. n : window[p].tag # t
  BY <1>1 DEF Enters, Dispatchable, Allocates, Live, n
<1>8. window' = SubSeq(told, r + 1, size) \o E
  BY DEF Advances, size, n
<1>m. m = size - r
  OBVIOUS
<1> HIDE DEF told, E, e, m
<1>n. /\ r \in Nat /\ n \in Nat /\ size \in Nat /\ m \in Nat /\ e \in Nat
      /\ size <= n /\ m = size - r
  <2>1. size \in Nat /\ size <= n
    BY <1>t, <1>3
  <2> QED BY <1>t, <1>3, <1>6, <1>m, <2>1
<1>9. /\ window' \in Seq(InFlight) /\ Len(window') = m + e
      /\ \A p \in 1 .. m : window'[p] = told[p + r]
      /\ \A j \in 1 .. e : window'[m + j] = E[j]
  <2> DEFINE kept == SubSeq(told, r + 1, size)
  <2>1. kept \in Seq(InFlight) /\ Len(kept) = m /\ \A p \in 1 .. m : kept[p] = told[p + r]
    BY <1>2, <1>t, <1>3, <1>5, <1>m
  <2> HIDE DEF kept
  <2>2. window' = kept \o E /\ e = Len(E)
    BY <1>8 DEF kept, e
  <2>a. /\ Len(window') = m + e
        /\ \A k \in 1 .. (m + e) : window'[k] = IF k <= m THEN kept[k] ELSE E[k - m]
    <3>1. kept \in Seq(InFlight) /\ E \in Seq(InFlight) /\ Len(kept) = m /\ Len(E) = e
      BY <1>6, <2>1, <2>2
    <3>2. /\ Len(kept \o E) = Len(kept) + Len(E)
          /\ \A k \in 1 .. (Len(kept) + Len(E)) :
               (kept \o E)[k] = IF k <= Len(kept) THEN kept[k] ELSE E[k - Len(kept)]
      BY <3>1
    <3> QED BY <2>2, <3>1, <3>2
  <2>3. window' \in Seq(InFlight) /\ Len(window') = m + e
    BY <1>6, <2>1, <2>2, <2>a
  <2>4. \A p \in 1 .. m : window'[p] = kept[p]
    <3> SUFFICES ASSUME NEW p \in 1 .. m PROVE window'[p] = kept[p]
      OBVIOUS
    <3>1. p \in 1 .. (m + e) /\ p <= m
      BY <1>n
    <3> QED BY <2>a, <3>1
  <2>5. \A j \in 1 .. e : window'[m + j] = E[j]
    <3> SUFFICES ASSUME NEW j \in 1 .. e PROVE window'[m + j] = E[j]
      OBVIOUS
    <3>1. m + j \in 1 .. (m + e) /\ ~(m + j <= m) /\ (m + j) - m = j
      BY <1>n
    <3> QED BY <2>a, <3>1
  <2> QED BY <2>1, <2>3, <2>4, <2>5
<1>10. DOMAIN window' = 1 .. (m + e)
  BY <1>9
<1>11. \A p \in 1 .. (m + e) :
         \/ /\ p \in 1 .. m /\ p + r \in (r + 1) .. size
            /\ window'[p].tag = window[p + r].tag
            /\ window'[p].done <=> window[p + r].done \/ window[p + r].tag \in cdb
         \/ /\ p > m /\ p - m \in 1 .. e /\ window'[p] = E[p - m]
  <2> SUFFICES ASSUME NEW p \in 1 .. (m + e)
               PROVE  \/ /\ p \in 1 .. m /\ p + r \in (r + 1) .. size
                         /\ window'[p].tag = window[p + r].tag
                         /\ window'[p].done <=> window[p + r].done \/ window[p + r].tag \in cdb
                      \/ /\ p > m /\ p - m \in 1 .. e /\ window'[p] = E[p - m]
    OBVIOUS
  <2>1. CASE p \in 1 .. m
    <3>1. p + r \in (r + 1) .. size /\ p + r \in 1 .. size
      BY <1>2, <1>t, <1>3, <1>m, <2>1
    <3> QED BY <1>4, <1>9, <2>1, <3>1
  <2>2. CASE p \notin 1 .. m
    <3>1. p - m \in 1 .. e /\ m + (p - m) = p /\ p > m
      BY <1>n, <2>2
    <3>2. window'[m + (p - m)] = E[p - m]
      BY <1>9, <3>1
    <3> QED BY <3>1, <3>2
  <2> QED BY <2>1, <2>2
<1>12. OnceEach'
  <2> SUFFICES ASSUME NEW p \in 1 .. (m + e), NEW q \in 1 .. (m + e),
                      window'[p].tag = window'[q].tag
               PROVE  p = q
    BY <1>10 DEF OnceEach
  <2>1. \A i, j \in 1 .. n : window[i].tag = window[j].tag => i = j
    BY <1>1 DEF OnceEach
  <2>2. \A i \in (r + 1) .. size : i \in 1 .. n
    BY <1>2, <1>t, <1>3
  <2>3. CASE p \in 1 .. m /\ q \in 1 .. m
    BY <1>2, <1>11, <2>1, <2>2, <2>3, <1>t, <1>3
  <2>4. CASE p > m /\ q > m
    <3>1. p - m \in 1 .. e /\ q - m \in 1 .. e /\ E[p - m].tag = E[q - m].tag
      BY <1>3, <1>11, <2>4
    <3>2. p - m = q - m
      BY <1>6, <3>1
    <3> QED BY <1>t, <1>3, <3>2
  <2>5. CASE p \in 1 .. m /\ q > m
    <3>1. p + r \in 1 .. n /\ window[p + r].tag = window'[p].tag
      BY <1>3, <1>11, <2>2, <2>5
    <3>2. Enters(window'[q].tag, isns)
      BY <1>3, <1>6, <1>11, <2>5
    <3> QED BY <1>7, <3>1, <3>2
  <2>6. CASE p > m /\ q \in 1 .. m
    <3>1. q + r \in 1 .. n /\ window[q + r].tag = window'[q].tag
      BY <1>3, <1>11, <2>2, <2>6
    <3>2. Enters(window'[p].tag, isns)
      <4>1. p - m \in 1 .. e /\ window'[p] = E[p - m]
        BY <1>3, <1>11, <2>6
      <4> QED BY <1>6, <4>1
    <3> QED BY <1>7, <3>1, <3>2
  <2> QED BY <1>n, <2>3, <2>4, <2>5, <2>6
\* Where who remains, and who enters, is now.
<1>13. ASSUME NEW t, Remains(t, cdb, killed)
       PROVE  \E q \in (r + 1) .. size :
                /\ window[q].tag = t /\ ~window[q].done
                /\ q - r \in 1 .. m /\ window'[q - r].tag = t /\ ~window'[q - r].done
  <2>1. PICK q \in 1 .. n : window[q].tag = t /\ ~window[q].done
    BY <1>1, <1>13 DEF Remains, Pending
  <2>2. q <= size
    BY <1>1, <1>t, <1>3, <1>13, <2>1 DEF Remains, Behind, size
  <2>3. q >= r + 1
    BY <1>2, <2>1
  <2>4. q \in (r + 1) .. size /\ q - r \in 1 .. m /\ q - r \in 1 .. (m + e) /\ (q - r) + r = q
    BY <1>n, <2>2, <2>3
  <2>5. t \notin cdb
    BY <1>13 DEF Remains
  <2>6. ~(q - r > m)
    BY <2>4, <1>t, <1>3
  <2>7. /\ window'[q - r].tag = window[(q - r) + r].tag
        /\ window'[q - r].done <=> window[(q - r) + r].done \/ window[(q - r) + r].tag \in cdb
    BY <1>11, <2>4, <2>6
  <2> QED BY <2>1, <2>4, <2>5, <2>7
<1>14. ASSUME NEW t, Enters(t, isns)
       PROVE  \E j \in 1 .. e : /\ E[j].tag = t /\ m + j \in 1 .. (m + e)
                                /\ window'[m + j].tag = t /\ ~window'[m + j].done
  <2>1. PICK j \in 1 .. e : E[j].tag = t
    BY <1>6, <1>14
  <2>2. m + j \in 1 .. (m + e)
    BY <1>n
  <2> QED BY <1>6, <1>9, <2>1, <2>2
<1>15. \A t : t \in Pending' <=> Remains(t, cdb, killed) \/ Enters(t, isns)
  <2>1. ASSUME NEW t, t \in Pending' PROVE Remains(t, cdb, killed) \/ Enters(t, isns)
    <3>1. PICK p \in 1 .. (m + e) : window'[p].tag = t /\ ~window'[p].done
      BY <1>10, <2>1 DEF Pending
    <3>2. CASE p > m
      BY <1>6, <1>11, <3>1, <3>2, <1>n
    <3>3. CASE p \in 1 .. m
      <4>1. /\ p + r \in 1 .. n /\ p + r <= size /\ window[p + r].tag = t /\ ~window[p + r].done
            /\ t \notin cdb
        BY <1>2, <1>t, <1>3, <1>11, <3>1, <3>3
      <4>2. t \in Pending
        BY <1>1, <4>1 DEF Pending
      <4>3. killed # {} => ~Behind(t)
        <5>1. \A q \in 1 .. n : window[q].tag = t => q = p + r
          BY <1>1, <4>1 DEF OnceEach
        <5> QED BY <1>1, <1>t, <1>3, <4>1, <5>1 DEF Behind
      <4> QED BY <4>1, <4>2, <4>3 DEF Remains
    <3> QED BY <1>n, <3>1, <3>2, <3>3
  <2>2. ASSUME NEW t, Remains(t, cdb, killed) PROVE t \in Pending'
    <3>1. PICK q \in (r + 1) .. size : q - r \in 1 .. m /\ window'[q - r].tag = t
                                       /\ ~window'[q - r].done
      BY <1>13, <2>2
    <3>2. q - r \in DOMAIN window'
      BY <1>n, <1>10, <3>1
    <3> QED BY <3>1, <3>2 DEF Pending
  <2>3. ASSUME NEW t, Enters(t, isns) PROVE t \in Pending'
    BY <1>10, <1>14, <2>3 DEF Pending
  <2> QED BY <2>1, <2>2, <2>3
<1>16. /\ checkpoint' \in {NoCheckpoint} \cup 0 .. Len(window')
       /\ killed = {} => size = n
       /\ cleared = {} /\ killed = {} /\ checkpoint # NoCheckpoint => checkpoint' = checkpoint - r
       /\ cleared = {} /\ killed = {} /\ checkpoint = NoCheckpoint =>
            checkpoint' \in {NoCheckpoint, m + e}
       /\ cleared # {} \/ killed # {} => checkpoint' = NoCheckpoint /\ checkpoint # NoCheckpoint
       /\ cleared # {} => cleared = BRANCH /\ killed = {}
       /\ killed # {} => isns = <<>> /\ cleared = {}
  <2>1. BRANCH # {} /\ Len(window') = m + e
    BY ExecuteAssumption, <1>9
  <2>2. killed = {} => size = n
    BY DEF size
  <2>3. checkpoint # NoCheckpoint => checkpoint \in 0 .. n /\ (r = 1 => checkpoint >= 1)
    BY <1>1, <1>2
  <2>4. CASE killed = {} /\ cleared = {} /\ checkpoint # NoCheckpoint
    <3>1. checkpoint' = checkpoint - r
      BY <1>1, <2>1, <2>4 DEF Resolves
    <3>2. checkpoint - r \in 0 .. (m + e)
      <4>1. checkpoint \in 0 .. n /\ (r = 1 => checkpoint >= 1) /\ size = n
        BY <2>2, <2>3, <2>4
      <4>2. checkpoint - r >= 0 /\ checkpoint - r <= m /\ checkpoint - r \in Int
        BY <1>2, <1>t, <1>m, <4>1
      <4> QED BY <1>n, <4>2
    <3> QED BY <2>1, <2>2, <2>4, <3>1, <3>2
  <2>5. CASE killed = {} /\ cleared = {} /\ checkpoint = NoCheckpoint
    <3>1. checkpoint' \in {NoCheckpoint, m + e}
      BY <1>1, <2>1, <2>5 DEF Resolves
    <3>2. m + e \in 0 .. (m + e)
      BY <1>n
    <3> QED BY <1>1, <2>1, <2>2, <2>5, <3>1, <3>2
  <2>6. CASE ~(killed = {} /\ cleared = {})
    BY <1>1, <2>1, <2>2, <2>6 DEF Resolves
  <2> QED BY <2>4, <2>5, <2>6
<1>17. ASSUME NEW t, Remains(t, cdb, killed) PROVE MaskOf(t)' = MaskOf(t) \ cleared
  <2>1. PICK q \in (r + 1) .. size : /\ window[q].tag = t /\ q - r \in 1 .. m
                                     /\ window'[q - r].tag = t
    BY <1>13, <1>17
  <2>2. q \in 1 .. n /\ q - r \in 1 .. (m + e)
    BY <1>n, <2>1
  <2>3. Behind(t) <=> checkpoint # NoCheckpoint /\ q > checkpoint
    BY <1>1, <2>1, <2>2 DEF Behind, OnceEach
  <2>4. Behind(t)' <=> checkpoint' # NoCheckpoint /\ q - r > checkpoint'
    <3>1. \A p \in 1 .. (m + e) : window'[p].tag = t => p = q - r
      BY <1>10, <1>12, <2>1, <2>2 DEF OnceEach
    <3> QED BY <1>1, <1>10, <2>1, <2>2, <3>1 DEF Behind
  <2>5. CASE cleared = {} /\ killed = {}
    <3>1. Behind(t)' <=> Behind(t)
      BY <1>1, <1>2, <1>6, <1>16, <2>1, <2>2, <2>3, <2>4, <2>5
    <3> QED BY <2>5, <3>1 DEF MaskOf
  <2>6. CASE cleared # {}
    BY <1>16, <2>4, <2>6 DEF MaskOf
  <2>7. CASE killed # {}
    BY <1>16, <1>17, <2>4, <2>7 DEF MaskOf, Remains
  <2> QED BY <2>5, <2>6, <2>7
<1>18. ASSUME NEW t, Enters(t, isns) PROVE MaskOf(t)' = bs_bmask \ cleared
  <2>1. PICK j \in 1 .. e : m + j \in 1 .. (m + e) /\ window'[m + j].tag = t
    BY <1>14, <1>18
  <2>2. Behind(t)' <=> checkpoint' # NoCheckpoint /\ m + j > checkpoint'
    <3>1. \A p \in 1 .. (m + e) : window'[p].tag = t => p = m + j
      BY <1>10, <1>12, <2>1 DEF OnceEach
    <3> QED BY <1>1, <1>10, <2>1, <3>1 DEF Behind
  <2>3. CASE cleared = {} /\ killed = {}
    <3>1. Behind(t)' <=> checkpoint # NoCheckpoint
      <4>1. CASE checkpoint = NoCheckpoint
        <5>1. checkpoint' = NoCheckpoint \/ checkpoint' = m + e
          BY <1>16, <2>3, <4>1
        <5>2. ~(m + j > m + e)
          BY <1>n
        <5> QED BY <2>2, <4>1, <5>1, <5>2
      <4>2. CASE checkpoint # NoCheckpoint
        <5>1. checkpoint' = checkpoint - r /\ size = n /\ checkpoint \in 0 .. n
          BY <1>1, <1>16, <2>3, <4>2
        <5>2. m + j > checkpoint - r
          BY <1>n, <5>1
        <5>3. checkpoint - r >= 0
          BY <1>2, <1>t, <4>2, <5>1
        <5>4. checkpoint' # NoCheckpoint
          BY <1>1, <5>1, <5>3
        <5> QED BY <2>2, <4>2, <5>1, <5>2, <5>4
      <4> QED BY <4>1, <4>2
    <3> QED BY <1>1, <2>3, <3>1 DEF MaskOf, bs_bmask
  <2>4. CASE cleared # {}
    BY <1>1, <1>16, <2>2, <2>4 DEF MaskOf, bs_bmask
  <2>5. CASE killed # {}
    BY <1>16, <1>18, <2>5 DEF Enters
  <2> QED BY <2>3, <2>4, <2>5
<1>19. ASSUME NEW s, NEW t, Older(s, t), Remains(s, cdb, killed), Remains(t, cdb, killed)
       PROVE  Older(s, t)'
  <2>1. PICK p \in (r + 1) .. size : /\ window[p].tag = s /\ p - r \in 1 .. m
                                     /\ window'[p - r].tag = s
    BY <1>13, <1>19
  <2>2. PICK q \in (r + 1) .. size : /\ window[q].tag = t /\ q - r \in 1 .. m
                                     /\ window'[q - r].tag = t
    BY <1>13, <1>19
  <2>3. p \in 1 .. n /\ q \in 1 .. n
    BY <1>2, <1>t, <1>3
  <2>4. p < q
    BY <1>1, <1>19, <2>1, <2>2, <2>3 DEF Older, OnceEach
  <2>5. p - r < q - r /\ p - r \in DOMAIN window' /\ q - r \in DOMAIN window'
    BY <1>n, <1>10, <2>1, <2>2, <2>4
  <2> QED BY <2>1, <2>2, <2>5 DEF Older
<1>20. ASSUME NEW s, NEW t, Remains(s, cdb, killed), Enters(t, isns) PROVE Older(s, t)'
  <2>1. PICK p \in (r + 1) .. size : p - r \in 1 .. m /\ window'[p - r].tag = s
    BY <1>13, <1>20
  <2>2. PICK j \in 1 .. e : m + j \in 1 .. (m + e) /\ window'[m + j].tag = t
    BY <1>14, <1>20
  <2>3. p - r < m + j /\ p - r \in DOMAIN window' /\ m + j \in DOMAIN window'
    BY <1>n, <1>10, <2>1, <2>2
  <2> QED BY <2>1, <2>2, <2>3 DEF Older
<1>21. Len(isns) = 2 /\ isns[1].allocates /\ isns[2].allocates
         => Older(isns[1].tag, isns[2].tag)'
  <2> SUFFICES ASSUME Len(isns) = 2, isns[1].allocates, isns[2].allocates
               PROVE  Older(isns[1].tag, isns[2].tag)'
    OBVIOUS
  <2>1. PICK i, j \in 1 .. e : i < j /\ E[i].tag = isns[1].tag /\ E[j].tag = isns[2].tag
    BY <1>6
  <2>2. /\ m + i < m + j /\ m + i \in DOMAIN window' /\ m + j \in DOMAIN window'
        /\ window'[m + i].tag = isns[1].tag /\ window'[m + j].tag = isns[2].tag
    <3>1. m + i < m + j
      BY <1>n, <2>1
    <3>2. m + i \in 1 .. (m + e) /\ m + j \in 1 .. (m + e)
      BY <1>n
    <3> QED BY <1>9, <1>10, <2>1, <3>1, <3>2
  <2>3. \E p, q \in DOMAIN window' : /\ p < q /\ window'[p].tag = isns[1].tag
                                     /\ window'[q].tag = isns[2].tag
    BY <2>2
  <2> HIDE DEF E, e
  <2> QED BY <2>3 DEF Older
<1> QED BY <1>9, <1>12, <1>15, <1>16, <1>17, <1>18, <1>19, <1>20, <1>21

-----------------------------------------------------------------------------
(***************************************************************************)
(* The bus, the units and the result buffers.                                *)
(***************************************************************************)
Granted(killed) == cdb_granted(Offered, Gone(killed))

(* A buffer that is granted offers a result that is not mispredicted.        *)
LEMMA BusGrants ==
  ASSUME NEW killed
  PROVE  /\ Granted(killed) \subseteq FUB
         /\ \A u \in Granted(killed) : fub[u][1].valid /\ ~Hit(fub[u][1], killed)
         /\ Broadcast(killed) = {fub[u][1].tag : u \in Granted(killed)}
         /\ \A u \in FUB : Stalled(u, killed) <=> u \notin Granted(killed)
<1> DEFINE S == selectable(Offered, Gone(killed))
           T == second_selectable(Offered, Gone(killed))
           R == cdb_rd(Offered, Gone(killed))
<1>1. S = Offered \ Gone(killed) /\ S \in SUBSET Nat /\ T \subseteq S
  BY FubsAssumption DEF selectable, second_selectable, Offered, FUB
<1>2. S # {} => first_selected(Offered, Gone(killed)) \in S
  <2>1. S # {} => first_selected(Offered, Gone(killed)) = Min(S)
    BY DEF first_selected
  <2> HIDE DEF S
  <2> QED BY <1>1, <2>1, MinIsLeast
<1>3. T # {} => Min(T) \in T
  <2> HIDE DEF S, T
  <2> QED BY <1>1, MinIsLeast
<1>4. R = (IF S = {} THEN <<>> ELSE <<first_selected(Offered, Gone(killed))>>)
            \o (IF T = {} THEN <<>> ELSE <<Min(T)>>)
  BY DEF cdb_rd
<1> HIDE DEF S, T, R
<1>5. \A n \in DOMAIN R : R[n] \in S
  <2>1. CASE S = {}
    <3>1. T = {} /\ R = <<>> \o <<>>
      BY <1>1, <1>4, <2>1
    <3> QED BY <3>1
  <2>2. CASE S # {} /\ T = {}
    <3>1. R = <<first_selected(Offered, Gone(killed))>> \o <<>>
      BY <1>4, <2>2
    <3> QED BY <1>2, <2>2, <3>1
  <2>3. CASE S # {} /\ T # {}
    <3>1. R = <<first_selected(Offered, Gone(killed))>> \o <<Min(T)>>
      BY <1>4, <2>3
    <3>2. DOMAIN R = 1 .. 2 /\ R[1] = first_selected(Offered, Gone(killed)) /\ R[2] = Min(T)
      BY <3>1
    <3>3. R[1] \in S /\ R[2] \in S
      BY <1>1, <1>2, <1>3, <2>3, <3>2
    <3>4. \A n \in DOMAIN R : n = 1 \/ n = 2
      BY <3>2
    <3> QED BY <3>3, <3>4
  <2> QED BY <2>1, <2>2, <2>3
<1>6. Granted(killed) \subseteq S
  BY <1>5 DEF Granted, cdb_granted, R
<1>7. S \subseteq FUB /\ \A u \in S : fub[u][1].valid /\ ~Hit(fub[u][1], killed)
  BY <1>1 DEF Offered, Gone
<1> QED BY <1>6, <1>7 DEF Broadcast, Stalled, cdb_stall, Granted

LEMMA UnitResult ==
  ASSUME Types, UnitsFree, NEW killed, NEW u \in FUB,
         \A v \in UnitsOf["LDST"] : ~Hit(fu_result(v), killed)
  PROVE  /\ fu_done(u, killed) \in FubEntry /\ ~Hit(fu_done(u, killed), killed)
         /\ fu_done(u, killed).valid =>
              \E k \in DOMAIN rs_issue :
                /\ rs_issue[k].unit = u /\ rs_issue[k].entry.bmask \cap killed = {}
                /\ fu_done(u, killed).tag = rs_issue[k].entry.tag
                /\ fu_done(u, killed).bmask = rs_issue[k].entry.bmask
         /\ \A k \in DOMAIN rs_issue :
              rs_issue[k].unit = u /\ rs_issue[k].entry.bmask \cap killed = {} =>
                /\ fu_done(u, killed).valid
                /\ fu_done(u, killed).tag = rs_issue[k].entry.tag
                /\ fu_done(u, killed).bmask = rs_issue[k].entry.bmask
<1> DEFINE f == fu_result(u)
           d == fu_done(u, killed)
<1>1. NoResult \in FubEntry /\ ~NoResult.valid
  BY DEF NoResult, FubEntry
<1>2. \A k \in DOMAIN rs_issue : rs_issue[k].entry.tag \in TAG
                                 /\ rs_issue[k].entry.bmask \in SUBSET BRANCH
  <2>1. \A k \in DOMAIN rs_issue : rs_issue[k] \in Issue
    BY DEF Types
  <2> QED BY <2>1 DEF Issue, StationEntry
<1>3. \A k \in DOMAIN rs_issue : rs_issue[k].unit = u =>
        /\ Computing(u) = {k}
        /\ f = [valid |-> TRUE, tag |-> rs_issue[k].entry.tag,
                bmask |-> rs_issue[k].entry.bmask]
  <2> SUFFICES ASSUME NEW k \in DOMAIN rs_issue, rs_issue[k].unit = u
               PROVE  /\ Computing(u) = {k}
                      /\ f = [valid |-> TRUE, tag |-> rs_issue[k].entry.tag,
                              bmask |-> rs_issue[k].entry.bmask]
    OBVIOUS
  <2>1. Computing(u) = {k}
    BY DEF Computing, UnitsFree
  <2>2. Computing(u) \in SUBSET Nat
    BY DEF Computing, Types
  <2>3. Min(Computing(u)) = k
    BY <2>1, <2>2, MinIsLeast
  <2>4. Computing(u) # {}
    BY <2>1
  <2> QED BY <2>1, <2>3, <2>4 DEF fu_result
<1>4. (\A k \in DOMAIN rs_issue : rs_issue[k].unit # u) => f = NoResult
  BY DEF fu_result, Computing
<1>5. d = IF Hit(f, killed) /\ u \notin UnitsOf["LDST"] THEN NoResult ELSE f
  BY DEF fu_done
<1>6. d = IF Hit(f, killed) THEN NoResult ELSE f
  BY <1>5
<1> HIDE DEF f, d
<1>7. CASE \A k \in DOMAIN rs_issue : rs_issue[k].unit # u
  BY <1>1, <1>4, <1>6, <1>7 DEF Hit, d
<1>8. ASSUME NEW k \in DOMAIN rs_issue, rs_issue[k].unit = u
      PROVE  /\ d \in FubEntry /\ ~Hit(d, killed)
             /\ d.valid => /\ rs_issue[k].entry.bmask \cap killed = {}
                           /\ d.tag = rs_issue[k].entry.tag /\ d.bmask = rs_issue[k].entry.bmask
             /\ rs_issue[k].entry.bmask \cap killed = {} => d.valid
  <2>1. /\ f \in Result /\ f.valid /\ f.tag = rs_issue[k].entry.tag
        /\ f.bmask = rs_issue[k].entry.bmask
    <3>1. f = [valid |-> TRUE, tag |-> rs_issue[k].entry.tag, bmask |-> rs_issue[k].entry.bmask]
      BY <1>3, <1>8
    <3>2. rs_issue[k].entry.tag \in TAG /\ rs_issue[k].entry.bmask \in SUBSET BRANCH
      BY <1>2, <1>8
    <3> QED BY <3>1, <3>2 DEF Result
  <2>2. f \in FubEntry /\ (Hit(f, killed) <=> rs_issue[k].entry.bmask \cap killed # {})
    BY <2>1 DEF Hit, FubEntry
  <2> QED BY <1>1, <1>6, <2>1, <2>2 DEF Hit
<1>9. CASE \E k \in DOMAIN rs_issue : rs_issue[k].unit = u
  <2>1. PICK k \in DOMAIN rs_issue : rs_issue[k].unit = u
    BY <1>9
  <2>2. \A l \in DOMAIN rs_issue : rs_issue[l].unit = u => l = k
    BY <2>1 DEF UnitsFree
  <2> QED BY <1>8, <2>1, <2>2 DEF d
<1> QED BY <1>7, <1>9

(* What stays in a buffer moves up in its order, and what the unit has         *)
(* computed goes behind it; two entries are left only if the unit was told.     *)
Stays(e, killed) == e.valid /\ ~Hit(e, killed)

LEMMA EntryKinds ==
  /\ \A e \in FubEntry : /\ e.valid \in BOOLEAN
                         /\ e.valid <=> e \in Result
                         /\ e.valid \/ e = NoResult
  /\ NoResult \in FubEntry /\ ~NoResult.valid
  /\ \A e \in Result : e.valid /\ e.tag \in TAG /\ e.bmask \subseteq BRANCH /\ e \in FubEntry
<1>1. ~NoResult.valid /\ NoResult.valid = FALSE
  BY DEF NoResult
<1>2. \A e \in Result : e.valid = TRUE /\ e.tag \in TAG /\ e.bmask \subseteq BRANCH
  BY DEF Result
<1> QED BY <1>1, <1>2 DEF FubEntry

LEMMA Cleared ==
  ASSUME NEW e \in FubEntry, NEW cleared
  PROVE  /\ Clear(e, cleared) \in FubEntry
         /\ Clear(e, cleared).valid <=> e.valid
         /\ e.valid => /\ Clear(e, cleared) \in Result
                       /\ Clear(e, cleared).tag = e.tag
                       /\ Clear(e, cleared).bmask = e.bmask \ cleared
         /\ Clear(Clear(e, cleared), cleared) = Clear(e, cleared)
<1>1. CASE e.valid
  <2>1. e.tag \in TAG /\ e.bmask \subseteq BRANCH
    BY <1>1, EntryKinds
  <2> QED BY <1>1, <2>1 DEF Clear, FubEntry, Result
<1>2. CASE ~e.valid
  BY <1>2, EntryKinds DEF Clear
<1> QED BY <1>1, <1>2

Shifts(n, b, fu, stall, killed, cleared) ==
  LET one  == stall /\ Stays(b[1], killed)
      zero == Stays(b[0], killed)
      new  == fu.valid /\ ~b[0].valid
  IN  /\ n \in [{0, 1} -> FubEntry]
      /\ n[1] = IF one THEN Clear(b[1], cleared)
                ELSE IF zero THEN Clear(b[0], cleared)
                ELSE IF new THEN Clear(fu, cleared) ELSE NoResult
      /\ n[0] = IF ~one THEN NoResult
                ELSE IF zero THEN Clear(b[0], cleared)
                ELSE IF new THEN Clear(fu, cleared) ELSE NoResult
      /\ n[0].valid => n[1].valid /\ fub_busy(b, fu, stall, killed)

LEMMA BufferShifts ==
  ASSUME NEW b \in [{0, 1} -> FubEntry], NEW fu \in FubEntry, NEW stall \in BOOLEAN,
         NEW killed, NEW cleared,
         b[0].valid => b[1].valid, ~Hit(fu, killed),
         ~stall => Stays(b[1], killed)
  PROVE  Shifts(next_buffer(b, fu, stall, killed, cleared), b, fu, stall, killed, cleared)
<1> DEFINE n    == next_buffer(b, fu, stall, killed, cleared)
           one  == stall /\ Stays(b[1], killed)
           zero == Stays(b[0], killed)
           new  == fu.valid /\ ~b[0].valid
           f    == Clear(fu, cleared)
           m    == IF killed # {} THEN Squashed(b, f, stall, killed) ELSE Moved(b, f, stall)
<1>1. b[0] \in FubEntry /\ b[1] \in FubEntry /\ f \in FubEntry /\ NoResult \in FubEntry
  BY Cleared, EntryKinds
<1>2. /\ f.valid <=> fu.valid
      /\ \A e \in FubEntry : ~e.valid => e = NoResult
      /\ ~NoResult.valid /\ NoResult.valid \in BOOLEAN
  BY Cleared, EntryKinds
<1>3. \A x, y : Pair(x, y)[1] = x /\ Pair(x, y)[0] = y
  BY DEF Pair
<1>4. killed = {} => ~Hit(b[0], killed) /\ ~Hit(b[1], killed)
  BY DEF Hit
<1>5. \A e \in FubEntry : Hit(e, killed) => e.valid
  BY DEF Hit
<1> HIDE DEF f
<1>6. /\ m[1] = IF one THEN b[1] ELSE IF zero THEN b[0] ELSE IF new THEN f ELSE NoResult
      /\ m[0] = IF ~one THEN NoResult
                ELSE IF zero THEN b[0] ELSE IF new THEN f ELSE NoResult
  <2>1. CASE killed = {}
    BY <1>1, <1>2, <1>3, <1>4, <2>1 DEF Moved, Stays
  <2>2. CASE killed # {} /\ (Hit(b[1], killed) \/ ~b[1].valid)
    BY <1>1, <1>2, <1>3, <1>5, <2>2 DEF Squashed, Stays
  <2>3. CASE killed # {} /\ ~(Hit(b[1], killed) \/ ~b[1].valid) /\ Hit(b[0], killed)
    BY <1>1, <1>2, <1>3, <1>5, <2>3 DEF Squashed, Stays
  <2>4. CASE killed # {} /\ ~(Hit(b[1], killed) \/ ~b[1].valid) /\ ~Hit(b[0], killed)
    BY <1>1, <1>2, <1>3, <1>5, <2>4 DEF Squashed, Moved, Stays
  <2> QED BY <2>1, <2>2, <2>3, <2>4
<1>7. /\ n[1] = Clear(m[1], cleared) /\ n[0] = Clear(m[0], cleared)
      /\ n = Pair(Clear(m[1], cleared), Clear(m[0], cleared))
  BY <1>3 DEF next_buffer, f
<1>8. Clear(NoResult, cleared) = NoResult
  BY <1>2 DEF Clear
<1>9. Clear(f, cleared) = Clear(fu, cleared)
  BY Cleared DEF f
<1> HIDE DEF n, m
<1>10. /\ n[1] = IF one THEN Clear(b[1], cleared)
                 ELSE IF zero THEN Clear(b[0], cleared)
                 ELSE IF new THEN Clear(fu, cleared) ELSE NoResult
       /\ n[0] = IF ~one THEN NoResult
                 ELSE IF zero THEN Clear(b[0], cleared)
                 ELSE IF new THEN Clear(fu, cleared) ELSE NoResult
  <2> HIDE DEF one, zero, new
  <2> QED BY <1>6, <1>7, <1>8, <1>9
<1>11. n \in [{0, 1} -> FubEntry]
  <2>1. m[1] \in FubEntry /\ m[0] \in FubEntry
    <3> HIDE DEF one, zero, new
    <3> QED BY <1>1, <1>6
  <2>2. Clear(m[1], cleared) \in FubEntry /\ Clear(m[0], cleared) \in FubEntry
    BY <2>1, Cleared
  <2> QED BY <1>7, <2>2 DEF Pair
<1>12. n[0].valid => n[1].valid /\ fub_busy(b, fu, stall, killed)
  <2> SUFFICES ASSUME n[0].valid PROVE n[1].valid /\ fub_busy(b, fu, stall, killed)
    OBVIOUS
  <2>1. one /\ (zero \/ new)
    BY <1>2, <1>10
  <2>2. n[1] = Clear(b[1], cleared) /\ b[1].valid
    BY <1>10, <2>1 DEF Stays
  <2>3. n[1].valid
    BY <1>1, <2>2, Cleared
  <2>4. ~Hit(b[0], killed)
    BY <2>1 DEF Stays, Hit
  <2> QED BY <2>1, <2>3, <2>4 DEF fub_busy, Stays
<1>13. Shifts(n, b, fu, stall, killed, cleared)
  BY <1>10, <1>11, <1>12 DEF Shifts
<1> QED BY <1>13 DEF n

-----------------------------------------------------------------------------
(***************************************************************************)
(* The stations.                                                             *)
(***************************************************************************)
LEMMA EntryKind ==
  ASSUME Types, NEW i \in RS_PTR
  PROVE  /\ entries[i].valid \in BOOLEAN
         /\ entries[i].valid => entries[i] \in StationEntry
         /\ ~entries[i].valid => entries[i] = Vacant
<1>1. entries[i] \in {Vacant} \cup StationEntry /\ Vacant.valid = FALSE
  BY DEF Types, Vacant
<1>2. \A e \in StationEntry : e.valid = TRUE
  BY DEF StationEntry
<1> QED BY <1>1, <1>2

LEMMA UnitNumbers ==
  ASSUME NEW e \in StationEntry, NEW busy, FreeUnits(e, busy) # {}
  PROVE  Min(FreeUnits(e, busy)) \in FUB \ busy
<1>1. e.fuType \in DOMAIN UnitsOf
  BY ExecuteAssumption DEF StationEntry
<1>2. UnitsOf[e.fuType] \in SUBSET Nat /\ UnitsOf[e.fuType] \subseteq FUB
  BY <1>1, StationsAssumption, ExecuteAssumption
<1>3. FreeUnits(e, busy) \in SUBSET Nat
  BY <1>2 DEF FreeUnits
<1>4. Min(FreeUnits(e, busy)) \in FreeUnits(e, busy)
  BY <1>3, MinIsLeast
<1> QED BY <1>2, <1>4 DEF FreeUnits

(* What a scan selects. *)
Scanned(i, c, S, cdb, busy, canLoad, killed) ==
  /\ i \in S /\ entries[i].valid /\ entries[i].bmask \cap killed = {}
  /\ Ready(entries[i], cdb) /\ (entries[i].rd_mem => i \in canLoad)
  /\ c \in Issue /\ c.slot = i /\ c.entry = entries[i] /\ c.unit \notin busy

LEMMA ScanIs ==
  ASSUME Types, NEW S \in SUBSET RS_PTR, NEW cdb, NEW busy, NEW canLoad, NEW killed,
         {i \in S : Issuable(i, cdb, busy, canLoad, killed)} # {}
  PROVE  LET i == Min({j \in S : Issuable(j, cdb, busy, canLoad, killed)})
         IN  Scanned(i, Issued(i, busy), S, cdb, busy, canLoad, killed)
<1> DEFINE ready == {j \in S : Issuable(j, cdb, busy, canLoad, killed)}
           i == Min(ready)
           c == Issued(i, busy)
<1>1. RS_PTR \subseteq Nat
  BY StationsAssumption DEF RS_PTR
<1>2. i \in ready
  BY <1>1, MinIsLeast
<1> HIDE DEF i
<1>3. i \in S /\ i \in RS_PTR /\ Issuable(i, cdb, busy, canLoad, killed)
  BY <1>2
<1>4. /\ entries[i].valid /\ entries[i].bmask \cap killed = {} /\ Ready(entries[i], cdb)
      /\ entries[i].rd_mem => i \in canLoad
      /\ FreeUnits(entries[i], busy) # {}
  BY <1>3 DEF Issuable
<1>5. entries[i] \in StationEntry
  BY <1>3, <1>4, EntryKind
<1>6. Min(FreeUnits(entries[i], busy)) \in FUB \ busy
  BY <1>4, <1>5, UnitNumbers
<1>7. c \in Issue /\ c.slot = i /\ c.entry = entries[i] /\ c.unit \notin busy
  BY <1>3, <1>5, <1>6 DEF Issued, Issue
<1>8. Scanned(i, c, S, cdb, busy, canLoad, killed)
  BY <1>3, <1>4, <1>7 DEF Scanned
<1> QED BY <1>8 DEF i

(* What both scans select. *)
Selects(issue, cdb, busy, canLoad, killed) ==
  /\ issue \in Seq(Issue) /\ Len(issue) <= 2
  /\ \A k \in DOMAIN issue :
       LET i == issue[k].slot
       IN  /\ i \in RS_PTR /\ issue[k].entry = entries[i] /\ entries[i].valid
           /\ entries[i].bmask \cap killed = {} /\ Ready(entries[i], cdb)
           /\ issue[k].unit \in FUB \ busy
  /\ \A k, l \in DOMAIN issue :
       /\ issue[k].slot = issue[l].slot => k = l
       /\ issue[k].unit = issue[l].unit => k = l
       /\ issue[k].entry.rd_mem /\ issue[l].entry.rd_mem => k = l

LEMMA IssueIs ==
  ASSUME Types, NEW cdb, NEW busy, NEW canLoad, NEW killed
  PROVE  Selects(next_issue(cdb, busy, canLoad, killed), cdb, busy, canLoad, killed)
<1> DEFINE ready  == {i \in RS_PTR : Issuable(i, cdb, busy, canLoad, killed)}
           first  == Issued(Min(ready), busy)
           taken  == busy \cup {first.unit}
           loads  == IF first.entry.rd_mem THEN {} ELSE canLoad
           again  == {i \in (1 .. LAST) \ {first.slot} :
                        Issuable(i, cdb, taken, loads, killed)}
           second == Issued(Min(again), taken)
           issue  == next_issue(cdb, busy, canLoad, killed)
<1>1. (1 .. LAST) \subseteq RS_PTR
  BY StationsAssumption DEF RS_PTR, LAST
<1>2. issue = IF ready = {} THEN <<>>
              ELSE <<first>> \o IF again = {} THEN <<>> ELSE <<second>>
  BY DEF next_issue, IssueSecond
<1>a. ready # {} => Scanned(Min(ready), first, RS_PTR, cdb, busy, canLoad, killed)
  BY ScanIs
<1>3. ready # {} =>
        /\ first.slot \in RS_PTR /\ entries[first.slot].valid
        /\ entries[first.slot].bmask \cap killed = {} /\ Ready(entries[first.slot], cdb)
        /\ first \in Issue /\ first.entry = entries[first.slot] /\ first.unit \notin busy
  <2> HIDE DEF ready, first
  <2> QED BY <1>a DEF Scanned
<1> HIDE DEF first
<1>b. (1 .. LAST) \ {first.slot} \in SUBSET RS_PTR
  BY <1>1
<1>c. again # {} => Scanned(Min(again), second, (1 .. LAST) \ {first.slot},
                            cdb, taken, loads, killed)
  <2> HIDE DEF taken, loads
  <2> QED BY <1>b, ScanIs
<1>4. again # {} =>
        /\ second.slot \in (1 .. LAST) \ {first.slot} /\ entries[second.slot].valid
        /\ entries[second.slot].bmask \cap killed = {} /\ Ready(entries[second.slot], cdb)
        /\ second \in Issue /\ second.entry = entries[second.slot] /\ second.unit \notin taken
        /\ entries[second.slot].rd_mem => second.slot \in loads
  <2> HIDE DEF again, taken, loads, second
  <2> QED BY <1>c DEF Scanned
<1> HIDE DEF ready, again, second, issue
<1>5. CASE ready = {}
  BY <1>2, <1>5 DEF Selects, issue
<1>6. CASE ready # {} /\ again = {}
  <2>1. issue = <<first>>
    BY <1>2, <1>6
  <2>2. issue \in Seq(Issue) /\ Len(issue) <= 2 /\ DOMAIN issue = {1} /\ issue[1] = first
    BY <1>3, <1>6, <2>1
  <2>3. first.unit \in FUB
    BY <1>3, <1>6 DEF Issue
  <2> QED BY <1>3, <1>6, <2>2, <2>3 DEF Selects, issue
<1>7. CASE ready # {} /\ again # {}
  <2>1. issue = <<first>> \o <<second>>
    BY <1>2, <1>7
  <2>2. /\ issue \in Seq(Issue) /\ Len(issue) <= 2 /\ DOMAIN issue = {1, 2}
        /\ issue[1] = first /\ issue[2] = second
    <3>1. <<first>> \in Seq(Issue) /\ <<second>> \in Seq(Issue)
      BY <1>3, <1>4, <1>7
    <3>2. issue \in Seq(Issue) /\ DOMAIN issue = 1 .. 2 /\ Len(issue) = 2
      BY <2>1, <3>1
    <3>3. issue[1] = first /\ issue[2] = second
      BY <2>1
    <3> QED BY <3>2, <3>3
  <2>3. first.unit \in FUB /\ second.unit \in FUB
    BY <1>3, <1>4, <1>7 DEF Issue
  <2>4. /\ first.slot # second.slot /\ first.unit # second.unit /\ second.unit \notin busy
        /\ second.slot \in RS_PTR
        /\ ~(first.entry.rd_mem /\ second.entry.rd_mem)
    BY <1>1, <1>4, <1>7
  <2> QED BY <1>3, <1>4, <1>7, <2>2, <2>3, <2>4 DEF Selects, issue
<1> QED BY <1>5, <1>6, <1>7

(* The slots of a dispatch. *)
LEMMA SlotsAre ==
  ASSUME Types, NEW isns, Dispatchable(isns), SecondFits(isns)
  PROVE  /\ Dispatched(isns) = {k \in DOMAIN isns : isns[k].allocates}
         /\ \A k \in Dispatched(isns) : dispatchPtr(isns, k) \in Free
         /\ \A k, l \in Dispatched(isns) :
              dispatchPtr(isns, k) = dispatchPtr(isns, l) => k = l
<1>1. /\ DOMAIN isns = 1 .. Len(isns) /\ Len(isns) \in 0 .. 2
      /\ isns # <<>> => Free # {}
      /\ \A k \in DOMAIN isns : isns[k].allocates \in BOOLEAN
  BY DEF Dispatchable
<1>2. Free \in SUBSET Nat
  BY StationsAssumption DEF Free, RS_PTR
<1>3. isns # <<>> /\ isns[1].allocates => dispatchPtr(isns, 1) \in Free
  BY <1>1, <1>2, MinIsLeast DEF dispatchPtr, SlotOfFirst
<1>4. dispatchPtr(isns, 1) = SlotOfFirst(isns)
  BY DEF dispatchPtr
<1>5. Len(isns) = 2 /\ isns[2].allocates =>
        /\ SecondSlots(isns) # {}
        /\ dispatchPtr(isns, 2) \in Free /\ dispatchPtr(isns, 2) # dispatchPtr(isns, 1)
  <2> SUFFICES ASSUME Len(isns) = 2, isns[2].allocates
               PROVE  /\ SecondSlots(isns) # {} /\ dispatchPtr(isns, 2) \in Free
                      /\ dispatchPtr(isns, 2) # dispatchPtr(isns, 1)
    OBVIOUS
  <2>1. SecondSlots(isns) # {} /\ SecondSlots(isns) \in SUBSET Nat
    BY <1>2 DEF SecondFits, SecondSlots
  <2>2. Min(SecondSlots(isns)) \in SecondSlots(isns)
    BY <2>1, MinIsLeast
  <2>3. dispatchPtr(isns, 2) = Min(SecondSlots(isns))
    BY <2>1 DEF dispatchPtr, SlotOfSecond
  <2> QED BY <1>4, <2>1, <2>2, <2>3 DEF SecondSlots
<1>6. Dispatched(isns) = {k \in DOMAIN isns : isns[k].allocates}
  BY <1>1, <1>5 DEF Dispatched
<1>7. \A k \in Dispatched(isns) : (k = 1 \/ (k = 2 /\ Len(isns) = 2)) /\ isns # <<>>
                                  /\ isns[k].allocates
  BY <1>1, <1>6
<1> QED BY <1>3, <1>5, <1>6, <1>7
\* The station at slot i is kept, with what the bus of this cycle tells it.
Keeps(i, issue, killed) ==
  /\ entries[i].valid /\ entries[i].bmask \cap killed = {}
  /\ \A k \in DOMAIN issue : issue[k].slot # i
IsKept(n, i, cdb, cleared) ==
  /\ n \in StationEntry /\ n.tag = entries[i].tag /\ n.rd_mem = entries[i].rd_mem
  /\ n.tagA = entries[i].tagA /\ (n.aReady <=> entries[i].aReady \/ n.tagA \in cdb)
  /\ n.tagB = entries[i].tagB /\ (n.bReady <=> entries[i].bReady \/ n.tagB \in cdb)
  /\ n.bmask = entries[i].bmask \ cleared
IsNew(n, isn, bmask, cdb, cleared) ==
  /\ n \in StationEntry /\ n.tag = isn.tag
  /\ n.tagA = isn.tagA.register /\ (n.aReady <=> isn.tagA.ready \/ n.tagA \in cdb)
  /\ n.tagB = isn.tagB.register /\ (n.bReady <=> isn.tagB.ready \/ n.tagB \in cdb)
  /\ n.bmask = bmask \ cleared

LEMMA OperandsAre ==
  ASSUME Types
  PROVE  /\ \A o \in Operands : o.register \in Register /\ o.ready \in BOOLEAN
         /\ \A t \in TAG : Awaited(t).register \in Register /\ Awaited(t).ready \in BOOLEAN
<1>1. \A p \in DOMAIN window : window[p].tag \in TAG
  <2>1. window \in Seq(InFlight)
    BY DEF Types, InFlight
  <2>2. \A p \in DOMAIN window : window[p] \in InFlight
    BY <2>1
  <2> QED BY <2>2 DEF InFlight
<1>2. NoOperand.register \in Register /\ NoOperand.ready \in BOOLEAN
  BY DEF NoOperand, Register
<1>3. \A t \in TAG : Awaited(t).register \in Register /\ Awaited(t).ready \in BOOLEAN
  BY DEF Awaited, Register
<1> QED BY <1>1, <1>2, <1>3 DEF Operands

LEMMA NewStationIs ==
  ASSUME Types, NEW isns, Dispatchable(isns), NEW k \in DOMAIN isns, isns[k].allocates,
         NEW bmask \in SUBSET BRANCH
  PROVE  NewStation(isns[k], bmask) \in StationEntry
<1>1. /\ isns[k].fuType \in {"LDST", "ALU"} /\ isns[k].rd_mem \in BOOLEAN
      /\ isns[k].tag \in TAG
      /\ \A o \in {isns[k].tagA, isns[k].tagB} :
           o \in Operands \/ (k = 2 /\ isns[1].allocates /\ o = Awaited(isns[1].tag))
  BY DEF Dispatchable, Allocates
<1>2. k = 2 /\ isns[1].allocates => isns[1].tag \in TAG
  BY DEF Dispatchable, Allocates
<1>3. /\ isns[k].tagA.register \in Register /\ isns[k].tagA.ready \in BOOLEAN
      /\ isns[k].tagB.register \in Register /\ isns[k].tagB.ready \in BOOLEAN
  BY <1>1, <1>2, OperandsAre
<1> QED BY <1>1, <1>3 DEF NewStation, StationEntry

LEMMA NextStation ==
  ASSUME Types, NEW isns, Dispatchable(isns), SecondFits(isns),
         NEW cdb \in SUBSET TAG,
         \A k \in DOMAIN isns : isns[k].allocates \/ isns[k].tagA.register \notin cdb,
         NEW bmask \in SUBSET BRANCH, NEW issue, NEW killed, NEW cleared, NEW i \in RS_PTR
  PROVE  LET n == nextEntry(i, issue, isns, bmask, cdb, killed, cleared)
         IN  /\ \A k \in Dispatched(isns) :
                  dispatchPtr(isns, k) = i => IsNew(n, isns[k], bmask, cdb, cleared)
             /\ Keeps(i, issue, killed) => IsKept(n, i, cdb, cleared)
             /\ (\A k \in Dispatched(isns) : dispatchPtr(isns, k) # i)
                  /\ ~Keeps(i, issue, killed) => n = Vacant
<1> DEFINE here == {k \in Dispatched(isns) : dispatchPtr(isns, k) = i}
           base == IF here # {} THEN NewStation(isns[Max(here)], bmask) ELSE entries[i]
           a    == WokenInName(i, isns, cdb, "tagA")
           b    == WokenInName(i, isns, cdb, "tagB")
           new  == [base EXCEPT !.aReady = @ \/ (here = {} /\ base.tagA \in cdb) \/ a,
                                !.bReady = @ \/ (here = {} /\ base.tagB \in cdb) \/ b,
                                !.bmask  = @ \ cleared]
           n    == nextEntry(i, issue, isns, bmask, cdb, killed, cleared)
<1>1. n = IF here = {} /\ ~Keeps(i, issue, killed) THEN Vacant ELSE new
  BY DEF nextEntry, Keeps
<1>2. /\ Dispatched(isns) = {k \in DOMAIN isns : isns[k].allocates}
      /\ \A k \in Dispatched(isns) : dispatchPtr(isns, k) \in Free
      /\ \A k, l \in Dispatched(isns) : dispatchPtr(isns, k) = dispatchPtr(isns, l) => k = l
  BY SlotsAre
<1>3. DOMAIN isns = 1 .. Len(isns)
  BY DEF Dispatchable
<1>4. PHYS_ZERO_REG \notin cdb
  BY TagAssumption
<1>5. \A k \in DOMAIN isns : ~isns[k].allocates => isns[k].tagB.register \notin cdb
  BY <1>4 DEF Dispatchable, Waits, NoOperand
<1>6. a <=> \E k \in DOMAIN isns : dispatchPtr(isns, k) = i /\ isns[k].tagA.register \in cdb
  BY <1>3 DEF WokenInName
<1>7. b <=> \E k \in DOMAIN isns : dispatchPtr(isns, k) = i /\ isns[k].tagB.register \in cdb
  BY <1>3 DEF WokenInName
<1>8. /\ a <=> \E k \in here : isns[k].tagA.register \in cdb
      /\ b <=> \E k \in here : isns[k].tagB.register \in cdb
  BY <1>2, <1>5, <1>6, <1>7
<1> HIDE DEF a, b, n
<1>9. ASSUME NEW k \in here PROVE IsNew(n, isns[k], bmask, cdb, cleared)
  <2>1. here = {k} /\ k \in Dispatched(isns)
    BY <1>2
  <2>2. here \in SUBSET Nat
    BY <1>2, <1>3
  <2>3. Max(here) = k
    <3>1. k \in Nat
      BY <2>2
    <3> HIDE DEF here
    <3> QED BY <2>1, <3>1 DEF Max
  <2>4. base = NewStation(isns[k], bmask)
    BY <2>1, <2>3
  <2>5. k \in DOMAIN isns /\ isns[k].allocates
    BY <1>2, <2>1
  <2>6. base \in StationEntry
    BY <2>4, <2>5, NewStationIs
  <2>7. /\ base.tag = isns[k].tag /\ base.tagA = isns[k].tagA.register
        /\ base.aReady = isns[k].tagA.ready /\ base.tagB = isns[k].tagB.register
        /\ base.bReady = isns[k].tagB.ready /\ base.bmask = bmask
    BY <2>4 DEF NewStation
  <2>8. n = new
    BY <1>1, <2>1
  <2>9. /\ a \in BOOLEAN /\ b \in BOOLEAN
        /\ a <=> isns[k].tagA.register \in cdb
        /\ b <=> isns[k].tagB.register \in cdb
    <3>1. a \in BOOLEAN /\ b \in BOOLEAN
      BY DEF a, b, WokenInName
    <3> HIDE DEF here
    <3> QED BY <1>8, <2>1, <3>1
  <2>10. here # {}
    BY <2>1
  <2> HIDE DEF base, here
  <2> QED BY <2>6, <2>7, <2>8, <2>9, <2>10 DEF IsNew, StationEntry
<1>10. ASSUME Keeps(i, issue, killed) PROVE IsKept(n, i, cdb, cleared)
  <2>1. here = {}
    BY <1>2, <1>10 DEF Free, Keeps
  <2>2. base = entries[i] /\ n = new
    BY <1>1, <1>10, <2>1
  <2>3. base \in StationEntry
    BY <1>10, <2>2, EntryKind DEF Keeps
  <2>4. a = FALSE /\ b = FALSE
    <3>1. a \in BOOLEAN /\ b \in BOOLEAN
      BY DEF a, b, WokenInName
    <3> HIDE DEF here
    <3> QED BY <1>8, <2>1, <3>1
  <2> HIDE DEF base, here
  <2> QED BY <2>1, <2>2, <2>3, <2>4 DEF IsKept, StationEntry
<1>11. (\A k \in Dispatched(isns) : dispatchPtr(isns, k) # i)
         /\ ~Keeps(i, issue, killed) => n = Vacant
  BY <1>1
<1>12. \A k \in Dispatched(isns) :
         dispatchPtr(isns, k) = i => IsNew(n, isns[k], bmask, cdb, cleared)
  BY <1>9
<1> QED BY <1>10, <1>11, <1>12 DEF n
-----------------------------------------------------------------------------
(***************************************************************************)
(* A cycle.                                                                  *)
(***************************************************************************)
Allowed(isns, r, canLoad, killed, cleared) ==
  /\ Dispatchable(isns) /\ SecondFits(isns)
  /\ \A k \in DOMAIN isns :
       isns[k].allocates \/ isns[k].tagA.register \notin Broadcast(killed)
  /\ r \in Retirements /\ Resolves(isns, r, killed, cleared)
  /\ \A v \in UnitsOf["LDST"] : ~Hit(fu_result(v), killed)
  /\ Cycle(isns, r, canLoad, killed, cleared)

IssueOf(canLoad, killed) == next_issue(Broadcast(killed), Busy(killed), canLoad, killed)

StationsMove(isns, issue, cdb, killed, cleared) ==
  /\ entries' \in [RS_PTR -> {Vacant} \cup StationEntry]
  /\ \A i \in RS_PTR : entries'[i].valid =>
       \/ Keeps(i, issue, killed)
       \/ \E k \in DOMAIN isns : isns[k].allocates /\ dispatchPtr(isns, k) = i
  /\ \A i \in RS_PTR : Keeps(i, issue, killed) => IsKept(entries'[i], i, cdb, cleared)
  /\ \A k \in DOMAIN isns : isns[k].allocates =>
       /\ dispatchPtr(isns, k) \in RS_PTR
       /\ IsNew(entries'[dispatchPtr(isns, k)], isns[k], bs_bmask, cdb, cleared)

IssueMoves(issue, cleared) ==
  /\ rs_issue' \in Seq(Issue) /\ Len(rs_issue') <= 2 /\ DOMAIN rs_issue' = DOMAIN issue
  /\ \A k \in DOMAIN issue :
       /\ rs_issue'[k].unit = issue[k].unit
       /\ rs_issue'[k].entry.tag = issue[k].entry.tag
       /\ rs_issue'[k].entry.rd_mem = issue[k].entry.rd_mem
       /\ rs_issue'[k].entry.bmask = issue[k].entry.bmask \ cleared

BuffersMove(killed, cleared) ==
  /\ fub' \in [FUB -> [{0, 1} -> FubEntry]]
  /\ \A u \in FUB : Shifts(fub'[u], fub[u], fu_done(u, killed), Stalled(u, killed),
                           killed, cleared)

\* What the bus says is of instructions that were not done.
LEMMA BusIsPending ==
  ASSUME AllKnown, Types, NEW killed
  PROVE  Broadcast(killed) \subseteq Pending /\ Pending \subseteq Live /\ Live \subseteq TAG
<1>1. Broadcast(killed) \subseteq Pending
  BY BusGrants DEF AllKnown, Known
<1>2. Pending \subseteq Live
  BY DEF Pending, Live
<1>3. window \in Seq(InFlight)
  BY DEF Types, InFlight
<1>4. \A p \in DOMAIN window : window[p] \in InFlight
  BY <1>3
<1> QED BY <1>1, <1>2, <1>4 DEF Live, InFlight

LEMMA CycleMoves ==
  ASSUME Types, AllKnown, UnitsFree, NEW isns, NEW r, NEW canLoad, NEW killed, NEW cleared,
         Allowed(isns, r, canLoad, killed, cleared)
  PROVE  /\ Selects(IssueOf(canLoad, killed), Broadcast(killed), Busy(killed), canLoad, killed)
         /\ StationsMove(isns, IssueOf(canLoad, killed), Broadcast(killed), killed, cleared)
         /\ IssueMoves(IssueOf(canLoad, killed), cleared)
         /\ BuffersMove(killed, cleared)
<1> DEFINE cdb   == Broadcast(killed)
           issue == IssueOf(canLoad, killed)
           bmask == bs_bmask \ cleared
<1>1. Selects(issue, cdb, Busy(killed), canLoad, killed)
  BY IssueIs DEF IssueOf
<1>2. /\ Dispatchable(isns) /\ SecondFits(isns)
      /\ \A k \in DOMAIN isns : isns[k].allocates \/ isns[k].tagA.register \notin cdb
      /\ \A v \in UnitsOf["LDST"] : ~Hit(fu_result(v), killed)
  BY DEF Allowed
<1>3. /\ entries' = [i \in RS_PTR |->
                       nextEntry(i, issue, isns, bmask, cdb, killed, cleared)]
      /\ rs_issue' = [k \in DOMAIN issue |->
                        [issue[k] EXCEPT !.entry.bmask = @ \ cleared]]
      /\ fub' = [u \in FUB |->
                   next_buffer(fub[u], fu_done(u, killed), Stalled(u, killed),
                               killed, cleared)]
  BY DEF Allowed, Cycle, RSCycle, IssueOf
<1>4. cdb \in SUBSET TAG
  BY BusIsPending
<1>5. bmask \in SUBSET BRANCH /\ bmask \ cleared = bs_bmask \ cleared
  BY DEF bs_bmask
<1> HIDE DEF cdb, issue, bmask
<1>6. StationsMove(isns, issue, cdb, killed, cleared)
  <2>1. ASSUME NEW i \in RS_PTR
        PROVE  /\ \A k \in Dispatched(isns) :
                    dispatchPtr(isns, k) = i => IsNew(entries'[i], isns[k], bmask, cdb, cleared)
               /\ Keeps(i, issue, killed) => IsKept(entries'[i], i, cdb, cleared)
               /\ (\A k \in Dispatched(isns) : dispatchPtr(isns, k) # i)
                    /\ ~Keeps(i, issue, killed) => entries'[i] = Vacant
    <3>1. entries'[i] = nextEntry(i, issue, isns, bmask, cdb, killed, cleared)
      BY <1>3
    <3> QED BY <1>2, <1>4, <1>5, <3>1, NextStation
  <2>2. /\ Dispatched(isns) = {k \in DOMAIN isns : isns[k].allocates}
        /\ \A k \in Dispatched(isns) : dispatchPtr(isns, k) \in Free
    BY <1>2, SlotsAre
  <2>3. \A n, isn : IsNew(n, isn, bmask, cdb, cleared) =>
          IsNew(n, isn, bs_bmask, cdb, cleared) /\ n \in StationEntry
    BY <1>5 DEF IsNew
  <2>4. \A n, i : IsKept(n, i, cdb, cleared) => n \in StationEntry
    BY DEF IsKept
  <2>5. \A i \in RS_PTR : entries'[i] \in {Vacant} \cup StationEntry
    BY <2>1, <2>3, <2>4
  <2>6. entries' \in [RS_PTR -> {Vacant} \cup StationEntry]
    <3>1. entries' = [i \in RS_PTR |-> entries'[i]]
      BY <1>3
    <3> QED BY <2>5, <3>1
  <2>7. ~Vacant.valid
    BY DEF Vacant
  <2>8. \A i \in RS_PTR : entries'[i].valid =>
          \/ Keeps(i, issue, killed)
          \/ \E k \in DOMAIN isns : isns[k].allocates /\ dispatchPtr(isns, k) = i
    BY <2>1, <2>2, <2>7
  <2>9. \A k \in DOMAIN isns : isns[k].allocates =>
          /\ dispatchPtr(isns, k) \in RS_PTR
          /\ IsNew(entries'[dispatchPtr(isns, k)], isns[k], bs_bmask, cdb, cleared)
    <3> SUFFICES ASSUME NEW k \in DOMAIN isns, isns[k].allocates
                 PROVE  /\ dispatchPtr(isns, k) \in RS_PTR
                        /\ IsNew(entries'[dispatchPtr(isns, k)], isns[k], bs_bmask, cdb, cleared)
      OBVIOUS
    <3>1. k \in Dispatched(isns) /\ dispatchPtr(isns, k) \in RS_PTR
      BY <2>2 DEF Free
    <3> QED BY <2>1, <2>3, <3>1
  <2> QED BY <2>1, <2>6, <2>8, <2>9 DEF StationsMove
<1>7. IssueMoves(issue, cleared)
  <2>1. /\ issue \in Seq(Issue) /\ Len(issue) <= 2 /\ DOMAIN issue = 1 .. Len(issue)
        /\ Len(issue) \in Nat
    BY <1>1 DEF Selects
  <2>2. \A k \in DOMAIN issue : issue[k] \in Issue
    BY <2>1
  <2>3. ASSUME NEW k \in DOMAIN issue
        PROVE  /\ rs_issue'[k] \in Issue
               /\ rs_issue'[k].unit = issue[k].unit
               /\ rs_issue'[k].entry.tag = issue[k].entry.tag
               /\ rs_issue'[k].entry.rd_mem = issue[k].entry.rd_mem
               /\ rs_issue'[k].entry.bmask = issue[k].entry.bmask \ cleared
    <3>1. rs_issue'[k] = [issue[k] EXCEPT !.entry.bmask = @ \ cleared]
      BY <1>3
    <3>2. issue[k] \in Issue /\ issue[k].entry \in StationEntry
      BY <2>2 DEF Issue
    <3> DEFINE entry == [issue[k].entry EXCEPT !.bmask = @ \ cleared]
    <3>3. /\ entry \in StationEntry /\ entry.tag = issue[k].entry.tag
          /\ entry.rd_mem = issue[k].entry.rd_mem
          /\ entry.bmask = issue[k].entry.bmask \ cleared
      BY <3>2 DEF StationEntry
    <3>4. rs_issue'[k] = [issue[k] EXCEPT !.entry = entry]
      BY <3>1
    <3> HIDE DEF entry
    <3>5. rs_issue'[k].entry = entry /\ rs_issue'[k].unit = issue[k].unit /\ rs_issue'[k] \in Issue
      BY <3>2, <3>3, <3>4 DEF Issue
    <3> QED BY <3>3, <3>5
  <2>4. /\ rs_issue' \in Seq(Issue) /\ Len(rs_issue') = Len(issue)
        /\ DOMAIN rs_issue' = DOMAIN issue
    <3>1. rs_issue' = [k \in 1 .. Len(issue) |-> rs_issue'[k]]
      BY <1>3, <2>1
    <3>2. \A k \in 1 .. Len(issue) : rs_issue'[k] \in Issue
      BY <2>1, <2>3
    <3> QED BY <2>1, <3>1, <3>2
  <2> QED BY <2>1, <2>3, <2>4 DEF IssueMoves
<1>8. BuffersMove(killed, cleared)
  <2>1. ASSUME NEW u \in FUB
        PROVE  Shifts(fub'[u], fub[u], fu_done(u, killed), Stalled(u, killed), killed, cleared)
    <3>1. fub'[u] = next_buffer(fub[u], fu_done(u, killed), Stalled(u, killed), killed, cleared)
      BY <1>3
    <3>2. fub[u] \in [{0, 1} -> FubEntry] /\ (fub[u][0].valid => fub[u][1].valid)
      BY DEF Types, UnitsFree
    <3>3. fu_done(u, killed) \in FubEntry /\ ~Hit(fu_done(u, killed), killed)
      BY <1>2, UnitResult
    <3>4. /\ Stalled(u, killed) \in BOOLEAN
          /\ ~Stalled(u, killed) => Stays(fub[u][1], killed)
      BY BusGrants DEF Stalled, cdb_stall, Stays
    <3> QED BY <3>1, <3>2, <3>3, <3>4, BufferShifts
  <2>2. \A u \in FUB : fub'[u] \in [{0, 1} -> FubEntry]
    BY <2>1 DEF Shifts
  <2>3. fub' \in [FUB -> [{0, 1} -> FubEntry]]
    <3>1. fub' = [u \in FUB |-> fub'[u]]
      BY <1>3
    <3> QED BY <2>2, <3>1
  <2> QED BY <2>1, <2>3 DEF BuffersMove
<1> QED BY <1>1, <1>6, <1>7, <1>8 DEF cdb, issue
(* Who stays where it is, or moves on, is who remains.                         *)
LEMMA WhoRemains ==
  ASSUME Types, AllKnown, AllApart, NEW isns, NEW r, NEW canLoad, NEW killed, NEW cleared,
         Allowed(isns, r, canLoad, killed, cleared)
  PROVE  /\ \A i \in RS_PTR : entries[i].valid =>
              (Remains(entries[i].tag, Broadcast(killed), killed)
                 <=> entries[i].bmask \cap killed = {})
         /\ \A k \in DOMAIN rs_issue :
              Remains(rs_issue[k].entry.tag, Broadcast(killed), killed)
                <=> rs_issue[k].entry.bmask \cap killed = {}
         /\ \A u \in FUB : fub[u][0].valid =>
              (Remains(fub[u][0].tag, Broadcast(killed), killed) <=> Stays(fub[u][0], killed))
         /\ \A u \in FUB : fub[u][1].valid =>
              (Remains(fub[u][1].tag, Broadcast(killed), killed)
                 <=> Stalled(u, killed) /\ Stays(fub[u][1], killed))
         /\ \A t : Enters(t, isns) => t \notin Live /\ t \notin Named
<1> DEFINE cdb == Broadcast(killed)
<1>1. killed = {} \/ killed = BRANCH
  BY DEF Allowed, Resolves
<1>2. \A e : Known(e) /\ e.tag \notin cdb =>
         (Remains(e.tag, cdb, killed) <=> e.bmask \cap killed = {})
  BY <1>1, ExecuteAssumption DEF Known, Remains, MaskOf
<1>3. \A t \in cdb : \E w \in FUB : w \in Granted(killed) /\ fub[w][1].valid /\ fub[w][1].tag = t
  BY BusGrants
<1>4. \A t : t \in cdb => ~Remains(t, cdb, killed)
  BY DEF Remains
<1>5. ASSUME NEW i \in RS_PTR, entries[i].valid
      PROVE  Remains(entries[i].tag, cdb, killed) <=> entries[i].bmask \cap killed = {}
  <2>1. entries[i].tag \notin cdb
    BY <1>3, <1>5 DEF AllApart
  <2> HIDE DEF cdb
  <2> QED BY <1>2, <1>5, <2>1 DEF AllKnown
<1>6. ASSUME NEW k \in DOMAIN rs_issue
      PROVE  Remains(rs_issue[k].entry.tag, cdb, killed)
               <=> rs_issue[k].entry.bmask \cap killed = {}
  <2>1. rs_issue[k].entry.tag \notin cdb
    BY <1>3 DEF AllApart
  <2> HIDE DEF cdb
  <2> QED BY <1>2, <2>1 DEF AllKnown
<1>7. ASSUME NEW u \in FUB, fub[u][0].valid
      PROVE  Remains(fub[u][0].tag, cdb, killed) <=> Stays(fub[u][0], killed)
  <2>1. fub[u][0].tag \notin cdb
    <3>1. \A w \in FUB : ~(fub[w][1].valid /\ fub[w][1].tag = fub[u][0].tag)
      BY <1>7 DEF AllApart
    <3> QED BY <1>3, <3>1
  <2> HIDE DEF cdb
  <2> QED BY <1>2, <1>7, <2>1 DEF AllKnown, Stays, Hit
<1>8. ASSUME NEW u \in FUB, fub[u][1].valid
      PROVE  Remains(fub[u][1].tag, cdb, killed)
               <=> Stalled(u, killed) /\ Stays(fub[u][1], killed)
  <2>1. CASE Stalled(u, killed)
    <3>1. fub[u][1].tag \notin cdb
      <4>1. \A w \in FUB : fub[w][1].valid /\ fub[w][1].tag = fub[u][1].tag => w = u
        BY <1>8 DEF AllApart
      <4> QED BY <1>3, <2>1, <4>1, BusGrants
    <3> HIDE DEF cdb
    <3> QED BY <1>2, <1>8, <2>1, <3>1 DEF AllKnown, Stays, Hit
  <2>2. CASE ~Stalled(u, killed)
    <3>1. fub[u][1].tag \in cdb
      BY <2>2, BusGrants
    <3> QED BY <1>4, <2>2, <3>1
  <2> QED BY <2>1, <2>2
<1>9. \A t : Enters(t, isns) => t \notin Live /\ t \notin Named
  BY DEF Allowed, Dispatchable, Allocates, Enters
<1> QED BY <1>5, <1>6, <1>7, <1>8, <1>9

(* Where everything comes from.                                                *)
StationFrom(i, issue, isns, killed, cleared) ==
  \/ /\ Keeps(i, issue, killed) /\ entries'[i].tag = entries[i].tag
     /\ entries'[i].bmask = entries[i].bmask \ cleared
  \/ \E k \in DOMAIN isns :
       /\ isns[k].allocates /\ dispatchPtr(isns, k) = i /\ entries'[i].tag = isns[k].tag
       /\ entries'[i].bmask = bs_bmask \ cleared
IssueFrom(k, issue, killed, cleared) ==
  LET i == issue[k].slot
  IN  /\ i \in RS_PTR /\ entries[i].valid /\ entries[i].bmask \cap killed = {}
      /\ rs_issue'[k].entry.tag = entries[i].tag
      /\ rs_issue'[k].entry.bmask = entries[i].bmask \ cleared
FromOne(u, j, killed) ==
  j = 1 /\ Stalled(u, killed) /\ Stays(fub[u][1], killed) /\ fub'[u][j].tag = fub[u][1].tag
FromZero(u, j, killed) ==
  /\ j = IF Stalled(u, killed) /\ Stays(fub[u][1], killed) THEN 0 ELSE 1
  /\ Stays(fub[u][0], killed) /\ fub'[u][j].tag = fub[u][0].tag
FromUnit(u, j, k, killed) ==
  /\ j = IF Stalled(u, killed) /\ Stays(fub[u][1], killed) THEN 0 ELSE 1
  /\ rs_issue[k].unit = u /\ rs_issue[k].entry.bmask \cap killed = {}
  /\ fub'[u][j].tag = rs_issue[k].entry.tag
ResultFrom(u, j, killed, cleared) ==
  \/ FromOne(u, j, killed) /\ fub'[u][j].bmask = fub[u][1].bmask \ cleared
  \/ FromZero(u, j, killed) /\ fub'[u][j].bmask = fub[u][0].bmask \ cleared
  \/ \E k \in DOMAIN rs_issue :
       FromUnit(u, j, k, killed) /\ fub'[u][j].bmask = rs_issue[k].entry.bmask \ cleared

LEMMA Origins ==
  ASSUME Types, AllKnown, UnitsFree, NEW isns, NEW r, NEW canLoad, NEW killed, NEW cleared,
         Allowed(isns, r, canLoad, killed, cleared),
         NEW issue, issue = IssueOf(canLoad, killed)
  PROVE  /\ \A i \in RS_PTR :
              entries'[i].valid => StationFrom(i, issue, isns, killed, cleared)
         /\ \A k \in DOMAIN rs_issue' : k \in DOMAIN issue /\ IssueFrom(k, issue, killed, cleared)
         /\ \A u \in FUB, j \in {0, 1} :
              fub'[u][j].valid => ResultFrom(u, j, killed, cleared)
<1> DEFINE cdb == Broadcast(killed)
<1>1. /\ Selects(issue, cdb, Busy(killed), canLoad, killed)
      /\ StationsMove(isns, issue, cdb, killed, cleared)
      /\ IssueMoves(issue, cleared)
      /\ BuffersMove(killed, cleared)
  BY CycleMoves
<1> HIDE DEF cdb
<1>2. ASSUME NEW i \in RS_PTR, entries'[i].valid
      PROVE  StationFrom(i, issue, isns, killed, cleared)
  <2>1. CASE Keeps(i, issue, killed)
    BY <1>1, <2>1 DEF StationsMove, IsKept, StationFrom
  <2>2. CASE \E k \in DOMAIN isns : isns[k].allocates /\ dispatchPtr(isns, k) = i
    BY <1>1, <2>2 DEF StationsMove, IsNew, StationFrom
  <2> QED BY <1>1, <1>2, <2>1, <2>2 DEF StationsMove
<1>3. \A k \in DOMAIN rs_issue' : k \in DOMAIN issue /\ IssueFrom(k, issue, killed, cleared)
  <2> SUFFICES ASSUME NEW k \in DOMAIN issue PROVE IssueFrom(k, issue, killed, cleared)
    BY <1>1 DEF IssueMoves
  <2>1. /\ issue[k].slot \in RS_PTR /\ issue[k].entry = entries[issue[k].slot]
        /\ entries[issue[k].slot].valid /\ entries[issue[k].slot].bmask \cap killed = {}
    BY <1>1 DEF Selects
  <2>2. /\ rs_issue'[k].entry.tag = issue[k].entry.tag
        /\ rs_issue'[k].entry.bmask = issue[k].entry.bmask \ cleared
    BY <1>1 DEF IssueMoves
  <2> QED BY <2>1, <2>2 DEF IssueFrom
<1>4. ASSUME NEW u \in FUB, NEW j \in {0, 1}, fub'[u][j].valid
      PROVE  ResultFrom(u, j, killed, cleared)
  <2> DEFINE fu == fu_done(u, killed)
             one == Stalled(u, killed) /\ Stays(fub[u][1], killed)
  <2>1. fub[u][0] \in FubEntry /\ fub[u][1] \in FubEntry
    BY DEF Types
  <2>2. /\ fu \in FubEntry
        /\ fu.valid => \E k \in DOMAIN rs_issue :
             /\ rs_issue[k].unit = u /\ rs_issue[k].entry.bmask \cap killed = {}
             /\ fu.tag = rs_issue[k].entry.tag /\ fu.bmask = rs_issue[k].entry.bmask
    BY UnitResult DEF Allowed
  <2>3. Shifts(fub'[u], fub[u], fu, Stalled(u, killed), killed, cleared)
    BY <1>1 DEF BuffersMove
  <2> HIDE DEF fu
  <2>4. ~NoResult.valid
    BY DEF NoResult
  <2>5. CASE one /\ j = 1
    <3>1. fub'[u][j] = Clear(fub[u][1], cleared)
      BY <2>3, <2>5 DEF Shifts
    <3> QED BY <2>1, <2>5, <3>1, Cleared DEF ResultFrom, FromOne, Stays
  <2>6. CASE (one <=> j = 0) /\ Stays(fub[u][0], killed)
    <3>1. fub'[u][j] = Clear(fub[u][0], cleared)
      BY <2>3, <2>6 DEF Shifts
    <3> QED BY <2>1, <2>6, <3>1, Cleared DEF ResultFrom, FromZero, Stays
  <2>7. CASE (one <=> j = 0) /\ ~Stays(fub[u][0], killed)
    <3>1. fu.valid /\ fub'[u][j] = Clear(fu, cleared)
      BY <1>4, <2>3, <2>4, <2>7 DEF Shifts
    <3>2. PICK k \in DOMAIN rs_issue :
            /\ rs_issue[k].unit = u /\ rs_issue[k].entry.bmask \cap killed = {}
            /\ fu.tag = rs_issue[k].entry.tag /\ fu.bmask = rs_issue[k].entry.bmask
      BY <2>2, <3>1
    <3>3. fub'[u][j].tag = fu.tag /\ fub'[u][j].bmask = fu.bmask \ cleared
      BY <2>2, <3>1, Cleared
    <3> QED BY <2>7, <3>2, <3>3 DEF ResultFrom, FromUnit
  <2>8. CASE ~one /\ j = 0
    BY <1>4, <2>3, <2>4, <2>8 DEF Shifts
  <2> QED BY <2>5, <2>6, <2>7, <2>8
<1> QED BY <1>2, <1>3, <1>4
-----------------------------------------------------------------------------
(***************************************************************************)
(* A cycle keeps every part of the invariant.                                *)
(***************************************************************************)
LEMMA WindowStep ==
  ASSUME Types, OnceEach, NEW isns, NEW r, NEW canLoad, NEW killed, NEW cleared,
         Allowed(isns, r, canLoad, killed, cleared)
  PROVE  /\ window' \in Seq(InFlight) /\ OnceEach'
         /\ checkpoint' \in {NoCheckpoint} \cup 0 .. Len(window')
         /\ \A t : t \in Pending' <=> Remains(t, Broadcast(killed), killed) \/ Enters(t, isns)
         /\ \A t : Remains(t, Broadcast(killed), killed) => MaskOf(t)' = MaskOf(t) \ cleared
         /\ \A t : Enters(t, isns) => MaskOf(t)' = bs_bmask \ cleared
         /\ \A s, t : /\ Older(s, t) /\ Remains(s, Broadcast(killed), killed)
                      /\ Remains(t, Broadcast(killed), killed)
                      => Older(s, t)'
         /\ \A s, t : Remains(s, Broadcast(killed), killed) /\ Enters(t, isns) => Older(s, t)'
         /\ Len(isns) = 2 /\ isns[1].allocates /\ isns[2].allocates
              => Older(isns[1].tag, isns[2].tag)'
<1>1. Advances(isns, r, killed, Broadcast(killed))
  BY DEF Allowed, Cycle, Advances
<1>2. Dispatchable(isns) /\ r \in Retirements /\ Resolves(isns, r, killed, cleared)
  BY DEF Allowed
<1> QED BY <1>1, <1>2, WindowMoves

LEMMA TypesStep ==
  ASSUME Types, OnceEach, AllKnown, UnitsFree,
         NEW isns, NEW r, NEW canLoad, NEW killed, NEW cleared,
         Allowed(isns, r, canLoad, killed, cleared)
  PROVE  Types'
<1>1. /\ entries' \in [RS_PTR -> {Vacant} \cup StationEntry]
      /\ rs_issue' \in Seq(Issue) /\ Len(rs_issue') <= 2
      /\ fub' \in [FUB -> [{0, 1} -> FubEntry]]
  BY CycleMoves DEF StationsMove, IssueMoves, BuffersMove
<1>2. window' \in Seq(InFlight) /\ checkpoint' \in {NoCheckpoint} \cup 0 .. Len(window')
  BY WindowStep
<1> QED BY <1>1, <1>2 DEF Types, InFlight

LEMMA KnownStep ==
  ASSUME Types, OnceEach, AllKnown, AllApart, UnitsFree,
         NEW isns, NEW r, NEW canLoad, NEW killed, NEW cleared,
         Allowed(isns, r, canLoad, killed, cleared)
  PROVE  AllKnown'
<1> DEFINE cdb == Broadcast(killed)
           issue == IssueOf(canLoad, killed)
<1>1. /\ \A t : t \in Pending' <=> Remains(t, cdb, killed) \/ Enters(t, isns)
      /\ \A t : Remains(t, cdb, killed) => MaskOf(t)' = MaskOf(t) \ cleared
      /\ \A t : Enters(t, isns) => MaskOf(t)' = bs_bmask \ cleared
  BY WindowStep
<1>2. /\ \A i \in RS_PTR :
           entries'[i].valid => StationFrom(i, issue, isns, killed, cleared)
      /\ \A k \in DOMAIN rs_issue' : k \in DOMAIN issue /\ IssueFrom(k, issue, killed, cleared)
      /\ \A u \in FUB, j \in {0, 1} : fub'[u][j].valid => ResultFrom(u, j, killed, cleared)
  BY Origins
<1>3. /\ \A i \in RS_PTR : entries[i].valid /\ entries[i].bmask \cap killed = {}
           => Remains(entries[i].tag, cdb, killed)
      /\ \A k \in DOMAIN rs_issue : rs_issue[k].entry.bmask \cap killed = {}
           => Remains(rs_issue[k].entry.tag, cdb, killed)
      /\ \A u \in FUB : Stays(fub[u][0], killed) => Remains(fub[u][0].tag, cdb, killed)
      /\ \A u \in FUB : Stalled(u, killed) /\ Stays(fub[u][1], killed)
           => Remains(fub[u][1].tag, cdb, killed)
  BY WhoRemains DEF Stays
<1> HIDE DEF cdb, issue
\* What was known, and remains, is known.
<1>4. \A t, m : /\ m = MaskOf(t) /\ Remains(t, cdb, killed)
                => t \in Pending' /\ m \ cleared = MaskOf(t)'
  BY <1>1
<1>5. ASSUME NEW i \in RS_PTR, entries'[i].valid, NEW t, t = entries'[i].tag
      PROVE  t \in Pending' /\ entries'[i].bmask = MaskOf(t)'
  <2>1. CASE /\ Keeps(i, issue, killed) /\ t = entries[i].tag
             /\ entries'[i].bmask = entries[i].bmask \ cleared
    <3>1. entries[i].bmask = MaskOf(t) /\ Remains(t, cdb, killed)
      BY <1>3, <2>1 DEF Keeps, AllKnown, Known
    <3> QED BY <1>4, <2>1, <3>1
  <2>2. ASSUME NEW k \in DOMAIN isns, isns[k].allocates, t = isns[k].tag,
               entries'[i].bmask = bs_bmask \ cleared
        PROVE  t \in Pending' /\ entries'[i].bmask = MaskOf(t)'
    <3>1. Enters(t, isns)
      BY <2>2 DEF Enters
    <3> QED BY <1>1, <2>2, <3>1
  <2>3. StationFrom(i, issue, isns, killed, cleared)
    BY <1>2, <1>5
  <2> QED BY <1>5, <2>1, <2>2, <2>3 DEF StationFrom
<1>6. ASSUME NEW k \in DOMAIN rs_issue', NEW t, t = rs_issue'[k].entry.tag
      PROVE  t \in Pending' /\ rs_issue'[k].entry.bmask = MaskOf(t)'
  <2>1. PICK i \in RS_PTR : /\ entries[i].valid /\ entries[i].bmask \cap killed = {}
                            /\ t = entries[i].tag
                            /\ rs_issue'[k].entry.bmask = entries[i].bmask \ cleared
    BY <1>2, <1>6 DEF IssueFrom
  <2>2. entries[i].bmask = MaskOf(t) /\ Remains(t, cdb, killed)
    BY <1>3, <2>1 DEF AllKnown, Known
  <2> QED BY <1>4, <2>1, <2>2
<1>7. ASSUME NEW u \in FUB, NEW j \in {0, 1}, fub'[u][j].valid, NEW t, t = fub'[u][j].tag
      PROVE  t \in Pending' /\ fub'[u][j].bmask = MaskOf(t)'
  <2>1. CASE FromOne(u, j, killed) /\ fub'[u][j].bmask = fub[u][1].bmask \ cleared
    <3>1. fub[u][1].bmask = MaskOf(t) /\ Remains(t, cdb, killed)
      BY <1>3, <1>7, <2>1 DEF FromOne, Stays, AllKnown, Known
    <3> QED BY <1>4, <2>1, <3>1
  <2>2. CASE FromZero(u, j, killed) /\ fub'[u][j].bmask = fub[u][0].bmask \ cleared
    <3>1. fub[u][0].bmask = MaskOf(t) /\ Remains(t, cdb, killed)
      BY <1>3, <1>7, <2>2 DEF FromZero, Stays, AllKnown, Known
    <3> QED BY <1>4, <2>2, <3>1
  <2>3. ASSUME NEW k \in DOMAIN rs_issue, FromUnit(u, j, k, killed),
               fub'[u][j].bmask = rs_issue[k].entry.bmask \ cleared
        PROVE  t \in Pending' /\ fub'[u][j].bmask = MaskOf(t)'
    <3>1. rs_issue[k].entry.bmask = MaskOf(t) /\ Remains(t, cdb, killed)
      BY <1>3, <1>7, <2>3 DEF FromUnit, AllKnown, Known
    <3> QED BY <1>4, <2>3, <3>1
  <2> QED BY <1>2, <1>7, <2>1, <2>2, <2>3 DEF ResultFrom
<1> QED BY <1>5, <1>6, <1>7 DEF AllKnown, Known, MaskOf, Behind

LEMMA ApartStep ==
  ASSUME Types, OnceEach, AllKnown, AllApart, UnitsFree,
         NEW isns, NEW r, NEW canLoad, NEW killed, NEW cleared,
         Allowed(isns, r, canLoad, killed, cleared)
  PROVE  AllApart'
<1> DEFINE issue == IssueOf(canLoad, killed)
           \* A place that held t, and holds it no longer.
           WasStation(i, t) == i \in RS_PTR /\ entries[i].valid /\ entries[i].tag = t
           WasUnit(k, t) == k \in DOMAIN rs_issue /\ rs_issue[k].entry.tag = t
           WasResult(u, j, t) == /\ u \in FUB /\ j \in {0, 1}
                                 /\ fub[u][j].valid /\ fub[u][j].tag = t
           ToStation(i, t) == Keeps(i, issue, killed) /\ WasStation(i, t)
           Newcomer(i, t) == \E k \in DOMAIN isns : /\ isns[k].allocates /\ isns[k].tag = t
                                                       /\ dispatchPtr(isns, k) = i
           ToResult(u, j, t) ==
             LET into == IF Stalled(u, killed) /\ Stays(fub[u][1], killed) THEN 0 ELSE 1
             IN  \/ j = 1 /\ into = 0 /\ WasResult(u, 1, t)
                 \/ j = into /\ WasResult(u, 0, t)
                 \/ j = into /\ \E k : WasUnit(k, t) /\ rs_issue[k].unit = u
<1>1. /\ \A i \in RS_PTR :
           entries'[i].valid => StationFrom(i, issue, isns, killed, cleared)
      /\ \A k \in DOMAIN rs_issue' : k \in DOMAIN issue /\ IssueFrom(k, issue, killed, cleared)
      /\ \A u \in FUB, j \in {0, 1} : fub'[u][j].valid => ResultFrom(u, j, killed, cleared)
  BY Origins
<1>2. /\ \A k, l \in DOMAIN issue : issue[k].slot = issue[l].slot => k = l
  BY CycleMoves DEF Selects
<1>3. \A k, l \in DOMAIN isns :
        isns[k].allocates /\ isns[l].allocates /\ isns[k].tag = isns[l].tag => k = l
  <2>1. /\ DOMAIN isns = 1 .. Len(isns) /\ Len(isns) \in 0 .. 2
        /\ Len(isns) = 2 /\ isns[1].allocates /\ isns[2].allocates => isns[1].tag # isns[2].tag
    BY DEF Allowed, Dispatchable
  <2> QED BY <2>1
<1> HIDE DEF issue
\* One that enters was nowhere.
<1>4. \A i, t : Newcomer(i, t) =>
        /\ \A h : ~WasStation(h, t)
        /\ \A k : ~WasUnit(k, t)
        /\ \A u, j : ~WasResult(u, j, t)
  <2> SUFFICES ASSUME NEW i, NEW t, Newcomer(i, t)
               PROVE  /\ \A h : ~WasStation(h, t)
                      /\ \A k : ~WasUnit(k, t)
                      /\ \A u, j : ~WasResult(u, j, t)
    OBVIOUS
  <2>1. t \notin Live
    BY WhoRemains DEF Enters
  <2>2. t \notin Pending
    BY <2>1, BusIsPending
  <2> QED BY <2>2 DEF AllKnown, Known
\* One that was somewhere was nowhere else.
<1>5. \A t : /\ \A h, i : WasStation(h, t) /\ WasStation(i, t) => h = i
             /\ \A i, k : ~(WasStation(i, t) /\ WasUnit(k, t))
             /\ \A i, u, j : ~(WasStation(i, t) /\ WasResult(u, j, t))
             /\ \A k, l : WasUnit(k, t) /\ WasUnit(l, t) => k = l
             /\ \A k, u, j : ~(WasUnit(k, t) /\ WasResult(u, j, t))
             /\ \A u, j, v, l : WasResult(u, j, t) /\ WasResult(v, l, t) => u = v /\ j = l
  BY DEF AllApart
<1>6. \A i \in RS_PTR : \A t : entries'[i].valid /\ entries'[i].tag = t =>
        ToStation(i, t) \/ Newcomer(i, t)
  <2> SUFFICES ASSUME NEW i \in RS_PTR, entries'[i].valid
               PROVE  ToStation(i, entries'[i].tag) \/ Newcomer(i, entries'[i].tag)
    OBVIOUS
  <2>1. StationFrom(i, issue, isns, killed, cleared)
    BY <1>1
  <2> QED BY <2>1 DEF StationFrom, Keeps
<1>7. \A k \in DOMAIN rs_issue' : \A t : rs_issue'[k].entry.tag = t =>
        k \in DOMAIN issue /\ WasStation(issue[k].slot, t)
  BY <1>1 DEF IssueFrom
<1>8. \A u \in FUB, j \in {0, 1} : \A t : fub'[u][j].valid /\ fub'[u][j].tag = t =>
        ToResult(u, j, t)
  <2> SUFFICES ASSUME NEW u \in FUB, NEW j \in {0, 1}, fub'[u][j].valid
               PROVE  ToResult(u, j, fub'[u][j].tag)
    OBVIOUS
  <2>1. ResultFrom(u, j, killed, cleared)
    BY <1>1
  <2>2. CASE FromOne(u, j, killed)
    BY <2>2 DEF FromOne, Stays
  <2>3. CASE FromZero(u, j, killed)
    BY <2>3 DEF FromZero, Stays
  <2>4. ASSUME NEW k \in DOMAIN rs_issue, FromUnit(u, j, k, killed)
        PROVE  ToResult(u, j, fub'[u][j].tag)
    BY <2>4 DEF FromUnit
  <2> QED BY <2>1, <2>2, <2>3, <2>4 DEF ResultFrom
<1>9. \A u, j, t : ToResult(u, j, t) =>
        \/ \E l : WasResult(u, l, t)
        \/ \E k : WasUnit(k, t) /\ rs_issue[k].unit = u
  OBVIOUS
<1>10. \A t : \A u, v \in FUB, i, j \in {0, 1} :
         ToResult(u, i, t) /\ ToResult(v, j, t) => u = v /\ i = j
  <2> SUFFICES ASSUME NEW t, NEW u \in FUB, NEW v \in FUB, NEW i \in {0, 1}, NEW j \in {0, 1},
                      ToResult(u, i, t), ToResult(v, j, t)
               PROVE  u = v /\ i = j
    OBVIOUS
  <2>1. CASE \E k : WasUnit(k, t)
    <3>1. PICK k : WasUnit(k, t)
      BY <2>1
    <3>2. \A l : WasUnit(l, t) => l = k
      BY <1>5, <3>1
    <3>3. \A w, l : ~WasResult(w, l, t)
      BY <1>5, <3>1
    <3> HIDE DEF WasUnit, WasResult
    <3> QED BY <3>2, <3>3
  <2>2. CASE ~\E k : WasUnit(k, t)
    <3>1. PICK l \in {0, 1} : WasResult(u, l, t)
      <4> HIDE DEF WasUnit
      <4> QED BY <1>9, <2>2
    <3>2. \A w, m : WasResult(w, m, t) => w = u /\ m = l
      BY <1>5, <3>1
    <3> HIDE DEF WasUnit, WasResult
    <3> QED BY <2>2, <3>2
  <2> QED BY <2>1, <2>2
<1>11. \A h, i \in RS_PTR : entries'[h].valid /\ entries'[i].valid
         /\ entries'[h].tag = entries'[i].tag => h = i
  <2> SUFFICES ASSUME NEW h \in RS_PTR, NEW i \in RS_PTR, entries'[h].valid, entries'[i].valid,
                      NEW t, t = entries'[h].tag, t = entries'[i].tag
               PROVE  h = i
    OBVIOUS
  <2>1. /\ ToStation(h, t) \/ Newcomer(h, t)
        /\ ToStation(i, t) \/ Newcomer(i, t)
    BY <1>6
  <2>2. CASE Newcomer(h, t) /\ Newcomer(i, t)
    BY <1>3, <2>2
  <2>3. CASE ToStation(h, t) /\ ToStation(i, t)
    BY <1>5, <2>3
  <2> QED BY <1>4, <2>1, <2>2, <2>3
<1>12. \A i \in RS_PTR, k \in DOMAIN rs_issue' :
         entries'[i].valid => entries'[i].tag # rs_issue'[k].entry.tag
  <2> SUFFICES ASSUME NEW i \in RS_PTR, NEW k \in DOMAIN rs_issue', entries'[i].valid,
                      NEW t, t = entries'[i].tag, t = rs_issue'[k].entry.tag
               PROVE  FALSE
    OBVIOUS
  <2>1. WasStation(issue[k].slot, t) /\ k \in DOMAIN issue
    BY <1>7
  <2>2. Keeps(i, issue, killed) /\ WasStation(i, t)
    <3>1. ToStation(i, t) \/ Newcomer(i, t)
      BY <1>6
    <3>2. ~Newcomer(i, t)
      <4> HIDE DEF Newcomer, WasStation
      <4> QED BY <1>4, <2>1
    <3> QED BY <3>1, <3>2
  <2> QED BY <1>5, <2>1, <2>2 DEF Keeps
<1>13. \A i \in RS_PTR, u \in FUB, j \in {0, 1} :
         entries'[i].valid /\ fub'[u][j].valid => entries'[i].tag # fub'[u][j].tag
  <2> SUFFICES ASSUME NEW i \in RS_PTR, NEW u \in FUB, NEW j \in {0, 1},
                      entries'[i].valid, fub'[u][j].valid,
                      NEW t, t = entries'[i].tag, t = fub'[u][j].tag
               PROVE  FALSE
    OBVIOUS
  <2> HIDE DEF ToResult, ToStation, Newcomer
  <2>1. ToResult(u, j, t) /\ (ToStation(i, t) \/ Newcomer(i, t))
    BY <1>6, <1>8
  <2>2. (\E l : WasResult(u, l, t)) \/ (\E k : WasUnit(k, t))
    BY <1>9, <2>1
  <2>3. ToStation(i, t) => WasStation(i, t)
    BY DEF ToStation
  <2> HIDE DEF WasStation, WasUnit, WasResult
  <2> QED BY <1>4, <1>5, <2>1, <2>2, <2>3
<1>14. \A k, l \in DOMAIN rs_issue' : rs_issue'[k].entry.tag = rs_issue'[l].entry.tag => k = l
  <2> SUFFICES ASSUME NEW k \in DOMAIN rs_issue', NEW l \in DOMAIN rs_issue',
                      NEW t, t = rs_issue'[k].entry.tag, t = rs_issue'[l].entry.tag
               PROVE  k = l
    OBVIOUS
  <2>1. /\ k \in DOMAIN issue /\ WasStation(issue[k].slot, t)
        /\ l \in DOMAIN issue /\ WasStation(issue[l].slot, t)
    BY <1>7
  <2>2. issue[k].slot = issue[l].slot
    BY <1>5, <2>1
  <2> QED BY <1>2, <2>1, <2>2
<1>15. \A k \in DOMAIN rs_issue', u \in FUB, j \in {0, 1} :
         fub'[u][j].valid => rs_issue'[k].entry.tag # fub'[u][j].tag
  <2> SUFFICES ASSUME NEW k \in DOMAIN rs_issue', NEW u \in FUB, NEW j \in {0, 1},
                      fub'[u][j].valid, NEW t, t = rs_issue'[k].entry.tag, t = fub'[u][j].tag
               PROVE  FALSE
    OBVIOUS
  <2> HIDE DEF ToResult, WasStation, WasUnit, WasResult
  <2>1. ToResult(u, j, t) /\ WasStation(issue[k].slot, t)
    BY <1>7, <1>8
  <2>2. (\E l : WasResult(u, l, t)) \/ (\E l : WasUnit(l, t))
    BY <1>9, <2>1
  <2> QED BY <1>5, <2>1, <2>2
<1>16. \A u, v \in FUB, i, j \in {0, 1} :
         fub'[u][i].valid /\ fub'[v][j].valid /\ fub'[u][i].tag = fub'[v][j].tag
           => u = v /\ i = j
  <2> HIDE DEF ToResult
  <2> QED BY <1>8, <1>10
<1> QED BY <1>11, <1>12, <1>13, <1>14, <1>15, <1>16 DEF AllApart
LEMMA HeldStep ==
  ASSUME Types, OnceEach, AllKnown, AllApart, AllHeld, UnitsFree,
         NEW isns, NEW r, NEW canLoad, NEW killed, NEW cleared,
         Allowed(isns, r, canLoad, killed, cleared)
  PROVE  AllHeld'
<1> DEFINE cdb == Broadcast(killed)
           issue == IssueOf(canLoad, killed)
           Held(t) == \/ \E i \in RS_PTR : entries'[i].valid /\ entries'[i].tag = t
                      \/ \E k \in DOMAIN rs_issue' : rs_issue'[k].entry.tag = t
                      \/ \E u \in FUB, j \in {0, 1} : fub'[u][j].valid /\ fub'[u][j].tag = t
<1>1. \A t : t \in Pending' <=> Remains(t, cdb, killed) \/ Enters(t, isns)
  BY WindowStep
<1>2. /\ \A i \in RS_PTR : entries[i].valid /\ Remains(entries[i].tag, cdb, killed)
           => entries[i].bmask \cap killed = {}
      /\ \A k \in DOMAIN rs_issue : Remains(rs_issue[k].entry.tag, cdb, killed)
           => rs_issue[k].entry.bmask \cap killed = {}
      /\ \A u \in FUB : fub[u][0].valid /\ Remains(fub[u][0].tag, cdb, killed)
           => Stays(fub[u][0], killed)
      /\ \A u \in FUB : fub[u][1].valid /\ Remains(fub[u][1].tag, cdb, killed)
           => Stalled(u, killed) /\ Stays(fub[u][1], killed)
  BY WhoRemains
<1>3. /\ Selects(issue, cdb, Busy(killed), canLoad, killed)
      /\ StationsMove(isns, issue, cdb, killed, cleared)
      /\ IssueMoves(issue, cleared)
      /\ BuffersMove(killed, cleared)
  BY CycleMoves
<1> HIDE DEF cdb, issue
<1>4. \A n : n \in StationEntry => n.valid
  BY DEF StationEntry
<1>5. ASSUME NEW t, Enters(t, isns) PROVE Held(t)
  <2>1. PICK k \in DOMAIN isns : isns[k].allocates /\ isns[k].tag = t
    BY <1>5 DEF Enters
  <2>2. /\ dispatchPtr(isns, k) \in RS_PTR
        /\ IsNew(entries'[dispatchPtr(isns, k)], isns[k], bs_bmask, cdb, cleared)
    BY <1>3, <2>1 DEF StationsMove
  <2> QED BY <1>4, <2>1, <2>2 DEF IsNew
<1>6. ASSUME NEW i \in RS_PTR, entries[i].valid, Remains(entries[i].tag, cdb, killed)
      PROVE  Held(entries[i].tag)
  <2>1. CASE Keeps(i, issue, killed)
    <3>1. IsKept(entries'[i], i, cdb, cleared)
      BY <1>3, <2>1 DEF StationsMove
    <3> QED BY <1>4, <3>1 DEF IsKept
  <2>2. CASE ~Keeps(i, issue, killed)
    <3>1. PICK k \in DOMAIN issue : issue[k].slot = i
      BY <1>2, <1>6, <2>2 DEF Keeps
    <3>2. issue[k].entry = entries[i]
      BY <1>3, <3>1 DEF Selects
    <3> QED BY <1>3, <3>1, <3>2 DEF IssueMoves
  <2> QED BY <2>1, <2>2
<1>7. ASSUME NEW u \in FUB
      PROVE  LET one  == Stalled(u, killed) /\ Stays(fub[u][1], killed)
                 zero == Stays(fub[u][0], killed)
                 fu   == fu_done(u, killed)
                 new  == fu.valid /\ ~fub[u][0].valid
             IN  /\ one => fub'[u][1].valid /\ fub'[u][1].tag = fub[u][1].tag
                 /\ zero => \E j \in {0, 1} : fub'[u][j].valid /\ fub'[u][j].tag = fub[u][0].tag
                 /\ new => \E j \in {0, 1} : fub'[u][j].valid /\ fub'[u][j].tag = fu.tag
  <2> DEFINE one  == Stalled(u, killed) /\ Stays(fub[u][1], killed)
             zero == Stays(fub[u][0], killed)
             fu   == fu_done(u, killed)
             new  == fu.valid /\ ~fub[u][0].valid
  <2>1. fub[u][0] \in FubEntry /\ fub[u][1] \in FubEntry /\ fu \in FubEntry
    BY UnitResult DEF Types, Allowed
  <2> HIDE DEF fu
  <2>2. \A e \in FubEntry : e.valid => Clear(e, cleared).valid /\ Clear(e, cleared).tag = e.tag
    BY Cleared
  <2>3. /\ fub'[u][1] = IF one THEN Clear(fub[u][1], cleared)
                        ELSE IF zero THEN Clear(fub[u][0], cleared)
                        ELSE IF new THEN Clear(fu, cleared) ELSE NoResult
        /\ fub'[u][0] = IF ~one THEN NoResult
                        ELSE IF zero THEN Clear(fub[u][0], cleared)
                        ELSE IF new THEN Clear(fu, cleared) ELSE NoResult
    BY <1>3 DEF BuffersMove, Shifts, fu
  <2>4. /\ one => fub[u][1].valid
        /\ zero => fub[u][0].valid
        /\ new => fu.valid /\ ~zero
    BY DEF Stays
  <2> HIDE DEF one, zero, new
  <2>5. one => fub'[u][1].valid /\ fub'[u][1].tag = fub[u][1].tag
    BY <2>1, <2>2, <2>3, <2>4
  <2>6. zero => \E j \in {0, 1} : fub'[u][j].valid /\ fub'[u][j].tag = fub[u][0].tag
    BY <2>1, <2>2, <2>3, <2>4
  <2>7. new => \E j \in {0, 1} : fub'[u][j].valid /\ fub'[u][j].tag = fu.tag
    BY <2>1, <2>2, <2>3, <2>4
  <2> QED BY <2>5, <2>6, <2>7 DEF one, zero, new, fu
<1>8. ASSUME NEW k \in DOMAIN rs_issue, Remains(rs_issue[k].entry.tag, cdb, killed)
      PROVE  Held(rs_issue[k].entry.tag)
  <2> DEFINE u == rs_issue[k].unit
  <2>1. u \in FUB /\ ~fub[u][0].valid
    <3>1. rs_issue[k] \in Issue
      BY DEF Types
    <3> QED BY <3>1 DEF Issue, UnitsFree
  <2>2. fu_done(u, killed).valid /\ fu_done(u, killed).tag = rs_issue[k].entry.tag
    <3>1. rs_issue[k].entry.bmask \cap killed = {}
      BY <1>2, <1>8
    <3> QED BY <2>1, <3>1, UnitResult DEF Allowed
  <2> HIDE DEF u
  <2>3. \E j \in {0, 1} : fub'[u][j].valid /\ fub'[u][j].tag = rs_issue[k].entry.tag
    BY <1>7, <2>1, <2>2
  <2> QED BY <2>1, <2>3
<1>9. ASSUME NEW u \in FUB, NEW j \in {0, 1}, fub[u][j].valid,
             Remains(fub[u][j].tag, cdb, killed)
      PROVE  Held(fub[u][j].tag)
  <2>1. CASE j = 1
    BY <1>2, <1>7, <1>9, <2>1
  <2>2. CASE j = 0
    <3>1. Stays(fub[u][0], killed)
      BY <1>2, <1>9, <2>2
    <3>2. \E l \in {0, 1} : fub'[u][l].valid /\ fub'[u][l].tag = fub[u][0].tag
      BY <1>7, <3>1
    <3> QED BY <2>2, <3>2
  <2> QED BY <2>1, <2>2
<1> HIDE DEF Held
<1>10. ASSUME NEW t, Remains(t, cdb, killed) PROVE Held(t)
  <2>1. t \in Pending
    BY <1>10 DEF Remains
  <2> QED BY <1>6, <1>8, <1>9, <1>10, <2>1 DEF AllHeld
<1> QED BY <1>1, <1>5, <1>10 DEF AllHeld, Held

LEMMA UnitsStep ==
  ASSUME Types, OnceEach, AllKnown, UnitsFree,
         NEW isns, NEW r, NEW canLoad, NEW killed, NEW cleared,
         Allowed(isns, r, canLoad, killed, cleared)
  PROVE  UnitsFree'
<1> DEFINE issue == IssueOf(canLoad, killed)
<1>1. /\ Selects(issue, Broadcast(killed), Busy(killed), canLoad, killed)
      /\ IssueMoves(issue, cleared)
      /\ BuffersMove(killed, cleared)
  BY CycleMoves
<1> HIDE DEF issue
<1>2. \A u \in FUB : fub'[u][0].valid => fub'[u][1].valid /\ u \in Busy(killed)
  BY <1>1 DEF BuffersMove, Shifts, Busy
<1>3. /\ DOMAIN rs_issue' = DOMAIN issue
      /\ \A k \in DOMAIN issue : /\ rs_issue'[k].unit = issue[k].unit
                                 /\ issue[k].unit \in FUB \ Busy(killed)
      /\ \A k, l \in DOMAIN issue : issue[k].unit = issue[l].unit => k = l
  BY <1>1 DEF Selects, IssueMoves
<1> QED BY <1>2, <1>3 DEF UnitsFree

LEMMA LoadStep ==
  ASSUME Types, OnceEach, AllKnown, UnitsFree,
         NEW isns, NEW r, NEW canLoad, NEW killed, NEW cleared,
         Allowed(isns, r, canLoad, killed, cleared)
  PROVE  OneLoadIssued'
<1> DEFINE issue == IssueOf(canLoad, killed)
           L == {k \in DOMAIN rs_issue' : rs_issue'[k].entry.rd_mem}
<1>1. /\ Selects(issue, Broadcast(killed), Busy(killed), canLoad, killed)
      /\ IssueMoves(issue, cleared)
  BY CycleMoves
<1> HIDE DEF issue
<1>2. \A k, l \in L : k = l
  BY <1>1 DEF Selects, IssueMoves
<1> HIDE DEF L
<1>3. CASE L = {}
  BY <1>3, FS_EmptySet DEF OneLoadIssued, L
<1>4. CASE L # {}
  <2>1. PICK k : L = {k}
    BY <1>2, <1>4
  <2> QED BY <2>1, FS_Singleton DEF OneLoadIssued, L
<1> QED BY <1>3, <1>4
(* Who a new station waits for.                                               *)
LEMMA NewOperand ==
  ASSUME Types, OnceEach, AllKnown, AllApart,
         NEW isns, NEW r, NEW canLoad, NEW killed, NEW cleared,
         Allowed(isns, r, canLoad, killed, cleared),
         NEW k \in DOMAIN isns, isns[k].allocates,
         NEW o \in {isns[k].tagA, isns[k].tagB}
  PROVE  /\ o.register \in Pending' => Older(o.register, isns[k].tag)'
         /\ o.ready \/ o.register \in Broadcast(killed) <=> o.register \notin Pending'
<1> DEFINE cdb == Broadcast(killed)
           s == o.register
           t == isns[k].tag
<1>1. /\ \A x : x \in Pending' <=> Remains(x, cdb, killed) \/ Enters(x, isns)
      /\ \A x, y : Remains(x, cdb, killed) /\ Enters(y, isns) => Older(x, y)'
      /\ Len(isns) = 2 /\ isns[1].allocates /\ isns[2].allocates
              => Older(isns[1].tag, isns[2].tag)'
      /\ window' \in Seq(InFlight)
  BY WindowStep
<1>2. /\ DOMAIN isns = 1 .. Len(isns) /\ Len(isns) \in 0 .. 2
      /\ o \in Operands \/ (k = 2 /\ isns[1].allocates /\ o = Awaited(isns[1].tag))
  BY DEF Allowed, Dispatchable, Allocates
<1>3. Enters(t, isns) /\ \A x : Enters(x, isns) => x \notin Live
  BY WhoRemains DEF Enters
<1>4. killed = {}
  <2>1. isns # <<>>
    BY <1>2
  <2> QED BY <2>1 DEF Allowed, Resolves
<1>5. cdb \subseteq Pending /\ Pending \subseteq Live /\ Live \subseteq TAG
  BY BusIsPending
<1>6. o = NoOperand \/ (\E x \in Pending : o = Awaited(x))
        \/ (k = 2 /\ isns[1].allocates /\ o = Awaited(isns[1].tag))
  BY <1>2 DEF Operands, Pending
<1> HIDE DEF cdb
<1>7. CASE o = NoOperand
  <2>1. s = PHYS_ZERO_REG /\ o.ready = TRUE
    BY <1>7 DEF NoOperand
  <2>2. \A x \in Pending' : x \in TAG
    <3>1. \A p \in DOMAIN window' : window'[p] \in InFlight
      BY <1>1
    <3>2. \A p \in DOMAIN window' : window'[p].tag \in TAG
      BY <3>1 DEF InFlight
    <3> QED BY <3>2 DEF Pending
  <2> QED BY <2>1, <2>2, TagAssumption
<1>8. ASSUME NEW x \in Pending, o = Awaited(x)
      PROVE  /\ s \in Pending' => Older(s, t)'
             /\ o.ready \/ s \in cdb <=> s \notin Pending'
  <2>1. s = x /\ o.ready = FALSE
    BY <1>8 DEF Awaited
  <2>2. ~Enters(x, isns)
    BY <1>3, <1>5
  <2>3. x \in Pending' <=> x \notin cdb
    BY <1>1, <1>4, <2>2 DEF Remains
  <2>4. x \in Pending' => Older(x, t)'
    BY <1>1, <1>3, <2>2
  <2> QED BY <2>1, <2>3, <2>4
<1>9. CASE k = 2 /\ isns[1].allocates /\ o = Awaited(isns[1].tag)
  <2>1. s = isns[1].tag /\ o.ready = FALSE
    BY <1>9 DEF Awaited
  <2>2. Len(isns) = 2 /\ Enters(isns[1].tag, isns) /\ isns[2].allocates
    BY <1>2, <1>9 DEF Enters
  <2>3. Older(isns[1].tag, t)' /\ isns[1].tag \in Pending' /\ isns[1].tag \notin cdb
    BY <1>1, <1>3, <1>5, <1>9, <2>2
  <2> QED BY <2>1, <2>3 DEF cdb
<1> QED BY <1>6, <1>7, <1>8, <1>9 DEF cdb

(* Who a station that is kept waits for.                                      *)
LEMMA KeptOperand ==
  ASSUME Types, OnceEach, AllKnown, AllApart, OperandsOlder,
         NEW isns, NEW r, NEW canLoad, NEW killed, NEW cleared,
         Allowed(isns, r, canLoad, killed, cleared),
         NEW i \in RS_PTR, entries[i].valid, entries[i].bmask \cap killed = {},
         NEW s \in {entries[i].tagA, entries[i].tagB}, NEW t, t = entries[i].tag
  PROVE  /\ s \in Pending' => Older(s, t)'
         /\ s \in Pending' <=> s \in Pending /\ s \notin Broadcast(killed)
<1> DEFINE cdb == Broadcast(killed)
<1>1. /\ \A x : x \in Pending' <=> Remains(x, cdb, killed) \/ Enters(x, isns)
      /\ \A x, y : Older(x, y) /\ Remains(x, cdb, killed) /\ Remains(y, cdb, killed)
                     => Older(x, y)'
  BY WindowStep
<1>2. Remains(t, cdb, killed)
  BY WhoRemains
<1>3. ~Enters(s, isns)
  <2>1. s \in Named
    BY DEF Named, Free
  <2> QED BY <2>1, WhoRemains
<1>4. s \in Pending => Older(s, t)
  BY DEF OperandsOlder
<1> HIDE DEF cdb
<1>5. Older(s, t) /\ ~Behind(t) => ~Behind(s)
  <2> SUFFICES ASSUME Older(s, t), Behind(s) PROVE Behind(t)
    OBVIOUS
  <2>1. PICK p, q \in DOMAIN window : p < q /\ window[p].tag = s /\ window[q].tag = t
    BY DEF Older
  <2>2. checkpoint # NoCheckpoint /\ p > checkpoint
    BY <2>1 DEF Behind, OnceEach
  <2>3. checkpoint \in Int /\ DOMAIN window \subseteq Int
    BY DEF Types, NoCheckpoint
  <2>4. q > checkpoint
    BY <2>1, <2>2, <2>3
  <2> QED BY <2>1, <2>2, <2>4 DEF Behind
<1>6. s \in Pending /\ s \notin cdb => Remains(s, cdb, killed)
  BY <1>2, <1>4, <1>5 DEF Remains
<1>7. Remains(s, cdb, killed) => s \in Pending /\ s \notin cdb
  BY DEF Remains
<1>8. s \in Pending' <=> Remains(s, cdb, killed)
  BY <1>1, <1>3
<1>9. s \in Pending' => Older(s, t)'
  BY <1>1, <1>2, <1>4, <1>7, <1>8
<1> QED BY <1>6, <1>7, <1>8, <1>9 DEF cdb

LEMMA OperandsStep ==
  ASSUME Types, OnceEach, AllKnown, AllApart, UnitsFree, OperandsOlder, OperandsExact,
         NEW isns, NEW r, NEW canLoad, NEW killed, NEW cleared,
         Allowed(isns, r, canLoad, killed, cleared)
  PROVE  OperandsOlder' /\ OperandsExact'
<1> DEFINE cdb == Broadcast(killed)
           issue == IssueOf(canLoad, killed)
<1>1. StationsMove(isns, issue, cdb, killed, cleared)
  BY CycleMoves
<1> HIDE DEF issue
<1>2. ASSUME NEW i \in RS_PTR, entries'[i].valid, NEW t, t = entries'[i].tag
      PROVE  /\ entries'[i].tagA \in Pending' => \A s : s = entries'[i].tagA => Older(s, t)'
             /\ entries'[i].tagB \in Pending' => \A s : s = entries'[i].tagB => Older(s, t)'
             /\ entries'[i].aReady <=> entries'[i].tagA \notin Pending'
             /\ entries'[i].bReady <=> entries'[i].tagB \notin Pending'
  <2>1. CASE Keeps(i, issue, killed)
    <3>1. IsKept(entries'[i], i, cdb, cleared) /\ entries[i].valid
          /\ entries[i].bmask \cap killed = {}
      BY <1>1, <2>1 DEF StationsMove, Keeps
    <3>2. t = entries[i].tag
      BY <1>2, <3>1 DEF IsKept
    <3>3. /\ entries[i].aReady <=> entries[i].tagA \notin Pending
          /\ entries[i].bReady <=> entries[i].tagB \notin Pending
      BY <3>1 DEF OperandsExact, Free
    <3>4. \A s \in {entries[i].tagA, entries[i].tagB} :
            /\ s \in Pending' => Older(s, t)'
            /\ s \in Pending' <=> s \in Pending /\ s \notin cdb
      BY <3>1, <3>2, KeptOperand
    <3> HIDE DEF cdb
    <3>5. /\ entries'[i].tagA = entries[i].tagA /\ entries'[i].tagB = entries[i].tagB
          /\ entries'[i].aReady <=> entries[i].aReady \/ entries[i].tagA \in cdb
          /\ entries'[i].bReady <=> entries[i].bReady \/ entries[i].tagB \in cdb
      BY <3>1 DEF IsKept
    <3> QED BY <3>3, <3>4, <3>5
  <2>2. ASSUME NEW k \in DOMAIN isns, isns[k].allocates, dispatchPtr(isns, k) = i
        PROVE  /\ entries'[i].tagA \in Pending' => \A s : s = entries'[i].tagA => Older(s, t)'
               /\ entries'[i].tagB \in Pending' => \A s : s = entries'[i].tagB => Older(s, t)'
               /\ entries'[i].aReady <=> entries'[i].tagA \notin Pending'
               /\ entries'[i].bReady <=> entries'[i].tagB \notin Pending'
    <3>1. IsNew(entries'[i], isns[k], bs_bmask, cdb, cleared)
      BY <1>1, <2>2 DEF StationsMove
    <3>2. t = isns[k].tag
      BY <1>2, <3>1 DEF IsNew
    <3>3. \A o \in {isns[k].tagA, isns[k].tagB} :
            /\ o.register \in Pending' => Older(o.register, isns[k].tag)'
            /\ o.ready \/ o.register \in cdb <=> o.register \notin Pending'
      BY <2>2, NewOperand
    <3> HIDE DEF cdb
    <3>4. /\ entries'[i].tagA = isns[k].tagA.register /\ entries'[i].tagB = isns[k].tagB.register
          /\ entries'[i].aReady <=> isns[k].tagA.ready \/ isns[k].tagA.register \in cdb
          /\ entries'[i].bReady <=> isns[k].tagB.ready \/ isns[k].tagB.register \in cdb
      BY <3>1 DEF IsNew
    <3> QED BY <3>2, <3>3, <3>4 DEF Older
  <2> QED BY <1>1, <1>2, <2>1, <2>2 DEF StationsMove
<1>3. OperandsOlder'
  BY <1>2 DEF OperandsOlder, Older
<1>4. OperandsExact'
  BY <1>2 DEF OperandsExact, Free
<1> QED BY <1>3, <1>4
-----------------------------------------------------------------------------
(***************************************************************************)
(* The invariant holds.                                                      *)
(***************************************************************************)
LEMMA InitHolds == Init => IInv
<1> SUFFICES ASSUME Init PROVE IInv
  OBVIOUS
<1>1. /\ entries = [i \in RS_PTR |-> Vacant] /\ rs_issue = <<>>
      /\ fub = [u \in FUB |-> Pair(NoResult, NoResult)]
      /\ window = <<>> /\ checkpoint = NoCheckpoint
  BY DEF Init, RSInit
<1>2. /\ \A i \in RS_PTR : ~entries[i].valid
      /\ DOMAIN rs_issue = {} /\ DOMAIN window = {}
  BY <1>1 DEF Vacant
<1>3. \A u \in FUB : /\ fub[u] \in [{0, 1} -> FubEntry]
                     /\ ~fub[u][0].valid /\ ~fub[u][1].valid
  BY <1>1, EntryKinds DEF Pair
<1>4. Types
  <2>1. fub \in [FUB -> [{0, 1} -> FubEntry]]
    BY <1>1, <1>3
  <2>2. rs_issue \in Seq(Issue) /\ Len(rs_issue) <= 2
    BY <1>1
  <2>3. window \in Seq([tag : TAG, done : BOOLEAN]) /\ checkpoint \in {NoCheckpoint}
    BY <1>1
  <2>4. entries \in [RS_PTR -> {Vacant} \cup StationEntry]
    BY <1>1
  <2> QED BY <2>1, <2>2, <2>3, <2>4 DEF Types
<1>5. Pending = {}
  BY <1>2 DEF Pending
<1>6. OnceEach /\ AllHeld
  BY <1>2, <1>5 DEF OnceEach, AllHeld
<1>7. AllKnown /\ UnitsFree
  BY <1>2, <1>3 DEF AllKnown, UnitsFree
<1>8. AllApart
  BY <1>2, <1>3 DEF AllApart
<1>9. OperandsOlder /\ OperandsExact
  BY <1>2 DEF OperandsOlder, OperandsExact, Free
<1>10. OneLoadIssued
  <2>1. {k \in DOMAIN rs_issue : rs_issue[k].entry.rd_mem} = {}
    BY <1>2
  <2> QED BY <2>1, FS_EmptySet DEF OneLoadIssued
<1> QED BY <1>4, <1>6, <1>7, <1>8, <1>9, <1>10 DEF IInv

LEMMA CycleKeeps ==
  ASSUME IInv, NEW isns, NEW r, NEW canLoad, NEW killed, NEW cleared,
         Allowed(isns, r, canLoad, killed, cleared)
  PROVE  IInv'
<1>1. /\ Types /\ OnceEach /\ AllKnown /\ AllApart /\ AllHeld /\ UnitsFree /\ OperandsOlder
      /\ OperandsExact /\ OneLoadIssued
  BY DEF IInv
<1>2. Types' /\ AllKnown' /\ AllApart' /\ AllHeld'
  BY <1>1, TypesStep, KnownStep, ApartStep, HeldStep
<1>3. OnceEach'
  BY <1>1, WindowStep
<1>4. UnitsFree' /\ OperandsOlder' /\ OperandsExact' /\ OneLoadIssued'
  BY <1>1, UnitsStep, OperandsStep, LoadStep
<1> QED BY <1>2, <1>3, <1>4 DEF IInv

LEMMA StepsAreAllowed ==
  ASSUME SafeNext
  PROVE  \E isns, r, canLoad, killed, cleared : Allowed(isns, r, canLoad, killed, cleared)
<1>1. PICK canLoad \in SUBSET Loads :
        \/ \E isns \in {i \in Dispatches : SecondFits(i) /\ WakesNobody(i)} :
             DispatchCycle(isns, canLoad)
        \/ KeepsNothing /\ RecoverCycle(canLoad)
  BY DEF SafeNext
<1>2. ASSUME NEW isns \in Dispatches, SecondFits(isns), WakesNobody(isns),
             DispatchCycle(isns, canLoad)
      PROVE  \E r, killed, cleared : Allowed(isns, r, canLoad, killed, cleared)
  <2>1. PICK r \in Retirements :
          \/ /\ Cycle(isns, r, canLoad, {}, {})
             /\ checkpoint' \in
                  IF checkpoint # NoCheckpoint THEN {checkpoint - r}
                  ELSE {NoCheckpoint} \cup (IF Len(isns) = 1 THEN {Len(window')} ELSE {})
          \/ /\ checkpoint # NoCheckpoint
             /\ Cycle(isns, r, canLoad, {}, BRANCH)
             /\ checkpoint' = NoCheckpoint
    BY <1>2 DEF DispatchCycle
  <2>2. /\ Dispatchable(isns) /\ SecondFits(isns)
        /\ \A k \in DOMAIN isns :
             isns[k].allocates \/ isns[k].tagA.register \notin Broadcast({})
        /\ \A v \in UnitsOf["LDST"] : ~Hit(fu_result(v), {})
    BY <1>2, DispatchesAre DEF WakesNobody, Hit
  <2>3. CASE /\ Cycle(isns, r, canLoad, {}, {})
             /\ checkpoint' \in
                  IF checkpoint # NoCheckpoint THEN {checkpoint - r}
                  ELSE {NoCheckpoint} \cup (IF Len(isns) = 1 THEN {Len(window')} ELSE {})
    <3>1. Resolves(isns, r, {}, {})
      BY <2>3 DEF Resolves
    <3>2. Allowed(isns, r, canLoad, {}, {})
      BY <2>2, <2>3, <3>1 DEF Allowed
    <3> QED BY <3>2
  <2>4. CASE /\ checkpoint # NoCheckpoint
             /\ Cycle(isns, r, canLoad, {}, BRANCH)
             /\ checkpoint' = NoCheckpoint
    <3>1. Resolves(isns, r, {}, BRANCH)
      BY <2>4 DEF Resolves
    <3>2. Allowed(isns, r, canLoad, {}, BRANCH)
      BY <2>2, <2>4, <3>1 DEF Allowed
    <3> QED BY <3>2
  <2> QED BY <2>1, <2>3, <2>4
<1>3. ASSUME KeepsNothing, RecoverCycle(canLoad)
      PROVE  \E r : Allowed(<<>>, r, canLoad, BRANCH, {})
  <2>1. PICK r \in Retirements : Cycle(<<>>, r, canLoad, BRANCH, {})
    BY <1>3 DEF RecoverCycle
  <2>2. Dispatchable(<<>>) /\ SecondFits(<<>>)
    BY DispatchesAre DEF Dispatches, SecondFits
  <2>3. Resolves(<<>>, r, BRANCH, {})
    BY <1>3 DEF Resolves, RecoverCycle
  <2>4. Allowed(<<>>, r, canLoad, BRANCH, {})
    BY <1>3, <2>1, <2>2, <2>3 DEF Allowed, KeepsNothing
  <2> QED BY <2>4
<1>4. CASE \E isns \in {i \in Dispatches : SecondFits(i) /\ WakesNobody(i)} :
             DispatchCycle(isns, canLoad)
  BY <1>2, <1>4
<1>5. CASE KeepsNothing /\ RecoverCycle(canLoad)
  BY <1>3, <1>5
<1> QED BY <1>1, <1>4, <1>5

LEMMA StutterKeeps ==
  ASSUME IInv, UNCHANGED vars
  PROVE  IInv'
<1>1. /\ entries' = entries /\ rs_issue' = rs_issue /\ fub' = fub /\ window' = window
      /\ checkpoint' = checkpoint
  BY DEF vars, rs_vars
<1>2. /\ Types /\ OnceEach /\ AllKnown /\ AllApart /\ AllHeld /\ UnitsFree /\ OperandsOlder
      /\ OperandsExact /\ OneLoadIssued
  BY DEF IInv
<1>3. Types' /\ OnceEach' /\ UnitsFree' /\ OneLoadIssued'
  BY <1>1, <1>2 DEF Types, OnceEach, UnitsFree, OneLoadIssued
<1>4. AllKnown'
  BY <1>1, <1>2 DEF AllKnown, Known, Pending, MaskOf, Behind
<1>5. AllApart' /\ AllHeld'
  BY <1>1, <1>2 DEF AllApart, AllHeld, Pending
<1>6. OperandsOlder' /\ OperandsExact'
  BY <1>1, <1>2 DEF OperandsOlder, OperandsExact, Older, Pending, Free
<1> QED BY <1>3, <1>4, <1>5, <1>6 DEF IInv

(* Stations, units, buffers, bus and window keep the invariant: everything     *)
(* that waits, is computed or waits for the bus is of an instruction in flight *)
(* that is not done, once, and knows the branch it is behind.  (RS.v, FUBi.v,   *)
(* CDB.v.)                                                                      *)
THEOREM ExecuteInvariant == SafeSpec => []IInv
<1>1. Init => IInv
  BY InitHolds
<1>2. IInv /\ [SafeNext]_vars => IInv'
  <2> SUFFICES ASSUME IInv, [SafeNext]_vars PROVE IInv'
    OBVIOUS
  <2>1. CASE SafeNext
    BY <2>1, StepsAreAllowed, CycleKeeps
  <2>2. CASE UNCHANGED vars
    BY <2>2, StutterKeeps
  <2> QED BY <2>1, <2>2
<1> QED BY <1>1, <1>2, PTL DEF SafeSpec

LEMMA OnePlace == IInv => EachInOnePlace
<1> SUFFICES ASSUME IInv, NEW t \in TAG
             PROVE  Cardinality(Stations(t)) + Cardinality(Units(t)) + Cardinality(Results(t))
                      = IF t \in Pending THEN 1 ELSE 0
  BY DEF EachInOnePlace
<1>1. AllKnown /\ AllApart /\ AllHeld
  BY DEF IInv
<1>2. Cardinality({}) = 0
  BY FS_EmptySet
<1>3. \A S, x : S = {x} => Cardinality(S) = 1
  BY FS_Singleton
<1>4. CASE t \notin Pending
  <2>1. Stations(t) = {} /\ Units(t) = {} /\ Results(t) = {}
    BY <1>1, <1>4 DEF AllKnown, Known, Stations, Units, Results
  <2> QED BY <1>2, <1>4, <2>1
<1>5. ASSUME NEW i \in RS_PTR, entries[i].valid, entries[i].tag = t
      PROVE  Stations(t) = {i} /\ Units(t) = {} /\ Results(t) = {}
  BY <1>1, <1>5 DEF AllApart, Stations, Units, Results
<1>6. ASSUME NEW k \in DOMAIN rs_issue, rs_issue[k].entry.tag = t
      PROVE  Stations(t) = {} /\ Units(t) = {k} /\ Results(t) = {}
  BY <1>1, <1>6 DEF AllApart, Stations, Units, Results
<1>7. ASSUME NEW u \in FUB, NEW j \in {0, 1}, fub[u][j].valid, fub[u][j].tag = t
      PROVE  Stations(t) = {} /\ Units(t) = {} /\ Results(t) = {<<u, j>>}
  <2>1. Stations(t) = {} /\ Units(t) = {}
    BY <1>1, <1>7 DEF AllApart, Stations, Units
  <2>2. \A v \in FUB, l \in {0, 1} : fub[v][l].valid /\ fub[v][l].tag = t => v = u /\ l = j
    BY <1>1, <1>7 DEF AllApart
  <2>3. \A e \in Results(t) : e = <<u, j>>
    BY <2>2 DEF Results
  <2>4. <<u, j>> \in Results(t)
    BY <1>7 DEF Results
  <2> QED BY <2>1, <2>3, <2>4
<1>8. CASE t \in Pending
  <2>1. \/ \E i \in RS_PTR : entries[i].valid /\ entries[i].tag = t
        \/ \E k \in DOMAIN rs_issue : rs_issue[k].entry.tag = t
        \/ \E u \in FUB, j \in {0, 1} : fub[u][j].valid /\ fub[u][j].tag = t
    BY <1>1, <1>8 DEF AllHeld
  <2> DEFINE one(S, T, U) == Cardinality(S) = 1 /\ Cardinality(T) = 0 /\ Cardinality(U) = 0
  <2>2. CASE \E i \in RS_PTR : entries[i].valid /\ entries[i].tag = t
    <3>1. one(Stations(t), Units(t), Results(t))
      BY <1>2, <1>3, <1>5, <2>2, Zenon
    <3> QED BY <1>8, <3>1
  <2>3. CASE \E k \in DOMAIN rs_issue : rs_issue[k].entry.tag = t
    <3>1. one(Units(t), Stations(t), Results(t))
      BY <1>2, <1>3, <1>6, <2>3, Zenon
    <3> QED BY <1>8, <3>1
  <2>4. CASE \E u \in FUB, j \in {0, 1} : fub[u][j].valid /\ fub[u][j].tag = t
    <3>1. one(Results(t), Stations(t), Units(t))
      BY <1>2, <1>3, <1>7, <2>4, Zenon
    <3> QED BY <1>8, <3>1
  <2> QED BY <2>1, <2>2, <2>3, <2>4
<1> QED BY <1>4, <1>8

(* An instruction that has not been broadcast is in exactly one place, and one *)
(* that has been, or was squashed, in none.  (RS.v:150-312, FUBi.v, CDB.v.)     *)
THEOREM EachInOnePlaceHolds == SafeSpec => []EachInOnePlace
<1>1. IInv => EachInOnePlace
  BY OnePlace
<1> QED BY <1>1, ExecuteInvariant, PTL

(* A station's operand is ready exactly when its producer has been broadcast.  *)
(* (RS.v:125-135, 265-312.)                                                     *)
THEOREM OperandsExactHolds == SafeSpec => []OperandsExact
<1>1. IInv => OperandsExact
  BY DEF IInv
<1> QED BY <1>1, ExecuteInvariant, PTL

(* The two scans issue at most one load in a cycle.  (RS.v:156-170, 210-225.)   *)
THEOREM OneLoadIssuedHolds == SafeSpec => []OneLoadIssued
<1>1. IInv => OneLoadIssued
  BY DEF IInv
<1> QED BY <1>1, ExecuteInvariant, PTL
=============================================================================
