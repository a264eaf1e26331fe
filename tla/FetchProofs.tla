----------------------------- MODULE FetchProofs -----------------------------
(***************************************************************************)
(* Fetching, for every program, every size of the buffer and of the           *)
(* predictor's tables, and every number of checkpoints.                        *)
(***************************************************************************)
EXTENDS FetchProps, FiniteSetTheorems, SequenceTheorems, TLAPS

Entry == [addr : Nat, branch : BOOLEAN, wr_mem : BOOLEAN, pred_taken : BOOLEAN,
          pred_NPC : Nat, not_taken_NPC : Nat]
Item  == [addr : Nat, entry : Entry, state : {"waiting", "executed", "done"},
          npc : Nat \cup {Unresolved}]

\* What is noted of an instruction is about that instruction.
Noted(e) ==
  /\ e \in Entry /\ e.addr \in DOMAIN CODE /\ KindAt(e.addr) # "zero"
  /\ e.branch = IsBranch(e.addr) /\ e.wr_mem = IsStore(e.addr)
  /\ e.branch => /\ e.not_taken_NPC = e.addr + 1
                 /\ ~e.pred_taken => e.pred_NPC = e.not_taken_NPC

\* The k-th slot from slot h on.
At(h, k) == IBWrap(h + k - 1)

RingOK ==
  /\ ib_head \in IB_PTR /\ numIns_buffer \in 0 .. IB_SIZE
  /\ ib_tail = IBWrap(ib_head + numIns_buffer)
  /\ \A k \in 1 .. numIns_buffer : Noted(ib_buffer[At(ib_head, k)])

Registers ==
  /\ PC_reg \in Nat /\ arch_NPC \in Nat
  /\ halt_fetched \in BOOLEAN
  /\ btb \in [0 .. (BTB_SIZE - 1) -> Nat \cup {NoTarget}]
  /\ br.recov_NPC \in Nat /\ br.not_taken_NPC \in Nat

InFlight(f) ==
  /\ Noted(f.entry) /\ f.addr = f.entry.addr
  /\ f.state = "waiting" => f.entry.branch /\ f.npc = Unresolved
  /\ f.state # "waiting" => f.npc \in Nat
FlightOK == flight \in Seq(Item) /\ \A p \in DOMAIN flight : InFlight(flight[p])

\* One branch at most is told of, and a misprediction is of that one.
OneTold ==
  /\ \A p, q \in Told : p = q
  /\ br.pred_wrong => \E p \in Told : br.recov_NPC = flight[p].npc

Base == RingOK /\ Registers /\ FlightOK /\ OneTold
IInv == Base /\ OnePath

(***************************************************************************)
(* The instruction buffer.                                                    *)
(***************************************************************************)
LEMMA IBWrapIs ==
  ASSUME NEW p \in Nat, p < 2 * IB_SIZE
  PROVE  IBWrap(p) = IF p >= IB_SIZE THEN p - IB_SIZE ELSE p
BY InstrBufferAssumption DEF IBWrap

LEMMA AtIs ==
  ASSUME NEW h \in Nat, NEW k \in Nat, k >= 1, h + k - 1 < 2 * IB_SIZE
  PROVE  At(h, k) = IF h + k - 1 >= IB_SIZE THEN h + k - 1 - IB_SIZE ELSE h + k - 1
<1>1. h + k - 1 \in Nat
  OBVIOUS
<1> QED BY <1>1, IBWrapIs, InstrBufferAssumption DEF At

(* What a cycle leaves moves up by d, and what is fetched goes behind it. *)
LEMMA RingCycle ==
  ASSUME RingOK, NEW f \in Seq(Entry), Len(f) <= 2, Len(f) <= IB_SIZE - numIns_buffer,
         \A k \in DOMAIN f : Noted(f[k]),
         NEW d \in 0 .. 2, d <= numIns_buffer, IBCycle(f, d)
  PROVE  /\ RingOK'
         /\ numIns_buffer' = numIns_buffer + Len(f) - d
         /\ \A k \in 1 .. (numIns_buffer - d) : ib_buffer'[At(ib_head', k)] = ib_buffer[At(ib_head, k + d)]
         /\ \A j \in 1 .. Len(f) :
              ib_buffer'[At(ib_head', numIns_buffer - d + j)] = f[j]
<1> DEFINE m == numIns_buffer
           l == Len(f)
<1>1. /\ ib_head \in Nat /\ ib_head < IB_SIZE /\ IB_SIZE \in Nat /\ IB_SIZE >= 2
      /\ m \in Nat /\ m <= IB_SIZE /\ l \in Nat /\ l <= 2 /\ m + l <= IB_SIZE
      /\ d \in Nat /\ d <= 2 /\ d <= m
      /\ \A q \in Nat : q \in IB_PTR <=> q < IB_SIZE
  BY InstrBufferAssumption, LenProperties DEF IB_PTR, RingOK
<1> DEFINE w(p) == IF p >= IB_SIZE THEN p - IB_SIZE ELSE p
<1>2. \A p \in Nat : p < 2 * IB_SIZE => IBWrap(p) = w(p)
  BY IBWrapIs
<1>3. /\ ib_tail = w(ib_head + m) /\ ib_head' = w(ib_head + d)
      /\ numIns_buffer' = m + l - d
  <2>1. ib_head + m \in Nat /\ ib_head + m < 2 * IB_SIZE
    BY <1>1
  <2>2. ib_head + d \in Nat /\ ib_head + d < 2 * IB_SIZE
    BY <1>1
  <2> QED BY <1>2, <2>1, <2>2 DEF IBCycle, RingOK
<1>4. ib_tail \in Nat /\ ib_tail < IB_SIZE /\ ib_head' \in Nat /\ ib_head' < IB_SIZE
  BY <1>1, <1>3
<1>5. IBWrap(ib_tail + 1) = w(ib_tail + 1) /\ ib_tail' = w(ib_tail + l)
  <2>1. /\ ib_tail + 1 \in Nat /\ ib_tail + 1 < 2 * IB_SIZE
        /\ ib_tail + l \in Nat /\ ib_tail + l < 2 * IB_SIZE
    BY <1>1, <1>4
  <2> QED BY <1>2, <2>1 DEF IBCycle
<1>6. ib_tail' = IBWrap(ib_head' + numIns_buffer')
  <2>1. /\ ib_head' + numIns_buffer' \in Nat /\ ib_head' + numIns_buffer' < 2 * IB_SIZE
        /\ w(ib_tail + l) = w(ib_head' + numIns_buffer')
    BY <1>1, <1>3, <1>4
  <2> QED BY <1>2, <1>5, <2>1
<1>7. \A k \in 1 .. IB_SIZE : /\ At(ib_head, k) = w(ib_head + k - 1)
                              /\ At(ib_head', k) = w(ib_head' + k - 1)
  <2> SUFFICES ASSUME NEW k \in 1 .. IB_SIZE
               PROVE  At(ib_head, k) = w(ib_head + k - 1) /\ At(ib_head', k) = w(ib_head' + k - 1)
    OBVIOUS
  <2>1. /\ \A h \in Nat : h < IB_SIZE => h + k - 1 \in Nat /\ h + k - 1 < 2 * IB_SIZE
    BY <1>1
  <2> QED BY <1>1, <1>2, <1>4, <2>1 DEF At
<1>8. \A i \in IB_PTR :
        ib_buffer'[i] = IF l >= 2 /\ i = w(ib_tail + 1) THEN f[2]
                        ELSE IF l >= 1 /\ i = ib_tail THEN f[1] ELSE ib_buffer[i]
  BY <1>5 DEF IBCycle
<1>9. \A k \in 1 .. (m - d) : ib_buffer'[At(ib_head', k)] = ib_buffer[At(ib_head, k + d)]
  <2> SUFFICES ASSUME NEW k \in 1 .. (m - d)
               PROVE  ib_buffer'[At(ib_head', k)] = ib_buffer[At(ib_head, k + d)]
    OBVIOUS
  <2>1. k \in 1 .. IB_SIZE /\ k + d \in 1 .. IB_SIZE
    BY <1>1
  <2>2. /\ w(ib_head' + k - 1) = w(ib_head + (k + d) - 1)
        /\ w(ib_head' + k - 1) \in Nat /\ w(ib_head' + k - 1) < IB_SIZE
        /\ l >= 1 => w(ib_head' + k - 1) # w(ib_head + m)
        /\ l >= 2 => w(ib_head' + k - 1) # w(w(ib_head + m) + 1)
    BY <1>1, <1>3
  <2>3. At(ib_head', k) \in IB_PTR /\ At(ib_head', k) = At(ib_head, k + d)
    BY <1>1, <1>7, <2>1, <2>2
  <2> QED BY <1>3, <1>7, <1>8, <2>1, <2>2, <2>3
<1>10. \A j \in 1 .. l : ib_buffer'[At(ib_head', m - d + j)] = f[j]
  <2> SUFFICES ASSUME NEW j \in 1 .. l PROVE ib_buffer'[At(ib_head', m - d + j)] = f[j]
    OBVIOUS
  <2>1. m - d + j \in 1 .. IB_SIZE /\ (j = 1 \/ (j = 2 /\ l >= 2)) /\ l >= 1
    BY <1>1
  <2>2. /\ w(ib_head' + (m - d + j) - 1) \in Nat /\ w(ib_head' + (m - d + j) - 1) < IB_SIZE
        /\ j = 1 => w(ib_head' + (m - d + j) - 1) = w(ib_head + m)
        /\ j = 2 => w(ib_head' + (m - d + j) - 1) = w(w(ib_head + m) + 1)
        /\ w(ib_head + m) # w(w(ib_head + m) + 1)
    BY <1>1, <1>3, <2>1
  <2> DEFINE k == m - d + j
  <2>3. At(ib_head', k) = w(ib_head' + k - 1)
    <3> HIDE DEF k, w
    <3> QED BY <1>7, <2>1 DEF k
  <2>4. At(ib_head', m - d + j) \in IB_PTR
    BY <1>1, <2>2, <2>3
  <2> QED BY <1>3, <1>8, <2>1, <2>2, <2>3, <2>4
<1>11. \A k \in 1 .. (m + l - d) : Noted(ib_buffer'[At(ib_head', k)])
  <2> SUFFICES ASSUME NEW k \in 1 .. (m + l - d) PROVE Noted(ib_buffer'[At(ib_head', k)])
    OBVIOUS
  <2>1. CASE k <= m - d
    <3>1. k \in 1 .. (m - d) /\ k + d \in 1 .. m
      BY <1>1, <2>1
    <3> QED BY <1>9, <3>1 DEF RingOK
  <2>2. CASE k > m - d
    <3> DEFINE j == k - (m - d)
    <3>1. j \in 1 .. l /\ m - d + j = k
      BY <1>1, <2>2
    <3>2. j \in DOMAIN f
      BY <3>1, LenProperties
    <3>3. ib_buffer'[At(ib_head', m - d + j)] = f[j]
      BY <1>10, <3>1
    <3> QED BY <3>1, <3>2, <3>3
  <2> QED BY <1>1, <2>1, <2>2
<1>12. ib_head' \in IB_PTR /\ m + l - d \in 0 .. IB_SIZE
  BY <1>1, <1>4
<1>13. RingOK'
  <2>1. (\A k \in 1 .. numIns_buffer : Noted(ib_buffer[At(ib_head, k)]))'
    BY <1>3, <1>11 DEF At, Noted, KindAt, IsBranch, IsStore
  <2> QED BY <1>3, <1>6, <1>12, <2>1 DEF RingOK
<1> QED BY <1>3, <1>9, <1>10, <1>13

(***************************************************************************)
(* The program's words.                                                       *)
(***************************************************************************)
LEMMA Kinds ==
  ASSUME NEW a
  PROVE  KindAt(a) \in {"op", "store", "cond", "jump", "halt", "zero"}
BY CodeAssumption DEF KindAt

\* A word that is not zero is where fetching goes on; a zero is skipped.
LEMMA SkippedFacts ==
  ASSUME NEW a \in Nat
  PROVE  /\ KindAt(a) # "zero" => Skipped(a) = a /\ a \in DOMAIN CODE
         /\ KindAt(a) = "zero" => Skipped(a) = Skipped(a + 1)
<1>1. \A b \in DOMAIN CODE : b \in Nat
  BY CodeAssumption
<1>2. ASSUME KindAt(a) # "zero" PROVE Skipped(a) = a /\ a \in DOMAIN CODE
  <2>1. a \in DOMAIN CODE
    BY <1>2 DEF KindAt
  <2>2. a \in Ahead(a) /\ \A b \in Ahead(a) : b \in Nat /\ a <= b
    BY <1>1, <1>2, <2>1 DEF Ahead
  <2>3. Min(Ahead(a)) = a
    <3>1. \A c \in Ahead(a) : (\A b \in Ahead(a) : c <= b) => c = a
      BY <2>2
    <3> QED BY <2>2, <3>1 DEF Min
  <2> QED BY <2>1, <2>2, <2>3 DEF Skipped
<1>3. ASSUME KindAt(a) = "zero" PROVE Skipped(a) = Skipped(a + 1)
  <2>1. \A b \in Nat : b # a => (b >= a <=> b >= a + 1)
    OBVIOUS
  <2>2. ~(a >= a + 1)
    OBVIOUS
  <2>3. Ahead(a) = Ahead(a + 1)
    BY <1>1, <1>3, <2>1, <2>2 DEF Ahead
  <2> QED BY <2>3 DEF Skipped
<1> QED BY <1>2, <1>3

(***************************************************************************)
(* The predictor.                                                             *)
(***************************************************************************)
LEMMA BTBIdxType ==
  ASSUME NEW npc \in Nat
  PROVE  BTBIdx(npc) \in 0 .. (BTB_SIZE - 1)
BY BPAssumption DEF BTBIdx

LEMMA Corrected ==
  ASSUME Registers
  PROVE  /\ corrected_btb(br) \in [0 .. (BTB_SIZE - 1) -> Nat \cup {NoTarget}]
         /\ \A i \in 0 .. (BTB_SIZE - 1) :
              btb[i] # NoTarget => corrected_btb(br)[i] \in Nat
<1>1. BTBIdx(br.not_taken_NPC) \in 0 .. (BTB_SIZE - 1)
  BY BTBIdxType DEF Registers
<1> QED BY <1>1 DEF corrected_btb, Registers

\* What is predicted is an address, and the next one unless a branch is
\* predicted taken.
LEMMA Predicted ==
  ASSUME Registers, NEW branch \in BOOLEAN, NEW npc \in Nat, NEW any \in BOOLEAN
  PROVE  /\ bp_pred_NPC(branch, npc, br, any) \in Nat
         /\ ~branch => bp_pred_NPC(branch, npc, br, any) = npc
         /\ ~any /\ ~bp_pred_taken(branch, npc, br) =>
              bp_pred_NPC(branch, npc, br, any) = npc
<1>1. BTBIdx(npc) \in 0 .. (BTB_SIZE - 1)
  BY BTBIdxType
<1>2. btb_taken_NPC(branch, npc, br) \in Nat
  BY <1>1, Corrected DEF btb_taken_NPC
<1>3. ~branch => btb_taken_NPC(branch, npc, br) = npc
  BY DEF btb_taken_NPC
<1> QED BY <1>2, <1>3 DEF bp_pred_NPC

LEMMA PredictorCycle ==
  ASSUME Registers, NEW S \in SUBSET Nat, BPCycle(S, br)
  PROVE  btb' \in [0 .. (BTB_SIZE - 1) -> Nat \cup {NoTarget}]
<1>1. DOMAIN btb = 0 .. (BTB_SIZE - 1)
  BY DEF Registers
<1>2. \A i \in 0 .. (BTB_SIZE - 1) :
        (\E npc \in S : BTBIdx(npc) = i) => (CHOOSE npc \in S : BTBIdx(npc) = i) \in Nat
  OBVIOUS
<1> QED BY <1>1, <1>2, Corrected DEF BPCycle

(***************************************************************************)
(* What a cycle fetches.                                                      *)
(***************************************************************************)
\* From the address a on, f is the way that is predicted, up to b.
Leading(f, a, b) ==
  /\ f = <<>> => Skipped(a) = Skipped(b)
  /\ f # <<>> => /\ f[1].addr = Skipped(a)
                 /\ KindAt(f[Len(f)].addr) # "halt" => Skipped(b) = Skipped(Onward(f[Len(f)]))
  /\ Len(f) = 2 => f[2].addr = Skipped(Onward(f[1]))

LEMMA IsSeq ==
  ASSUME NEW S, NEW l \in Nat, NEW f \in [1 .. l -> S]
  PROVE  /\ f \in Seq(S) /\ Len(f) = l /\ DOMAIN f = 1 .. l
         /\ f = <<>> <=> l = 0
<1>1. f \in Seq(S) /\ DOMAIN f = 1 .. l
  OBVIOUS
<1>2. Len(f) = l
  BY <1>1, LenProperties
<1>3. f = <<>> <=> Len(f) = 0
  BY <1>1, EmptySeq
<1> QED BY <1>1, <1>2, <1>3

\* What the slot s notes of the instruction at a.
Note(s, a, n) ==
  [addr |-> a, branch |-> IsBranch(PC_reg + s), wr_mem |-> IsStore(PC_reg + s),
   pred_taken |-> PredTaken(s, n, br), pred_NPC |-> PredNPC(s, n, br),
   not_taken_NPC |-> NPC(s)]

LEMMA SlotPredicted ==
  ASSUME Registers, NEW n, NEW s \in {0, 1}
  PROVE  /\ NPC(s) \in Nat /\ NPC(s) = PC_reg + s + 1
         /\ PredNPC(s, n, br) \in Nat
         /\ ~BranchIn(s, n) => PredNPC(s, n, br) = NPC(s)
         /\ ~PredTaken(s, n, br) /\ ~BranchIn(1 - s, n) => PredNPC(s, n, br) = NPC(s)
         /\ \A a \in Nat : Note(s, a, n) \in Entry
<1>1. /\ NPC(s) \in Nat /\ NPC(s) = PC_reg + s + 1 /\ PC_reg + s \in Nat
      /\ 1 - s \in {0, 1} /\ NPC(1 - s) \in Nat
  BY DEF NPC, Registers
<1>2. /\ BranchIn(s, n) \in BOOLEAN /\ BranchIn(1 - s, n) \in BOOLEAN
      /\ PredTaken(s, n, br) \in BOOLEAN /\ PredTaken(1 - s, n, br) \in BOOLEAN
      /\ ~BranchIn(1 - s, n) => ~PredTaken(1 - s, n, br)
  BY DEF BranchIn, PredTaken, bp_pred_taken
<1>3. /\ PredNPC(s, n, br) \in Nat
      /\ ~BranchIn(s, n) => PredNPC(s, n, br) = NPC(s)
      /\ ~PredTaken(s, n, br) /\ ~PredTaken(1 - s, n, br) => PredNPC(s, n, br) = NPC(s)
  BY <1>1, <1>2, Predicted DEF PredNPC, PredTaken
<1>4. IsBranch(PC_reg + s) \in BOOLEAN /\ IsStore(PC_reg + s) \in BOOLEAN
  BY DEF IsBranch, IsStore
<1>5. \A a \in Nat : Note(s, a, n) \in Entry
  BY <1>1, <1>2, <1>3, <1>4 DEF Note, Entry
<1> QED BY <1>1, <1>2, <1>3, <1>5

\* A slot that notes its own word notes what is needed of it.
LEMMA SlotNoted ==
  ASSUME Registers, NEW n, NEW s \in {0, 1}, KindAt(PC_reg + s) # "zero",
         IsBranch(PC_reg + s) => BranchIn(s, n) /\ ~BranchIn(1 - s, n)
  PROVE  /\ Noted(Note(s, PC_reg + s, n))
         /\ Onward(Note(s, PC_reg + s, n)) = PredNPC(s, n, br)
         /\ Note(s, PC_reg + s, n).addr = PC_reg + s
<1> DEFINE a == PC_reg + s
           e == Note(s, a, n)
<1>1. a \in Nat
  BY DEF Registers
<1>2. /\ e \in Entry /\ e.addr = a /\ e.branch = IsBranch(a) /\ e.wr_mem = IsStore(a)
      /\ e.not_taken_NPC = a + 1 /\ e.pred_NPC = PredNPC(s, n, br)
      /\ e.pred_taken = PredTaken(s, n, br)
  BY <1>1, SlotPredicted DEF Note
<1>3. a \in DOMAIN CODE
  BY DEF KindAt
<1>4. IsBranch(a) /\ ~PredTaken(s, n, br) => PredNPC(s, n, br) = a + 1
  BY SlotPredicted
<1>5. ~IsBranch(a) => ~BranchIn(s, n)
  BY DEF BranchIn
<1>6. ~IsBranch(a) => PredNPC(s, n, br) = a + 1
  BY <1>5, SlotPredicted
<1>7. Noted(e)
  BY <1>2, <1>3, <1>4 DEF Noted
<1>8. Onward(e) = PredNPC(s, n, br)
  BY <1>2, <1>6 DEF Onward
<1> QED BY <1>2, <1>7, <1>8

LEMMA PairOf ==
  ASSUME NEW a, NEW b
  PROVE  <<a>> \o <<b>> = <<a, b>>
<1> DEFINE S == {a, b}
           s == <<a>>
           t == <<b>>
           u == <<a, b>>
<1>1. s \in Seq(S) /\ t \in Seq(S) /\ u \in Seq(S)
  OBVIOUS
<1>2. /\ Len(s) = 1 /\ Len(t) = 1 /\ Len(u) = 2
      /\ s[1] = a /\ t[1] = b /\ u[1] = a /\ u[2] = b
  OBVIOUS
<1> HIDE DEF S, s, t, u
<1>3. /\ s \o t \in Seq(S) /\ Len(s \o t) = 2
      /\ (s \o t)[1] = a /\ (s \o t)[2] = b
  BY <1>1, <1>2, ConcatProperties
<1>4. \A k \in 1 .. 2 : (s \o t)[k] = u[k]
  BY <1>2, <1>3
<1>5. s \o t = u
  BY <1>1, <1>2, <1>3, <1>4, SeqEqual
<1> QED BY <1>5 DEF s, t, u

LEMMA Fetching ==
  ASSUME Registers, RingOK, NEW n \in 0 .. 2, ~Misnoted(n), ~br.pred_wrong, ~halt_fetched
  PROVE  LET f == Fetched(n, br)
         IN  /\ f \in Seq(Entry) /\ Len(f) <= 2 /\ Len(f) <= IB_SIZE - numIns_buffer
             /\ \A k \in DOMAIN f : Noted(f[k])
             /\ next_PC(n, br) \in Nat
             /\ Halts(n) <=> f # <<>> /\ KindAt(f[Len(f)].addr) = "halt"
             /\ Leading(f, PC_reg, next_PC(n, br))
<1> DEFINE f == Fetched(n, br)
           T == Taken(n)
           pc == PC_reg
           Goal == /\ f \in Seq(Entry) /\ Len(f) <= 2 /\ Len(f) <= IB_SIZE - numIns_buffer
                   /\ \A k \in DOMAIN f : Noted(f[k])
                   /\ next_PC(n, br) \in Nat
                   /\ Halts(n) <=> f # <<>> /\ KindAt(f[Len(f)].addr) = "halt"
                   /\ Leading(f, PC_reg, next_PC(n, br))
<1>1. /\ pc \in Nat /\ pc + 1 \in Nat /\ pc + 0 = pc /\ pc + 1 + 1 = pc + 2 /\ pc + 0 + 1 = pc + 1
      /\ 1 - 0 = 1 /\ 1 - 1 = 0
  BY DEF Registers
<1>2. /\ f = [k \in DOMAIN T |-> Note(T[k][1], T[k][2], n)]
  BY DEF Fetched, Note
<1>3. /\ Halts(n) <=> \E k \in DOMAIN T : KindAt(T[k][2]) = "halt"
      /\ \A s \in {0, 1} : BranchIn(s, n) <=>
           \E k \in DOMAIN T : T[k][1] = s /\ IsBranch(pc + s)
  BY DEF Halts, BranchIn, ToSet
<1>4. /\ ib_nAvai \in 0 .. 2 /\ ib_nAvai <= IB_SIZE - numIns_buffer
      /\ IB_SIZE \in Nat /\ numIns_buffer \in Nat /\ 0 <= IB_SIZE - numIns_buffer
      /\ Two(n) => ib_nAvai = 2 /\ n = 2
  BY InstrBufferAssumption DEF ib_nAvai, Smaller, RingOK, Two
<1>5. Two(n) => ~IsBranch(pc)
  BY DEF Two
<1> SUFFICES Goal
  OBVIOUS
<1> HIDE DEF f, T
\* Nothing is taken.
<1>6. ASSUME T = <<>> PROVE f = <<>> /\ ~Halts(n) /\ \A s \in {0, 1} : ~BranchIn(s, n)
  <2>1. DOMAIN T = {}
    BY <1>6
  <2>2. f \in [1 .. 0 -> Entry]
    BY <1>2, <2>1
  <2> QED BY <1>3, <2>1, <2>2, IsSeq
\* One instruction is taken, from its own slot or from the other one.
<1>7. ASSUME NEW a \in Nat, T = <<<<0, a>>>>
      PROVE  /\ f \in Seq(Entry) /\ Len(f) = 1 /\ DOMAIN f = {1} /\ f[1] = Note(0, a, n)
             /\ Halts(n) <=> KindAt(a) = "halt"
             /\ BranchIn(0, n) <=> IsBranch(pc)
             /\ ~BranchIn(1, n)
  <2>1. DOMAIN T = {1} /\ T[1][1] = 0 /\ T[1][2] = a /\ {1} = 1 .. 1
    BY <1>7
  <2>2. f \in [1 .. 1 -> Entry] /\ f[1] = Note(0, a, n)
    BY <1>2, <2>1, SlotPredicted
  <2>3. f \in Seq(Entry) /\ Len(f) = 1 /\ DOMAIN f = {1}
    BY <2>1, <2>2, IsSeq
  <2> QED BY <1>1, <1>3, <2>1, <2>2, <2>3
\* Two instructions are taken, each from its own slot.
<1>8. ASSUME T = <<<<0, pc>>, <<1, pc + 1>>>>
      PROVE  /\ f \in Seq(Entry) /\ Len(f) = 2 /\ DOMAIN f = {1, 2}
             /\ f[1] = Note(0, pc, n) /\ f[2] = Note(1, pc + 1, n)
             /\ Halts(n) <=> KindAt(pc) = "halt" \/ KindAt(pc + 1) = "halt"
             /\ BranchIn(0, n) <=> IsBranch(pc)
             /\ BranchIn(1, n) <=> IsBranch(pc + 1)
  <2>1. /\ DOMAIN T = {1, 2} /\ {1, 2} = 1 .. 2
        /\ T[1][1] = 0 /\ T[1][2] = pc /\ T[2][1] = 1 /\ T[2][2] = pc + 1
    BY <1>8
  <2>2. /\ f = [k \in 1 .. 2 |-> Note(T[k][1], T[k][2], n)]
        /\ Note(0, pc, n) \in Entry /\ Note(1, pc + 1, n) \in Entry
    BY <1>1, <1>2, <2>1, SlotPredicted
  <2>3. f \in [1 .. 2 -> Entry] /\ f[1] = Note(0, pc, n) /\ f[2] = Note(1, pc + 1, n)
    BY <2>1, <2>2
  <2>4. f \in Seq(Entry) /\ Len(f) = 2 /\ DOMAIN f = {1, 2}
    BY <2>1, <2>3, IsSeq
  <2> QED BY <1>1, <1>3, <2>1, <2>3, <2>4
<1>9. next_PC(n, br) = IF Halts(n) THEN pc
                       ELSE IF Two(n) THEN PredNPC(1, n, br)
                       ELSE IF ib_nAvai >= 1 /\ n >= 1 THEN PredNPC(0, n, br) ELSE pc
  BY DEF next_PC
<1>10. /\ PredNPC(0, n, br) \in Nat /\ PredNPC(1, n, br) \in Nat /\ next_PC(n, br) \in Nat
       /\ ~BranchIn(0, n) => PredNPC(0, n, br) = pc + 1
       /\ ~BranchIn(1, n) => PredNPC(1, n, br) = pc + 2
  BY <1>1, <1>9, SlotPredicted
<1>11. /\ KindAt(pc) # "zero" => Skipped(pc) = pc
       /\ KindAt(pc) = "zero" => Skipped(pc) = Skipped(pc + 1)
       /\ KindAt(pc + 1) # "zero" => Skipped(pc + 1) = pc + 1
       /\ KindAt(pc + 1) = "zero" => Skipped(pc + 1) = Skipped(pc + 2)
  BY <1>1, SkippedFacts
\* The first word is taken alone.
<1>12. ASSUME T = <<<<0, pc>>>>, KindAt(pc) # "zero",
              Halts(n) \/ Skipped(next_PC(n, br)) = Skipped(PredNPC(0, n, br)),
              ib_nAvai >= 1
       PROVE  Goal
  <2>1. /\ f \in Seq(Entry) /\ Len(f) = 1 /\ DOMAIN f = {1} /\ f[1] = Note(0, pc, n)
        /\ Halts(n) <=> KindAt(pc) = "halt"
        /\ BranchIn(0, n) <=> IsBranch(pc)
        /\ ~BranchIn(1, n)
    BY <1>1, <1>7, <1>12
  <2>2. /\ Noted(f[1]) /\ Onward(f[1]) = PredNPC(0, n, br) /\ f[1].addr = pc
    BY <1>1, <1>12, <2>1, SlotNoted
  <2>3. f # <<>> /\ f[Len(f)] = f[1]
    BY <2>1
  <2>4. Leading(f, pc, next_PC(n, br))
    BY <1>11, <1>12, <2>1, <2>2, <2>3 DEF Leading
  <2> QED BY <1>4, <1>10, <1>12, <2>1, <2>2, <2>3, <2>4
\* Nothing is taken, and what is left behind is zero.
<1>13. ASSUME T = <<>>, Skipped(next_PC(n, br)) = Skipped(pc)
       PROVE  Goal
  <2>1. f = <<>> /\ ~Halts(n)
    BY <1>6, <1>13
  <2>2. f \in Seq(Entry) /\ Len(f) = 0 /\ DOMAIN f = {}
    BY <2>1, EmptySeq
  <2>3. Leading(f, pc, next_PC(n, br))
    BY <1>13, <2>1, <2>2 DEF Leading
  <2> QED BY <1>4, <1>10, <2>1, <2>2, <2>3
<1>14. CASE Two(n) /\ KindAt(pc) \notin {"halt", "zero"}
  <2>1. CASE KindAt(pc + 1) = "zero"
    <3>1. T = <<<<0, pc>>>>
      BY <1>14, <2>1 DEF Taken, T
    <3>2. ~BranchIn(0, n) /\ ~BranchIn(1, n) /\ ~Halts(n)
      BY <1>1, <1>5, <1>7, <1>14, <3>1
    <3>3. Skipped(next_PC(n, br)) = Skipped(PredNPC(0, n, br))
      BY <1>9, <1>10, <1>11, <1>14, <2>1, <3>2
    <3> QED BY <1>4, <1>12, <1>14, <3>1, <3>3
  <2>2. CASE KindAt(pc + 1) # "zero"
    <3>1. T = <<<<0, pc>>, <<1, pc + 1>>>>
      BY <1>14, <2>2, PairOf DEF Taken, T
    <3>2. /\ f \in Seq(Entry) /\ Len(f) = 2 /\ DOMAIN f = {1, 2}
          /\ f[1] = Note(0, pc, n) /\ f[2] = Note(1, pc + 1, n)
          /\ Halts(n) <=> KindAt(pc + 1) = "halt"
          /\ ~BranchIn(0, n)
          /\ BranchIn(1, n) <=> IsBranch(pc + 1)
      BY <1>5, <1>8, <1>14, <3>1
    <3>3. /\ Noted(f[1]) /\ Onward(f[1]) = PredNPC(0, n, br) /\ f[1].addr = pc
      BY <1>1, <1>5, <1>14, <3>2, SlotNoted
    <3>4. /\ Noted(f[2]) /\ Onward(f[2]) = PredNPC(1, n, br) /\ f[2].addr = pc + 1
      BY <1>1, <2>2, <3>2, SlotNoted
    <3>5. f # <<>> /\ f[Len(f)] = f[2]
      BY <3>2, EmptySeq
    <3>6. Leading(f, pc, next_PC(n, br))
      BY <1>9, <1>10, <1>11, <1>14, <2>2, <3>2, <3>3, <3>4, <3>5 DEF Leading
    <3> QED BY <1>4, <1>10, <1>14, <3>2, <3>3, <3>4, <3>5, <3>6
  <2> QED BY <2>1, <2>2
<1>15. CASE Two(n) /\ KindAt(pc) = "zero"
  <2>1. CASE KindAt(pc + 1) = "zero"
    <3>1. T = <<>>
      BY <1>15, <2>1 DEF Taken, T
    <3>2. next_PC(n, br) = pc + 2
      BY <1>6, <1>9, <1>10, <1>15, <3>1
    <3> QED BY <1>11, <1>13, <1>15, <2>1, <3>1, <3>2
  <2>2. CASE KindAt(pc + 1) # "zero"
    <3>1. T = <<<<0, pc + 1>>>>
      BY <1>15, <2>2 DEF Taken, T
    <3>2. /\ f \in Seq(Entry) /\ Len(f) = 1 /\ DOMAIN f = {1} /\ f[1] = Note(0, pc + 1, n)
          /\ Halts(n) <=> KindAt(pc + 1) = "halt"
          /\ ~BranchIn(1, n)
      BY <1>1, <1>7, <3>1
    <3>3. ~IsBranch(pc + 1) /\ ~IsStore(pc + 1) /\ ~IsBranch(pc) /\ ~IsStore(pc)
      BY <1>15 DEF Misnoted, IsBranch, IsStore
    <3>4. Noted(f[1]) /\ f[1].addr = pc + 1 /\ Onward(f[1]) = pc + 2
      <4>1. f[1] \in Entry /\ f[1].addr = pc + 1 /\ f[1].branch = FALSE /\ f[1].wr_mem = FALSE
        BY <1>1, <3>2, <3>3, SlotPredicted DEF Note
      <4>2. pc + 1 \in DOMAIN CODE
        BY <2>2 DEF KindAt
      <4>3. IsBranch(pc + 1) = FALSE /\ IsStore(pc + 1) = FALSE
        BY <3>3 DEF IsBranch, IsStore
      <4>4. Noted(f[1])
        BY <2>2, <4>1, <4>2, <4>3 DEF Noted
      <4> QED BY <1>1, <4>1, <4>4 DEF Onward
    <3>5. f # <<>> /\ f[Len(f)] = f[1]
      BY <3>2, EmptySeq
    <3>6. Leading(f, pc, next_PC(n, br))
      BY <1>9, <1>10, <1>11, <1>15, <2>2, <3>2, <3>4, <3>5 DEF Leading
    <3> QED BY <1>4, <1>10, <1>15, <3>2, <3>4, <3>5, <3>6
  <2> QED BY <2>1, <2>2
<1>16. CASE /\ ~(Two(n) /\ KindAt(pc) \notin {"halt", "zero"})
            /\ ~(Two(n) /\ KindAt(pc) = "zero")
  <2>1. Two(n) => KindAt(pc) = "halt"
    BY <1>16
  <2>2. CASE ib_nAvai >= 1 /\ n >= 1 /\ KindAt(pc) # "zero"
    <3>1. T = <<<<0, pc>>>>
      BY <1>16, <2>2 DEF Taken, T
    <3>2. Halts(n) \/ next_PC(n, br) = PredNPC(0, n, br)
      BY <1>1, <1>7, <1>9, <2>1, <2>2, <3>1
    <3> QED BY <1>12, <2>2, <3>1, <3>2
  <2>3. CASE ~(ib_nAvai >= 1 /\ n >= 1 /\ KindAt(pc) # "zero")
    <3>1. T = <<>>
      BY <1>16, <2>3 DEF Taken, T
    <3>2. ~Two(n)
      BY <1>4, <2>1, <2>3
    <3>3. Skipped(next_PC(n, br)) = Skipped(pc)
      BY <1>6, <1>9, <1>10, <1>11, <2>3, <3>1, <3>2
    <3> QED BY <1>13, <3>1, <3>3
  <2> QED BY <2>2, <2>3
<1>17. Goal
  BY <1>14, <1>15, <1>16
<1> QED BY <1>17

(***************************************************************************)
(* What dispatch is offered.                                                  *)
(***************************************************************************)
LEMMA OfferIs ==
  ASSUME RingOK, NEW d \in 0 .. 2, d <= numIns_buffer
  PROVE  /\ DOMAIN ib_data(d) = 1 .. d
         /\ \A k \in 1 .. d : ib_data(d)[k] = ib_buffer[At(ib_head, k)]
<1> DEFINE S == {AtHead, AtHead1}
           s == <<AtHead, AtHead1>>
<1>1. s[1] = AtHead /\ s[2] = AtHead1 /\ \A k \in 1 .. d : k = 1 \/ k = 2
  OBVIOUS
<1>2. \A k \in 1 .. d : s[k] \in S
  BY <1>1
<1> HIDE DEF S, s
<1>3. /\ SubSeq(s, 1, d) \in Seq(S)
      /\ Len(SubSeq(s, 1, d)) = d
      /\ \A k \in 1 .. d : SubSeq(s, 1, d)[k] = s[k]
  <2>1. /\ SubSeq(s, 1, d) \in Seq(S)
        /\ Len(SubSeq(s, 1, d)) = IF 1 <= d THEN d - 1 + 1 ELSE 0
        /\ \A k \in 1 .. (d - 1 + 1) : SubSeq(s, 1, d)[k] = s[1 + k - 1]
    BY <1>2, SubSeqProperties
  <2>2. d - 1 + 1 = d /\ \A k \in 1 .. d : 1 + k - 1 = k
    OBVIOUS
  <2>3. \A k \in 1 .. d : SubSeq(s, 1, d)[k] = s[k]
    BY <2>1, <2>2
  <2> QED BY <2>1, <2>3
<1>4. DOMAIN SubSeq(s, 1, d) = 1 .. d
  BY <1>3, LenProperties
<1>5. At(ib_head, 1) = ib_head /\ At(ib_head, 2) = IBWrap(ib_head + 1)
  <2>1. /\ ib_head \in Nat /\ ib_head + 1 - 1 = ib_head /\ ib_head + 2 - 1 = ib_head + 1
        /\ ib_head < IB_SIZE /\ ib_head < 2 * IB_SIZE
    BY InstrBufferAssumption DEF RingOK, IB_PTR
  <2>2. IBWrap(ib_head) = ib_head
    BY <2>1, IBWrapIs, InstrBufferAssumption
  <2> QED BY <2>1, <2>2 DEF At
<1>6. \A k \in 1 .. d : s[k] = ib_buffer[At(ib_head, k)]
  BY <1>1, <1>5 DEF AtHead, AtHead1
<1> QED BY <1>3, <1>4, <1>6 DEF ib_data, s

LEMMA OfferCount ==
  ASSUME RingOK, NEW full \in BOOLEAN, NEW sq \in 0 .. 2
  PROVE  ib_nIsnBuffer(full, sq) \in 0 .. 2 /\ ib_nIsnBuffer(full, sq) <= numIns_buffer
<1>1. branchLimit(full) \in 0 .. 2 /\ storeLimit(sq) \in 0 .. 2 /\ numIns_buffer \in Nat
  BY DEF branchLimit, storeLimit, RingOK
<1> HIDE DEF branchLimit, storeLimit
<1> QED BY <1>1 DEF ib_nIsnBuffer, Smaller

(***************************************************************************)
(* The path.                                                                  *)
(***************************************************************************)
Hop   == [addr : Nat, to : Nat]
To(f) == IF f.npc # Unresolved THEN f.npc ELSE f.entry.pred_NPC
Live  == IF br.pred_wrong THEN 0 ELSE numIns_buffer

KeptFacts ==
  /\ Len(flight) \in Nat /\ DOMAIN flight = 1 .. Len(flight)
  /\ Kept \in Nat /\ Kept <= Len(flight)
  /\ br.pred_wrong => Kept \in Told /\ Kept >= 1 /\ br.recov_NPC = flight[Kept].npc
  /\ ~br.pred_wrong => Kept = Len(flight)

LEMMA KeptHolds == Base => KeptFacts
<1> SUFFICES ASSUME Base PROVE KeptFacts
  OBVIOUS
<1>1. Len(flight) \in Nat /\ DOMAIN flight = 1 .. Len(flight)
  BY LenProperties DEF Base, FlightOK
<1>2. CASE br.pred_wrong
  <2>1. PICK p \in Told : br.recov_NPC = flight[p].npc
    BY <1>2 DEF Base, OneTold
  <2>2. p \in 1 .. Len(flight) /\ \A q \in Told : q = p
    BY <1>1, <2>1 DEF Base, OneTold, Told, Positions
  <2>3. Min(Told) = p
    BY <2>1, <2>2 DEF Min
  <2> QED BY <1>1, <1>2, <2>1, <2>2, <2>3 DEF KeptFacts, Kept
<1>3. CASE ~br.pred_wrong
  BY <1>1, <1>3 DEF KeptFacts, Kept
<1> QED BY <1>2, <1>3

PathShape ==
  /\ Path \in Seq(Hop) /\ Len(Path) = Kept + Live /\ Live \in Nat
  /\ \A p \in 1 .. Kept : Path[p].addr = flight[p].addr /\ Path[p].to = To(flight[p])
  /\ \A k \in 1 .. Live :
       /\ Path[Kept + k].addr = ib_buffer[At(ib_head, k)].addr
       /\ Path[Kept + k].to = Onward(ib_buffer[At(ib_head, k)])

LEMMA PathShapeHolds == Base => PathShape
<1> SUFFICES ASSUME Base PROVE PathShape
  OBVIOUS
<1> DEFINE here == [p \in 1 .. Kept |-> [addr |-> flight[p].addr, to |-> To(flight[p])]]
           there == [k \in 1 .. numIns_buffer |->
                       [addr |-> ib_buffer[At(ib_head, k)].addr,
                        to |-> Onward(ib_buffer[At(ib_head, k)])]]
<1>1. KeptFacts /\ numIns_buffer \in Nat
  BY KeptHolds DEF Base, RingOK
<1>2. here \in Seq(Hop) /\ Len(here) = Kept
  <2>1. \A p \in 1 .. Kept : flight[p].addr \in Nat /\ To(flight[p]) \in Nat
    <3> SUFFICES ASSUME NEW p \in 1 .. Kept
                 PROVE  flight[p].addr \in Nat /\ To(flight[p]) \in Nat
      OBVIOUS
    <3>1. p \in DOMAIN flight
      BY <1>1 DEF KeptFacts
    <3>2. flight[p] \in Item
      BY <3>1 DEF Base, FlightOK
    <3> QED BY <3>2 DEF Item, Entry, To
  <2>2. here \in [1 .. Kept -> Hop]
    BY <2>1 DEF Hop
  <2> HIDE DEF here
  <2> QED BY <1>1, <2>2, IsSeq DEF KeptFacts
<1>3. there \in Seq(Hop) /\ Len(there) = numIns_buffer
  <2>1. \A k \in 1 .. numIns_buffer :
          ib_buffer[At(ib_head, k)].addr \in Nat /\ Onward(ib_buffer[At(ib_head, k)]) \in Nat
    BY DEF Base, RingOK, Noted, Entry, Onward
  <2>2. there \in [1 .. numIns_buffer -> Hop]
    BY <2>1 DEF Hop
  <2> HIDE DEF there
  <2> QED BY <1>1, <2>2, IsSeq
<1>4. Path = IF br.pred_wrong THEN here ELSE here \o there
  BY DEF Path, Buffered, To, At
<1>5. /\ \A p \in 1 .. Kept : here[p].addr = flight[p].addr /\ here[p].to = To(flight[p])
      /\ \A k \in 1 .. numIns_buffer :
           /\ there[k].addr = ib_buffer[At(ib_head, k)].addr
           /\ there[k].to = Onward(ib_buffer[At(ib_head, k)])
  OBVIOUS
<1> HIDE DEF here, there
<1>6. CASE br.pred_wrong
  <2>1. Live = 0 /\ Path = here /\ Kept + 0 = Kept
    BY <1>1, <1>4, <1>6 DEF Live, KeptFacts
  <2> QED BY <1>2, <1>5, <2>1 DEF PathShape
<1>7. CASE ~br.pred_wrong
  <2>1. Live = numIns_buffer /\ Path = here \o there /\ Kept \in Nat
    BY <1>1, <1>4, <1>7 DEF Live, KeptFacts
  <2>2. /\ Path \in Seq(Hop) /\ Len(Path) = Kept + numIns_buffer
        /\ \A i \in 1 .. (Kept + numIns_buffer) :
             Path[i] = IF i <= Kept THEN here[i] ELSE there[i - Kept]
    BY <1>2, <1>3, <2>1, ConcatProperties
  <2>3. \A p \in 1 .. Kept : Path[p] = here[p]
    BY <1>1, <2>1, <2>2
  <2>4. \A k \in 1 .. numIns_buffer : Path[Kept + k] = there[k]
    <3>1. \A k \in 1 .. numIns_buffer :
            /\ Kept + k \in 1 .. (Kept + numIns_buffer) /\ ~(Kept + k <= Kept)
            /\ (Kept + k) - Kept = k
      BY <1>1, <2>1
    <3> QED BY <2>2, <3>1
  <2> QED BY <1>1, <1>5, <2>1, <2>2, <2>3, <2>4 DEF PathShape
<1> QED BY <1>6, <1>7

LEMMA InitIInv == Init => IInv
<1> SUFFICES ASSUME Init PROVE IInv
  OBVIOUS
<1>1. RingOK
  BY IBWrapIs, InstrBufferAssumption DEF Init, IfInit, IBInit, RingOK, IB_PTR
<1>2. Registers
  BY BPAssumption DEF Init, IfInit, BPInit, Registers, Silent
<1>3. flight = <<>> /\ ~br.pred_wrong /\ flight \in Seq(Item) /\ Len(flight) = 0
  BY EmptySeq DEF Init, Silent
<1>4. DOMAIN flight = {}
  BY <1>3
<1>5. FlightOK /\ OneTold
  BY <1>3, <1>4 DEF FlightOK, OneTold, Told, Positions
<1>6. Base
  BY <1>1, <1>2, <1>5 DEF Base
<1>7. Path \in Seq(Hop) /\ Len(Path) = 0
  BY <1>3, <1>6, PathShapeHolds DEF PathShape, Kept, Live, Init, IfInit, IBInit
<1>8. Path = <<>>
  BY <1>7, EmptySeq
<1>9. OnePath
  BY <1>3, <1>7, <1>8 DEF OnePath, Leads, Init, IfInit
<1> QED BY <1>6, <1>9 DEF IInv

(***************************************************************************)
(* What the branch unit tells, and what a cycle does to what is in flight.    *)
(***************************************************************************)
LEMMA BranchTold ==
  ASSUME NEW f \in Item, InFlight(f), f.state = "waiting", NEW npc \in Outcomes(f)
  PROVE  /\ npc \in Nat
         /\ BranchUnit(f.entry, npc).recov_NPC = npc
         /\ BranchUnit(f.entry, npc).not_taken_NPC \in Nat
         /\ ~BranchUnit(f.entry, npc).pred_wrong => npc = f.entry.pred_NPC
<1> DEFINE e == f.entry
<1>1. /\ e \in Entry /\ e.branch /\ e.addr \in DOMAIN CODE /\ f.addr = e.addr
      /\ e.not_taken_NPC = e.addr + 1
      /\ ~e.pred_taken => e.pred_NPC = e.not_taken_NPC
  BY DEF InFlight, Noted
<1>2. e.addr \in Nat /\ e.addr + 1 \in Nat /\ e.pred_NPC \in Nat /\ e.pred_taken \in BOOLEAN
  BY <1>1 DEF Entry
<1>3. npc \in CODE[e.addr].targets \/ npc = e.addr + 1
  BY <1>1 DEF Outcomes
<1>4. CODE[e.addr].targets \subseteq Nat
  BY <1>1, CodeAssumption
<1>5. npc \in Nat
  BY <1>2, <1>3, <1>4
<1> DEFINE take == e.branch /\ npc \in CODE[e.addr].targets
           recov == IF take THEN npc ELSE e.not_taken_NPC
<1>6. recov = npc
  BY <1>1, <1>3
<1>7. /\ BranchUnit(e, npc).recov_NPC = recov
      /\ BranchUnit(e, npc).not_taken_NPC = e.not_taken_NPC
      /\ BranchUnit(e, npc).pred_wrong <=>
           e.pred_taken # take \/ (take /\ recov # e.pred_NPC)
  BY DEF BranchUnit
<1>8. ~e.pred_taken /\ ~take => npc = e.pred_NPC
  BY <1>1, <1>3
<1>9. take \in BOOLEAN
  OBVIOUS
<1> HIDE DEF take, recov, e
<1>10. ~BranchUnit(e, npc).pred_wrong => npc = e.pred_NPC
  BY <1>2, <1>6, <1>7, <1>8, <1>9
<1>11. BranchUnit(e, npc).recov_NPC = npc /\ BranchUnit(e, npc).not_taken_NPC \in Nat
  BY <1>1, <1>2, <1>6, <1>7
<1> QED BY <1>5, <1>10, <1>11 DEF e

\* A cycle in which n instructions come, d go to dispatch, and the branch at x
\* goes to npc.
Taking(n, d, x, npc, retires) ==
  /\ n \in 0 .. 2 /\ ~Misnoted(n)
  /\ d \in Dispatches /\ x \in Executions /\ retires \in Retirements
  /\ IF x = 0 THEN npc = Unresolved ELSE npc \in Outcomes(flight[x])
  /\ Cycle(n, d, x, npc, retires)

Out(retires)       == IF retires THEN 1 ELSE 0
Later(p, x, npc)   ==
  IF p = x THEN [flight[p] EXCEPT !.state = "executed", !.npc = npc]
  ELSE IF p \in Told THEN [flight[p] EXCEPT !.state = "done"] ELSE flight[p]
Newcomer(e) ==
  [addr |-> e.addr, entry |-> e, state |-> IF IsBranch(e.addr) THEN "waiting" ELSE "done",
   npc |-> IF IsBranch(e.addr) THEN Unresolved ELSE e.addr + 1]

Moved(d, x, npc, retires) ==
  LET r == Out(retires)
  IN  /\ flight' \in Seq(Item) /\ r \in 0 .. 1 /\ r <= Kept
      /\ d \in 0 .. 2 /\ d <= numIns_buffer /\ (br.pred_wrong => d = 0)
      /\ Len(flight') = Kept + d - r
      /\ \A p \in 1 .. (Kept - r) : flight'[p] = Later(p + r, x, npc)
      /\ \A k \in 1 .. d : flight'[Kept - r + k] = Newcomer(ib_buffer[At(ib_head, k)])

\* The branch that is executed: it is kept, and not the one that retires.
LEMMA ExecutedIs ==
  ASSUME Base, NEW n, NEW d, NEW x, NEW npc, NEW retires, Taking(n, d, x, npc, retires), x # 0
  PROVE  /\ x \in 1 .. Kept /\ flight[x] \in Item /\ InFlight(flight[x])
         /\ flight[x].state = "waiting" /\ npc \in Outcomes(flight[x])
         /\ retires => x >= 2
<1>1. KeptFacts
  BY KeptHolds
<1>2. x \in Positions("waiting") /\ x <= Kept /\ npc \in Outcomes(flight[x])
  BY DEF Taking, Executions, Executable
<1>3. x \in 1 .. Kept /\ x \in DOMAIN flight /\ flight[x].state = "waiting"
  <2>1. x \in DOMAIN flight /\ flight[x].state = "waiting"
    BY <1>2 DEF Positions
  <2>2. x \in 1 .. Len(flight) /\ Len(flight) \in Nat /\ Kept \in Nat /\ x <= Kept
    BY <1>1, <1>2, <2>1 DEF KeptFacts
  <2>3. x \in 1 .. Kept
    BY <2>2
  <2> QED BY <2>1, <2>3
<1>4. retires => flight[1].state = "done"
  BY DEF Taking, Retirements, Retirable, Positions
<1>5. retires => x >= 2
  BY <1>3, <1>4
<1> QED BY <1>2, <1>3, <1>5 DEF Base, FlightOK

LEMMA LaterIs ==
  ASSUME Base, NEW n, NEW d, NEW x, NEW npc, NEW retires, Taking(n, d, x, npc, retires),
         NEW p \in 1 .. Kept
  PROVE  /\ Later(p, x, npc) \in Item /\ InFlight(Later(p, x, npc))
         /\ Later(p, x, npc).addr = flight[p].addr /\ Later(p, x, npc).entry = flight[p].entry
         /\ Later(p, x, npc).npc = IF p = x THEN npc ELSE flight[p].npc
         /\ Later(p, x, npc).state = "executed" <=> p = x
<1> DEFINE f == flight[p]
           l == Later(p, x, npc)
<1>1. p \in DOMAIN flight /\ p # 0
  BY KeptHolds DEF KeptFacts
<1>2. f \in Item /\ InFlight(f)
  BY <1>1 DEF Base, FlightOK
<1>3. p \in Told <=> f.state = "executed"
  BY <1>1 DEF Told, Positions
<1>4. CASE p = x
  <2>1. npc \in Nat
    BY <1>1, <1>4, ExecutedIs, BranchTold
  <2>2. l = [f EXCEPT !.state = "executed", !.npc = npc]
    BY <1>4 DEF Later
  <2>3. /\ l \in Item /\ l.addr = f.addr /\ l.entry = f.entry /\ l.npc = npc
        /\ l.state = "executed"
    BY <1>2, <2>1, <2>2 DEF Item
  <2> HIDE DEF l, f
  <2>4. InFlight(l)
    BY <1>2, <2>1, <2>3 DEF InFlight
  <2> QED BY <1>4, <2>3, <2>4 DEF l, f
<1>5. CASE p # x /\ p \in Told
  <2>1. l = [f EXCEPT !.state = "done"]
    BY <1>5 DEF Later
  <2>2. /\ l \in Item /\ l.addr = f.addr /\ l.entry = f.entry /\ l.npc = f.npc
        /\ l.state = "done"
    BY <1>2, <2>1 DEF Item
  <2>3. f.state = "executed"
    BY <1>3, <1>5
  <2> HIDE DEF l, f
  <2>4. InFlight(l)
    BY <1>2, <2>2, <2>3 DEF InFlight
  <2> QED BY <1>5, <2>2, <2>4 DEF l, f
<1>6. CASE p # x /\ p \notin Told
  BY <1>2, <1>3, <1>6 DEF Later
<1> QED BY <1>4, <1>5, <1>6

LEMMA NewcomerIs ==
  ASSUME NEW e, Noted(e)
  PROVE  /\ Newcomer(e) \in Item /\ InFlight(Newcomer(e))
         /\ Newcomer(e).addr = e.addr /\ To(Newcomer(e)) = Onward(e)
         /\ Newcomer(e).state # "executed"
<1> DEFINE f == Newcomer(e)
<1>1. /\ e \in Entry /\ e.addr \in Nat /\ e.addr + 1 \in Nat /\ e.pred_NPC \in Nat
      /\ e.branch = IsBranch(e.addr) /\ e.addr + 1 # Unresolved
  BY DEF Noted, Entry, Unresolved
<1>2. /\ f.addr = e.addr /\ f.entry = e
      /\ f.state = (IF e.branch THEN "waiting" ELSE "done")
      /\ f.npc = (IF e.branch THEN Unresolved ELSE e.addr + 1)
  BY <1>1 DEF Newcomer
<1>3. f \in Item
  BY <1>1 DEF Newcomer, Item
<1> HIDE DEF f
<1>4. InFlight(f)
  BY <1>1, <1>2 DEF InFlight
<1>5. To(f) = Onward(e)
  BY <1>1, <1>2 DEF To, Onward
<1> QED BY <1>2, <1>3, <1>4, <1>5 DEF f

LEMMA DispatchFacts ==
  ASSUME Base, NEW d \in Dispatches
  PROVE  /\ d \in 0 .. 2 /\ d <= numIns_buffer
         /\ br.pred_wrong => d = 0
<1>1. numIns_buffer \in Nat
  BY DEF Base, RingOK
<1>2. CASE br.pred_wrong
  <2>1. d = 0
    BY <1>2 DEF Dispatches
  <2> QED BY <1>1, <2>1
<1>3. CASE ~br.pred_wrong
  <2>1. d \in 0 .. 2 /\ \E sq \in 0 .. 2 : d <= ib_nIsnBuffer(bs_full, sq)
    BY <1>3 DEF Dispatches
  <2>2. bs_full \in BOOLEAN
    BY DEF bs_full
  <2>3. \A sq \in 0 .. 2 :
          ib_nIsnBuffer(bs_full, sq) \in 0 .. 2 /\ ib_nIsnBuffer(bs_full, sq) <= numIns_buffer
    BY <2>2, OfferCount DEF Base
  <2>4. d <= numIns_buffer
    BY <1>1, <2>1, <2>3
  <2> QED BY <1>3, <2>1, <2>4
<1> QED BY <1>2, <1>3

LEMMA Moving ==
  ASSUME Base, NEW n, NEW d, NEW x, NEW npc, NEW retires, Taking(n, d, x, npc, retires)
  PROVE  Moved(d, x, npc, retires)
<1> DEFINE r == Out(retires)
           K == Kept
           here == Advanced(x, npc)
           there == Dispatched(d)
           stays == here \o there
<1>1. /\ d \in 0 .. 2 /\ d <= numIns_buffer /\ (br.pred_wrong => d = 0)
      /\ d \in Nat
  BY DispatchFacts DEF Taking
<1>2. KeptFacts /\ K \in Nat /\ r \in 0 .. 1
  BY KeptHolds DEF KeptFacts, Out
<1>3. ASSUME retires PROVE K >= 1
  <2>1. 1 \in DOMAIN flight
    BY <1>3 DEF Taking, Retirements, Retirable, Positions
  <2>2. CASE br.pred_wrong
    BY <1>2, <2>2 DEF KeptFacts
  <2>3. CASE ~br.pred_wrong
    <3>1. K = Len(flight) /\ 1 \in 1 .. Len(flight) /\ Len(flight) \in Nat
      BY <1>2, <2>1, <2>3 DEF KeptFacts
    <3> HIDE DEF K
    <3> QED BY <3>1
  <2> QED BY <2>2, <2>3
<1>4. r <= K /\ (retires => r = 1) /\ (~retires => r = 0)
  BY <1>2, <1>3 DEF Out
<1>5. here \in Seq(Item) /\ Len(here) = K
  <2>1. here = [p \in 1 .. K |-> Later(p, x, npc)]
    BY DEF Advanced, Later
  <2>2. \A p \in 1 .. K : Later(p, x, npc) \in Item
    BY LaterIs
  <2>3. here \in [1 .. K -> Item]
    BY <2>1, <2>2
  <2> HIDE DEF here, K
  <2> QED BY <1>2, <2>3, IsSeq
<1>6. \A k \in 1 .. d : ib_data(d)[k] = ib_buffer[At(ib_head, k)]
  BY <1>1, OfferIs DEF Base
<1>7. there = [k \in 1 .. d |-> Newcomer(ib_buffer[At(ib_head, k)])]
  BY <1>6 DEF Dispatched, Newcomer
<1>8. there \in Seq(Item) /\ Len(there) = d
  <2>1. \A k \in 1 .. d : Newcomer(ib_buffer[At(ib_head, k)]) \in Item
    <3> SUFFICES ASSUME NEW k \in 1 .. d PROVE Newcomer(ib_buffer[At(ib_head, k)]) \in Item
      OBVIOUS
    <3>1. numIns_buffer \in Nat
      BY DEF Base, RingOK
    <3>2. k \in 1 .. numIns_buffer
      BY <1>1, <3>1
    <3> QED BY <3>2, NewcomerIs DEF Base, RingOK
  <2>2. there \in [1 .. d -> Item]
    BY <1>7, <2>1
  <2> HIDE DEF there
  <2> QED BY <1>1, <2>2, IsSeq
<1>9. flight' = IF retires THEN Tail(stays) ELSE stays
  BY DEF Taking, Cycle
<1>10. \A p \in 1 .. K : here[p] = Later(p, x, npc)
  BY DEF Advanced, Later
<1>11. \A k \in 1 .. d : there[k] = Newcomer(ib_buffer[At(ib_head, k)])
  BY <1>7
<1> HIDE DEF here, there
<1>12. /\ stays \in Seq(Item) /\ Len(stays) = K + d
       /\ \A i \in 1 .. (K + d) : stays[i] = IF i <= K THEN here[i] ELSE there[i - K]
  BY <1>5, <1>8, ConcatProperties
<1> HIDE DEF stays, K, r
<1>13. /\ flight' \in Seq(Item) /\ Len(flight') = K + d - r
       /\ \A i \in 1 .. (K + d - r) : flight'[i] = stays[i + r]
  <2>1. CASE retires
    <3>1. K + d >= 1 /\ r = 1
      BY <1>1, <1>2, <1>3, <1>4, <2>1
    <3>2. stays # <<>>
      BY <1>12, <3>1, EmptySeq
    <3>3. /\ Tail(stays) \in Seq(Item) /\ Len(Tail(stays)) = Len(stays) - 1
          /\ \A i \in 1 .. Len(Tail(stays)) : Tail(stays)[i] = stays[i + 1]
      BY <1>12, <3>2, HeadTailProperties
    <3>4. flight' = Tail(stays)
      BY <1>9, <2>1
    <3>5. Len(Tail(stays)) = K + d - r
      BY <1>1, <1>2, <1>12, <3>1, <3>3
    <3> QED BY <3>1, <3>3, <3>4, <3>5
  <2>2. CASE ~retires
    <3>1. r = 0 /\ flight' = stays /\ K + d - 0 = K + d
      BY <1>1, <1>2, <1>4, <1>9, <2>2
    <3>2. \A i \in 1 .. (K + d) : i + 0 = i
      OBVIOUS
    <3> QED BY <1>12, <3>1, <3>2
  <2> QED BY <2>1, <2>2
<1>14. \A p \in 1 .. (K - r) : flight'[p] = Later(p + r, x, npc)
  <2> SUFFICES ASSUME NEW p \in 1 .. (K - r) PROVE flight'[p] = Later(p + r, x, npc)
    OBVIOUS
  <2>1. /\ p \in 1 .. (K + d - r) /\ p + r \in 1 .. (K + d) /\ p + r <= K /\ p + r \in 1 .. K
    BY <1>1, <1>2, <1>4
  <2> QED BY <1>10, <1>12, <1>13, <2>1
<1>15. \A k \in 1 .. d : flight'[K - r + k] = Newcomer(ib_buffer[At(ib_head, k)])
  <2> SUFFICES ASSUME NEW k \in 1 .. d
               PROVE  flight'[K - r + k] = Newcomer(ib_buffer[At(ib_head, k)])
    OBVIOUS
  <2>1. /\ K - r + k \in 1 .. (K + d - r) /\ (K - r + k) + r = K + k
        /\ K + k \in 1 .. (K + d) /\ ~(K + k <= K) /\ (K + k) - K = k
    BY <1>1, <1>2, <1>4
  <2> QED BY <1>11, <1>12, <1>13, <2>1
<1> QED BY <1>1, <1>2, <1>4, <1>13, <1>14, <1>15 DEF Moved, K, r

Incoming(n) == IF br.pred_wrong \/ halt_fetched THEN <<>> ELSE Fetched(n, br)

LEMMA Bringing ==
  ASSUME Base, NEW n, NEW d, NEW x, NEW npc, NEW retires, Taking(n, d, x, npc, retires)
  PROVE  LET f == Incoming(n)
         IN  /\ f \in Seq(Entry) /\ Len(f) <= 2 /\ Len(f) <= IB_SIZE - numIns_buffer
             /\ \A k \in DOMAIN f : Noted(f[k])
             /\ PC_reg' \in Nat /\ halt_fetched' \in BOOLEAN
             /\ br.pred_wrong => PC_reg' = br.recov_NPC /\ ~halt_fetched'
             /\ ~br.pred_wrong /\ halt_fetched => halt_fetched'
             /\ ~br.pred_wrong /\ ~halt_fetched =>
                  /\ halt_fetched' <=> f # <<>> /\ KindAt(f[Len(f)].addr) = "halt"
                  /\ Leading(f, PC_reg, PC_reg')
<1> DEFINE f == Incoming(n)
<1>1. /\ PC_reg' = next_PC(n, br) /\ halt_fetched' = next_halt_fetched(n, br)
      /\ n \in 0 .. 2 /\ ~Misnoted(n)
  BY DEF Taking, Cycle, IfCycle
<1>2. PC_reg \in Nat /\ br.recov_NPC \in Nat /\ halt_fetched \in BOOLEAN
  BY DEF Base, Registers
<1>3. CASE br.pred_wrong \/ halt_fetched
  <2>1. f = <<>>
    BY <1>3 DEF Incoming
  <2>2. f \in Seq(Entry) /\ Len(f) = 0 /\ DOMAIN f = {} /\ 0 <= IB_SIZE - numIns_buffer
    BY <2>1, EmptySeq, InstrBufferAssumption DEF Base, RingOK
  <2>3. CASE br.pred_wrong
    <3>1. PC_reg' = br.recov_NPC /\ ~halt_fetched' /\ halt_fetched' \in BOOLEAN
      BY <1>1, <2>3 DEF next_PC, next_halt_fetched
    <3> QED BY <1>2, <2>2, <2>3, <3>1
  <2>4. CASE ~br.pred_wrong
    <3>1. PC_reg' = PC_reg /\ halt_fetched' = TRUE
      BY <1>1, <1>2, <1>3, <2>4 DEF next_PC, next_halt_fetched
    <3> QED BY <1>2, <1>3, <2>2, <2>4, <3>1
  <2> QED BY <2>3, <2>4
<1>4. CASE ~br.pred_wrong /\ ~halt_fetched
  <2>1. f = Fetched(n, br)
    BY <1>4 DEF Incoming
  <2>2. /\ f \in Seq(Entry) /\ Len(f) <= 2 /\ Len(f) <= IB_SIZE - numIns_buffer
        /\ \A k \in DOMAIN f : Noted(f[k])
        /\ next_PC(n, br) \in Nat
        /\ Halts(n) <=> f # <<>> /\ KindAt(f[Len(f)].addr) = "halt"
        /\ Leading(f, PC_reg, next_PC(n, br))
    BY <1>1, <1>4, <2>1, Fetching DEF Base
  <2>3. halt_fetched' = Halts(n) /\ Halts(n) \in BOOLEAN
    BY <1>1, <1>2, <1>4 DEF next_halt_fetched, Halts
  <2> HIDE DEF f
  <2> QED BY <1>1, <1>4, <2>2, <2>3 DEF f
<1> QED BY <1>3, <1>4

LEMMA StepRing ==
  ASSUME Base, NEW n, NEW d, NEW x, NEW npc, NEW retires, Taking(n, d, x, npc, retires)
  PROVE  RingOK'
<1>1. CASE br.pred_wrong
  <2>1. ib_head' = 0 /\ ib_tail' = 0 /\ numIns_buffer' = 0
    BY <1>1 DEF Taking, Cycle, IfCycle, IBFlush
  <2>2. 0 \in IB_PTR /\ 0 \in 0 .. IB_SIZE /\ IBWrap(0 + 0) = 0 /\ 1 .. 0 = {}
    BY InstrBufferAssumption, IBWrapIs DEF IB_PTR
  <2> QED BY <2>1, <2>2 DEF RingOK
<1>2. CASE ~br.pred_wrong
  <2>1. IBCycle(Incoming(n), d)
    BY <1>2 DEF Taking, Cycle, IfCycle, Incoming
  <2>2. d \in 0 .. 2 /\ d <= numIns_buffer
    BY DispatchFacts DEF Taking
  <2> QED BY <2>1, <2>2, Bringing, RingCycle DEF Base
<1> QED BY <1>1, <1>2

LEMMA StepRegisters ==
  ASSUME Base, NEW n, NEW d, NEW x, NEW npc, NEW retires, Taking(n, d, x, npc, retires)
  PROVE  Registers'
<1>1. PC_reg' \in Nat /\ halt_fetched' \in BOOLEAN
  BY Bringing
<1>2. arch_NPC' \in Nat
  <2>1. CASE retires
    <3>1. 1 \in DOMAIN flight /\ flight[1].state = "done"
      BY <2>1 DEF Taking, Retirements, Retirable, Positions
    <3>2. flight[1].npc \in Nat
      BY <3>1 DEF Base, FlightOK, InFlight
    <3> QED BY <2>1, <3>2 DEF Taking, Cycle
  <2>2. CASE ~retires
    BY <2>2 DEF Taking, Cycle, Base, Registers
  <2> QED BY <2>1, <2>2
<1>3. br'.recov_NPC \in Nat /\ br'.not_taken_NPC \in Nat
  <2>1. CASE x = 0
    BY <2>1 DEF Taking, Cycle, Silent
  <2>2. CASE x # 0
    <3>1. br' = BranchUnit(flight[x].entry, npc)
      BY <2>2 DEF Taking, Cycle
    <3> QED BY <2>2, <3>1, ExecutedIs, BranchTold
  <2> QED BY <2>1, <2>2
<1>4. btb' \in [0 .. (BTB_SIZE - 1) -> Nat \cup {NoTarget}]
  <2> DEFINE S == {e.not_taken_NPC : e \in {g \in ToSet(Incoming(n)) : g.branch}}
  <2>1. BPCycle(S, br)
    BY DEF Taking, Cycle, IfCycle, Incoming
  <2>2. S \in SUBSET Nat
    <3>1. \A e \in ToSet(Incoming(n)) : e \in Entry
      BY Bringing DEF ToSet, Noted
    <3> QED BY <3>1 DEF Entry
  <2> HIDE DEF S
  <2> QED BY <2>1, <2>2, PredictorCycle DEF Base
<1> QED BY <1>1, <1>2, <1>3, <1>4 DEF Registers

\* What flight is afterwards, place by place.
LEMMA StepFlight ==
  ASSUME Base, NEW n, NEW d, NEW x, NEW npc, NEW retires, Taking(n, d, x, npc, retires)
  PROVE  /\ FlightOK'
         /\ DOMAIN flight' = 1 .. (Kept + d - Out(retires))
         /\ \A p \in DOMAIN flight' : flight'[p].state = "executed" <=> p + Out(retires) = x
<1> DEFINE r == Out(retires)
           K == Kept
<1>1. /\ flight' \in Seq(Item) /\ r \in 0 .. 1 /\ r <= K /\ d \in 0 .. 2 /\ d <= numIns_buffer
      /\ Len(flight') = K + d - r
      /\ \A p \in 1 .. (K - r) : flight'[p] = Later(p + r, x, npc)
      /\ \A k \in 1 .. d : flight'[K - r + k] = Newcomer(ib_buffer[At(ib_head, k)])
  BY Moving DEF Moved
<1>2. K \in Nat /\ numIns_buffer \in Nat
  BY KeptHolds DEF KeptFacts, Base, RingOK
<1>3. x = 0 \/ x \in 1 .. K
  BY ExecutedIs
<1>4. DOMAIN flight' = 1 .. (K + d - r)
  BY <1>1, LenProperties
<1>5. \A p \in 1 .. K : InFlight(Later(p, x, npc)) /\ (Later(p, x, npc).state = "executed" <=> p = x)
  BY LaterIs
<1>6. \A k \in 1 .. numIns_buffer : Noted(ib_buffer[At(ib_head, k)])
  BY DEF Base, RingOK
<1> HIDE DEF r, K
<1>7. \A p \in 1 .. (K + d - r) :
        InFlight(flight'[p]) /\ (flight'[p].state = "executed" <=> p + r = x)
  <2> SUFFICES ASSUME NEW p \in 1 .. (K + d - r)
               PROVE  InFlight(flight'[p]) /\ (flight'[p].state = "executed" <=> p + r = x)
    OBVIOUS
  <2>1. CASE p <= K - r
    <3>1. p \in 1 .. (K - r) /\ p + r \in 1 .. K
      BY <1>1, <1>2, <2>1
    <3> QED BY <1>1, <1>5, <3>1
  <2>2. CASE p > K - r
    <3> DEFINE k == p - (K - r)
    <3>1. k \in 1 .. d /\ k \in 1 .. numIns_buffer /\ K - r + k = p /\ p + r # x
      BY <1>1, <1>2, <1>3, <2>2
    <3> HIDE DEF k
    <3>2. flight'[p] = Newcomer(ib_buffer[At(ib_head, k)]) /\ Noted(ib_buffer[At(ib_head, k)])
      BY <1>1, <1>6, <3>1
    <3> QED BY <3>1, <3>2, NewcomerIs
  <2> QED BY <1>1, <1>2, <2>1, <2>2
<1>8. FlightOK'
  BY <1>1, <1>4, <1>7 DEF FlightOK, InFlight, Noted
<1> QED BY <1>4, <1>7, <1>8 DEF r, K

LEMMA StepTold ==
  ASSUME Base, NEW n, NEW d, NEW x, NEW npc, NEW retires, Taking(n, d, x, npc, retires)
  PROVE  /\ OneTold'
         /\ br'.pred_wrong =>
              /\ x # 0 /\ Told' = {x - Out(retires)} /\ x - Out(retires) \in 1 .. (Kept - Out(retires))
              /\ br'.recov_NPC = npc
<1> DEFINE r == Out(retires)
           K == Kept
<1>1. K \in Nat /\ r \in 0 .. 1 /\ d \in 0 .. 2 /\ (retires <=> r = 1)
  BY KeptHolds, Moving DEF KeptFacts, Moved, Out
<1>2. /\ DOMAIN flight' = 1 .. (K + d - r)
      /\ \A p \in DOMAIN flight' : flight'[p].state = "executed" <=> p + r = x
  BY StepFlight
<1>3. Told' = {p \in DOMAIN flight' : p + r = x}
  BY <1>2 DEF Told, Positions
<1> HIDE DEF r, K
<1>4. \A p, q \in Told' : p = q
  <2>1. \A p, q \in 1 .. (K + d - r) : p + r = x /\ q + r = x => p = q
    BY <1>1
  <2> QED BY <1>2, <1>3, <2>1
<1>5. ASSUME br'.pred_wrong
      PROVE  /\ x # 0 /\ Told' = {x - r} /\ x - r \in 1 .. (K - r)
             /\ br'.recov_NPC = npc /\ flight'[x - r].npc = npc
  <2>1. x # 0
    BY <1>5 DEF Taking, Cycle, Silent
  <2>2. /\ x \in 1 .. Kept /\ (retires => x >= 2) /\ flight[x] \in Item /\ InFlight(flight[x])
        /\ flight[x].state = "waiting" /\ npc \in Outcomes(flight[x])
    BY <2>1, ExecutedIs
  <2>3. br'.recov_NPC = npc
    <3>1. br' = BranchUnit(flight[x].entry, npc)
      BY <2>1 DEF Taking, Cycle
    <3> QED BY <2>2, <3>1, BranchTold
  <2>4. /\ x - r \in 1 .. (K - r) /\ x - r \in 1 .. (K + d - r) /\ (x - r) + r = x
        /\ \A p \in 1 .. (K + d - r) : p + r = x => p = x - r
    BY <1>1, <2>2 DEF K
  <2>5. Told' = {x - r}
    BY <1>2, <1>3, <2>4
  <2>6. flight'[x - r] = Later(x, x, npc)
    BY <2>4, Moving DEF Moved, r, K
  <2>7. flight'[x - r].npc = npc
    BY <2>2, <2>6, LaterIs
  <2> QED BY <2>1, <2>3, <2>4, <2>5, <2>7
<1>6. OneTold'
  BY <1>4, <1>5 DEF OneTold
<1> QED BY <1>5, <1>6 DEF r, K

LEMMA StepBase ==
  ASSUME Base, NEW n, NEW d, NEW x, NEW npc, NEW retires, Taking(n, d, x, npc, retires)
  PROVE  Base'
BY StepRing, StepRegisters, StepFlight, StepTold DEF Base

(***************************************************************************)
(* What a cycle does to the path.                                             *)
(***************************************************************************)
\* The path that is left goes r instructions further on, and what is fetched
\* follows.
PathGrows(f, r) ==
  /\ Len(Path') = Len(Path) - r + Len(f)
  /\ \A j \in 1 .. (Len(Path) - r) :
       Path'[j].addr = Path[j + r].addr /\ Path'[j].to = Path[j + r].to
  /\ \A i \in 1 .. Len(f) :
       /\ Path'[Len(Path) - r + i].addr = f[i].addr
       /\ Path'[Len(Path) - r + i].to = Onward(f[i])

\* The path ends with the branch at x, which goes elsewhere.
PathEnds(x, npc, r) ==
  /\ x \in 1 .. Len(Path) /\ x - r \in 1 .. Len(Path) /\ Len(Path') = x - r
  /\ \A j \in 1 .. (x - r) : Path'[j].addr = Path[j + r].addr
  /\ \A j \in 1 .. (x - r - 1) : Path'[j].to = Path[j + r].to
  /\ Path'[x - r].to = npc

LEMMA FlightPath ==
  ASSUME Base, NEW n, NEW d, NEW x, NEW npc, NEW retires, Taking(n, d, x, npc, retires),
         NEW p \in 1 .. (Kept - Out(retires))
  PROVE  /\ p + Out(retires) \in 1 .. Kept
         /\ flight'[p].addr = flight[p + Out(retires)].addr
         /\ p + Out(retires) # x \/ ~br'.pred_wrong => To(flight'[p]) = To(flight[p + Out(retires)])
         /\ p + Out(retires) = x => To(flight'[p]) = npc
<1> DEFINE r == Out(retires)
           q == p + r
<1>1. Kept \in Nat /\ r \in 0 .. 1 /\ q \in 1 .. Kept
  BY KeptHolds DEF KeptFacts, Out
<1>2. flight'[p] = Later(q, x, npc)
  BY Moving DEF Moved
<1> HIDE DEF q
<1>3. /\ flight'[p].addr = flight[q].addr /\ flight'[p].entry = flight[q].entry
      /\ flight'[p].npc = IF q = x THEN npc ELSE flight[q].npc
  BY <1>1, <1>2, LaterIs
<1>4. q # x => To(flight'[p]) = To(flight[q])
  BY <1>3 DEF To
<1>5. ASSUME q = x
      PROVE  /\ To(flight'[p]) = npc
             /\ ~br'.pred_wrong => To(flight'[p]) = To(flight[q])
  <2>1. /\ x # 0 /\ br' = BranchUnit(flight[x].entry, npc)
    BY <1>1, <1>5 DEF Taking, Cycle
  <2>2. /\ flight[x] \in Item /\ InFlight(flight[x])
        /\ flight[x].state = "waiting" /\ npc \in Outcomes(flight[x])
    BY <2>1, ExecutedIs
  <2>3. npc \in Nat /\ (~br'.pred_wrong => npc = flight[x].entry.pred_NPC)
    BY <2>1, <2>2, BranchTold
  <2>4. To(flight'[p]) = npc
    BY <1>3, <1>5, <2>3 DEF To, Unresolved
  <2>5. To(flight[q]) = flight[x].entry.pred_NPC
    BY <1>5, <2>2 DEF To, InFlight
  <2> QED BY <2>3, <2>4, <2>5
<1> QED BY <1>1, <1>3, <1>4, <1>5 DEF q

LEMMA PathEnding ==
  ASSUME Base, NEW n, NEW d, NEW x, NEW npc, NEW retires, Taking(n, d, x, npc, retires),
         br'.pred_wrong
  PROVE  PathEnds(x, npc, Out(retires)) /\ br'.recov_NPC = npc
<1> DEFINE r == Out(retires)
           K == Kept
<1>1. PathShape /\ KeptFacts
  BY PathShapeHolds, KeptHolds
<1>2. PathShape' /\ KeptFacts'
  <2>1. Base'
    BY StepBase
  <2> QED BY <2>1, PathShapeHolds, KeptHolds, PTL
<1>3. /\ x # 0 /\ Told' = {x - r} /\ x - r \in 1 .. (K - r) /\ br'.recov_NPC = npc
      /\ r \in 0 .. 1 /\ K \in Nat
  <2>1. r \in 0 .. 1 /\ K \in Nat
    BY <1>1 DEF Out, KeptFacts
  <2> HIDE DEF r, K
  <2>2. /\ x # 0 /\ Told' = {x - r} /\ x - r \in 1 .. (K - r) /\ br'.recov_NPC = npc
    BY StepTold DEF r, K
  <2> QED BY <2>1, <2>2
<1>4. /\ Kept' = x - r /\ Live' = 0 /\ Len(Path') = x - r
      /\ \A p \in 1 .. (x - r) : Path'[p].addr = flight'[p].addr /\ Path'[p].to = To(flight'[p])
  <2>1. Kept' = x - r /\ Live' = 0
    BY <1>2, <1>3 DEF KeptFacts, Live
  <2>2. Len(Path') = Kept' + 0
    BY <1>2, <2>1 DEF PathShape
  <2>3. \A p \in 1 .. Kept' : Path'[p].addr = flight'[p].addr /\ Path'[p].to = To(flight'[p])
    BY <1>2 DEF PathShape, To
  <2> QED BY <1>3, <2>1, <2>2, <2>3
<1>5. /\ Len(Path) = K + Live /\ Live \in Nat
      /\ \A p \in 1 .. K : Path[p].addr = flight[p].addr /\ Path[p].to = To(flight[p])
  BY <1>1 DEF PathShape
<1>6. \A p \in 1 .. (K - r) :
        /\ p + r \in 1 .. K
        /\ flight'[p].addr = flight[p + r].addr
        /\ p + r # x => To(flight'[p]) = To(flight[p + r])
        /\ p + r = x => To(flight'[p]) = npc
  BY FlightPath
<1> HIDE DEF r, K
<1>7. \A p \in 1 .. (x - r) : p \in 1 .. (K - r)
  BY <1>3
<1>8. \A p \in 1 .. (x - r - 1) : p \in 1 .. (x - r) /\ p + r # x
  BY <1>3
<1>9. x - r \in 1 .. (x - r) /\ (x - r) + r = x /\ x \in 1 .. (K + Live) /\ x - r \in 1 .. (K + Live)
  <2>1. r \in Int /\ K \in Int /\ x - r \in 1 .. (K - r) /\ r >= 0 /\ r <= 1
    BY <1>3
  <2>2. Live \in Nat
    BY <1>5
  <2>3. x \in Int
    BY <1>3, ExecutedIs
  <2>4. x - r >= 1 /\ x - r <= K - r
    BY <2>1, <2>3
  <2>5. x >= 1 /\ x <= K + Live /\ x - r <= K + Live
    BY <2>1, <2>2, <2>3, <2>4
  <2> QED BY <2>1, <2>2, <2>3, <2>4, <2>5
<1>10. PathEnds(x, npc, r)
  <2>1. \A j \in 1 .. (x - r) : Path'[j].addr = Path[j + r].addr
    BY <1>4, <1>5, <1>6, <1>7
  <2>2. \A j \in 1 .. (x - r - 1) : Path'[j].to = Path[j + r].to
    BY <1>4, <1>5, <1>6, <1>7, <1>8
  <2>3. Path'[x - r].to = npc
    BY <1>4, <1>6, <1>7, <1>9
  <2> QED BY <1>4, <1>5, <1>9, <2>1, <2>2, <2>3 DEF PathEnds
<1> QED BY <1>3, <1>10 DEF r

LEMMA PathGrowing ==
  ASSUME Base, NEW n, NEW d, NEW x, NEW npc, NEW retires, Taking(n, d, x, npc, retires),
         ~br'.pred_wrong
  PROVE  PathGrows(Incoming(n), Out(retires)) /\ Out(retires) <= Len(Path)
<1> DEFINE r == Out(retires)
           K == Kept
           m == Live
           f == Incoming(n)
           l == Len(f)
<1>1. PathShape /\ KeptFacts
  BY PathShapeHolds, KeptHolds
<1>2. PathShape' /\ KeptFacts'
  <2>1. Base'
    BY StepBase
  <2> QED BY <2>1, PathShapeHolds, KeptHolds, PTL
<1>3. /\ r \in 0 .. 1 /\ r <= K /\ d \in 0 .. 2 /\ d <= numIns_buffer /\ (br.pred_wrong => d = 0)
      /\ Len(flight') = K + d - r
      /\ \A k \in 1 .. d : flight'[K - r + k] = Newcomer(ib_buffer[At(ib_head, k)])
  BY Moving DEF Moved
<1>4. /\ Len(Path) = K + m /\ m \in Nat /\ K \in Nat
      /\ \A p \in 1 .. K : Path[p].addr = flight[p].addr /\ Path[p].to = To(flight[p])
      /\ \A k \in 1 .. m : /\ Path[K + k].addr = ib_buffer[At(ib_head, k)].addr
                           /\ Path[K + k].to = Onward(ib_buffer[At(ib_head, k)])
  BY <1>1 DEF PathShape, KeptFacts
\* The buffer: at a misprediction it is left empty.
<1>5. /\ numIns_buffer' = m - d + l /\ d <= m /\ l \in Nat
      /\ \A k \in 1 .. (m - d) : ib_buffer'[At(ib_head', k)] = ib_buffer[At(ib_head, k + d)]
      /\ \A j \in 1 .. l : ib_buffer'[At(ib_head', m - d + j)] = f[j]
  <2>1. /\ f \in Seq(Entry) /\ Len(f) <= 2 /\ Len(f) <= IB_SIZE - numIns_buffer
        /\ \A k \in DOMAIN f : Noted(f[k])
        /\ l \in Nat /\ numIns_buffer \in Nat
    BY Bringing, LenProperties DEF Base, RingOK
  <2>2. CASE br.pred_wrong
    <3>1. numIns_buffer' = 0 /\ m = 0 /\ d = 0 /\ f = <<>>
      BY <1>3, <2>2 DEF Taking, Cycle, IfCycle, IBFlush, Live, Incoming
    <3>2. l = 0
      BY <3>1, EmptySeq
    <3> QED BY <3>1, <3>2
  <2>3. CASE ~br.pred_wrong
    <3>1. m = numIns_buffer /\ IBCycle(f, d) /\ RingOK
      BY <2>3 DEF Taking, Cycle, IfCycle, Live, Incoming, Base
    <3>2. /\ numIns_buffer' = m + Len(f) - d
          /\ \A k \in 1 .. (m - d) : ib_buffer'[At(ib_head', k)] = ib_buffer[At(ib_head, k + d)]
          /\ \A j \in 1 .. Len(f) : ib_buffer'[At(ib_head', m - d + j)] = f[j]
      BY <1>3, <2>1, <3>1, RingCycle
    <3> HIDE DEF m, f
    <3> QED BY <1>3, <1>4, <2>1, <3>1, <3>2
  <2> QED BY <2>2, <2>3
<1>6. /\ Kept' = K + d - r /\ Live' = m - d + l
      /\ Len(Path') = Kept' + Live'
      /\ \A p \in 1 .. Kept' : Path'[p].addr = flight'[p].addr /\ Path'[p].to = To(flight'[p])
      /\ \A k \in 1 .. Live' : /\ Path'[Kept' + k].addr = ib_buffer'[At(ib_head', k)].addr
                               /\ Path'[Kept' + k].to = Onward(ib_buffer'[At(ib_head', k)])
  BY <1>2, <1>3, <1>5 DEF PathShape, KeptFacts, Live, To, Onward, At
<1>7. \A p \in 1 .. (K - r) :
        /\ p + r \in 1 .. K
        /\ flight'[p].addr = flight[p + r].addr
        /\ To(flight'[p]) = To(flight[p + r])
  BY FlightPath
<1>8. \A k \in 1 .. d : /\ flight'[K - r + k].addr = ib_buffer[At(ib_head, k)].addr
                        /\ To(flight'[K - r + k]) = Onward(ib_buffer[At(ib_head, k)])
  <2> SUFFICES ASSUME NEW k \in 1 .. d
               PROVE  /\ flight'[K - r + k].addr = ib_buffer[At(ib_head, k)].addr
                      /\ To(flight'[K - r + k]) = Onward(ib_buffer[At(ib_head, k)])
    OBVIOUS
  <2>1. k \in 1 .. numIns_buffer
    <3>1. numIns_buffer \in Nat
      BY DEF Base, RingOK
    <3> QED BY <1>3, <3>1
  <2>2. Noted(ib_buffer[At(ib_head, k)])
    BY <2>1 DEF Base, RingOK
  <2> QED BY <1>3, <2>2, NewcomerIs
<1> DEFINE a == K + d - r
<1>9. a \in Nat /\ Kept' = a
  BY <1>3, <1>4, <1>6
<1> HIDE DEF r, K, m, f, l, a
<1>10. a = K + d - r /\ Len(Path) - r = a + (m - d) /\ r <= K + m
  BY <1>3, <1>4, <1>5, <1>9 DEF a
<1>11. Len(Path') = Len(Path) - r + l
  BY <1>3, <1>4, <1>5, <1>6, <1>9, <1>10
<1>12. \A j \in 1 .. (a + (m - d)) :
         Path'[j].addr = Path[j + r].addr /\ Path'[j].to = Path[j + r].to
  <2> SUFFICES ASSUME NEW j \in 1 .. (a + (m - d))
               PROVE  Path'[j].addr = Path[j + r].addr /\ Path'[j].to = Path[j + r].to
    OBVIOUS
  <2>1. CASE j <= K - r
    <3>1. j \in 1 .. (K - r) /\ j \in 1 .. a
      BY <1>3, <1>4, <1>9, <1>10, <2>1
    <3> QED BY <1>4, <1>6, <1>7, <1>9, <3>1
  <2>2. CASE j > K - r /\ j <= a
    <3> DEFINE k == j - (K - r)
    <3>1. k \in 1 .. d /\ k \in 1 .. m /\ j = K - r + k /\ j + r = K + k /\ j \in 1 .. a
      BY <1>3, <1>4, <1>5, <1>9, <1>10, <2>2
    <3> HIDE DEF k
    <3>2. /\ Path[j + r].addr = ib_buffer[At(ib_head, k)].addr
          /\ Path[j + r].to = Onward(ib_buffer[At(ib_head, k)])
      BY <1>4, <3>1
    <3>3. Path'[j].addr = flight'[j].addr /\ Path'[j].to = To(flight'[j])
      BY <1>6, <1>9, <3>1
    <3> QED BY <1>8, <3>1, <3>2, <3>3
  <2>3. CASE j > a
    <3> DEFINE k == j - a
    <3>1. /\ k \in 1 .. (m - d) /\ k \in 1 .. (m - d + l) /\ j = a + k
          /\ k + d \in 1 .. m /\ j + r = K + (k + d)
      <4>1. /\ r \in Int /\ d \in Nat /\ m \in Nat /\ K \in Nat /\ l \in Nat /\ a \in Nat
            /\ d <= m /\ a = K + d - r
        BY <1>3, <1>4, <1>5, <1>9, <1>10
      <4> QED BY <4>1, <2>3
    <3> HIDE DEF k
    <3>2. /\ Path[j + r].addr = ib_buffer[At(ib_head, k + d)].addr
          /\ Path[j + r].to = Onward(ib_buffer[At(ib_head, k + d)])
      BY <1>4, <3>1
    <3>3. /\ Path'[j].addr = ib_buffer'[At(ib_head', k)].addr
          /\ Path'[j].to = Onward(ib_buffer'[At(ib_head', k)])
      BY <1>6, <1>9, <3>1
    <3> QED BY <1>5, <3>1, <3>2, <3>3
  <2> QED BY <1>3, <1>4, <1>5, <1>9, <2>1, <2>2, <2>3
<1>13. \A i \in 1 .. l : /\ Path'[a + (m - d) + i].addr = f[i].addr
                        /\ Path'[a + (m - d) + i].to = Onward(f[i])
  <2> SUFFICES ASSUME NEW i \in 1 .. l
               PROVE  Path'[a + (m - d) + i].addr = f[i].addr /\ Path'[a + (m - d) + i].to = Onward(f[i])
    OBVIOUS
  <2>1. (m - d) + i \in 1 .. (m - d + l) /\ a + ((m - d) + i) = a + (m - d) + i
    BY <1>3, <1>4, <1>5, <1>9
  <2>2. /\ Path'[a + ((m - d) + i)].addr = ib_buffer'[At(ib_head', (m - d) + i)].addr
        /\ Path'[a + ((m - d) + i)].to = Onward(ib_buffer'[At(ib_head', (m - d) + i)])
    BY <1>6, <1>9, <2>1
  <2> QED BY <1>5, <2>1, <2>2
<1>14. PathGrows(f, r)
  BY <1>10, <1>11, <1>12, <1>13 DEF PathGrows, l
<1> QED BY <1>4, <1>10, <1>14 DEF f, r

\* OnePath by the places of the path.
Spelled ==
  /\ Len(Path) \in Nat /\ (Path = <<>> <=> Len(Path) = 0)
  /\ Leads = IF Len(Path) = 0 THEN arch_NPC ELSE Path[Len(Path)].to
  /\ OnePath <=>
       /\ Len(Path) >= 1 => Path[1].addr = Skipped(arch_NPC)
       /\ \A k \in 1 .. (Len(Path) - 1) : Path[k + 1].addr = Skipped(Path[k].to)
       /\ br.pred_wrong => br.recov_NPC = Leads
       /\ ~br.pred_wrong /\ halt_fetched => Len(Path) = 0 \/ KindAt(Path[Len(Path)].addr) = "halt"
       /\ ~br.pred_wrong /\ ~halt_fetched => Skipped(PC_reg) = Skipped(Leads)

LEMMA OnePathIs == PathShape => Spelled
<1> SUFFICES ASSUME PathShape PROVE Spelled
  OBVIOUS
<1>1. Path \in Seq(Hop) /\ Len(Path) \in Nat
  BY LenProperties DEF PathShape
<1>2. Path = <<>> <=> Len(Path) = 0
  BY <1>1, EmptySeq
<1>3. Path # <<>> <=> Len(Path) >= 1
  BY <1>1, <1>2
<1>4. Leads = IF Len(Path) = 0 THEN arch_NPC ELSE Path[Len(Path)].to
  BY <1>2 DEF Leads, Last
<1>5. OnePath <=>
        /\ Len(Path) >= 1 => Path[1].addr = Skipped(arch_NPC)
        /\ \A k \in 1 .. (Len(Path) - 1) : Path[k + 1].addr = Skipped(Path[k].to)
        /\ br.pred_wrong => br.recov_NPC = Leads
        /\ ~br.pred_wrong /\ halt_fetched => Len(Path) = 0 \/ KindAt(Path[Len(Path)].addr) = "halt"
        /\ ~br.pred_wrong /\ ~halt_fetched => Skipped(PC_reg) = Skipped(Leads)
  <2>1. OnePath <=>
          /\ Len(Path) >= 1 => Path[1].addr = Skipped(arch_NPC)
          /\ \A k \in 1 .. (Len(Path) - 1) : Path[k + 1].addr = Skipped(Path[k].to)
          /\ IF br.pred_wrong THEN br.recov_NPC = Leads
             ELSE IF halt_fetched THEN Len(Path) = 0 \/ KindAt(Path[Len(Path)].addr) = "halt"
             ELSE Skipped(PC_reg) = Skipped(Leads)
    BY <1>2, <1>3 DEF OnePath, Last
  <2> QED BY <2>1
<1> QED BY <1>1, <1>2, <1>4, <1>5 DEF Spelled

\* The program goes on where the instruction that retires leads.
LEMMA RetiredIs ==
  ASSUME Base, NEW n, NEW d, NEW x, NEW npc, NEW retires, Taking(n, d, x, npc, retires)
  PROVE  /\ Out(retires) = 0 => arch_NPC' = arch_NPC
         /\ Out(retires) = 1 => arch_NPC' = Path[1].to /\ Len(Path) >= 1
         /\ Out(retires) \in {0, 1}
<1>1. CASE retires
  <2>1. Out(retires) = 1 /\ arch_NPC' = flight[1].npc
    BY <1>1 DEF Out, Taking, Cycle
  <2>2. 1 \in DOMAIN flight /\ flight[1].state = "done"
    BY <1>1 DEF Taking, Retirements, Retirable, Positions
  <2>3. flight[1].npc \in Nat
    BY <2>2 DEF Base, FlightOK, InFlight
  <2>4. To(flight[1]) = flight[1].npc
    BY <2>3 DEF To, Unresolved
  <2>5. 1 <= Kept /\ Kept \in Nat /\ Live \in Nat /\ Len(Path) = Kept + Live
    BY <2>1, Moving, KeptHolds, PathShapeHolds DEF Moved, KeptFacts, PathShape
  <2>6. 1 \in 1 .. Kept /\ Len(Path) >= 1
    BY <2>5
  <2>7. Path[1].to = To(flight[1])
    BY <2>6, PathShapeHolds DEF PathShape
  <2> QED BY <2>1, <2>4, <2>6, <2>7
<1>2. CASE ~retires
  BY <1>2 DEF Out, Taking, Cycle
<1> QED BY <1>1, <1>2

LEMMA StepOnePath ==
  ASSUME IInv, NEW n, NEW d, NEW x, NEW npc, NEW retires, Taking(n, d, x, npc, retires)
  PROVE  OnePath'
<1> DEFINE r == Out(retires)
           L == Len(Path)
           L2 == Len(Path')
           f == Incoming(n)
           l == Len(f)
<1>1. Base /\ OnePath /\ PathShape
  BY PathShapeHolds DEF IInv
<1>2. PathShape'
  <2>1. Base'
    BY <1>1, StepBase
  <2> QED BY <2>1, PathShapeHolds, PTL
<1>3. /\ L \in Nat
      /\ Leads = IF L = 0 THEN arch_NPC ELSE Path[L].to
      /\ L >= 1 => Path[1].addr = Skipped(arch_NPC)
      /\ \A k \in 1 .. (L - 1) : Path[k + 1].addr = Skipped(Path[k].to)
      /\ br.pred_wrong => br.recov_NPC = Leads
      /\ ~br.pred_wrong /\ halt_fetched => L = 0 \/ KindAt(Path[L].addr) = "halt"
      /\ ~br.pred_wrong /\ ~halt_fetched => Skipped(PC_reg) = Skipped(Leads)
  BY <1>1, OnePathIs DEF Spelled
<1>4. /\ L2 \in Nat
      /\ Leads' = IF L2 = 0 THEN arch_NPC' ELSE Path'[L2].to
      /\ OnePath' <=>
           /\ L2 >= 1 => Path'[1].addr = Skipped(arch_NPC')
           /\ \A k \in 1 .. (L2 - 1) : Path'[k + 1].addr = Skipped(Path'[k].to)
           /\ br'.pred_wrong => br'.recov_NPC = Leads'
           /\ ~br'.pred_wrong /\ halt_fetched' => L2 = 0 \/ KindAt(Path'[L2].addr) = "halt"
           /\ ~br'.pred_wrong /\ ~halt_fetched' => Skipped(PC_reg') = Skipped(Leads')
  <2>1. Spelled'
    BY <1>2, OnePathIs, PTL
  <2> QED BY <2>1 DEF Spelled, Skipped, Ahead, KindAt
<1>5. /\ r \in {0, 1}
      /\ r = 0 => arch_NPC' = arch_NPC
      /\ r = 1 => arch_NPC' = Path[1].to /\ L >= 1
  BY <1>1, RetiredIs
<1>6. CASE br'.pred_wrong
  <2>1. /\ PathEnds(x, npc, r) /\ br'.recov_NPC = npc
    BY <1>1, <1>6, PathEnding
  <2>2. /\ x \in 1 .. L /\ x - r \in 1 .. L /\ L2 = x - r
        /\ \A j \in 1 .. (x - r) : Path'[j].addr = Path[j + r].addr
        /\ \A j \in 1 .. (x - r - 1) : Path'[j].to = Path[j + r].to
        /\ Path'[x - r].to = npc
    BY <2>1 DEF PathEnds
  <2> HIDE DEF r, L, L2
  <2>3. Path'[1].addr = Skipped(arch_NPC')
    <3>1. /\ 1 \in 1 .. (x - r) /\ (r = 0 \/ r = 1) /\ L >= 1
          /\ 1 + 0 = 1 /\ 1 + 1 = 2 /\ (r = 1 => 1 \in 1 .. (L - 1))
      BY <1>3, <1>5, <2>2
    <3>2. CASE r = 0
      BY <1>3, <1>5, <2>2, <3>1, <3>2
    <3>3. CASE r = 1
      BY <1>3, <1>5, <2>2, <3>1, <3>3
    <3> QED BY <3>1, <3>2, <3>3
  <2>4. \A k \in 1 .. (L2 - 1) : Path'[k + 1].addr = Skipped(Path'[k].to)
    <3> SUFFICES ASSUME NEW k \in 1 .. (L2 - 1)
                 PROVE  Path'[k + 1].addr = Skipped(Path'[k].to)
      OBVIOUS
    <3>1. /\ k \in 1 .. (x - r - 1) /\ k + 1 \in 1 .. (x - r)
          /\ k + r \in 1 .. (L - 1) /\ (k + 1) + r = (k + r) + 1
      BY <1>3, <1>5, <2>2
    <3> QED BY <1>3, <2>2, <3>1
  <2>5. L2 # 0 /\ Leads' = npc
    BY <1>4, <2>2
  <2> QED BY <1>4, <1>6, <2>1, <2>3, <2>4, <2>5
<1>7. CASE ~br'.pred_wrong
  <2> DEFINE R == L - r
  <2>1. PathGrows(f, r) /\ r <= L
    BY <1>1, <1>7, PathGrowing
  <2>2. /\ L2 = R + l
        /\ \A j \in 1 .. R : Path'[j].addr = Path[j + r].addr /\ Path'[j].to = Path[j + r].to
        /\ \A i \in 1 .. l : Path'[R + i].addr = f[i].addr /\ Path'[R + i].to = Onward(f[i])
    BY <2>1 DEF PathGrows
  <2>3. /\ l \in Nat /\ l <= 2 /\ (f = <<>> <=> l = 0)
        /\ l >= 1 => ~br.pred_wrong /\ ~halt_fetched
        /\ br.pred_wrong => PC_reg' = br.recov_NPC /\ ~halt_fetched'
        /\ ~br.pred_wrong /\ halt_fetched => halt_fetched'
        /\ ~br.pred_wrong /\ ~halt_fetched =>
             /\ halt_fetched' <=> f # <<>> /\ KindAt(f[l].addr) = "halt"
             /\ Leading(f, PC_reg, PC_reg')
    <3>1. f \in Seq(Entry) /\ l \in Nat /\ l <= 2 /\ (f = <<>> <=> l = 0)
      BY <1>1, Bringing, LenProperties, EmptySeq
    <3>2. br.pred_wrong \/ halt_fetched => f = <<>>
      BY DEF Incoming
    <3>3. l >= 1 => ~br.pred_wrong /\ ~halt_fetched
      BY <3>1, <3>2
    <3> QED BY <1>1, <3>1, <3>3, Bringing
  <2>4. R \in Nat /\ (R >= 1 => R + r = L /\ 1 \in 1 .. R /\ R \in 1 .. R) /\ (R = 0 => L = r)
    BY <1>3, <1>5, <2>1
  <2> HIDE DEF r, L, L2, f, l, R
  <2>5. Leads = IF R = 0 THEN arch_NPC' ELSE Path[L].to
    <3>1. CASE R = 0
      BY <1>3, <1>5, <2>4, <3>1
    <3>2. CASE R # 0
      <4>1. L # 0
        BY <1>5, <2>4, <3>2
      <4> QED BY <1>3, <3>2, <4>1
    <3> QED BY <3>1, <3>2
  <2>6. R >= 1 => Path'[1].addr = Skipped(arch_NPC') /\ Path'[R].to = Leads /\ Path'[R].addr = Path[L].addr
    <3> SUFFICES ASSUME R >= 1
                 PROVE  Path'[1].addr = Skipped(arch_NPC') /\ Path'[R].to = Leads
                        /\ Path'[R].addr = Path[L].addr
      OBVIOUS
    <3>1. Path'[R].to = Leads /\ Path'[R].addr = Path[L].addr
      BY <2>2, <2>4, <2>5
    <3>2. Path'[1].addr = Path[1 + r].addr
      BY <2>2, <2>4
    <3>3. CASE r = 0
      <4>1. L >= 1 /\ 1 + r = 1
        BY <2>4, <3>3
      <4> QED BY <1>3, <1>5, <3>1, <3>2, <3>3, <4>1
    <3>4. CASE r = 1
      <4>1. 1 + r = 1 + 1 /\ 1 \in 1 .. (L - 1)
        BY <1>3, <2>4, <3>4
      <4> QED BY <1>3, <1>5, <3>1, <3>2, <3>4, <4>1
    <3> QED BY <1>5, <3>3, <3>4
  <2>7. l >= 1 => f[1].addr = Skipped(Leads) /\ Path'[R + 1].addr = f[1].addr /\ 1 \in 1 .. l
    <3> SUFFICES ASSUME l >= 1 PROVE f[1].addr = Skipped(Leads) /\ Path'[R + 1].addr = f[1].addr
                                    /\ 1 \in 1 .. l
      OBVIOUS
    <3>1. 1 \in 1 .. l
      BY <2>3
    <3>2. f # <<>> /\ ~br.pred_wrong /\ ~halt_fetched
      BY <2>3
    <3>3. f[1].addr = Skipped(PC_reg)
      BY <2>3, <3>2 DEF Leading
    <3> QED BY <1>3, <2>2, <3>1, <3>2, <3>3
  <2>8. L2 >= 1 => Path'[1].addr = Skipped(arch_NPC')
    <3>1. CASE R >= 1
      BY <2>6, <3>1
    <3>2. CASE R = 0
      <4>1. L2 >= 1 => l >= 1 /\ R + 1 = 1
        BY <2>2, <2>3, <3>2
      <4> QED BY <2>5, <2>7, <3>2, <4>1
    <3> QED BY <2>4, <3>1, <3>2
  <2>9. \A k \in 1 .. (L2 - 1) : Path'[k + 1].addr = Skipped(Path'[k].to)
    <3> SUFFICES ASSUME NEW k \in 1 .. (L2 - 1)
                 PROVE  Path'[k + 1].addr = Skipped(Path'[k].to)
      OBVIOUS
    <3>1. CASE k < R
      <4>1. k \in 1 .. R /\ k + 1 \in 1 .. R /\ k + r \in 1 .. (L - 1) /\ (k + 1) + r = (k + r) + 1
        BY <1>3, <1>5, <2>4, <3>1
      <4> QED BY <1>3, <2>2, <4>1
    <3>2. CASE k = R
      <4>1. R >= 1 /\ l >= 1
        BY <2>2, <2>3, <2>4, <3>2
      <4> QED BY <2>6, <2>7, <3>2, <4>1
    <3>3. CASE k > R
      <4>1. l = 2 /\ k = R + 1 /\ k + 1 = R + 2 /\ 1 \in 1 .. l /\ 2 \in 1 .. l
        BY <2>2, <2>3, <2>4, <3>3
      <4>2. ~br.pred_wrong /\ ~halt_fetched
        BY <2>3, <4>1
      <4>3. f[2].addr = Skipped(Onward(f[1]))
        BY <2>3, <4>1, <4>2 DEF Leading, l
      <4> QED BY <2>2, <4>1, <4>3
    <3> QED BY <2>4, <3>1, <3>2, <3>3
\* Where the longer path leads.
  <2>10. /\ l = 0 => L2 = R /\ Leads' = Leads
         /\ l >= 1 => L2 >= 1 /\ Leads' = Onward(f[l]) /\ Path'[L2].addr = f[l].addr
    <3>1. l = 0 => L2 = R /\ Leads' = Leads
      <4>1. l = 0 => L2 = R
        BY <2>2, <2>4
      <4>2. R = 0 \/ R >= 1
        BY <2>4
      <4> QED BY <1>4, <2>5, <2>6, <4>1, <4>2
    <3>2. l >= 1 => L2 >= 1 /\ l \in 1 .. l /\ L2 = R + l
      BY <2>2, <2>3, <2>4
    <3>3. l >= 1 => Path'[L2].to = Onward(f[l]) /\ Path'[L2].addr = f[l].addr /\ L2 # 0 /\ L2 >= 1
      BY <1>4, <2>2, <3>2
    <3> QED BY <1>4, <3>1, <3>3
  <2>11. halt_fetched' => L2 = 0 \/ KindAt(Path'[L2].addr) = "halt"
    <3>1. CASE ~br.pred_wrong /\ ~halt_fetched
      <4>1. halt_fetched' => l >= 1 /\ KindAt(f[l].addr) = "halt"
        BY <2>3, <3>1
      <4> QED BY <2>10, <4>1
    <3>2. CASE ~br.pred_wrong /\ halt_fetched
      <4>1. l = 0 /\ (L2 = 0 \/ R >= 1) /\ L2 = R
        BY <2>3, <2>4, <2>10, <3>2
      <4>2. R >= 1 => L # 0
        BY <1>5, <2>4
      <4> QED BY <1>3, <2>6, <3>2, <4>1, <4>2
    <3> QED BY <2>3, <3>1, <3>2
  <2>12. ~halt_fetched' => Skipped(PC_reg') = Skipped(Leads')
    <3>1. CASE br.pred_wrong
      <4>1. l = 0
        BY <2>3, <3>1
      <4> QED BY <1>3, <2>3, <2>10, <3>1, <4>1
    <3>2. CASE ~br.pred_wrong /\ ~halt_fetched
      <4>1. CASE l = 0
        <5>1. Skipped(PC_reg) = Skipped(PC_reg')
          BY <2>3, <3>2, <4>1 DEF Leading
        <5> QED BY <1>3, <2>10, <3>2, <4>1, <5>1
      <4>2. CASE l >= 1
        <5>1. f # <<>>
          BY <2>3, <4>2
        <5>2. ~halt_fetched' => KindAt(f[l].addr) # "halt"
          BY <2>3, <3>2, <5>1
        <5>3. ~halt_fetched' => Skipped(PC_reg') = Skipped(Onward(f[l]))
          BY <2>3, <3>2, <5>1, <5>2 DEF Leading, l
        <5> QED BY <2>10, <4>2, <5>3
      <4> QED BY <2>3, <4>1, <4>2
    <3> QED BY <2>3, <3>1, <3>2
  <2> QED BY <1>4, <1>7, <2>8, <2>9, <2>11, <2>12
<1> QED BY <1>6, <1>7

(***************************************************************************)
(* The theorems.                                                              *)
(***************************************************************************)
LEMMA StepIInv == IInv /\ [SafeNext]_vars => IInv'
<1> SUFFICES ASSUME IInv, [SafeNext]_vars PROVE IInv'
  OBVIOUS
<1>1. CASE SafeNext
  <2>1. PICK n \in Deliveries, d \in Dispatches, x \in Executions, retires \in Retirements :
          Move(n, d, x, retires)
    BY <1>1 DEF SafeNext
  <2>2. PICK npc : /\ IF x = 0 THEN npc = Unresolved ELSE npc \in Outcomes(flight[x])
                   /\ Cycle(n, d, x, npc, retires)
    BY <2>1 DEF Move
  <2>3. Taking(n, d, x, npc, retires)
    BY <2>1, <2>2 DEF Taking, Deliveries
  <2> QED BY <2>3, StepBase, StepOnePath DEF IInv
<1>2. CASE UNCHANGED vars
  <2>1. /\ UNCHANGED <<ib_head, ib_tail, numIns_buffer, ib_buffer>>
        /\ UNCHANGED <<PC_reg, halt_fetched, btb, br, flight, arch_NPC>>
    BY <1>2 DEF vars, if_vars, bp_vars, ib_vars
  <2>2. RingOK'
    BY <2>1 DEF IInv, Base, RingOK, At, Noted
  <2>3. Registers'
    BY <2>1 DEF IInv, Base, Registers
  <2>4. FlightOK'
    BY <2>1 DEF IInv, Base, FlightOK, InFlight, Noted
  <2>5. Told' = Told
    BY <2>1 DEF Told, Positions
  <2>6. OneTold'
    BY <2>1, <2>5 DEF IInv, Base, OneTold
  <2>7. Kept' = Kept /\ Buffered' = Buffered
    BY <2>1, <2>5 DEF Kept, Buffered
  <2>8. Path' = Path
    BY <2>1, <2>7 DEF Path, Onward
  <2>9. Leads' = Leads
    BY <2>1, <2>8 DEF Leads
  <2>10. OnePath'
    BY <2>1, <2>8, <2>9 DEF IInv, OnePath, Skipped, Ahead, KindAt
  <2> QED BY <2>2, <2>3, <2>4, <2>6, <2>10 DEF IInv, Base
<1> QED BY <1>1, <1>2

(* The invariant: registers of their widths, a ring that holds consecutive     *)
(* words behind its head, at most one branch told of its target in a cycle,    *)
(* and OnePath (InstrBuffer.v:158-212, if_stage.v:107-177).                     *)
THEOREM IInvHolds == SafeSpec => []IInv
<1> QED BY InitIInv, StepIInv, PTL DEF SafeSpec

(* What is in flight and in the buffer is one path of the program, for every   *)
(* program: no instruction between the last retirement and PC_reg is lost,     *)
(* fetched twice or taken from a wrong path, whatever the branches turn out to *)
(* be and however they are predicted.  (if_stage.v:107-177, BP.v:214-224,      *)
(* InstrBuffer.v:158-212, branch_fu.v:95-113.)                                  *)
THEOREM OnePathHolds == SafeSpec => []OnePath
<1>1. IInv => OnePath
  BY DEF IInv
<1> QED BY <1>1, IInvHolds, PTL

LEMMA RingOffers == RingOK => OfferFits
<1> SUFFICES ASSUME RingOK, NEW full \in BOOLEAN, NEW sq \in 0 .. 2
             PROVE  LET n     == ib_nIsnBuffer(full, sq)
                        offer == ib_data(n)
                    IN  /\ n <= numIns_buffer
                        /\ Cardinality({k \in DOMAIN offer : IsStore(offer[k].addr)}) <= sq
                        /\ \A k \in DOMAIN offer : IsBranch(offer[k].addr) => ~full /\ k = n
  BY DEF OfferFits
<1> DEFINE n     == ib_nIsnBuffer(full, sq)
           offer == ib_data(n)
           S     == {k \in DOMAIN offer : IsStore(offer[k].addr)}
<1>1. n \in 0 .. 2 /\ n <= numIns_buffer /\ numIns_buffer \in Nat
  BY OfferCount DEF RingOK
<1>2. DOMAIN offer = 1 .. n /\ \A k \in 1 .. n : offer[k] = ib_buffer[At(ib_head, k)]
  BY <1>1, OfferIs
<1>3. \A k \in 1 .. n : /\ offer[k].branch = IsBranch(offer[k].addr)
                        /\ offer[k].wr_mem = IsStore(offer[k].addr)
  <2> SUFFICES ASSUME NEW k \in 1 .. n PROVE Noted(offer[k])
    BY DEF Noted
  <2>1. k \in 1 .. numIns_buffer
    BY <1>1
  <2> QED BY <1>2, <2>1 DEF RingOK
<1>4. /\ n >= 1 => offer[1] = AtHead
      /\ n >= 2 => offer[2] = AtHead1
  <2>1. /\ ib_head \in Nat /\ ib_head < 2 * IB_SIZE /\ ib_head < IB_SIZE /\ IB_SIZE \in Nat
        /\ ib_head + 1 - 1 = ib_head /\ ib_head + 2 - 1 = ib_head + 1
    BY InstrBufferAssumption DEF RingOK, IB_PTR
  <2>2. At(ib_head, 1) = ib_head /\ At(ib_head, 2) = IBWrap(ib_head + 1)
    BY <2>1, IBWrapIs DEF At
  <2>3. (n >= 1 => 1 \in 1 .. n) /\ (n >= 2 => 2 \in 1 .. n)
    BY <1>1
  <2> HIDE DEF n, offer
  <2> QED BY <1>2, <2>2, <2>3 DEF AtHead, AtHead1
<1>5. n <= branchLimit(full) /\ n <= storeLimit(sq)
  <2>1. branchLimit(full) \in 0 .. 2 /\ storeLimit(sq) \in 0 .. 2
    BY DEF branchLimit, storeLimit
  <2> HIDE DEF branchLimit, storeLimit
  <2> QED BY <1>1, <2>1 DEF ib_nIsnBuffer, Smaller
<1> DEFINE b1 == AtHead.branch
           b2 == AtHead1.branch
           w1 == AtHead.wr_mem
           w2 == AtHead1.wr_mem
<1>6. /\ n >= 1 /\ b1 => ~full /\ n = 1
      /\ n = 2 /\ b2 => ~full
      /\ n >= 1 /\ w1 => sq >= 1
      /\ n = 2 /\ w2 => sq >= 1
      /\ n = 2 /\ w1 /\ w2 => sq = 2
  <2> HIDE DEF n
  <2> QED BY <1>1, <1>5 DEF branchLimit, storeLimit
<1> HIDE DEF n, offer, S
<1>7. \A k \in 1 .. n : k = 1 \/ (k = 2 /\ n = 2)
  BY <1>1
<1>8. \A k \in 1 .. n : IsBranch(offer[k].addr) => ~full /\ k = n
  <2> SUFFICES ASSUME NEW k \in 1 .. n, IsBranch(offer[k].addr) PROVE ~full /\ k = n
    OBVIOUS
  <2>1. offer[k].branch
    BY <1>3
  <2>2. CASE k = 1
    <3>1. n >= 1 /\ b1
      BY <1>1, <1>4, <2>1, <2>2
    <3> QED BY <1>6, <2>2, <3>1
  <2>3. CASE k = 2 /\ n = 2
    <3>1. b2 /\ n >= 2
      BY <1>4, <2>1, <2>3
    <3> QED BY <1>6, <2>3, <3>1
  <2> QED BY <1>7, <2>2, <2>3
<1>9. \A k \in S : /\ k \in 1 .. n
                   /\ k = 1 => w1 /\ n >= 1
                   /\ k = 2 => w2 /\ n = 2
  <2> SUFFICES ASSUME NEW k \in S
               PROVE  /\ k \in 1 .. n
                      /\ k = 1 => w1 /\ n >= 1
                      /\ k = 2 => w2 /\ n = 2
    OBVIOUS
  <2>1. k \in 1 .. n /\ offer[k].wr_mem
    BY <1>2, <1>3 DEF S
  <2>2. (k = 1 => n >= 1) /\ (k = 2 => n = 2 /\ n >= 2)
    BY <1>1, <2>1
  <2> QED BY <1>4, <2>1, <2>2
<1>10. Cardinality(S) <= sq
  <2>1. 1 \in Int /\ 2 \in Int /\ ~(1 > 2) /\ 2 - 1 + 1 = 2
    OBVIOUS
  <2>2. IsFiniteSet(1 .. 2) /\ Cardinality(1 .. 2) = 2
    BY <2>1, FS_Interval
  <2>3. CASE S = {}
    BY <2>3, FS_EmptySet
  <2>4. CASE \E k : S = {k}
    <3>1. PICK k : S = {k}
      BY <2>4
    <3>2. Cardinality(S) = 1
      BY <3>1, FS_Singleton
    <3>3. sq >= 1
      BY <1>6, <1>7, <1>9, <3>1
    <3> QED BY <3>2, <3>3
  <2>5. CASE S # {} /\ ~\E k : S = {k}
    <3>1. 1 \in S /\ 2 \in S
      <4>1. PICK k \in S : TRUE
        BY <2>5
      <4>2. PICK j \in S : j # k
        BY <2>5
      <4> QED BY <1>7, <1>9, <4>1, <4>2
    <3>2. sq = 2
      BY <1>6, <1>9, <3>1
    <3>3. S \subseteq 1 .. 2
      BY <1>1, <1>9
    <3>4. Cardinality(S) <= 2
      BY <2>2, <3>3, FS_Subset
    <3> QED BY <3>2, <3>4
  <2> QED BY <2>3, <2>4, <2>5
<1> QED BY <1>1, <1>2, <1>8, <1>10 DEF n, offer, S

(* What the buffer offers fits, for every state of the ring and whatever its    *)
(* unused slots hold.  (InstrBuffer.v:78-153.)                                  *)
THEOREM OfferFitsHolds == SafeSpec => []OfferFits
<1>1. IInv => OfferFits
  BY RingOffers DEF IInv, Base
<1> QED BY <1>1, IInvHolds, PTL
=============================================================================
