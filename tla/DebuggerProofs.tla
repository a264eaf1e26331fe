--------------------------- MODULE DebuggerProofs ---------------------------
(***************************************************************************)
(* The visual debugger, for every length of the history, every number of    *)
(* registers and every length of the simulation.                            *)
(***************************************************************************)
EXTENDS DebuggerProps, FiniteSetTheorems, SequenceTheorems, WellFoundedInduction, TLAPS

(***************************************************************************)
(* The invariant.                                                           *)
(***************************************************************************)
\* The q-th line of a record, and the record in the pipe of which lines have
\* been read.
Size == NUM_REGS + 2
LineAt(k, q) ==
  IF q = 1 THEN HeadLine(k) ELSE IF q = Size THEN Break ELSE RegLine(q - 1, k)
Gone == Size - Len(writepipe)

\* Whose turn it is: the child has answered and the parent goes on, or the
\* parent has printed a record or DONE and waits.
Answered ==
  /\ writepipe = <<>>
  /\ \/ sim = "wait" /\ readpipe = <<"n", "0", "0">>
     \/ sim = "bytes" /\ readpipe = <<"0", "0">>
     \/ sim = "clock" /\ readpipe = <<>>
Announced == sim = "wait" /\ readpipe = <<>> /\ writepipe = <<DONE>>
Printed ==
  /\ sim = "wait" /\ readpipe = <<>> /\ edges >= 1
  /\ Gone \in 0 .. (Size - 1)
  /\ \A p \in DOMAIN writepipe : writepipe[p] = LineAt(edges, Gone + p)
Idle == sim = "wait" /\ readpipe = <<>> /\ writepipe = <<>>
Filling == Printed /\ Gone >= 1

Protocol ==
  IF done_received THEN Idle
  ELSE Answered \/ Announced \/ (Printed /\ (child = "keys" => Gone = 0))

\* What has been read of the present record is in its slot.
Partial ==
  /\ reg_num = (IF Filling THEN Gone - 1 ELSE 0)
  /\ Filling =>
       /\ contents[history_num].head = edges
       /\ \A n \in 1 .. reg_num : contents[history_num].regs[n] = [reg |-> n, edge |-> edges]
Names ==
  /\ Len(reg_names) = (IF setup_registers THEN NUM_REGS ELSE reg_num)
  /\ \A n \in 1 .. Len(reg_names) : reg_names[n] = n

\* The slot d before s.
Back(s, d) == IF s >= d THEN s - d ELSE s - d + NUM_HISTORY
Slots ==
  /\ Received \in Nat
  /\ ~done_received =>
       /\ history_num = Received % NUM_HISTORY
       /\ IF time_wrapped THEN Received >= NUM_HISTORY ELSE Received = history_num
Ring ==
  \A j \in 0 .. (NUM_HISTORY - 1) :
    j < Received /\ (j < NUM_HISTORY - 1 \/ ~Filling) =>
      contents[Back(Received % NUM_HISTORY, j + 1)] = Whole(Received - j)
\* No slot holds a mixture but the one that is being filled.
Clean ==
  \A s \in Slot :
    \/ contents[s] = Blank \/ \E k \in Edge : contents[s] = Whole(k)
    \/ Filling /\ s = history_num

\* A slot that the user may look at.
Written(s) == done_received \/ time_wrapped \/ s < history_num
Look  == child = "keys" => Written(hist_num_temp)
Modes == echo_data = ~running

Live == Protocol /\ Partial /\ Names /\ Slots /\ Ring /\ Clean /\ Modes
IInv == TypeOK /\ (child # "ended" => Live)
\* What the user sees, when no goto leaves slot 0 backwards before the ring is full.
View == Look /\ SeesARecord
Sight == IInv /\ View

(***************************************************************************)
(* The ring's arithmetic.                                                   *)
(***************************************************************************)
LEMMA ModUnique ==
  ASSUME NEW N \in Nat, N >= 1, NEW x \in Int, NEW q \in Int, NEW r \in Nat, r < N,
         x = N * q + r
  PROVE  x % N = r
OBVIOUS

LEMMA ModDiv ==
  ASSUME NEW N \in Nat, N >= 1, NEW x \in Int
  PROVE  /\ x % N \in Nat /\ x % N < N
         /\ x \div N \in Int /\ x = N * (x \div N) + (x % N)
OBVIOUS

\* Near the ring, the remainder is one addition.
LEMMA SlotIs ==
  ASSUME NEW x \in Int, 0 - NUM_HISTORY <= x, x < 2 * NUM_HISTORY
  PROVE  x % NUM_HISTORY = IF x < 0 THEN x + NUM_HISTORY
                           ELSE IF x >= NUM_HISTORY THEN x - NUM_HISTORY ELSE x
BY DebuggerAssumption

LEMMA CModIs ==
  ASSUME NEW x \in Int, -1 <= x, x < NUM_HISTORY
  PROVE  CMod(x) = x
BY SlotIs, DebuggerAssumption DEF CMod

LEMMA SlotOf ==
  ASSUME NEW R \in Nat
  PROVE  /\ R % NUM_HISTORY \in Slot
         /\ R < NUM_HISTORY => R % NUM_HISTORY = R
<1>1. R % NUM_HISTORY \in Nat /\ R % NUM_HISTORY < NUM_HISTORY
  BY ModDiv, DebuggerAssumption
<1> QED BY <1>1, SlotIs, DebuggerAssumption DEF Slot

LEMMA NextSlot ==
  ASSUME NEW R \in Nat
  PROVE  (R + 1) % NUM_HISTORY = ((R % NUM_HISTORY) + 1) % NUM_HISTORY
<1> DEFINE N == NUM_HISTORY
           q == R \div N
           r == R % N
<1>1. N \in Nat /\ N >= 2
  BY DebuggerAssumption
<1>2. r \in Nat /\ r < N /\ q \in Int /\ R = N * q + r
  BY <1>1, ModDiv
<1> HIDE DEF q, r
<1>3. CASE r + 1 < N
  <2>1. R + 1 = N * q + (r + 1) /\ r + 1 \in Nat
    BY <1>1, <1>2
  <2>2. (R + 1) % N = r + 1 /\ (r + 1) % N = r + 1
    BY <1>1, <1>2, <1>3, <2>1, ModUnique, SlotIs
  <2> QED BY <2>2 DEF r
<1>4. CASE r + 1 >= N
  <2>1. r + 1 = N
    BY <1>1, <1>2, <1>4
  <2>2. N * (q + 1) = N * q + N /\ q + 1 \in Int
    BY <1>1, <1>2
  <2>3. R + 1 = N * (q + 1) + 0
    BY <1>1, <1>2, <2>1, <2>2
  <2>4. (R + 1) % N = 0
    BY <1>1, <1>2, <2>2, <2>3, ModUnique
  <2>5. (r + 1) % N = 0
    BY <1>1, <2>1, SlotIs
  <2> QED BY <2>4, <2>5 DEF r
<1> QED BY <1>1, <1>2, <1>3, <1>4

LEMMA SlotBack ==
  ASSUME NEW R \in Nat, NEW j \in 0 .. (NUM_HISTORY - 1), j < R
  PROVE  (R - 1 - j) % NUM_HISTORY = Back(R % NUM_HISTORY, j + 1)
<1> DEFINE N == NUM_HISTORY
           q == R \div N
           r == R % N
           b == Back(r, j + 1)
<1>1. N \in Nat /\ N >= 2 /\ j \in Nat /\ j < N
  BY DebuggerAssumption
<1>2. r \in Nat /\ r < N /\ q \in Int /\ R = N * q + r
  BY <1>1, ModDiv
<1> HIDE DEF q, r
<1>3. CASE r >= j + 1
  <2>1. b = r - (j + 1) /\ b \in Nat /\ b < N
    BY <1>1, <1>2, <1>3 DEF Back
  <2>2. R - 1 - j = N * q + b
    BY <1>1, <1>2, <2>1
  <2> HIDE DEF b
  <2>3. (R - 1 - j) % N = b
    BY <1>1, <1>2, <2>1, <2>2, ModUnique
  <2> QED BY <2>3 DEF b, r
<1>4. CASE r < j + 1
  <2>1. b = r - (j + 1) + N /\ b \in Nat /\ b < N
    BY <1>1, <1>2, <1>4 DEF Back
  <2> DEFINE p == q - 1
  <2>2. N * p = N * q - N /\ p \in Int
    BY <1>1, <1>2
  <2> HIDE DEF p
  <2> DEFINE Np == N * p
             Nq == N * q
  <2>3. Np \in Int /\ Nq \in Int /\ Np = Nq - N /\ R = Nq + r
    BY <1>1, <1>2, <2>2
  <2> HIDE DEF Np, Nq
  <2>4. R - 1 - j = Np + b
    BY <1>1, <1>2, <2>1, <2>3
  <2>5. R - 1 - j = N * p + b
    BY <2>4 DEF Np
  <2> HIDE DEF b
  <2>6. (R - 1 - j) % N = b
    BY <1>1, <1>2, <2>1, <2>2, <2>5, ModUnique
  <2> QED BY <2>6 DEF b, r
<1> QED BY <1>1, <1>2, <1>3, <1>4

(***************************************************************************)
(* Records and the pipe.                                                    *)
(***************************************************************************)
LEMMA IsSeq ==
  ASSUME NEW S, NEW l \in Nat, NEW f \in [1 .. l -> S]
  PROVE  f \in Seq(S) /\ Len(f) = l
<1>1. f \in Seq(S) /\ DOMAIN f = 1 .. l
  OBVIOUS
<1> QED BY <1>1, LenProperties

LEMMA LineTypes ==
  ASSUME NEW k \in Edge
  PROVE  /\ \A q \in 1 .. Size : LineAt(k, q) \in Line /\ LineAt(k, q) # DONE
         /\ \A q \in 1 .. Size : LineAt(k, q) = Break <=> q = Size
         /\ DONE \in Line /\ DONE # Break
<1>1. NUM_REGS \in Nat /\ NUM_REGS >= 1 /\ MAX_EDGES \in Nat /\ k \in 0 .. MAX_EDGES
      /\ 0 \in 0 .. NUM_REGS /\ 0 \in 0 .. MAX_EDGES /\ Size \in Nat /\ Size # 1
  BY DebuggerAssumption DEF Edge, Size
<1>2. HeadLine(k) \in Line /\ HeadLine(k) # DONE /\ HeadLine(k) # Break
  BY <1>1 DEF HeadLine, DONE, Break, Line
<1>3. Break \in Line /\ DONE \in Line /\ DONE # Break
  BY <1>1 DEF DONE, Break, Line
<1>4. \A n \in 1 .. NUM_REGS :
        RegLine(n, k) \in Line /\ RegLine(n, k) # DONE /\ RegLine(n, k) # Break
  <2>1. \A n \in 1 .. NUM_REGS : n \in 0 .. NUM_REGS
    BY <1>1
  <2> QED BY <1>1, <2>1 DEF RegLine, DONE, Break, Line
<1>5. \A q \in 1 .. Size : q = 1 \/ q = Size \/ q - 1 \in 1 .. NUM_REGS
  BY <1>1 DEF Size
<1> QED BY <1>1, <1>2, <1>3, <1>4, <1>5 DEF LineAt

LEMMA RecordIs ==
  ASSUME NEW k \in Edge
  PROVE  /\ Record(k) \in Seq(Line) /\ Len(Record(k)) = Size
         /\ \A q \in 1 .. Size : Record(k)[q] = LineAt(k, q)
<1> DEFINE h == <<HeadLine(k)>>
           f == [n \in Reg |-> RegLine(n, k)]
           b == <<Break>>
           R == NUM_REGS
<1>1. R \in Nat /\ R >= 1 /\ Size = R + 2 /\ 1 \in 1 .. Size /\ Size \in 1 .. Size /\ Size # 1
  BY DebuggerAssumption DEF Size
<1>2. /\ \A q \in 1 .. Size : LineAt(k, q) \in Line
      /\ LineAt(k, 1) = HeadLine(k) /\ LineAt(k, Size) = Break
      /\ \A n \in 1 .. R : LineAt(k, n + 1) = RegLine(n, k) /\ n + 1 \in 1 .. Size
  <2>1. \A n \in 1 .. R : n + 1 # 1 /\ n + 1 # Size /\ (n + 1) - 1 = n /\ n + 1 \in 1 .. Size
    BY <1>1
  <2> QED BY <1>1, <2>1, LineTypes DEF LineAt
<1>3. h \in Seq(Line) /\ Len(h) = 1 /\ h[1] = HeadLine(k)
  BY <1>1, <1>2
<1>4. b \in Seq(Line) /\ Len(b) = 1 /\ b[1] = Break
  BY <1>1, <1>2
<1>5. f \in Seq(Line) /\ Len(f) = R /\ \A n \in 1 .. R : f[n] = RegLine(n, k)
  <2>1. \A n \in 1 .. R : RegLine(n, k) \in Line
    BY <1>2
  <2>2. f \in [1 .. R -> Line] /\ \A n \in 1 .. R : f[n] = RegLine(n, k)
    BY <2>1 DEF Reg
  <2> HIDE DEF f
  <2> QED BY <1>1, <2>2, IsSeq
<1> HIDE DEF h, f, b, R
<1>6. /\ h \o f \in Seq(Line) /\ Len(h \o f) = 1 + R
      /\ \A q \in 1 .. (1 + R) : (h \o f)[q] = IF q <= 1 THEN h[q] ELSE f[q - 1]
  <2>1. /\ h \o f \in Seq(Line) /\ Len(h \o f) = Len(h) + Len(f)
        /\ \A q \in 1 .. (Len(h) + Len(f)) :
             (h \o f)[q] = IF q <= Len(h) THEN h[q] ELSE f[q - Len(h)]
    BY <1>3, <1>5, ConcatProperties
  <2> QED BY <1>3, <1>5, <2>1
<1>7. /\ (h \o f) \o b \in Seq(Line) /\ Len((h \o f) \o b) = Size
      /\ \A q \in 1 .. Size :
           ((h \o f) \o b)[q] = IF q <= 1 + R THEN (h \o f)[q] ELSE b[q - (1 + R)]
  <2> DEFINE g == h \o f
  <2> HIDE DEF g
  <2>1. g \in Seq(Line) /\ Len(g) = 1 + R /\ (1 + R) + 1 = Size
    BY <1>1, <1>6 DEF g
  <2>2. /\ g \o b \in Seq(Line) /\ Len(g \o b) = (1 + R) + 1
        /\ \A q \in 1 .. ((1 + R) + 1) : (g \o b)[q] = IF q <= 1 + R THEN g[q] ELSE b[q - (1 + R)]
    <3>1. /\ g \o b \in Seq(Line) /\ Len(g \o b) = Len(g) + Len(b)
          /\ \A q \in 1 .. (Len(g) + Len(b)) :
               (g \o b)[q] = IF q <= Len(g) THEN g[q] ELSE b[q - Len(g)]
      BY <1>4, <2>1, ConcatProperties
    <3> QED BY <1>4, <2>1, <3>1
  <2> QED BY <2>1, <2>2 DEF g
<1>8. \A q \in 1 .. Size : ((h \o f) \o b)[q] = LineAt(k, q)
  <2> SUFFICES ASSUME NEW q \in 1 .. Size PROVE ((h \o f) \o b)[q] = LineAt(k, q)
    OBVIOUS
  <2>1. CASE q = 1
    BY <1>1, <1>2, <1>3, <1>6, <1>7, <2>1
  <2>2. CASE q = Size
    <3>1. ~(q <= 1 + R) /\ q - (1 + R) = 1
      BY <1>1, <2>2
    <3> QED BY <1>2, <1>4, <1>7, <2>2, <3>1
  <2>3. CASE q # 1 /\ q # Size
    <3>1. q <= 1 + R /\ ~(q <= 1) /\ q - 1 \in 1 .. R /\ (q - 1) + 1 = q /\ q \in 1 .. (1 + R)
      BY <1>1, <2>3
    <3> QED BY <1>2, <1>5, <1>6, <1>7, <3>1
  <2> QED BY <2>1, <2>2, <2>3
<1>9. Record(k) = (h \o f) \o b
  BY DEF Record, h, f, b
<1> QED BY <1>7, <1>8, <1>9

\* How many records have been read.
Counted ==
  /\ Received = (IF Printed THEN edges - 1 ELSE edges)
  /\ edges \in Nat /\ Size \in Nat /\ Size >= 3 /\ Len(writepipe) \in Nat
  /\ Printed => /\ Len(writepipe) = Size - Gone /\ Len(writepipe) >= 1
                /\ DOMAIN writepipe = 1 .. Len(writepipe) /\ edges \in Edge
  /\ Answered \/ Announced \/ Idle => ~Printed

LEMMA Counting == TypeOK /\ Protocol => Counted
<1> SUFFICES ASSUME TypeOK, Protocol PROVE Counted
  OBVIOUS
<1> DEFINE S == {p \in DOMAIN writepipe : writepipe[p] = Break}
<1>1. /\ edges \in 0 .. MAX_EDGES /\ MAX_EDGES \in Nat /\ Size \in Nat /\ Size >= 3
      /\ 1 \in Edge
  BY DebuggerAssumption DEF TypeOK, Size, Edge
<1>2. Len(writepipe) \in Nat /\ DOMAIN writepipe = 1 .. Len(writepipe)
  BY LenProperties DEF TypeOK
<1>3. DONE # Break /\ \A k \in Edge : \A q \in 1 .. Size :
        LineAt(k, q) # DONE /\ (LineAt(k, q) = Break <=> q = Size)
  BY <1>1, LineTypes
<1>4. ASSUME Printed
      PROVE  /\ Len(writepipe) = Size - Gone /\ Len(writepipe) >= 1
             /\ edges \in Edge /\ S = {Len(writepipe)}
             /\ writepipe[1] # DONE
  <2>1. /\ edges \in Edge /\ Gone \in 0 .. (Size - 1) /\ Gone = Size - Len(writepipe)
        /\ \A p \in 1 .. Len(writepipe) : writepipe[p] = LineAt(edges, Gone + p)
    BY <1>1, <1>2, <1>4 DEF Printed, Edge, Gone
  <2>2. Len(writepipe) = Size - Gone /\ Len(writepipe) >= 1
    BY <1>1, <1>2, <2>1
  <2>3. \A p \in 1 .. Len(writepipe) :
          Gone + p \in 1 .. Size /\ (Gone + p = Size <=> p = Len(writepipe))
    <3> DEFINE g == Gone
               l == Len(writepipe)
    <3>1. g \in Nat /\ l \in Nat /\ g + l = Size
      BY <1>1, <1>2, <2>1
    <3> HIDE DEF g, l
    <3>2. \A p \in 1 .. l : g + p \in 1 .. Size /\ (g + p = Size <=> p = l)
      BY <1>1, <3>1
    <3> QED BY <3>2 DEF g, l
  <2>4. \A p \in 1 .. Len(writepipe) :
          writepipe[p] # DONE /\ (writepipe[p] = Break <=> p = Len(writepipe))
    BY <1>3, <2>1, <2>3
  <2>5. S = {Len(writepipe)} /\ writepipe[1] # DONE
    BY <1>2, <2>2, <2>4
  <2> QED BY <2>1, <2>2, <2>5
<1>5. ASSUME writepipe = <<>> \/ writepipe = <<DONE>>
      PROVE  S = {} /\ ~Printed
  <2>1. S = {}
    BY <1>3, <1>5
  <2>2. writepipe = <<>> => Len(writepipe) = 0
    BY EmptySeq
  <2>3. writepipe = <<DONE>> => writepipe[1] = DONE
    OBVIOUS
  <2> QED BY <1>4, <1>5, <2>1, <2>2, <2>3
<1>6. Answered \/ Announced \/ Idle => writepipe = <<>> \/ writepipe = <<DONE>>
  BY DEF Answered, Announced, Idle
<1>7. Received = edges - Cardinality(S)
  BY DEF Received, Unread
<1> HIDE DEF S
<1>8. Received = IF Printed THEN edges - 1 ELSE edges
  <2>1. CASE Printed
    <3>1. Cardinality(S) = 1
      BY <1>4, <2>1, FS_Singleton
    <3> QED BY <1>1, <1>7, <2>1, <3>1
  <2>2. CASE ~Printed
    <3>1. Answered \/ Announced \/ Idle
      BY <2>2 DEF Protocol
    <3>2. Cardinality(S) = 0
      BY <1>5, <1>6, <3>1, FS_EmptySet
    <3> QED BY <1>1, <1>7, <2>2, <3>2
  <2> QED BY <2>1, <2>2
<1> QED BY <1>1, <1>2, <1>4, <1>5, <1>6, <1>8 DEF Counted

LEMMA Aside == Counted /\ (Answered \/ Announced \/ Idle) => ~Filling
BY DEF Counted, Filling

(***************************************************************************)
(* What leaves the ring alone.                                              *)
(***************************************************************************)
LEMMA RingKept ==
  ASSUME Live, ~Filling, ~Filling', Received' = Received, UNCHANGED ring
  PROVE  Partial' /\ Names' /\ Ring' /\ Clean'
<1>1. contents' = contents /\ reg_num' = reg_num /\ reg_names' = reg_names
      /\ setup_registers' = setup_registers
  BY DEF ring
<1>2. Partial'
  BY <1>1 DEF Live, Partial
<1>3. Names'
  BY <1>1 DEF Live, Names
<1>4. Ring'
  BY <1>1 DEF Live, Ring, Back
<1>5. Clean'
  BY <1>1 DEF Live, Clean
<1> QED BY <1>2, <1>3, <1>4, <1>5

LEMMA SlotsKept ==
  ASSUME Live, Received' = Received,
         \/ done_received'
         \/ ~done_received /\ history_num' = history_num /\ time_wrapped' = time_wrapped
  PROVE  Slots'
BY DEF Live, Slots

(***************************************************************************)
(* The parent.                                                              *)
(***************************************************************************)
LEMMA ParentTypes ==
  ASSUME TypeOK, Simulator
  PROVE  TypeOK'
<1>1. /\ UNCHANGED <<child, contents, reg_num, reg_names, setup_registers>>
      /\ UNCHANGED <<history_num, time_wrapped, hist_num_temp, i>>
      /\ UNCHANGED <<echo_data, running, goto_flag, cycle_flag, stop_time, done_received, screen>>
  BY DEF Simulator, ring, place, modes
<1>2. /\ sim' \in {"clock", "wait", "bytes", "ended"} /\ edges' \in 0 .. MAX_EDGES
      /\ writepipe' \in Seq(Line) /\ readpipe' \in Seq({"n", "0", "Z"})
  <2>1. CASE ClockEdge /\ UNCHANGED readpipe
    <3>1. edges' \in 0 .. MAX_EDGES /\ edges' = edges + 1 /\ edges + 1 \in Edge
      BY <2>1, DebuggerAssumption DEF ClockEdge, TypeOK, Edge
    <3>2. writepipe \o Record(edges + 1) \in Seq(Line)
      BY <3>1, RecordIs, ConcatProperties DEF TypeOK
    <3> QED BY <2>1, <3>1, <3>2 DEF ClockEdge, PrintLines, TypeOK
  <2>2. CASE ProgramDone /\ UNCHANGED readpipe
    <3>1. 1 \in Edge
      BY DebuggerAssumption DEF Edge
    <3>2. <<DONE>> \in Seq(Line)
      BY <3>1, LineTypes
    <3>3. writepipe \o <<DONE>> \in Seq(Line)
      BY <3>2, ConcatProperties DEF TypeOK
    <3> QED BY <2>2, <3>3 DEF ProgramDone, PrintLines, TypeOK
  <2>3. CASE waitforresponse /\ UNCHANGED writepipe
    <3>1. Tail(readpipe) \in Seq({"n", "0", "Z"})
      BY <2>3, HeadTailProperties DEF waitforresponse, TypeOK
    <3>2. sim' \in {"clock", "wait", "bytes", "ended"}
      BY <2>3 DEF waitforresponse
    <3> QED BY <2>3, <3>1, <3>2 DEF waitforresponse, TypeOK
  <2>4. CASE ReadBytes /\ UNCHANGED writepipe
    <3>1. SubSeq(readpipe, 3, Len(readpipe)) \in Seq({"n", "0", "Z"})
      <4>1. Len(readpipe) \in Nat /\ \A p \in 3 .. Len(readpipe) : readpipe[p] \in {"n", "0", "Z"}
        BY LenProperties DEF TypeOK
      <4> QED BY <4>1, SubSeqProperties
    <3> QED BY <2>4, <3>1 DEF ReadBytes, TypeOK
  <2> QED BY <2>1, <2>2, <2>3, <2>4 DEF Simulator
<1> QED BY <1>1, <1>2 DEF TypeOK

\* A step of the parent leaves the child's view alone when the protocol goes on.
LEMMA ParentLive ==
  ASSUME TypeOK, Live, Simulator, Protocol', ~Filling, ~Filling', Received' = Received
  PROVE  Live'
<1>1. /\ UNCHANGED <<child, contents>> /\ UNCHANGED ring
      /\ UNCHANGED <<history_num, time_wrapped, hist_num_temp>>
      /\ UNCHANGED <<echo_data, running, done_received, screen>>
  BY DEF Simulator, ring, place, modes
<1>2. Partial' /\ Names' /\ Ring' /\ Clean'
  BY <1>1, RingKept
<1>3. Slots'
  BY <1>1, SlotsKept
<1>4. Modes'
  BY <1>1 DEF Live, Modes
<1> QED BY <1>2, <1>3, <1>4 DEF Live

LEMMA ParentView ==
  ASSUME View, Simulator
  PROVE  View'
BY DEF View, Simulator, ring, place, modes, Look, Written, SeesARecord, Waiting

LEMMA ParentStep ==
  ASSUME IInv, Simulator
  PROVE  IInv'
<1>1. TypeOK /\ TypeOK' /\ child' = child
  BY ParentTypes DEF IInv, Simulator
<1> SUFFICES ASSUME child # "ended" PROVE Live'
  BY <1>1 DEF IInv
<1>2. Live /\ Protocol /\ Counted /\ done_received' = done_received
  BY Counting DEF IInv, Live, Simulator
<1>3. /\ sim = "clock" => Answered /\ ~done_received /\ readpipe = <<>> /\ writepipe = <<>>
      /\ sim = "bytes" => Answered /\ ~done_received /\ readpipe = <<"0", "0">> /\ writepipe = <<>>
      /\ sim = "wait" /\ readpipe # <<>> =>
           Answered /\ ~done_received /\ readpipe = <<"n", "0", "0">> /\ writepipe = <<>>
  BY <1>2 DEF Protocol, Answered, Announced, Printed, Idle
<1>4. edges \in 0 .. MAX_EDGES
  BY <1>1 DEF TypeOK
<1>5. SUFFICES Protocol' /\ ~Filling /\ ~Filling' /\ (Counted' => Received' = Received)
  <2>1. Protocol' => Counted'
    BY <1>1, Counting, PTL
  <2> QED BY <1>1, <1>2, <2>1, ParentLive
<1>6. CASE ClockEdge /\ UNCHANGED readpipe
  <2>1. /\ Answered /\ ~done_received /\ readpipe = <<>> /\ writepipe = <<>>
        /\ edges' = edges + 1 /\ edges + 1 \in Edge
    BY <1>3, <1>4, <1>6, DebuggerAssumption DEF ClockEdge, Edge
  <2>2. sim' = "wait" /\ writepipe' = Record(edges + 1)
    <3>1. <<>> \o Record(edges + 1) = Record(edges + 1)
      BY <2>1, RecordIs, ConcatEmptySeq
    <3> QED BY <1>6, <2>1, <3>1 DEF ClockEdge, PrintLines
  <2>3. /\ Len(writepipe') = Size /\ DOMAIN writepipe' = 1 .. Size
        /\ \A p \in 1 .. Size : writepipe'[p] = LineAt(edges', p)
    BY <2>1, <2>2, RecordIs, LenProperties
  <2>4. Gone' = 0 /\ 0 \in 0 .. (Size - 1) /\ edges' >= 1 /\ \A p \in 1 .. Size : 0 + p = p
    BY <1>2, <1>4, <2>1, <2>3 DEF Counted, Gone, Size
  <2>5. Printed'
    BY <1>6, <2>1, <2>2, <2>3, <2>4 DEF Printed, LineAt, Size
  <2>6. Protocol'
    BY <1>2, <2>1, <2>4, <2>5 DEF Protocol
  <2>7. ~Filling /\ ~Filling'
    BY <1>2, <2>1, <2>4, Aside DEF Filling
  <2>8. Counted' => Received' = Received
    <3>1. Received = edges
      BY <1>2, <2>1 DEF Counted
    <3>2. Counted' => Received' = edges' - 1
      BY <2>5 DEF Counted
    <3> QED BY <1>4, <2>1, <3>1, <3>2
  <2> QED BY <2>6, <2>7, <2>8
<1>7. ASSUME Answered, ~done_received, Answered' \/ Announced', edges' = edges
      PROVE  Protocol' /\ ~Filling /\ ~Filling' /\ (Counted' => Received' = Received)
  <2>1. Protocol'
    BY <1>2, <1>7 DEF Protocol
  <2>2. Counted'
    BY <1>1, <2>1, Counting, PTL
  <2>3. ~Filling /\ ~Filling'
    BY <1>2, <1>7, <2>2, Aside DEF Counted, Filling
  <2>4. Received = edges /\ Received' = edges'
    BY <1>2, <1>7, <2>2 DEF Counted
  <2> QED BY <1>7, <2>1, <2>3, <2>4
<1>8. CASE ProgramDone /\ UNCHANGED readpipe
  <2>1. Answered /\ ~done_received /\ readpipe = <<>> /\ writepipe = <<>>
    BY <1>3, <1>8 DEF ProgramDone
  <2>2. sim' = "wait" /\ writepipe' = <<DONE>> /\ edges' = edges
    <3>1. <<>> \o <<DONE>> = <<DONE>>
      BY ConcatEmptySeq
    <3> QED BY <1>8, <2>1, <3>1 DEF ProgramDone, PrintLines
  <2>3. Announced'
    BY <1>8, <2>1, <2>2 DEF Announced
  <2> QED BY <1>7, <2>1, <2>2, <2>3
<1>9. CASE waitforresponse /\ UNCHANGED writepipe
  <2>1. Answered /\ ~done_received /\ readpipe = <<"n", "0", "0">> /\ writepipe = <<>>
    BY <1>3, <1>9 DEF waitforresponse
  <2>2. Head(readpipe) = "n" /\ Tail(readpipe) = <<"0", "0">>
    BY <2>1
  <2>3. sim' = "bytes" /\ readpipe' = <<"0", "0">> /\ edges' = edges
    BY <1>9, <2>2 DEF waitforresponse
  <2>4. Answered'
    BY <1>9, <2>1, <2>3 DEF Answered
  <2> QED BY <1>7, <2>1, <2>3, <2>4
<1>10. CASE ReadBytes /\ UNCHANGED writepipe
  <2>1. Answered /\ ~done_received /\ readpipe = <<"0", "0">> /\ writepipe = <<>>
    BY <1>3, <1>10 DEF ReadBytes
  <2>2. SubSeq(readpipe, 3, Len(readpipe)) = <<>>
    BY <2>1
  <2>3. sim' = "clock" /\ readpipe' = <<>> /\ edges' = edges
    BY <1>10, <2>2 DEF ReadBytes
  <2>4. Answered'
    BY <1>10, <2>1, <2>3 DEF Answered
  <2> QED BY <1>7, <2>1, <2>3, <2>4
<1> QED BY <1>6, <1>8, <1>9, <1>10 DEF Simulator

(***************************************************************************)
(* The child reads.                                                         *)
(***************************************************************************)
LEMMA BlankIs == Blank \in Contents /\ \A k \in Edge : Whole(k) \in Contents
<1>1. /\ 0 \in 0 .. NUM_REGS /\ 0 \in 0 .. MAX_EDGES
      /\ \A n \in Reg : n \in 0 .. NUM_REGS
      /\ \A k \in Edge : k \in 0 .. MAX_EDGES
  BY DebuggerAssumption DEF Reg, Edge
<1>2. Blank \in Contents
  BY <1>1 DEF Blank, None, Contents
<1>3. \A k \in Edge : Whole(k) \in Contents
  BY <1>1 DEF Whole, Contents
<1> QED BY <1>2, <1>3

Screens == [slot : -1 .. (NUM_HISTORY - 1), shows : Contents]

LEMMA Drawn ==
  ASSUME TypeOK, NEW s \in -1 .. (NUM_HISTORY - 1), Parsedata(s)
  PROVE  screen' \in Screens /\ screen'.slot = s /\ (s \in Slot => screen'.shows = contents[s])
<1>1. screen' = [slot |-> s, shows |-> IF s \in Slot THEN contents[s] ELSE Blank]
  BY DEF Parsedata
<1>2. (IF s \in Slot THEN contents[s] ELSE Blank) \in Contents
  BY BlankIs DEF TypeOK
<1> HIDE DEF Blank
<1> QED BY <1>1, <1>2 DEF Screens

\* What is ready for the user.
LEMMA ReadyIs ==
  ASSUME TypeOK, Modes, NEW done \in BOOLEAN, Ready(done)
  PROVE  /\ history_num' \in Slot /\ hist_num_temp' \in Slot /\ time_wrapped' \in BOOLEAN
         /\ running' \in BOOLEAN /\ Modes' /\ screen' \in Screens /\ child' = "keys"
         /\ UNCHANGED <<i, goto_flag, cycle_flag, stop_time>>
         /\ ~done => /\ history_num' = (history_num + 1) % NUM_HISTORY
                     /\ hist_num_temp' = history_num
                     /\ time_wrapped' = (time_wrapped \/ history_num + 1 = NUM_HISTORY)
         /\ ~running' => \/ /\ screen'.slot = hist_num_temp'
                            /\ screen'.shows = contents[hist_num_temp']
                         \/ done /\ screen'.slot = -1
<1> DEFINE N == NUM_HISTORY
           h == history_num
           ending == ~echo_data /\ done
           shown  == IF ending THEN CMod(h - 1) ELSE h
           next   == (shown + 1) % N
           back   == IF next = 0 THEN N - 1 ELSE next - 1
<1>1. /\ IF ending THEN running' = FALSE /\ echo_data' = TRUE
                   ELSE UNCHANGED <<running, echo_data>>
      /\ IF echo_data' THEN Parsedata(shown) ELSE UNCHANGED screen
      /\ history_num' = next
      /\ time_wrapped' = (time_wrapped \/ shown + 1 = N)
      /\ hist_num_temp' = back
      /\ child' = "keys" /\ UNCHANGED <<i, goto_flag, cycle_flag, stop_time>>
  BY DEF Ready
<1>2. /\ h \in Nat /\ h < N /\ N \in Nat /\ N >= 2 /\ echo_data \in BOOLEAN /\ running \in BOOLEAN
      /\ screen \in Screens /\ time_wrapped \in BOOLEAN /\ echo_data = ~running
      /\ \A s \in Int : s \in Slot <=> 0 <= s /\ s < N
  BY DebuggerAssumption DEF TypeOK, Slot, Screens, Modes
<1> HIDE DEF N
<1>3. shown \in Int /\ -1 <= shown /\ shown < N /\ (~ending => shown = h)
  <2>1. CMod(h - 1) = h - 1
    BY <1>2, CModIs DEF N
  <2> QED BY <1>2, <2>1
<1> HIDE DEF shown
<1>4. next = IF shown + 1 = N THEN 0 ELSE shown + 1
  BY <1>2, <1>3, SlotIs DEF N
<1>5. next \in Slot /\ back \in Slot /\ (shown >= 0 => back = shown)
  <2>1. 0 <= next /\ next < N /\ next \in Int
    BY <1>2, <1>3, <1>4
  <2>2. 0 <= back /\ back < N /\ back \in Int /\ (shown >= 0 => back = shown)
    BY <1>2, <1>3, <1>4, <2>1
  <2> HIDE DEF back, next
  <2> QED BY <1>2, <2>1, <2>2
<1> HIDE DEF next, back
<1>6. running' \in BOOLEAN /\ echo_data' \in BOOLEAN /\ echo_data' = ~running'
  BY <1>1, <1>2
<1>7. time_wrapped' \in BOOLEAN
  BY <1>1
<1>8. screen' \in Screens /\
        (~running' => \/ /\ screen'.slot = hist_num_temp'
                         /\ screen'.shows = contents[hist_num_temp']
                      \/ done /\ screen'.slot = -1)
  <2>1. CASE echo_data'
    <3>1. shown \in -1 .. (NUM_HISTORY - 1)
      BY <1>2, <1>3 DEF N
    <3>2. /\ screen' \in Screens /\ screen'.slot = shown
          /\ shown \in Slot => screen'.shows = contents[shown]
      BY <1>1, <2>1, <3>1, Drawn
    <3>3. CASE shown >= 0
      BY <1>1, <1>2, <1>3, <1>5, <3>2, <3>3
    <3>4. CASE shown < 0
      <4>1. shown = -1 /\ ending
        BY <1>2, <1>3, <3>4
      <4> QED BY <3>2, <4>1
    <3> QED BY <1>3, <3>3, <3>4
  <2>2. CASE ~echo_data'
    BY <1>1, <1>2, <1>6, <2>2
  <2> QED BY <2>1, <2>2
<1>9. ~done => /\ history_num' = (h + 1) % N /\ hist_num_temp' = h
               /\ time_wrapped' = (time_wrapped \/ h + 1 = N)
  <2> SUFFICES ASSUME ~done PROVE /\ history_num' = (h + 1) % N /\ hist_num_temp' = h
                                  /\ time_wrapped' = (time_wrapped \/ h + 1 = N)
    OBVIOUS
  <2>1. shown = h /\ shown >= 0
    BY <1>2, <1>3
  <2> QED BY <1>1, <1>5, <2>1 DEF next
<1> QED BY <1>1, <1>5, <1>6, <1>7, <1>8, <1>9 DEF N, Modes

\* The line that is read, and those behind it.
LEMMA LineRead ==
  ASSUME TypeOK, Live, Printed
  PROVE  /\ Gone \in Nat /\ Gone < Size /\ edges \in Edge
         /\ Head(writepipe) = LineAt(edges, Gone + 1)
         /\ Tail(writepipe) \in Seq(Line) /\ Len(Tail(writepipe)) = Size - (Gone + 1)
         /\ \A p \in 1 .. (Size - (Gone + 1)) : Tail(writepipe)[p] = LineAt(edges, (Gone + 1) + p)
<1>1. /\ Len(writepipe) = Size - Gone /\ Len(writepipe) >= 1 /\ Len(writepipe) \in Nat
      /\ DOMAIN writepipe = 1 .. Len(writepipe) /\ edges \in Edge /\ Size \in Nat
  BY Counting DEF Counted, Live
<1>2. Gone \in Nat /\ Gone < Size
  BY <1>1 DEF Printed
<1>3. \A p \in 1 .. Len(writepipe) : writepipe[p] = LineAt(edges, Gone + p)
  BY <1>1 DEF Printed
<1> DEFINE g == Gone
<1> HIDE DEF g
<1>4. writepipe # <<>> /\ writepipe \in Seq(Line)
  BY <1>1, EmptySeq DEF TypeOK
<1>5. /\ Tail(writepipe) \in Seq(Line) /\ Len(Tail(writepipe)) = Len(writepipe) - 1
      /\ \A p \in 1 .. Len(Tail(writepipe)) : Tail(writepipe)[p] = writepipe[p + 1]
      /\ Head(writepipe) = writepipe[1]
  BY <1>4, HeadTailProperties
<1>6. /\ Len(writepipe) - 1 = Size - (g + 1) /\ 1 \in 1 .. Len(writepipe)
      /\ \A p \in 1 .. (Size - (g + 1)) : p + 1 \in 1 .. Len(writepipe) /\ (g + 1) + p = g + (p + 1)
  BY <1>1, <1>2 DEF g
<1>7. Head(writepipe) = LineAt(edges, Gone + 1)
  BY <1>3, <1>5, <1>6
<1>8. \A p \in 1 .. (Size - (Gone + 1)) : Tail(writepipe)[p] = LineAt(edges, (Gone + 1) + p)
  BY <1>3, <1>5, <1>6 DEF g
<1> QED BY <1>1, <1>2, <1>5, <1>6, <1>7, <1>8 DEF g

\* A line of the record that is not its last one.
LEMMA MidRecord ==
  ASSUME TypeOK, Live, Printed, ~done_received, ~done_received', Gone + 1 < Size,
         writepipe' = Tail(writepipe), child = "loop", UNCHANGED <<sim, edges, readpipe, child>>
  PROVE  Printed' /\ Gone' = Gone + 1 /\ Filling' /\ Protocol'
<1> DEFINE g == Gone
           t == Tail(writepipe)
<1>1. /\ g \in Nat /\ g < Size /\ t \in Seq(Line) /\ Len(t) = Size - (g + 1)
      /\ \A p \in 1 .. (Size - (g + 1)) : t[p] = LineAt(edges, (g + 1) + p)
      /\ Size \in Nat
  BY LineRead, DebuggerAssumption DEF Size
<1>2. DOMAIN t = 1 .. (Size - (g + 1))
  BY <1>1, LenProperties
<1>3. Gone' = Size - Len(t)
  BY DEF Gone, Size
<1> HIDE DEF g, t
<1>4. Gone' = g + 1 /\ g + 1 \in 0 .. (Size - 1) /\ g + 1 >= 1
  BY <1>1, <1>3 DEF g
<1>5. writepipe' = t
  BY DEF t
<1>6. \A p \in DOMAIN writepipe' : writepipe'[p] = LineAt(edges', Gone' + p)
  BY <1>1, <1>2, <1>4, <1>5
<1>7. Printed'
  BY <1>4, <1>6 DEF Printed, LineAt, Size
<1> QED BY <1>4, <1>7 DEF Filling, Protocol, g

\* The slot that is filled is none of the last ones.
LEMMA RingOther ==
  ASSUME TypeOK, Live, ~done_received, Received' = Received, Filling', history_num' = history_num,
         \A s \in Slot : s # history_num => contents'[s] = contents[s]
  PROVE  Ring' /\ Clean'
<1> DEFINE h == history_num
           N == NUM_HISTORY
<1>1. /\ Received \in Nat /\ h = Received % N /\ h \in Slot /\ N \in Nat /\ N >= 2
  BY DebuggerAssumption DEF Live, Slots, TypeOK
<1>2. \A j \in 0 .. (N - 2) : Back(h, j + 1) \in Slot /\ Back(h, j + 1) # h
  BY <1>1 DEF Back, Slot
<1>3. Ring'
  <2> SUFFICES ASSUME NEW j \in 0 .. (N - 1), j < Received, j < N - 1
               PROVE  contents'[Back(h, j + 1)] = Whole(Received - j)
    BY <1>1 DEF Ring, Back
  <2>1. j \in 0 .. (N - 2)
    BY <1>1
  <2>2. contents[Back(h, j + 1)] = Whole(Received - j)
    BY <1>1 DEF Live, Ring
  <2> QED BY <1>2, <2>1, <2>2
<1>4. Clean'
  <2> SUFFICES ASSUME NEW s \in Slot, s # h
               PROVE  contents'[s] = Blank \/ \E k \in Edge : contents'[s] = Whole(k)
    BY DEF Clean
  <2>1. contents'[s] = contents[s]
    OBVIOUS
  <2> QED BY <2>1 DEF Live, Clean
<1> QED BY <1>3, <1>4

\* The record so far, with its registers in their order.
LEMMA HeadRead ==
  ASSUME TypeOK, Live, child = "loop", ~done_received, Fgets, Printed, Gone = 0
  PROVE  TypeOK' /\ Live' /\ View'
<1> DEFINE h == history_num
           line == Head(writepipe)
<1>1. /\ edges \in Edge /\ edges \in 0 .. MAX_EDGES /\ Size \in Nat /\ Size >= 3
      /\ line = HeadLine(edges) /\ Tail(writepipe) \in Seq(Line)
  <2>1. line = LineAt(edges, 0 + 1) /\ Size >= 3 /\ Size \in Nat
    BY LineRead, DebuggerAssumption DEF Size
  <2> QED BY <2>1, LineRead DEF LineAt, TypeOK
<1>2. line.tag = "t" /\ line.edge = edges /\ line # DONE
  BY <1>1 DEF HeadLine, DONE
<1>3. /\ writepipe' = Tail(writepipe) /\ done_received' = FALSE
      /\ contents' = [contents EXCEPT ![h].head = edges]
      /\ UNCHANGED <<reg_num, reg_names, setup_registers>>
      /\ UNCHANGED <<sim, edges, readpipe, child, screen>>
      /\ UNCHANGED <<history_num, time_wrapped, hist_num_temp, i>>
      /\ UNCHANGED <<echo_data, running, goto_flag, cycle_flag, stop_time>>
  <2>1. writepipe' = Tail(writepipe) /\ done_received' = FALSE /\ UNCHANGED parent
    BY <1>2 DEF Fgets
  <2>2. ProcessHead(line)
    BY <1>2 DEF Fgets
  <2>3. UNCHANGED <<readpipe, child, place, modes, screen>>
    BY <1>2 DEF Fgets
  <2> QED BY <1>2, <2>1, <2>2, <2>3 DEF ProcessHead, parent, place, modes
<1> HIDE DEF line
<1>4. h \in Slot /\ contents \in [Slot -> Contents]
  BY DEF TypeOK
<1>5. /\ contents' \in [Slot -> Contents] /\ contents'[h].head = edges
      /\ \A s \in Slot : s # h => contents'[s] = contents[s]
  <2>1. [contents[h] EXCEPT !.head = edges] \in Contents
    BY <1>1, <1>4 DEF Contents
  <2> QED BY <1>3, <1>4, <2>1
<1>6. TypeOK'
  BY <1>1, <1>3, <1>5 DEF TypeOK
<1>7. Printed' /\ Gone' = 1 /\ Filling' /\ Protocol'
  BY <1>1, <1>3, MidRecord
<1>8. Counted /\ Counted'
  BY <1>6, <1>7, Counting, PTL DEF Live
<1>9. Received' = Received
  BY <1>3, <1>7, <1>8 DEF Counted
<1>10. reg_num = 0
  BY DEF Live, Partial, Filling
<1>11. Partial'
  <2>1. \A n \in 1 .. 0 : FALSE
    OBVIOUS
  <2> QED BY <1>3, <1>5, <1>7, <1>10, <2>1 DEF Partial
<1>12. Names'
  BY <1>3 DEF Live, Names
<1>13. Slots'
  BY <1>3, <1>9, SlotsKept
<1>14. Ring' /\ Clean'
  BY <1>3, <1>5, <1>7, <1>9, RingOther
<1>15. Modes'
  BY <1>3 DEF Live, Modes
<1>16. View'
  BY <1>3 DEF View, Look, SeesARecord, Waiting
<1> QED BY <1>6, <1>7, <1>11, <1>12, <1>13, <1>14, <1>15, <1>16 DEF Live

LEMMA AppendIs ==
  ASSUME NEW S, NEW s \in Seq(S), NEW e \in S
  PROVE  /\ Append(s, e) \in Seq(S) /\ Len(Append(s, e)) = Len(s) + 1
         /\ Append(s, e)[Len(s) + 1] = e
         /\ \A n \in 1 .. Len(s) : Append(s, e)[n] = s[n]
<1>1. Len(s) \in Nat
  BY LenProperties
<1> QED BY <1>1, AppendProperties

LEMMA RegisterRead ==
  ASSUME TypeOK, Live, child = "loop", ~done_received, Fgets, Printed,
         Gone # 0, Gone # Size - 1
  PROVE  TypeOK' /\ Live' /\ View'
<1> DEFINE h == history_num
           line == Head(writepipe)
           g == Gone
<1>1. /\ edges \in Edge /\ edges \in 0 .. MAX_EDGES /\ Size \in Nat /\ Size = NUM_REGS + 2
      /\ NUM_REGS \in Nat /\ g \in Nat /\ g < Size /\ Tail(writepipe) \in Seq(Line)
      /\ line = LineAt(edges, g + 1)
  BY LineRead, DebuggerAssumption DEF Size, TypeOK
<1> HIDE DEF g
<1>2. g \in 1 .. NUM_REGS /\ g + 1 # 1 /\ g + 1 # Size /\ (g + 1) - 1 = g /\ g + 1 < Size
      /\ (g - 1) + 1 = g /\ g \in 0 .. NUM_REGS
  BY <1>1 DEF g
<1>3. line = RegLine(g, edges)
  BY <1>1, <1>2 DEF LineAt
<1>4. /\ line.tag = "f" /\ line.reg = g /\ line # DONE
      /\ Value(line) = [reg |-> g, edge |-> edges]
  BY <1>3 DEF RegLine, DONE, Value
<1>5. Filling /\ reg_num = g - 1 /\ reg_num + 1 = g /\ g \in Reg
  BY <1>1, <1>2 DEF Live, Partial, Filling, g, Reg
<1>6. /\ writepipe' = Tail(writepipe) /\ done_received' = FALSE
      /\ contents' = [contents EXCEPT ![h].regs[g] = [reg |-> g, edge |-> edges]]
      /\ reg_names' = (IF setup_registers THEN reg_names ELSE Append(reg_names, g))
      /\ reg_num' = g
      /\ UNCHANGED setup_registers
      /\ UNCHANGED <<sim, edges, readpipe, child, screen>>
      /\ UNCHANGED <<history_num, time_wrapped, hist_num_temp, i>>
      /\ UNCHANGED <<echo_data, running, goto_flag, cycle_flag, stop_time>>
  <2>1. writepipe' = Tail(writepipe) /\ done_received' = FALSE /\ UNCHANGED parent
    BY <1>4 DEF Fgets
  <2>2. ProcessRegister(line)
    BY <1>4 DEF Fgets
  <2>3. UNCHANGED <<readpipe, child, place, modes, screen>>
    BY <1>4 DEF Fgets
  <2> QED BY <1>4, <1>5, <2>1, <2>2, <2>3 DEF ProcessRegister, parse_register, parent, place, modes
<1> HIDE DEF line
<1>7. h \in Slot /\ contents \in [Slot -> Contents]
  BY DEF TypeOK
<1>8. /\ contents' \in [Slot -> Contents]
      /\ contents'[h].head = contents[h].head
      /\ contents'[h].regs[g] = [reg |-> g, edge |-> edges]
      /\ \A n \in Reg : n # g => contents'[h].regs[n] = contents[h].regs[n]
      /\ \A s \in Slot : s # h => contents'[s] = contents[s]
  <2> DEFINE V == [reg : 0 .. NUM_REGS, edge : 0 .. MAX_EDGES]
             old == contents[h]
             new == [old EXCEPT !.regs = [old.regs EXCEPT ![g] = [reg |-> g, edge |-> edges]]]
  <2>1. old.regs \in [Reg -> V] /\ old.head \in 0 .. MAX_EDGES /\ old \in Contents
    BY <1>7 DEF Contents
  <2>2. [reg |-> g, edge |-> edges] \in V
    BY <1>1, <1>2
  <2>3. [old.regs EXCEPT ![g] = [reg |-> g, edge |-> edges]] \in [Reg -> V]
    BY <1>5, <2>1, <2>2
  <2>4. /\ new \in Contents /\ new.head = old.head
        /\ new.regs = [old.regs EXCEPT ![g] = [reg |-> g, edge |-> edges]]
    BY <2>1, <2>3 DEF Contents
  <2>5. /\ new.regs[g] = [reg |-> g, edge |-> edges]
        /\ \A n \in Reg : n # g => new.regs[n] = old.regs[n]
    BY <1>5, <2>1, <2>4
  <2>6. contents' = [contents EXCEPT ![h] = new]
    BY <1>6
  <2> HIDE DEF new, old
  <2>7. /\ contents' \in [Slot -> Contents] /\ contents'[h] = new
        /\ \A s \in Slot : s # h => contents'[s] = contents[s]
    BY <1>7, <2>4, <2>6
  <2> QED BY <2>4, <2>5, <2>7 DEF old
<1>9. Names /\ Partial /\ reg_names \in Seq(Reg) /\ setup_registers \in BOOLEAN
  BY DEF Live, TypeOK
<1>10. /\ reg_names' \in Seq(Reg) /\ Len(reg_names') <= NUM_REGS
       /\ Names'
  <2>1. CASE setup_registers
    BY <1>6, <1>9, <2>1 DEF Names, TypeOK
  <2>2. CASE ~setup_registers
    <3>1. /\ Len(reg_names) = g - 1 /\ reg_names' = Append(reg_names, g)
          /\ \A n \in 1 .. (g - 1) : reg_names[n] = n
      BY <1>5, <1>6, <1>9, <2>2 DEF Names
    <3>2. /\ reg_names' \in Seq(Reg) /\ Len(reg_names') = g /\ reg_names'[g] = g
          /\ \A n \in 1 .. (g - 1) : reg_names'[n] = reg_names[n]
      BY <1>2, <1>5, <1>9, <3>1, AppendIs
    <3>3. \A n \in 1 .. g : n = g \/ n \in 1 .. (g - 1)
      BY <1>2
    <3>4. \A n \in 1 .. g : reg_names'[n] = n
      BY <3>1, <3>2, <3>3
    <3> QED BY <1>1, <1>2, <1>6, <2>2, <3>2, <3>4 DEF Names
  <2> QED BY <2>1, <2>2
<1>11. TypeOK'
  BY <1>1, <1>2, <1>6, <1>8, <1>10 DEF TypeOK
<1>12. Printed' /\ Gone' = g + 1 /\ Filling' /\ Protocol'
  BY <1>2, <1>6, MidRecord DEF g
<1>13. Counted /\ Counted'
  BY <1>11, <1>12, Counting, PTL DEF Live
<1>14. Received' = Received
  BY <1>6, <1>12, <1>13 DEF Counted
<1>15. Partial'
  <2>1. /\ contents[h].head = edges
        /\ \A n \in 1 .. (g - 1) : contents[h].regs[n] = [reg |-> n, edge |-> edges]
    BY <1>5, <1>9 DEF Partial
  <2>2. \A n \in 1 .. g : n = g \/ (n \in 1 .. (g - 1) /\ n \in Reg /\ n # g)
    BY <1>1, <1>2 DEF Reg
  <2>3. \A n \in 1 .. g : contents'[h].regs[n] = [reg |-> n, edge |-> edges]
    BY <1>8, <2>1, <2>2
  <2>4. (g + 1) - 1 = g
    BY <1>2
  <2> QED BY <1>6, <1>8, <1>12, <2>1, <2>3, <2>4 DEF Partial
<1>16. Slots'
  BY <1>6, <1>14, SlotsKept
<1>17. Ring' /\ Clean'
  BY <1>6, <1>8, <1>12, <1>14, RingOther
<1>18. Modes'
  BY <1>6 DEF Live, Modes
<1>19. View'
  BY <1>6 DEF View, Look, SeesARecord, Waiting
<1> QED BY <1>10, <1>11, <1>12, <1>15, <1>16, <1>17, <1>18, <1>19 DEF Live

\* What TypeOK says of what Ready leaves alone.
LEMMA ReadyTypes ==
  ASSUME TypeOK, Modes, NEW done \in BOOLEAN, Ready(done), UNCHANGED parent,
         writepipe' \in Seq(Line), UNCHANGED <<contents, reg_names>>,
         reg_num' \in 0 .. NUM_REGS, setup_registers' \in BOOLEAN, done_received' \in BOOLEAN
  PROVE  TypeOK'
<1>1. readpipe' \in Seq({"n", "0", "Z"})
  <2>1. <<"n", "0", "0">> \in Seq({"n", "0", "Z"}) /\ readpipe \in Seq({"n", "0", "Z"})
    BY DEF TypeOK
  <2>2. readpipe \o <<"n", "0", "0">> \in Seq({"n", "0", "Z"})
    BY <2>1, ConcatProperties
  <2> QED BY <2>1, <2>2 DEF Ready
<1>2. /\ history_num' \in Slot /\ hist_num_temp' \in Slot /\ time_wrapped' \in BOOLEAN
      /\ running' \in BOOLEAN /\ Modes' /\ screen' \in Screens /\ child' = "keys"
      /\ UNCHANGED <<i, goto_flag, cycle_flag, stop_time>>
  BY ReadyIs
<1>3. echo_data' \in BOOLEAN /\ UNCHANGED <<sim, edges, contents, reg_names>>
  BY <1>2 DEF Modes, parent
<1> QED BY <1>1, <1>2, <1>3 DEF TypeOK, Screens

\* The record is whole.
LEMMA BreakRead ==
  ASSUME TypeOK, Live, child = "loop", ~done_received, Fgets, Printed, Gone = Size - 1
  PROVE  TypeOK' /\ Live' /\ View'
<1> DEFINE h == history_num
           N == NUM_HISTORY
           line == Head(writepipe)
<1>1. /\ edges \in Edge /\ edges \in 0 .. MAX_EDGES /\ Size \in Nat /\ Size = NUM_REGS + 2
      /\ NUM_REGS \in Nat /\ NUM_REGS >= 1 /\ edges \in Nat /\ edges >= 1
      /\ (Size - 1) + 1 = Size /\ Size # 1 /\ Size - Size = 0
      /\ N \in Nat /\ N >= 2
  BY LineRead, DebuggerAssumption DEF Size, TypeOK, Edge
<1>2. line = Break /\ Tail(writepipe) \in Seq(Line) /\ Len(Tail(writepipe)) = 0
  <2>1. /\ line = LineAt(edges, Gone + 1) /\ Tail(writepipe) \in Seq(Line)
        /\ Len(Tail(writepipe)) = Size - (Gone + 1)
    BY LineRead
  <2> QED BY <1>1, <2>1 DEF LineAt
<1>3. Tail(writepipe) = <<>> /\ line.tag = "break" /\ line # DONE
  <2>1. Tail(writepipe) = <<>>
    BY <1>2, EmptySeq
  <2>2. line.tag = "break" /\ line # DONE
    BY <1>2 DEF Break, DONE
  <2> QED BY <2>1, <2>2
<1>4. /\ writepipe' = <<>> /\ done_received' = FALSE /\ Ready(FALSE)
      /\ setup_registers' = TRUE /\ reg_num' = 0
      /\ UNCHANGED <<contents, reg_names>> /\ UNCHANGED <<sim, edges>> /\ UNCHANGED parent
  <2>1. writepipe' = Tail(writepipe) /\ done_received' = FALSE /\ UNCHANGED parent
    BY <1>3 DEF Fgets
  <2>2. ProcessBreak /\ Ready(FALSE)
    BY <1>3 DEF Fgets
  <2> QED BY <1>3, <2>1, <2>2 DEF ProcessBreak, parent
<1> HIDE DEF line
<1>5. TypeOK'
  <2>1. 0 \in 0 .. NUM_REGS /\ writepipe' \in Seq(Line)
    BY <1>1, <1>2, <1>3, <1>4
  <2> QED BY <1>4, <2>1, ReadyTypes DEF Live
<1>6. Answered' /\ Protocol' /\ child' = "keys"
  <2>1. sim = "wait" /\ readpipe = <<>>
    BY DEF Printed
  <2>2. <<>> \o <<"n", "0", "0">> = <<"n", "0", "0">>
    OBVIOUS
  <2>3. readpipe' = <<"n", "0", "0">> /\ child' = "keys"
    BY <1>4, <2>1, <2>2 DEF Ready
  <2> QED BY <1>4, <2>1, <2>3 DEF Answered, Protocol
<1>7. Counted /\ Counted'
  BY <1>5, <1>6, Counting, PTL DEF Live
<1>8. ~Filling' /\ Received = edges - 1 /\ Received' = Received + 1 /\ Received' = edges
      /\ Received \in Nat
  <2>1. ~Filling' /\ Received = edges - 1 /\ Received' = edges'
    BY <1>6, <1>7, Aside DEF Counted, Filling
  <2> QED BY <1>1, <1>4, <2>1
<1>9. Filling /\ reg_num = NUM_REGS
  <2>1. Filling /\ Size - 1 >= 1 /\ (Size - 1) - 1 = NUM_REGS
    BY <1>1 DEF Filling
  <2> QED BY <2>1 DEF Live, Partial
<1>10. contents[h] = Whole(edges)
  <2>1. /\ contents[h] \in Contents /\ contents[h].head = edges
        /\ \A n \in Reg : contents[h].regs[n] = [reg |-> n, edge |-> edges]
    BY <1>9 DEF Live, Partial, TypeOK, Reg
  <2>2. /\ contents[h] = [head |-> contents[h].head, regs |-> contents[h].regs]
        /\ contents[h].regs = [n \in Reg |-> contents[h].regs[n]]
    BY <2>1 DEF Contents
  <2> QED BY <2>1, <2>2 DEF Whole
<1>11. Partial'
  BY <1>4, <1>8 DEF Partial
<1>12. Names'
  BY <1>4, <1>9 DEF Live, Names
<1>13. /\ h \in Slot /\ h = Received % N
       /\ IF time_wrapped THEN Received >= N ELSE Received = h
  BY DEF Live, Slots, TypeOK
<1>14. /\ history_num' = (h + 1) % N /\ hist_num_temp' = h
       /\ time_wrapped' = (time_wrapped \/ h + 1 = N)
       /\ (~running' => \/ /\ screen'.slot = h
                           /\ screen'.shows = contents[h]
                        \/ FALSE)
       /\ Modes'
  BY <1>4, ReadyIs DEF Live
<1>15. (h + 1 = N => time_wrapped') /\ (h + 1 # N => time_wrapped' = time_wrapped)
  <2>1. time_wrapped \in BOOLEAN
    BY DEF TypeOK
  <2> QED BY <1>14, <2>1
<1>16. (h + 1) % N = IF h + 1 = N THEN 0 ELSE h + 1
  <2>1. h \in Nat /\ h < N
    BY <1>1, <1>13 DEF Slot
  <2> QED BY <1>1, <2>1, SlotIs
<1>17. Received' % N = (h + 1) % N
  BY <1>8, <1>13, NextSlot
<1>18. Slots'
  <2>1. h \in Nat /\ h < N
    BY <1>1, <1>13 DEF Slot
  <2>2. IF time_wrapped' THEN Received' >= N ELSE Received' = history_num'
    <3>1. CASE h + 1 = N
      <4>1. Received + 1 >= N
        BY <1>1, <1>8, <1>13, <2>1, <3>1
      <4> QED BY <1>8, <1>15, <3>1, <4>1
    <3>2. CASE h + 1 # N
      <4>1. IF time_wrapped THEN Received + 1 >= N ELSE Received + 1 = h + 1
        BY <1>1, <1>8, <1>13, <2>1
      <4>2. history_num' = h + 1
        BY <1>14, <1>16, <3>2
      <4> QED BY <1>8, <1>15, <3>2, <4>1, <4>2
    <3> QED BY <3>1, <3>2
  <2>3. Received' \in Nat /\ history_num' = Received' % N
    BY <1>8, <1>14, <1>17
  <2> QED BY <2>2, <2>3 DEF Slots
<1>19. Ring'
  <2> DEFINE w == (h + 1) % N
  <2>1. h \in Nat /\ h < N /\ w = (IF h + 1 = N THEN 0 ELSE h + 1)
    BY <1>1, <1>13, <1>16 DEF Slot
  <2> HIDE DEF w
  <2>2. \A j \in 0 .. (N - 1) : Back(w, j + 1) = IF j = 0 THEN h ELSE Back(h, (j - 1) + 1)
    BY <1>1, <2>1 DEF Back
  <2>3. \A j \in 0 .. (N - 1) : j # 0 /\ j < Received + 1 =>
          /\ j - 1 \in 0 .. (N - 1) /\ j - 1 < Received /\ j - 1 < N - 1
          /\ Received - (j - 1) = (Received + 1) - j
    BY <1>1, <1>8
  <2>4. \A j \in 0 .. (N - 1) : j < Received /\ j < N - 1 =>
          contents[Back(h, j + 1)] = Whole(Received - j)
    BY <1>13 DEF Live, Ring
  <2>5. \A j \in 0 .. (N - 1) : j < Received + 1 =>
          contents[Back(w, j + 1)] = Whole((Received + 1) - j)
    <3> SUFFICES ASSUME NEW j \in 0 .. (N - 1), j < Received + 1
                 PROVE  contents[Back(w, j + 1)] = Whole((Received + 1) - j)
      OBVIOUS
    <3>1. CASE j = 0
      <4>1. (Received + 1) - 0 = edges
        BY <1>1, <1>8
      <4> QED BY <1>10, <2>2, <3>1, <4>1
    <3>2. CASE j # 0
      <4>1. contents[Back(h, (j - 1) + 1)] = Whole(Received - (j - 1))
        BY <2>3, <2>4, <3>2
      <4> QED BY <2>2, <2>3, <3>2, <4>1
    <3> QED BY <3>1, <3>2
  <2> QED BY <1>4, <1>8, <1>17, <2>5 DEF Ring, Back, w
<1>20. Clean'
  <2> SUFFICES ASSUME NEW s \in Slot
               PROVE  contents[s] = Blank \/ \E k \in Edge : contents[s] = Whole(k)
    BY <1>4 DEF Clean
  <2>1. CASE s = h
    BY <1>1, <1>10, <2>1
  <2>2. CASE s # h
    BY <2>2 DEF Live, Clean
  <2> QED BY <2>1, <2>2
<1>21. Look'
  <2>1. h \in Nat /\ h < N
    BY <1>1, <1>13 DEF Slot
  <2>2. time_wrapped' \/ hist_num_temp' < history_num'
    <3>1. CASE h + 1 = N
      BY <1>15, <3>1
    <3>2. CASE h + 1 # N
      <4>1. history_num' = h + 1 /\ hist_num_temp' = h
        BY <1>14, <1>16, <3>2
      <4> QED BY <2>1, <4>1
    <3> QED BY <3>1, <3>2
  <2> QED BY <2>2 DEF Look, Written
<1>22. SeesARecord'
  BY <1>1, <1>4, <1>10, <1>14 DEF SeesARecord, Waiting
<1> QED BY <1>5, <1>6, <1>11, <1>12, <1>14, <1>18, <1>19, <1>20, <1>21, <1>22
      DEF Live, View

\* The program is done: every turn of the loop shows the next slot.
LEMMA DoneTurn ==
  ASSUME TypeOK, Live, Ready(TRUE), UNCHANGED parent, UNCHANGED ring,
         Announced \/ (Idle /\ done_received), writepipe' = <<>>, done_received' = TRUE
  PROVE  TypeOK' /\ Live' /\ View'
<1>1. UNCHANGED <<contents, reg_num, reg_names, setup_registers, sim, edges>>
  BY DEF ring, parent
<1>2. TypeOK'
  <2>1. /\ writepipe' \in Seq(Line) /\ reg_num' \in 0 .. NUM_REGS /\ setup_registers' \in BOOLEAN
        /\ done_received' \in BOOLEAN
    BY <1>1 DEF TypeOK
  <2> QED BY <1>1, <2>1, ReadyTypes DEF Live
<1>3. Idle' /\ Protocol'
  <2>1. sim = "wait" /\ readpipe = <<>> /\ readpipe' = readpipe
    BY DEF Announced, Idle, Ready
  <2> QED BY <1>1, <2>1 DEF Idle, Protocol
<1>4. Counted /\ Counted'
  BY <1>2, <1>3, Counting, PTL DEF Live
<1>5. ~Filling /\ ~Filling' /\ Received' = Received
  <2>1. ~Printed /\ ~Printed'
    BY <1>3, <1>4 DEF Counted
  <2> QED BY <1>1, <1>4, <2>1 DEF Filling, Counted
<1>6. Partial' /\ Names' /\ Ring' /\ Clean'
  BY <1>5, RingKept
<1>7. Slots'
  BY <1>5, SlotsKept
<1>8. /\ hist_num_temp' \in Slot /\ Modes'
      /\ (~running' => \/ /\ screen'.slot = hist_num_temp'
                          /\ screen'.shows = contents[hist_num_temp']
                       \/ screen'.slot = -1)
  BY ReadyIs DEF Live
<1>9. Look'
  BY DEF Look, Written
<1>10. SeesARecord'
  <2>1. contents[hist_num_temp'] = Blank \/ \E k \in Edge : contents[hist_num_temp'] = Whole(k)
    BY <1>5, <1>8 DEF Live, Clean
  <2> QED BY <1>1, <1>8, <2>1 DEF SeesARecord, Waiting
<1> QED BY <1>2, <1>3, <1>6, <1>7, <1>8, <1>9, <1>10 DEF Live, View

LEMMA FgetsStep ==
  ASSUME IInv, Fgets
  PROVE  IInv' /\ View'
<1>1. /\ TypeOK /\ Live /\ child = "loop" /\ ~done_received /\ writepipe # <<>>
  BY DEF IInv, Fgets
<1>2. Announced \/ Printed
  BY <1>1 DEF Live, Protocol, Answered
<1>3. CASE Announced
  <2>1. /\ Head(writepipe) = DONE /\ Tail(writepipe) = <<>> /\ DONE.tag = "DONE"
    BY <1>3 DEF Announced, DONE
  <2>2. UNCHANGED ring /\ Ready(TRUE)
    <3>1. DONE.tag # "t" /\ DONE.tag # "f" /\ DONE.tag # "break" /\ DONE.tag \in {"break", "DONE"}
          /\ (DONE = DONE) = TRUE
      BY <2>1
    <3> QED BY <2>1, <3>1 DEF Fgets
  <2>3. writepipe' = <<>> /\ done_received' = TRUE /\ UNCHANGED parent
    BY <2>1 DEF Fgets
  <2> QED BY <1>1, <1>3, <2>2, <2>3, DoneTurn DEF IInv
<1>4. CASE Printed
  BY <1>1, <1>4, HeadRead, RegisterRead, BreakRead DEF IInv
<1> QED BY <1>2, <1>3, <1>4

LEMMA AgainStep ==
  ASSUME IInv, Again
  PROVE  IInv' /\ View'
<1>1. /\ TypeOK /\ Live /\ Ready(TRUE) /\ UNCHANGED parent /\ UNCHANGED ring
      /\ UNCHANGED <<writepipe, done_received>> /\ done_received
  BY DEF IInv, Again
<1>2. Idle /\ writepipe = <<>>
  BY <1>1 DEF Live, Protocol, Idle
<1>3. writepipe' = <<>> /\ done_received' = TRUE
  BY <1>1, <1>2 DEF TypeOK
<1> QED BY <1>1, <1>2, <1>3, DoneTurn DEF IInv

(***************************************************************************)
(* The keys.                                                                *)
(***************************************************************************)
\* Whoever is asked for a key may look at every slot that was written.
LEMMA Seen ==
  ASSUME TypeOK, Live, child = "keys", NEW s \in Slot, Written(s)
  PROVE  \/ \E k \in Edge : contents[s] = Whole(k)
         \/ done_received /\ contents[s] = Blank
<1> DEFINE h == history_num
           N == NUM_HISTORY
<1>1. Counted /\ edges \in 0 .. MAX_EDGES /\ MAX_EDGES \in Nat
  BY Counting, DebuggerAssumption DEF Live, TypeOK
<1>2. ~Filling
  <2>1. Printed => Gone = 0
    BY <1>1 DEF Live, Protocol, Counted
  <2> QED BY <2>1 DEF Filling
<1>3. CASE done_received
  BY <1>2, <1>3 DEF Live, Clean
<1>4. CASE ~done_received
  <2>1. /\ Received \in Nat /\ h = Received % N /\ h \in Nat /\ h < N /\ N \in Nat /\ N >= 2
        /\ IF time_wrapped THEN Received >= N ELSE Received = h
        /\ s \in Nat /\ s < N
    BY <1>4, DebuggerAssumption DEF Live, Slots, TypeOK, Slot
  <2>2. Received <= MAX_EDGES
    <3>1. edges \in Nat /\ edges <= MAX_EDGES /\ (Received = edges \/ Received = edges - 1)
      BY <1>1 DEF Counted
    <3> QED BY <1>1, <3>1
  <2> DEFINE j == IF s < h THEN h - 1 - s ELSE h - 1 - s + N
  <2>3. j \in 0 .. (N - 1) /\ Back(h, j + 1) = s
    BY <2>1 DEF Back
  <2>4. j < Received
    BY <1>4, <2>1 DEF Written
  <2> HIDE DEF j
  <2>5. contents[Back(h, j + 1)] = Whole(Received - j)
    BY <1>2, <2>1, <2>3, <2>4 DEF Live, Ring
  <2>6. Received - j \in Edge
    BY <1>1, <2>1, <2>2, <2>3, <2>4 DEF Edge
  <2> QED BY <2>3, <2>5, <2>6
<1> QED BY <1>3, <1>4

LEMMA KeyTypes ==
  ASSUME TypeOK, KeyFrame, UNCHANGED readpipe, child' \in {"keys", "loop"},
         hist_num_temp' \in Slot, i' \in 0 .. NUM_HISTORY, screen' \in Screens,
         echo_data' \in BOOLEAN, running' \in BOOLEAN, goto_flag' \in BOOLEAN,
         cycle_flag' \in BOOLEAN, stop_time' \in Time
  PROVE  TypeOK'
BY DEF KeyFrame, TypeOK, parent, ring, Screens

LEMMA KeyLive ==
  ASSUME TypeOK, Live, child = "keys", KeyFrame, UNCHANGED readpipe,
         child' \in {"keys", "loop"}, Modes'
  PROVE  Live'
<1>1. /\ UNCHANGED <<sim, edges, writepipe, readpipe, done_received>>
      /\ UNCHANGED <<contents, history_num, time_wrapped>> /\ UNCHANGED ring
  BY DEF KeyFrame, parent, ring
<1>2. Gone' = Gone /\ Printed' = Printed /\ Filling' = Filling /\ Received' = Received
  <2>1. Gone' = Gone
    BY <1>1 DEF Gone, Size
  <2>2. Printed' = Printed
    BY <1>1, <2>1 DEF Printed, LineAt, Size
  <2> QED BY <1>1, <2>1, <2>2 DEF Filling, Received, Unread
<1>3. Protocol'
  BY <1>1, <1>2 DEF Live, Protocol, Answered, Announced, Idle
<1>4. ~Filling
  <2>1. Printed => Gone = 0
    BY Counting DEF Live, Protocol, Counted
  <2> QED BY <2>1 DEF Filling
<1>5. Partial' /\ Names' /\ Ring' /\ Clean'
  BY <1>1, <1>2, <1>4, RingKept
<1>6. Slots'
  BY <1>1, <1>2, SlotsKept DEF TypeOK
<1> QED BY <1>3, <1>5, <1>6 DEF Live

\* The slot that is drawn for the user.
LEMMA KeyLook ==
  ASSUME TypeOK, Live, child = "keys", KeyFrame, hist_num_temp' \in Slot, Written(hist_num_temp'),
         Parsedata(hist_num_temp')
  PROVE  View' /\ screen' \in Screens
<1>1. hist_num_temp' \in -1 .. (NUM_HISTORY - 1)
  BY DebuggerAssumption DEF Slot
<1>2. /\ screen' \in Screens /\ screen'.slot = hist_num_temp'
      /\ screen'.shows = contents[hist_num_temp']
  BY <1>1, Drawn
<1>3. /\ contents' = contents /\ done_received' = done_received
      /\ history_num' = history_num /\ time_wrapped' = time_wrapped
  BY DEF KeyFrame, ring
<1>4. SeesARecord'
  BY <1>2, <1>3, Seen DEF SeesARecord
<1> QED BY <1>2, <1>3, <1>4 DEF View, Look, Written

LEMMA Left ==
  ASSUME TypeOK, NEW echo \in BOOLEAN, NEW run \in BOOLEAN, NEW toTime \in BOOLEAN,
         NEW cycles \in BOOLEAN, NEW stop \in Time, NEW hist,
         Leave(echo, run, toTime, cycles, stop, hist), echo = ~run
  PROVE  /\ echo_data' \in BOOLEAN /\ running' \in BOOLEAN /\ goto_flag' \in BOOLEAN
         /\ cycle_flag' \in BOOLEAN /\ stop_time' \in Time
         /\ child' = "loop" /\ Modes' /\ View'
<1> DEFINE reached == toTime /\ (TimeAt(hist, cycles, 0) >= stop \/ done_received)
<1>1. /\ echo_data' = (echo \/ reached) /\ running' = (run /\ ~reached)
      /\ goto_flag' = (toTime /\ ~reached) /\ cycle_flag' = cycles /\ stop_time' = stop
      /\ child' = "loop" /\ reached \in BOOLEAN
  BY DEF Leave
<1> HIDE DEF reached
<1> QED BY <1>1 DEF Modes, View, Look, SeesARecord, Waiting

\* A key that goes back to the loop.
LEMMA KeyLeaves ==
  ASSUME IInv, KeyFrame, child = "keys", UNCHANGED <<readpipe, hist_num_temp>>,
         i' \in 0 .. NUM_HISTORY, screen' \in Screens,
         NEW echo \in BOOLEAN, NEW run \in BOOLEAN, NEW toTime \in BOOLEAN,
         NEW cycles \in BOOLEAN, NEW stop \in Time, NEW hist,
         Leave(echo, run, toTime, cycles, stop, hist), echo = ~run
  PROVE  IInv' /\ View'
<1>1. TypeOK /\ Live /\ hist_num_temp' \in Slot
  BY DEF IInv, TypeOK
<1>2. /\ echo_data' \in BOOLEAN /\ running' \in BOOLEAN /\ goto_flag' \in BOOLEAN
      /\ cycle_flag' \in BOOLEAN /\ stop_time' \in Time
      /\ child' = "loop" /\ Modes' /\ View'
  BY <1>1, Left
<1>3. TypeOK'
  BY <1>1, <1>2, KeyTypes
<1> QED BY <1>1, <1>2, <1>3, KeyLive DEF IInv

\* A key after which the user is asked again.
LEMMA KeyStays ==
  ASSUME IInv, KeyFrame, child = "keys", UNCHANGED <<readpipe, child, running, goto_flag>>,
         i' \in 0 .. NUM_HISTORY, screen' \in Screens, hist_num_temp' \in Slot,
         echo_data' \in BOOLEAN, cycle_flag' \in BOOLEAN, stop_time' \in Time, Modes'
  PROVE  IInv'
<1>1. TypeOK /\ Live /\ running' \in BOOLEAN /\ goto_flag' \in BOOLEAN /\ child' = "keys"
  BY DEF IInv, TypeOK
<1>2. TypeOK'
  BY <1>1, KeyTypes
<1> QED BY <1>1, <1>2, KeyLive DEF IInv

(***************************************************************************)
(* The search of a goto.                                                    *)
(***************************************************************************)
LEMMA LeastOf ==
  ASSUME NEW S \in SUBSET Nat, S # {}
  PROVE  \E k \in S : \A j \in S : k <= j
<1>1. PICK k \in S : \A j \in S : <<j, k>> \notin OpToRel(<, Nat)
  BY WFMin, NatLessThanWellFounded, Zenon
<1>2. \A j \in S : ~(j < k)
  BY <1>1, Zenon DEF OpToRel
<1> QED BY <1>2

\* Where the search stops.
Ends(delta, target, cycles, junk, k) ==
  \/ Probe(delta, k) = history_num
  \/ Hit(Probe(delta, k), delta, target, cycles, junk)
  \/ Bottom(Probe(delta, k), delta)

LEMMA ProbeIs ==
  ASSUME TypeOK, NEW delta \in {1, -1}, NEW k \in Slot
  PROVE  /\ Probe(delta, k) \in Slot
         /\ delta = 1 => Probe(delta, k) =
              IF hist_num_temp + k + 1 >= NUM_HISTORY THEN hist_num_temp + k + 1 - NUM_HISTORY
              ELSE hist_num_temp + k + 1
         /\ delta = -1 => Probe(delta, k) =
              IF hist_num_temp - k - 1 < 0 THEN hist_num_temp - k - 1 + NUM_HISTORY
              ELSE hist_num_temp - k - 1
<1> DEFINE N == NUM_HISTORY
           t == hist_num_temp
           x == t + delta * (k + 1)
<1>1. N \in Nat /\ N >= 2 /\ t \in Nat /\ t < N /\ k \in Nat /\ k < N
  BY DebuggerAssumption DEF TypeOK, Slot
<1>2. /\ delta = 1 => x = t + k + 1
      /\ delta = -1 => x = t - k - 1
  BY <1>1
<1> HIDE DEF x
<1>3. x \in Int /\ 0 - N <= x /\ x < 2 * N
  BY <1>1, <1>2
<1>4. x % N = IF x < 0 THEN x + N ELSE IF x >= N THEN x - N ELSE x
  BY <1>3, SlotIs
<1>5. Probe(delta, k) = x % N
  BY DEF Probe, x
<1>6. x % N \in Slot
  BY <1>1, <1>3, <1>4 DEF Slot
<1>7. delta = 1 => x % N = IF t + k + 1 >= N THEN t + k + 1 - N ELSE t + k + 1
  BY <1>1, <1>2, <1>4
<1>8. delta = -1 => x % N = IF t - k - 1 < 0 THEN t - k - 1 + N ELSE t - k - 1
  BY <1>1, <1>2, <1>4
<1> QED BY <1>5, <1>6, <1>7, <1>8

\* It stops, and at the first place where it may.
LEMMA SearchIs ==
  ASSUME TypeOK, NEW delta \in {1, -1}, NEW target, NEW cycles, NEW junk
  PROVE  \E k \in Slot : /\ SearchEnds(delta, target, cycles, junk) = Probe(delta, k)
                         /\ \A j \in 0 .. (k - 1) : ~Ends(delta, target, cycles, junk, j)
<1> DEFINE N == NUM_HISTORY
           t == hist_num_temp
           h == history_num
           E(k) == Ends(delta, target, cycles, junk, k)
           S == {k \in Slot : E(k)}
           First(k) == E(k) /\ \A j \in 0 .. (k - 1) : ~E(j)
<1>1. /\ N \in Nat /\ N >= 2 /\ t \in Nat /\ t < N /\ h \in Nat /\ h < N
      /\ \A k \in Int : k \in Slot <=> 0 <= k /\ k < N
  BY DebuggerAssumption DEF TypeOK, Slot
<1>2. \E k \in Slot : Probe(delta, k) = h
  <2>1. CASE delta = 1
    <3> DEFINE k == IF h - t - 1 >= 0 THEN h - t - 1 ELSE h - t - 1 + N
    <3>1. /\ k \in Slot
          /\ h = IF t + k + 1 >= N THEN t + k + 1 - N ELSE t + k + 1
      BY <1>1
    <3> HIDE DEF k
    <3> QED BY <2>1, <3>1, ProbeIs
  <2>2. CASE delta = -1
    <3> DEFINE k == IF t - h - 1 >= 0 THEN t - h - 1 ELSE t - h - 1 + N
    <3>1. /\ k \in Slot
          /\ h = IF t - k - 1 < 0 THEN t - k - 1 + N ELSE t - k - 1
      BY <1>1
    <3> HIDE DEF k
    <3> QED BY <2>2, <3>1, ProbeIs
  <2> QED BY <2>1, <2>2
<1>3. S # {} /\ S \in SUBSET Nat
  <2>1. \E k \in Slot : E(k)
    BY <1>2 DEF Ends
  <2> QED BY <2>1 DEF Slot
<1>4. PICK k \in S : \A j \in S : k <= j
  BY <1>3, LeastOf
<1>5. First(k) /\ k \in Slot
  <2> SUFFICES ASSUME NEW j \in 0 .. (k - 1) PROVE ~E(j)
    BY <1>4
  <2>1. k \in Slot /\ k \in Nat /\ k < NUM_HISTORY
    BY <1>1, <1>4, DebuggerAssumption DEF Slot
  <2>2. j \in Slot /\ ~(k <= j)
    BY <1>1, <2>1
  <2> QED BY <1>4, <2>2
<1>6. \E m \in Slot : First(m)
  BY <1>5
<1>7. SearchEnds(delta, target, cycles, junk) = Probe(delta, CHOOSE m \in Slot : First(m))
  BY DEF SearchEnds, Ends
<1> HIDE DEF E
<1>8. (CHOOSE m \in Slot : First(m)) \in Slot /\ First(CHOOSE m \in Slot : First(m))
  BY <1>6
<1> QED BY <1>7, <1>8 DEF E

\* A record that is found was written.
LEMMA FoundWritten ==
  ASSUME TypeOK, Look, child = "keys", NEW delta \in {1, -1}, NEW target, NEW cycles, NEW junk,
         hist_num_temp # 0 \/ time_wrapped \/ delta = 1,
         SearchEnds(delta, target, cycles, junk) # history_num
  PROVE  Written(SearchEnds(delta, target, cycles, junk))
<1> DEFINE N == NUM_HISTORY
           t == hist_num_temp
           h == history_num
           s == SearchEnds(delta, target, cycles, junk)
<1> SUFFICES ASSUME ~done_received, ~time_wrapped PROVE s < h
  BY DEF Written
<1>1. /\ N \in Nat /\ N >= 2 /\ t \in Nat /\ t < N /\ h \in Nat /\ h < N
      /\ \A k \in Int : k \in Slot <=> 0 <= k /\ k < N
  BY DebuggerAssumption DEF TypeOK, Slot
<1>2. t < h
  BY DEF Look, Written
<1>3. PICK k \in Slot : s = Probe(delta, k)
                        /\ \A j \in 0 .. (k - 1) : ~Ends(delta, target, cycles, junk, j)
  BY SearchIs
<1> HIDE DEF s
<1>4. CASE delta = 1
  <2> DEFINE m == h - t - 1
  <2>1. m \in Slot /\ m \in Nat
    BY <1>1, <1>2
  <2>2. Probe(delta, m) = h
    <3>1. t + m + 1 = h /\ ~(h >= N)
      BY <1>1
    <3> HIDE DEF m
    <3> QED BY <1>4, <2>1, <3>1, ProbeIs
  <2>3. Ends(delta, target, cycles, junk, m)
    BY <2>2 DEF Ends
  <2>4. ~(m \in 0 .. (k - 1))
    BY <1>3, <2>3
  <2>5. k <= m /\ k \in Nat
    <3>1. k \in Nat
      BY <1>3, DebuggerAssumption DEF Slot
    <3> HIDE DEF m
    <3> QED BY <2>1, <2>4, <3>1
  <2>6. t + k + 1 <= h /\ ~(t + k + 1 >= N) /\ t + k + 1 \in Nat
    BY <1>1, <2>5
  <2>7. s = t + k + 1
    BY <1>3, <1>4, <2>6, ProbeIs
  <2>8. s # h
    BY DEF s
  <2> QED BY <1>1, <2>6, <2>7, <2>8
<1>5. CASE delta = -1
  <2> DEFINE m == t - 1
  <2>1. m \in Slot /\ m \in Nat
    BY <1>1, <1>5
  <2>2. Probe(delta, m) = 0
    <3>1. t - m - 1 = 0
      BY <1>1
    <3> HIDE DEF m
    <3> QED BY <1>5, <2>1, <3>1, ProbeIs
  <2>3. Ends(delta, target, cycles, junk, m)
    BY <1>5, <2>2 DEF Ends, Bottom
  <2>4. ~(m \in 0 .. (k - 1))
    BY <1>3, <2>3
  <2>5. k <= m /\ k \in Nat
    <3>1. k \in Nat
      BY <1>3, DebuggerAssumption DEF Slot
    <3> HIDE DEF m
    <3> QED BY <2>1, <2>4, <3>1
  <2>6. ~(t - k - 1 < 0) /\ t - k - 1 < h
    BY <1>1, <1>2, <2>5
  <2>7. s = t - k - 1
    BY <1>3, <1>5, <2>6, ProbeIs
  <2> QED BY <2>6, <2>7
<1> QED BY <1>4, <1>5

(***************************************************************************)
(* Every key.                                                               *)
(***************************************************************************)
LEMMA KeyFacts ==
  ASSUME IInv, child = "keys"
  PROVE  /\ TypeOK /\ Live /\ hist_num_temp \in Slot /\ (View => Written(hist_num_temp))
         /\ i \in 0 .. NUM_HISTORY /\ screen \in Screens /\ echo_data \in BOOLEAN
         /\ running \in BOOLEAN /\ goto_flag \in BOOLEAN /\ cycle_flag \in BOOLEAN
         /\ stop_time \in Time /\ echo_data = ~running
BY DEF IInv, TypeOK, Live, View, Look, Modes, Screens

LEMMA RunningKeys ==
  ASSUME IInv, Poll \/ KeyPauseRun
  PROVE  IInv' /\ View'
<1>1. child = "keys" /\ KeyFrame /\ UNCHANGED <<readpipe, hist_num_temp, i>>
  BY DEF Poll, KeyPauseRun
<1>2. /\ TypeOK /\ hist_num_temp \in Slot
      /\ i' \in 0 .. NUM_HISTORY /\ screen \in Screens /\ echo_data \in BOOLEAN
      /\ running \in BOOLEAN /\ goto_flag \in BOOLEAN /\ cycle_flag \in BOOLEAN
      /\ stop_time \in Time /\ echo_data = ~running
  BY <1>1, KeyFacts
<1>3. CASE Poll
  <2>1. /\ Leave(echo_data, running, goto_flag, cycle_flag, stop_time, hist_num_temp)
        /\ screen' \in Screens
    BY <1>2, <1>3 DEF Poll
  <2> QED BY <1>1, <1>2, <2>1, KeyLeaves
<1>4. CASE KeyPauseRun
  <2>1. /\ Leave(TRUE, FALSE, goto_flag, cycle_flag, stop_time, hist_num_temp)
        /\ Parsedata(hist_num_temp)
    BY <1>4 DEF KeyPauseRun
  <2>2. screen' \in Screens
    <3>1. hist_num_temp \in -1 .. (NUM_HISTORY - 1)
      BY <1>2, DebuggerAssumption DEF Slot
    <3> QED BY <1>2, <2>1, <3>1, Drawn
  <2>3. TRUE \in BOOLEAN /\ FALSE \in BOOLEAN /\ TRUE = ~FALSE
    OBVIOUS
  <2> QED BY <1>1, <1>2, <2>1, <2>2, <2>3, KeyLeaves
<1> QED BY <1>3, <1>4

\* The keys that show a slot: the same, the next, the one before.
LEMMA ShowingKeys ==
  ASSUME IInv, KeyPause \/ KeyForward \/ KeyBack
  PROVE  IInv' /\ (View => View')
<1> DEFINE N == NUM_HISTORY
           h == history_num
           t == hist_num_temp
<1>1. /\ child = "keys" /\ ~running /\ KeyFrame
      /\ UNCHANGED <<readpipe, child, running, goto_flag, cycle_flag, stop_time, i>>
      /\ echo_data' = TRUE \/ echo_data' = echo_data
  BY DEF KeyPause, KeyForward, KeyBack, Waiting, modes
<1>2. /\ TypeOK /\ Live /\ t \in Slot /\ (View => Written(t))
      /\ i' \in 0 .. NUM_HISTORY /\ echo_data \in BOOLEAN
      /\ running \in BOOLEAN /\ cycle_flag' \in BOOLEAN
      /\ stop_time' \in Time /\ echo_data = ~running
  BY <1>1, KeyFacts
<1>3. echo_data' \in BOOLEAN /\ Modes'
  BY <1>1, <1>2 DEF Modes
<1>4. /\ N \in Nat /\ N >= 2 /\ t \in Nat /\ t < N /\ h \in Nat /\ h < N
      /\ \A k \in Int : k \in Slot <=> 0 <= k /\ k < N
      /\ t \in Int /\ h \in Int
  BY <1>2, DebuggerAssumption DEF TypeOK, Slot
<1>5. hist_num_temp' \in Slot /\ (View => Written(hist_num_temp')) /\ Parsedata(hist_num_temp')
  <2>1. CASE KeyPause
    BY <1>2, <2>1 DEF KeyPause
  <2>2. CASE KeyForward
    <3>1. /\ t # CMod(h - 1) /\ hist_num_temp' = (t + 1) % N /\ Parsedata(hist_num_temp')
      BY <2>2 DEF KeyForward, AtPresent
    <3>2. CMod(h - 1) = h - 1
      BY <1>4, CModIs
    <3>3. (t + 1) % N = IF t + 1 >= N THEN t + 1 - N ELSE t + 1
      BY <1>4, SlotIs
    <3>4. hist_num_temp' \in Slot
      BY <1>4, <3>1, <3>3
    <3>5. t < h => hist_num_temp' < h
      BY <1>4, <3>1, <3>2, <3>3
    <3> QED BY <1>2, <3>1, <3>4, <3>5 DEF Written
  <2>3. CASE KeyBack
    <3>1. /\ \/ t > 0 /\ hist_num_temp' = t - 1
             \/ t = 0 /\ time_wrapped /\ hist_num_temp' = N - 1
          /\ Parsedata(hist_num_temp')
      BY <2>3 DEF KeyBack
    <3>2. hist_num_temp' \in Slot
      BY <1>4, <3>1
    <3>3. time_wrapped \/ (t < h => hist_num_temp' < h)
      BY <1>4, <3>1
    <3> QED BY <1>2, <3>1, <3>2, <3>3 DEF Written
  <2> QED BY <2>1, <2>2, <2>3
<1>6. screen' \in Screens
  <2>1. hist_num_temp' \in -1 .. (N - 1)
    BY <1>5, DebuggerAssumption DEF Slot
  <2> QED BY <1>2, <1>5, <2>1, Drawn
<1>7. View => View'
  BY <1>1, <1>2, <1>5, KeyLook
<1> QED BY <1>1, <1>2, <1>3, <1>5, <1>6, <1>7, KeyStays

LEMMA LeavingKeys ==
  ASSUME IInv, KeyNext \/ KeyRun
  PROVE  IInv' /\ View'
<1>1. /\ child = "keys" /\ ~running /\ KeyFrame
      /\ UNCHANGED <<readpipe, hist_num_temp, i, screen>>
  BY DEF KeyNext, KeyRun, Waiting
<1>2. /\ i' \in 0 .. NUM_HISTORY /\ screen' \in Screens /\ echo_data \in BOOLEAN
      /\ running \in BOOLEAN /\ goto_flag \in BOOLEAN /\ cycle_flag \in BOOLEAN
      /\ stop_time \in Time /\ echo_data = ~running
  BY <1>1, KeyFacts
<1>3. CASE KeyNext
  <2>1. Leave(echo_data, running, goto_flag, cycle_flag, stop_time, hist_num_temp)
    BY <1>3 DEF KeyNext
  <2> QED BY <1>1, <1>2, <2>1, KeyLeaves
<1>4. CASE KeyRun
  <2>1. Leave(FALSE, TRUE, goto_flag, cycle_flag, stop_time, hist_num_temp)
    BY <1>4 DEF KeyRun
  <2>2. TRUE \in BOOLEAN /\ FALSE \in BOOLEAN /\ FALSE = ~TRUE
    OBVIOUS
  <2> QED BY <1>1, <1>2, <2>1, <2>2, KeyLeaves
<1> QED BY <1>3, <1>4

LEMMA QuitKey ==
  ASSUME IInv, KeyQuit
  PROVE  IInv' /\ View'
<1>1. TypeOK /\ child' = "ended" /\ readpipe' = Append(readpipe, "Z") /\ KeyFrame
      /\ UNCHANGED <<modes, hist_num_temp, i, screen>>
  BY DEF IInv, KeyQuit
<1>2. readpipe' \in Seq({"n", "0", "Z"})
  <2>1. readpipe \in Seq({"n", "0", "Z"}) /\ "Z" \in {"n", "0", "Z"}
    BY <1>1 DEF TypeOK
  <2> QED BY <1>1, <2>1, AppendIs
<1>3. TypeOK'
  BY <1>1, <1>2 DEF KeyFrame, TypeOK, parent, ring, modes
<1> QED BY <1>1, <1>3 DEF IInv, View, Look, SeesARecord, Waiting

LEMMA GotoKey ==
  ASSUME IInv, NEW cycles \in BOOLEAN, NEW target \in Time, NEW junk \in Time,
         KeyGoto(cycles, target, junk)
  PROVE  IInv' /\ (View /\ ~GotoBeforeFirst => View')
<1> DEFINE delta == Direction(target, TimeAt(hist_num_temp, cycles, junk))
           skip  == CMod(hist_num_temp + delta) = history_num
           s     == IF skip THEN i ELSE SearchEnds(delta, target, cycles, junk)
           found == ~skip /\ s # history_num /\ Hit(s, delta, target, cycles, junk)
           floor == ~skip /\ s # history_num /\ ~found
           stop  == IF found \/ floor THEN 0
                    ELSE IF s = history_num /\ (delta = -1 \/ done_received) THEN 0
                    ELSE target
<1>1. /\ child = "keys" /\ ~running /\ KeyFrame /\ UNCHANGED readpipe
      /\ i' = s
      /\ hist_num_temp' = IF found THEN s ELSE hist_num_temp
      /\ IF found \/ floor THEN Parsedata(hist_num_temp') ELSE UNCHANGED screen
      /\ IF stop > 0
           THEN Leave(FALSE, TRUE, TRUE, cycles, stop, hist_num_temp)
           ELSE /\ cycle_flag' = cycles /\ stop_time' = stop
                /\ UNCHANGED <<child, echo_data, running, goto_flag>>
  BY DEF KeyGoto, Waiting
<1>2. /\ TypeOK /\ Live /\ hist_num_temp \in Slot /\ (View => Written(hist_num_temp))
      /\ i \in 0 .. NUM_HISTORY /\ screen \in Screens /\ echo_data \in BOOLEAN
      /\ running \in BOOLEAN /\ goto_flag \in BOOLEAN /\ echo_data = ~running
  BY <1>1, KeyFacts
<1>3. delta \in {1, -1}
  BY DEF Direction
<1>4. ~GotoBeforeFirst => hist_num_temp # 0 \/ time_wrapped \/ delta = 1
  <2>1. ~GotoBeforeFirst => (hist_num_temp = 0 /\ ~time_wrapped => delta # -1)
    BY DEF GotoBeforeFirst
  <2> QED BY <1>3, <2>1
<1> HIDE DEF delta, skip
<1>5. ~skip => s = SearchEnds(delta, target, cycles, junk) /\ s \in Slot
  <2> SUFFICES ASSUME ~skip PROVE SearchEnds(delta, target, cycles, junk) \in Slot
    OBVIOUS
  <2>1. \E k \in Slot : SearchEnds(delta, target, cycles, junk) = Probe(delta, k)
    BY <1>2, <1>3, SearchIs
  <2> QED BY <1>2, <1>3, <2>1, ProbeIs
<1>6. i' \in 0 .. NUM_HISTORY
  <2>1. \A k \in Slot : k \in 0 .. NUM_HISTORY
    BY DebuggerAssumption DEF Slot
  <2> QED BY <1>1, <1>2, <1>5, <2>1
<1>7. found /\ View /\ ~GotoBeforeFirst => Written(s)
  BY <1>1, <1>2, <1>3, <1>4, <1>5, FoundWritten DEF View
<1>8. stop \in Time /\ (stop > 0 => ~found /\ ~floor)
  <2>1. 0 \in Time /\ ~(0 > 0)
    BY DebuggerAssumption DEF Time
  <2> QED BY <2>1
<1> HIDE DEF s, stop
<1>9. hist_num_temp' \in Slot /\ (View /\ ~GotoBeforeFirst => Written(hist_num_temp'))
  BY <1>1, <1>2, <1>5, <1>7
<1> HIDE DEF found, floor
<1>10. CASE stop > 0
  <2>1. /\ Leave(FALSE, TRUE, TRUE, cycles, stop, hist_num_temp)
        /\ hist_num_temp' = hist_num_temp /\ screen' = screen
    BY <1>1, <1>8, <1>10
  <2>2. TRUE \in BOOLEAN /\ FALSE \in BOOLEAN /\ FALSE = ~TRUE
    OBVIOUS
  <2> QED BY <1>1, <1>2, <1>6, <1>8, <2>1, <2>2, KeyLeaves
<1>11. CASE ~(stop > 0)
  <2>1. /\ cycle_flag' \in BOOLEAN /\ stop_time' \in Time
        /\ UNCHANGED <<child, echo_data, running, goto_flag>> /\ echo_data' \in BOOLEAN
    BY <1>1, <1>2, <1>8, <1>11
  <2>2. Modes'
    BY <1>2, <2>1 DEF Modes
  <2>3. screen' \in Screens /\ (View /\ ~GotoBeforeFirst => View')
    <3>1. CASE found \/ floor
      <4>1. hist_num_temp' \in -1 .. (NUM_HISTORY - 1)
        BY <1>9, DebuggerAssumption DEF Slot
      <4>2. screen' \in Screens
        BY <1>1, <1>2, <3>1, <4>1, Drawn
      <4> QED BY <1>1, <1>2, <1>9, <3>1, <4>2, KeyLook
    <3>2. CASE ~found /\ ~floor
      <4>1. screen' = screen /\ hist_num_temp' = hist_num_temp
        BY <1>1, <3>2
      <4>2. UNCHANGED <<contents, done_received, history_num, time_wrapped>>
        BY <1>1 DEF KeyFrame, ring
      <4> QED BY <1>2, <2>1, <4>1, <4>2 DEF View, Look, Written, SeesARecord, Waiting
    <3> QED BY <3>1, <3>2
  <2> QED BY <1>1, <1>6, <1>9, <2>1, <2>2, <2>3, KeyStays
<1> QED BY <1>10, <1>11

(***************************************************************************)
(* The invariant holds.                                                     *)
(***************************************************************************)
LEMMA InitSight ==
  Init => Sight
<1> SUFFICES ASSUME Init PROVE Sight
  OBVIOUS
<1> USE DEF Init
<1>1. /\ NUM_HISTORY \in Nat /\ NUM_HISTORY >= 2 /\ NUM_REGS \in Nat /\ NUM_REGS >= 1
      /\ MAX_EDGES \in Nat /\ 0 \in Slot /\ 0 \in 0 .. NUM_REGS /\ 0 \in 0 .. MAX_EDGES
      /\ 0 \in Time /\ NUM_HISTORY \in 0 .. NUM_HISTORY /\ 0 \in -1 .. (NUM_HISTORY - 1)
  BY DebuggerAssumption DEF Slot, Time
<1>2. writepipe \in Seq(Line) /\ readpipe \in Seq({"n", "0", "Z"}) /\ reg_names \in Seq(Reg)
      /\ Len(writepipe) = 0 /\ Len(reg_names) = 0
  OBVIOUS
<1>3. /\ contents \in [Slot -> Contents]
      /\ screen \in [slot : -1 .. (NUM_HISTORY - 1), shows : Contents]
  BY <1>1, BlankIs
<1>4. TypeOK
  <2>1. /\ sim \in {"clock", "wait", "bytes", "ended"} /\ edges \in 0 .. MAX_EDGES
        /\ child \in {"loop", "keys", "ended"}
        /\ writepipe \in Seq(Line) /\ readpipe \in Seq({"n", "0", "Z"})
    BY <1>1, <1>2
  <2>2. /\ reg_num \in 0 .. NUM_REGS /\ reg_names \in Seq(Reg) /\ Len(reg_names) <= NUM_REGS
        /\ history_num \in Slot /\ hist_num_temp \in Slot /\ i \in 0 .. NUM_HISTORY
        /\ stop_time \in Time
    BY <1>1, <1>2
  <2>3. /\ setup_registers \in BOOLEAN /\ time_wrapped \in BOOLEAN /\ echo_data \in BOOLEAN
        /\ running \in BOOLEAN /\ goto_flag \in BOOLEAN /\ cycle_flag \in BOOLEAN
        /\ done_received \in BOOLEAN
    OBVIOUS
  <2> HIDE DEF Init
  <2> QED BY <1>3, <2>1, <2>2, <2>3 DEF TypeOK
<1>5. Protocol /\ Answered
  BY DEF Protocol, Answered
<1>6. ~Filling
  BY <1>4, <1>5, Counting, Aside
<1>7. Received = 0
  <2>1. DOMAIN writepipe = {}
    BY <1>2
  <2>2. {p \in DOMAIN writepipe : writepipe[p] = Break} = {}
    BY <2>1
  <2>3. Unread = 0
    BY <2>2, FS_EmptySet DEF Unread
  <2> QED BY <2>3 DEF Received
<1>8. Partial /\ Names
  <2>1. \A n \in 1 .. Len(reg_names) : reg_names[n] = n
    BY <1>2
  <2> QED BY <1>2, <1>6, <2>1 DEF Partial, Names
<1>9. Slots
  <2>1. 0 % NUM_HISTORY = 0
    BY <1>1, SlotIs
  <2> QED BY <1>7, <2>1 DEF Slots
<1>10. Ring
  BY <1>1, <1>7 DEF Ring
<1>11. Clean
  BY DEF Clean
<1>12. View /\ Modes
  BY DEF View, Look, Modes, SeesARecord, Waiting
<1> QED BY <1>4, <1>5, <1>8, <1>9, <1>10, <1>11, <1>12 DEF Sight, IInv, Live

LEMMA StutterSight ==
  ASSUME UNCHANGED vars
  PROVE  IInv' = IInv /\ View' = View
<1> USE DEF vars, parent, pipes, ring, place, modes
<1>1. TypeOK' = TypeOK
  BY DEF TypeOK
<1>2. Filling' = Filling /\ Received' = Received
  BY DEF Filling, Printed, Gone, Size, Received, Unread
<1>3. Protocol' = Protocol
  BY DEF Protocol, Answered, Announced, Printed, Idle, Gone, Size
<1>4. Partial' = Partial /\ Names' = Names
  BY <1>2 DEF Partial, Names, Gone, Size
<1>5. Slots' = Slots /\ Ring' = Ring /\ Clean' = Clean
  BY <1>2 DEF Slots, Ring, Clean
<1>6. Modes' = Modes /\ View' = View
  BY DEF View, Look, Written, Modes, SeesARecord, Waiting
<1> QED BY <1>1, <1>3, <1>4, <1>5, <1>6 DEF IInv, Live

LEMMA Step ==
  ASSUME IInv, [Next]_vars
  PROVE  IInv' /\ (View /\ [SafeNext]_vars => View')
<1>1. CASE Simulator
  BY <1>1, ParentStep, ParentView
<1>2. CASE Child
  BY <1>2, FgetsStep, AgainStep, RunningKeys DEF Child
<1>3. CASE User
  <2>1. CASE \E cycles \in BOOLEAN, target, junk \in Time : KeyGoto(cycles, target, junk)
    <3>1. IInv' /\ (View /\ ~GotoBeforeFirst => View')
      BY <2>1, GotoKey
    <3>2. CASE UNCHANGED vars
      BY <3>2, StutterSight
    <3> QED BY <3>1, <3>2 DEF SafeNext
  <2>2. CASE KeyPause \/ KeyNext \/ KeyForward \/ KeyBack \/ KeyRun \/ KeyQuit
    BY <2>2, ShowingKeys, LeavingKeys, QuitKey
  <2> QED BY <1>3, <2>1, <2>2 DEF User
<1>4. CASE UNCHANGED vars
  BY <1>4, StutterSight
<1> QED BY <1>1, <1>2, <1>3, <1>4 DEF Next

(* The invariant: the pipes are in one of the states that a turn of the      *)
(* parent or of the child leaves them in, the ring holds the last records,   *)
(* and the slot that is being filled what was read of its record             *)
(* (visual_c_hooks.c:584, :856).                                             *)
THEOREM IInvHolds == Spec => []IInv
<1>1. Init => IInv
  BY InitSight DEF Sight
<1>2. IInv /\ [Next]_vars => IInv'
  BY Step
<1> QED BY <1>1, <1>2, PTL DEF Spec

(* Every variable keeps its type; history_num and hist_num_temp never leave  *)
(* the ring, and no record has more registers than its window               *)
(* (visual_c_hooks.c:690, :884).                                             *)
THEOREM TypeOKHolds == Spec => []TypeOK
<1>1. IInv => TypeOK
  BY DEF IInv
<1> QED BY <1>1, IInvHolds, PTL

LEMMA UnreadInt ==
  TypeOK => Unread \in Nat
<1> SUFFICES ASSUME TypeOK PROVE Unread \in Nat
  OBVIOUS
<1>1. IsFiniteSet(DOMAIN writepipe)
  <2>1. Len(writepipe) \in Nat /\ DOMAIN writepipe = 1 .. Len(writepipe)
    BY DEF TypeOK
  <2> QED BY <2>1, FS_Interval
<1>2. {p \in DOMAIN writepipe : writepipe[p] = Break} \subseteq DOMAIN writepipe
  OBVIOUS
<1> QED BY <1>1, <1>2, FS_Subset, FS_CardinalityType DEF Unread

LEMMA IInvHistory ==
  IInv => HistoryIsTheLast
<1> SUFFICES ASSUME IInv, child # "ended" PROVE HistoryIsTheLast
  BY DEF HistoryIsTheLast
<1>1. TypeOK /\ Live /\ Protocol /\ Names /\ Slots /\ Ring
  BY DEF IInv, Live
<1>2. /\ NUM_HISTORY \in Nat /\ NUM_HISTORY >= 2 /\ NUM_REGS \in Nat
      /\ edges \in Int /\ Received \in Nat
  BY <1>1, DebuggerAssumption DEF TypeOK, Slots
<1>3. Unread <= 1
  <2>1. Received = edges \/ Received = edges - 1
    BY <1>1, Counting DEF Counted
  <2>2. Unread \in Int
    BY <1>1, UnreadInt
  <2> QED BY <1>2, <2>1, <2>2 DEF Received
<1>4. child = "keys" => ~Filling
  <2>1. Counted
    BY <1>1, Counting
  <2>2. child = "keys" /\ Printed => Protocol
    BY <1>1
  <2> QED BY <1>1, <2>1, Aside DEF Protocol, Filling
<1>5. \A j \in 0 .. (NUM_HISTORY - 1) :
        j < Received /\ (j < NUM_HISTORY - 1 \/ child = "keys") =>
          contents[(Received - 1 - j) % NUM_HISTORY] = Whole(Received - j)
  BY <1>1, <1>2, <1>4, SlotBack DEF Ring
<1>6. setup_registers => reg_names = [n \in Reg |-> n]
  <2> SUFFICES ASSUME setup_registers PROVE reg_names = [n \in Reg |-> n]
    OBVIOUS
  <2>1. reg_names \in Seq(Reg) /\ Len(reg_names) = NUM_REGS
        /\ \A n \in 1 .. NUM_REGS : reg_names[n] = n
    BY <1>1 DEF TypeOK, Names
  <2>2. reg_names \in [1 .. NUM_REGS -> Reg]
    BY <2>1
  <2> QED BY <2>1, <2>2 DEF Reg
<1> QED BY <1>1, <1>3, <1>5, <1>6 DEF HistoryIsTheLast, Slots

(* The history is the last records, each whole and in its own slot, for      *)
(* every length of the ring (visual_c_hooks.c:593, :884, :1056).              *)
THEOREM HistoryIsTheLastHolds == Spec => []HistoryIsTheLast
<1> QED BY IInvHistory, IInvHolds, PTL

(* With it, the user looks at a slot that was written, as long as no goto     *)
(* leaves slot 0 backwards before the ring has wrapped.                        *)
THEOREM SightHolds == SafeSpec => []Sight
<1>1. [SafeNext]_vars => [Next]_vars
  BY DEF SafeNext
<1>2. Sight /\ [SafeNext]_vars => Sight'
  BY <1>1, Step DEF Sight
<1> QED BY <1>2, InitSight, PTL DEF SafeSpec

(* The user is never shown a slot that no record was read into, nor one that *)
(* is half read (visual_c_hooks.c:878, :881, :932).                            *)
THEOREM SeesARecordHolds == SafeSpec => []SeesARecord
<1>1. Sight => SeesARecord
  BY DEF Sight, View
<1> QED BY <1>1, SightHolds, PTL
=============================================================================
