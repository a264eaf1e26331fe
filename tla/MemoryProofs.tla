----------------------------- MODULE MemoryProofs ----------------------------
(***************************************************************************)
(* The caches and the miss registers, for every memory, every size of the    *)
(* caches and every program.                                                  *)
(***************************************************************************)
EXTENDS MemoryProps, WellFoundedInduction, NaturalsInduction

(* A set of numbers that is not empty has a least one. *)
LEMMA MinIsLeast ==
  ASSUME NEW S \in SUBSET Nat, S # {}
  PROVE  Min(S) \in S
<1>1. PICK x \in S : \A y \in S : <<y, x>> \notin OpToRel(<, Nat)
  BY WFMin, NatLessThanWellFounded, Zenon
<1>2. \A y \in S : ~(y < x)
  BY <1>1, Zenon DEF OpToRel
<1>3. \A y \in S : x <= y
  BY <1>2
<1> QED BY <1>3 DEF Min

-----------------------------------------------------------------------------
(* The types. *)
LoadEntry   == [kind : {"load"}, addr : LOADED, id : DEST, sent : BOOLEAN]
StoreEntry  == [kind : {"store"}, addr : STORED]
BranchEntry == [kind : {"branch"}, id : BRANCH]
Entry       == LoadEntry \cup StoreEntry \cup BranchEntry

MissStatus ==
  [valid : BOOLEAN, is_load : BOOLEAN, addr : LINE \cup {0}, destTag : DEST \cup {0},
   bmask : SUBSET BRANCH]

TypeOK ==
  /\ unified_memory \in [LINE -> DATA]
  /\ cycles_left \in [MEM_TAG -> 0 .. LATENCY]
  /\ waiting_for_bus \in [MEM_TAG -> BOOLEAN]
  /\ loaded_data \in [MEM_TAG -> DATA]
  /\ statuses \in [MEM_TAG -> MissStatus]
  /\ dcache \in [0 .. (CACHE_LINES - 1) -> {None} \cup [addr : LINE, data : DATA]]
  /\ icache \in [0 .. (CACHE_LINES - 1) -> {NoLine} \cup LINE \cup {0}]
  /\ window \in Seq(Entry)
  /\ st = None \/ st \in [valid : {TRUE}, addr : STORED, data : DATA]
  /\ pc \in FETCHED

LEMMA EntryKinds ==
  ASSUME NEW e \in Entry
  PROVE  /\ e.kind = "load" => e \in LoadEntry
         /\ e.kind = "store" => e \in StoreEntry
         /\ e.kind = "branch" => e \in BranchEntry
         /\ e.kind \in {"load", "store", "branch"}
BY DEF Entry, LoadEntry, StoreEntry, BranchEntry

LEMMA SentEntry ==
  ASSUME NEW e \in LoadEntry
  PROVE  LET s == [e EXCEPT !.sent = TRUE]
         IN  s \in LoadEntry /\ s.addr = e.addr /\ s.id = e.id /\ s.sent /\ s.kind = "load"
BY DEF LoadEntry

LEMMA WindowKinds ==
  ASSUME TypeOK
  PROVE  /\ Len(window) \in Nat /\ DOMAIN window = 1 .. Len(window)
         /\ \A p \in DOMAIN window : window[p] \in Entry
         /\ \A p \in Positions("load") : window[p] \in LoadEntry /\ p \in Nat
         /\ \A p \in Positions("store") : window[p] \in StoreEntry /\ p \in Nat
         /\ \A p \in Positions("branch") : window[p] \in BranchEntry /\ p \in Nat
         /\ Waiting \subseteq Positions("load")
<1>1. window \in Seq(Entry)
  BY DEF TypeOK
<1>2. /\ Len(window) \in Nat /\ DOMAIN window = 1 .. Len(window)
      /\ \A p \in DOMAIN window : window[p] \in Entry
  BY <1>1
<1> QED BY <1>2, EntryKinds DEF Positions, Waiting

-----------------------------------------------------------------------------
(* Memory's tags. *)
(* No two reads or writes are due at the same time, and a read that waits is *)
(* answered as soon as its time is up.                                        *)
InTime ==
  /\ \A s, t \in MEM_TAG : cycles_left[s] = cycles_left[t] /\ cycles_left[s] # 0 => s = t
  /\ \A t \in MEM_TAG : waiting_for_bus[t] => cycles_left[t] # 0

LEMMA Response ==
  ASSUME NEW command
  PROVE  LET r == mem2proc_response(command)
         IN  /\ r = 0 \/ r \in FreeTags
             /\ r = 0 <=> command = "NONE" \/ FreeTags = {}
             /\ r # 0 => r \in MEM_TAG
<1>1. FreeTags \in SUBSET Nat /\ 0 \notin FreeTags
  BY DEF FreeTags, MEM_TAG
<1>2. FreeTags # {} => Min(FreeTags) \in FreeTags
  BY <1>1, MinIsLeast
<1>3. FreeTags \subseteq MEM_TAG
  BY DEF FreeTags
<1> HIDE DEF FreeTags
<1> QED BY <1>1, <1>2, <1>3 DEF mem2proc_response

LEMMA Answer ==
  ASSUME TypeOK, InTime
  PROVE  /\ mem2proc_tag = 0 \/ mem2proc_tag \in MEM_TAG
         /\ mem2proc_tag # 0 => waiting_for_bus[mem2proc_tag]
         /\ mem2proc_tag # 0 => cycles_left[mem2proc_tag] = 1
         /\ \A t \in MEM_TAG : waiting_for_bus[t] /\ t # mem2proc_tag => cycles_left[t] > 1
         /\ 0 \notin MEM_TAG
<1>1. Due \in SUBSET Nat /\ 0 \notin Due /\ Due \subseteq MEM_TAG
  BY DEF Due, MEM_TAG
<1>2. mem2proc_tag # 0 => mem2proc_tag \in Due
  BY <1>1, MinIsLeast DEF mem2proc_tag
<1>3. \A t \in Due : waiting_for_bus[t] /\ cycles_left[t] = 1
  BY MemAssumption DEF Due, InTime, TypeOK
<1>4. ASSUME NEW t \in MEM_TAG, waiting_for_bus[t], t # mem2proc_tag
      PROVE  cycles_left[t] > 1
  <2>1. cycles_left[t] \in Nat
    BY MemAssumption DEF TypeOK
  <2>2. CASE t \in Due
    <3>1. mem2proc_tag \in Due
      BY <1>1, <2>2, MinIsLeast DEF mem2proc_tag
    <3>2. cycles_left[mem2proc_tag] = 1 /\ cycles_left[t] = 1
      BY <1>3, <2>2, <3>1
    <3> QED BY <1>1, <1>4, <3>1, <3>2 DEF InTime
  <2>3. CASE t \notin Due
    BY <1>4, <2>1, <2>3 DEF Due
  <2> QED BY <2>2, <2>3
<1>5. 0 \notin MEM_TAG
  BY DEF MEM_TAG
<1> QED BY <1>1, <1>2, <1>3, <1>4, <1>5

LEMMA TagsMove ==
  ASSUME TypeOK, InTime, NEW command, NEW addr, NEW data, MemCycle(command, addr, data)
  PROVE  InTime' /\ cycles_left' \in [MEM_TAG -> 0 .. LATENCY]
<1> DEFINE r == mem2proc_response(command)
<1>1. /\ r = 0 \/ r \in FreeTags
      /\ r # 0 => r \in MEM_TAG
  BY Response
<1>2. /\ \A t \in MEM_TAG : cycles_left[t] \in 0 .. LATENCY
      /\ LATENCY \in Nat \ {0}
  BY MemAssumption DEF TypeOK
<1>3. /\ cycles_left' = [t \in MEM_TAG |->
           IF t = r THEN LATENCY ELSE IF cycles_left[t] > 0 THEN cycles_left[t] - 1 ELSE 0]
      /\ waiting_for_bus' = [t \in MEM_TAG |->
           IF t = r THEN command = "LOAD" ELSE waiting_for_bus[t] /\ t # mem2proc_tag]
  BY DEF MemCycle
<1> HIDE DEF r
<1>4. \A s, t \in MEM_TAG : cycles_left'[s] = cycles_left'[t] /\ cycles_left'[s] # 0 => s = t
  BY <1>2, <1>3 DEF InTime
<1>5. \A t \in MEM_TAG : waiting_for_bus'[t] => cycles_left'[t] # 0
  <2> SUFFICES ASSUME NEW t \in MEM_TAG, waiting_for_bus'[t] PROVE cycles_left'[t] # 0
    OBVIOUS
  <2>1. CASE t = r
    BY <1>2, <1>3, <2>1
  <2>2. CASE t # r
    <3>1. waiting_for_bus[t] /\ t # mem2proc_tag
      BY <1>3, <2>2
    <3>2. cycles_left[t] > 1
      BY <3>1, Answer
    <3> QED BY <1>2, <1>3, <2>2, <3>2
  <2> QED BY <2>1, <2>2
<1>6. cycles_left' \in [MEM_TAG -> 0 .. LATENCY]
  BY <1>2, <1>3
<1> QED BY <1>4, <1>5, <1>6 DEF InTime

-----------------------------------------------------------------------------
(* A cycle, whatever its branch does: the first n entries of the window stay, *)
(* without those in gone.                                                      *)
Moves(n, gone, p, r, pf, wrong, right, isns, st_idx) ==
  /\ p = 0 \/ p \in Waiting
  /\ n \in 0 .. Len(window)
  /\ r = 0 \/ (r = 1 /\ r \in Positions("store"))
  /\ wrong \subseteq BRANCH /\ right \subseteq BRANCH
  /\ isns = <<>> \/ \E i \in Dispatches : isns = <<i>>
  /\ \A q \in Positions("load") : q \in gone <=> q \in Served(p)
  /\ \A q \in Positions("store") : q \in gone <=> q = r
  /\ \A q \in Positions("branch") : q \in gone <=> window[q].id \in right
  /\ \A q \in Positions("load") : q <= n <=> OlderBranches(q) \cap wrong = {}
  /\ \A t \in MEM_TAG :
       t > RESOLVED /\ statuses'[t].valid => statuses'[t].bmask \cap (wrong \cup right) = {}
  /\ \/ window' = Remaining(n, gone, p) \o isns
     \/ isns = <<>> /\ window' = Remaining(n, gone, p)
  /\ st' = IF r # 0 THEN [valid |-> TRUE, addr |-> window[r].addr,
                          data |-> 1 - unified_memory[window[r].addr]]
           ELSE IF Sent(LoadAt(p), st) THEN None ELSE st
  /\ CCCycle(LoadAt(p), st, pc, pf, wrong, right, st_idx)
  /\ pc' \in FETCHED

(* Loads that are in the window have different destinations, and branches      *)
(* different checkpoints.                                                       *)
UniqueIds ==
  \A kind \in {"load", "branch"} : \A p, q \in Positions(kind) :
    window[p].id = window[q].id => p = q

LEMMA CycleMoves ==
  ASSUME TypeOK, UniqueIds, NEW b, Cycle(b), b = 0 \/ (b \in Positions("branch") /\ Hears(b))
  PROVE  \E n, gone, p, r, pf, wrong, right, isns, st_idx :
           Moves(n, gone, p, r, pf, wrong, right, isns, st_idx)
<1>1. PICK p \in Issued, r \in Retirements,
           isns \in {<<>>} \cup {<<i>> : i \in Dispatches} :
        /\ window' = Remaining(Len(window), (Served(p) \cup {b, r}), p) \o isns
        /\ \E pf \in Prefetches(p) :
             Common(p, r, pf, {}, {window[q].id : q \in {b} \ {0}})
        /\ pc' \in IF icache_valid(pc) THEN FETCHED ELSE {pc}
  BY DEF Cycle
<1> DEFINE right == {window[q].id : q \in {b} \ {0}}
           gone == Served(p) \cup {b, r}
           n == Len(window)
<1>2. PICK pf : Common(p, r, pf, {}, right)
  BY <1>1
<1>3. PICK st_idx : CCCycle(LoadAt(p), st, pc, pf, {}, right, st_idx)
  BY <1>2 DEF Common
<1>4. /\ n \in Nat /\ n \in 0 .. Len(window)
      /\ \A q \in Positions("load") : q <= n /\ q # 0
      /\ \A q \in Positions("store") : q # 0
      /\ \A q \in Positions("branch") : q # 0
      /\ Waiting \subseteq Positions("load")
  BY WindowKinds DEF Positions
<1>5. p = 0 \/ p \in Waiting
  BY DEF Issued
<1>6. r = 0 \/ (r = 1 /\ r \in Positions("store"))
  BY DEF Retirements
<1>7. right \subseteq BRANCH
  BY WindowKinds DEF BranchEntry
<1>8. isns = <<>> \/ \E i \in Dispatches : isns = <<i>>
  OBVIOUS
<1>9. \A j, k \in {"load", "store", "branch"} : j # k => Positions(j) \cap Positions(k) = {}
  BY DEF Positions
<1>10. Served(p) \subseteq Positions("load")
  BY <1>4, <1>5 DEF Served
<1>11. /\ \A q \in Positions("load") : q \in gone <=> q \in Served(p)
       /\ \A q \in Positions("store") : q \in gone <=> q = r
       /\ \A q \in Positions("branch") : q \in gone <=> window[q].id \in right
  <2>1. b = 0 \/ b \in Positions("branch")
    OBVIOUS
  <2>2. \A q \in Positions("branch") : window[q].id \in right <=> q = b
    BY <1>4, <2>1 DEF UniqueIds
  <2> HIDE DEF right
  <2> QED BY <1>4, <1>6, <1>9, <1>10, <2>1, <2>2
<1>12. \A q \in Positions("load") : q <= n <=> OlderBranches(q) \cap {} = {}
  BY <1>4
<1>13. \A t \in MEM_TAG :
         t > RESOLVED /\ statuses'[t].valid => statuses'[t].bmask \cap ({} \cup right) = {}
  BY DEF Hears
<1>14. pc' \in FETCHED
  BY <1>1 DEF TypeOK
<1>15. st' = IF r # 0 THEN [valid |-> TRUE, addr |-> window[r].addr,
                            data |-> 1 - unified_memory[window[r].addr]]
             ELSE IF Sent(LoadAt(p), st) THEN None ELSE st
  BY <1>2 DEF Common
<1> HIDE DEF gone, right, n
<1>16. window' = Remaining(n, gone, p) \o isns
  BY <1>1 DEF gone, n
<1>17. Moves(n, gone, p, r, pf, {}, right, isns, st_idx)
  BY <1>3, <1>4, <1>5, <1>6, <1>7, <1>8, <1>11, <1>12, <1>13, <1>14, <1>15, <1>16 DEF Moves
<1> QED BY <1>17

LEMMA RecoverMoves ==
  ASSUME TypeOK, UniqueIds, NEW b \in Positions("branch"), Recover(b), Hears(b)
  PROVE  \E n, gone, p, r, pf, wrong, right, isns, st_idx :
           Moves(n, gone, p, r, pf, wrong, right, isns, st_idx)
<1>1. PICK p \in Issued, r \in Retirements :
        /\ \E pf \in Prefetches(p) : Common(p, r, pf, {window[b].id}, {})
        /\ window' = Remaining(b - 1, (Served(p) \cup {r}), p)
        /\ pc' \in FETCHED
  BY DEF Recover
<1> DEFINE wrong == {window[b].id}
           gone == Served(p) \cup {r}
           n == b - 1
<1>2. PICK pf : Common(p, r, pf, wrong, {})
  BY <1>1
<1>3. PICK st_idx : CCCycle(LoadAt(p), st, pc, pf, wrong, {}, st_idx)
  BY <1>2 DEF Common
<1>4. /\ n \in 0 .. Len(window)
      /\ \A q \in Positions("load") : q \in Nat
      /\ b \in Nat
      /\ Waiting \subseteq Positions("load")
  BY WindowKinds DEF Positions
<1>5. p = 0 \/ p \in Waiting
  BY DEF Issued
<1>6. r = 0 \/ (r = 1 /\ r \in Positions("store"))
  BY DEF Retirements
<1>7. wrong \subseteq BRANCH
  BY WindowKinds DEF BranchEntry
<1>9. \A j, k \in {"load", "store", "branch"} : j # k => Positions(j) \cap Positions(k) = {}
  BY DEF Positions
<1>10. Served(p) \subseteq Positions("load") /\ \A q \in Positions("branch") : q # 0
  BY <1>4, <1>5, WindowKinds DEF Served, Positions
<1>11. /\ \A q \in Positions("load") : q \in gone <=> q \in Served(p)
       /\ \A q \in Positions("store") : q \in gone <=> q = r
       /\ \A q \in Positions("branch") : q \in gone <=> window[q].id \in {}
  <2>1. \A q \in Positions("load") : q # 0
    BY WindowKinds DEF Positions
  <2> QED BY <1>6, <1>9, <1>10, <2>1
<1>12. \A q \in Positions("load") : q <= n <=> OlderBranches(q) \cap wrong = {}
  <2> SUFFICES ASSUME NEW q \in Positions("load")
               PROVE  q <= n <=> OlderBranches(q) \cap wrong = {}
    OBVIOUS
  <2>1. q # b
    BY <1>9
  <2>2. OlderBranches(q) \cap wrong # {} <=> b < q
    BY DEF OlderBranches, UniqueIds
  <2> QED BY <1>4, <2>1, <2>2
<1>13. \A t \in MEM_TAG :
         t > RESOLVED /\ statuses'[t].valid => statuses'[t].bmask \cap (wrong \cup {}) = {}
  BY DEF Hears
<1>15. st' = IF r # 0 THEN [valid |-> TRUE, addr |-> window[r].addr,
                            data |-> 1 - unified_memory[window[r].addr]]
             ELSE IF Sent(LoadAt(p), st) THEN None ELSE st
  BY <1>2 DEF Common
<1> HIDE DEF gone, wrong, n
<1>16. window' = Remaining(n, gone, p)
  BY <1>1 DEF gone, n
<1>17. Moves(n, gone, p, r, pf, wrong, {}, <<>>, st_idx)
  BY <1>1, <1>3, <1>4, <1>5, <1>6, <1>7, <1>11, <1>12, <1>13, <1>15, <1>16 DEF Moves
<1> QED BY <1>17

-----------------------------------------------------------------------------
(* The window after a cycle. *)
Kept(n, gone) == (1 .. n) \ gone

(* The entries of the window after a cycle are those at the positions K of the *)
(* window before it, in order, and isns.                                        *)
Placed(K, c, p, isns) ==
  /\ c \in Nat /\ K \subseteq 1 .. Len(window) /\ Len(window) \in Nat
  /\ \A q \in K : Rank(K, q) \in 1 .. c /\ Nth(K, Rank(K, q)) = q
  /\ \A q1, q2 \in K : q1 < q2 => Rank(K, q1) < Rank(K, q2)
  /\ \A k \in 1 .. c : Nth(K, k) \in K /\ Rank(K, Nth(K, k)) = k
  /\ window' \in Seq(Entry) /\ Len(window') = c + Len(isns) /\ Len(isns) \in 0 .. 1
  /\ \A k \in 1 .. c :
       window'[k] = IF Nth(K, k) = p THEN [window[p] EXCEPT !.sent = TRUE]
                                     ELSE window[Nth(K, k)]
  /\ Len(isns) = 1 => window'[c + 1] \in Dispatches

LEMMA WindowAfter ==
  ASSUME TypeOK, NEW n, NEW gone, NEW p, NEW r, NEW pf, NEW wrong, NEW right, NEW isns,
         NEW st_idx, Moves(n, gone, p, r, pf, wrong, right, isns, st_idx)
  PROVE  Placed(Kept(n, gone), Cardinality(Kept(n, gone)), p, isns)
<1> DEFINE K == Kept(n, gone)
           c == Cardinality(K)
           kept == Remaining(n, gone, p)
<1>1. n \in 0 .. Len(window) /\ Len(window) \in Nat
  BY WindowKinds DEF Moves
<1>2. K \subseteq 1 .. n /\ K \subseteq 1 .. Len(window)
  BY <1>1 DEF Kept
<1>3. /\ c \in Nat
      /\ \A q \in K : Rank(K, q) \in 1 .. c /\ Nth(K, Rank(K, q)) = q
      /\ \A q1, q2 \in K : q1 < q2 => Rank(K, q1) < Rank(K, q2)
      /\ \A k \in 1 .. c : Nth(K, k) \in K /\ Rank(K, Nth(K, k)) = k
  <2> HIDE DEF K
  <2> QED BY <1>1, <1>2, RankFacts
<1>4. kept = [k \in 1 .. c |-> IF Nth(K, k) = p THEN [window[p] EXCEPT !.sent = TRUE]
                                                ELSE window[Nth(K, k)]]
  BY DEF Remaining, Kept
<1> HIDE DEF K, c, kept
<1>5. \A k \in 1 .. c : kept[k] \in Entry
  <2> SUFFICES ASSUME NEW k \in 1 .. c PROVE kept[k] \in Entry
    OBVIOUS
  <2>1. Nth(K, k) \in DOMAIN window /\ window[Nth(K, k)] \in Entry
    BY <1>2, <1>3, WindowKinds
  <2>2. CASE Nth(K, k) = p
    <3>1. p \in Waiting
      BY <2>1, <2>2, WindowKinds DEF Moves
    <3>2. [window[p] EXCEPT !.sent = TRUE] \in LoadEntry
      BY <3>1, WindowKinds, SentEntry
    <3> QED BY <1>4, <2>2, <3>2 DEF Entry
  <2>3. CASE Nth(K, k) # p
    BY <1>4, <2>1, <2>3
  <2> QED BY <2>2, <2>3
<1>6. kept \in Seq(Entry) /\ Len(kept) = c
  <2>1. kept \in [1 .. c -> Entry]
    BY <1>4, <1>5
  <2> QED BY <1>3, <2>1
<1>7. Dispatches \subseteq Entry
  <2>1. FreeId("load", DEST) \subseteq DEST /\ FreeId("branch", BRANCH) \subseteq BRANCH
    <3>1. ASSUME NEW kind, NEW ids \in SUBSET Nat PROVE FreeId(kind, ids) \subseteq ids
      <4> DEFINE fr == ids \ {window[x].id : x \in Positions(kind)}
      <4>1. fr # {} => Min(fr) \in fr
        BY MinIsLeast
      <4>2. FreeId(kind, ids) = IF fr = {} THEN {} ELSE {Min(fr)}
        BY DEF FreeId
      <4>3. fr \subseteq ids
        OBVIOUS
      <4> HIDE DEF fr
      <4> QED BY <4>1, <4>2, <4>3
    <3> QED BY <3>1, CacheAssumption
  <2> QED BY <2>1 DEF Dispatches, Entry, LoadEntry, StoreEntry, BranchEntry
<1>8. /\ isns = <<>> \/ \E i \in Dispatches : isns = <<i>>
      /\ \/ window' = kept \o isns
         \/ isns = <<>> /\ window' = kept
  BY DEF Moves, kept
<1>9. ASSUME isns = <<>>
      PROVE  /\ window' \in Seq(Entry) /\ Len(window') = c + Len(isns) /\ Len(isns) \in 0 .. 1
             /\ \A k \in 1 .. c :
                  window'[k] = IF Nth(K, k) = p THEN [window[p] EXCEPT !.sent = TRUE]
                                                ELSE window[Nth(K, k)]
             /\ Len(isns) = 1 => window'[c + 1] \in Dispatches
  <2>1. kept \o <<>> = kept
    BY <1>6
  <2>2. Len(isns) = 0 /\ window' = kept
    BY <1>8, <1>9, <2>1
  <2>3. window' \in Seq(Entry) /\ Len(window') = c + Len(isns) /\ Len(isns) \in 0 .. 1
    BY <1>3, <1>6, <2>2
  <2>4. \A k \in 1 .. c : window'[k] = kept[k]
    BY <2>2
  <2>5. \A k \in 1 .. c : kept[k] = IF Nth(K, k) = p THEN [window[p] EXCEPT !.sent = TRUE]
                                                    ELSE window[Nth(K, k)]
    BY <1>4
  <2>6. Len(isns) # 1
    BY <2>2
  <2> QED BY <2>3, <2>4, <2>5, <2>6
<1>10. ASSUME NEW i \in Dispatches, isns = <<i>> PROVE
             /\ window' \in Seq(Entry) /\ Len(window') = c + 1
             /\ \A k \in 1 .. c : window'[k] = kept[k]
             /\ window'[c + 1] = i /\ Len(isns) = 1
  <2>1. window' = kept \o <<i>>
    BY <1>8, <1>10
  <2>2. i \in Entry
    BY <1>7
  <2> QED BY <1>3, <1>6, <1>10, <2>1, <2>2
<1>11. ASSUME NEW i \in Dispatches, isns = <<i>>
       PROVE  /\ window' \in Seq(Entry) /\ Len(window') = c + Len(isns) /\ Len(isns) \in 0 .. 1
              /\ \A k \in 1 .. c :
                   window'[k] = IF Nth(K, k) = p THEN [window[p] EXCEPT !.sent = TRUE]
                                                 ELSE window[Nth(K, k)]
              /\ Len(isns) = 1 => window'[c + 1] \in Dispatches
  <2>1. Len(isns) = 1 /\ window'[c + 1] \in Dispatches
    BY <1>10, <1>11
  <2>2. window' \in Seq(Entry) /\ Len(window') = c + Len(isns) /\ Len(isns) \in 0 .. 1
    BY <1>10, <1>11, <2>1
  <2>3. \A k \in 1 .. c : window'[k] = kept[k]
    BY <1>10, <1>11
  <2> QED BY <1>4, <2>1, <2>2, <2>3
<1>12. /\ window' \in Seq(Entry) /\ Len(window') = c + Len(isns) /\ Len(isns) \in 0 .. 1
       /\ \A k \in 1 .. c :
            window'[k] = IF Nth(K, k) = p THEN [window[p] EXCEPT !.sent = TRUE]
                                          ELSE window[Nth(K, k)]
       /\ Len(isns) = 1 => window'[c + 1] \in Dispatches
  BY <1>8, <1>9, <1>11
<1>13. Placed(K, c, p, isns)
  BY <1>1, <1>2, <1>3, <1>12 DEF Placed
<1> QED BY <1>13 DEF K, c

SentLoads == Positions("load") \ Waiting

(* The window after a cycle, position by position. *)
Carried(K, c, p, right, isns) ==
  /\ \A kind : \A k \in Positions(kind)' :
       k \in 1 .. c \/ (k = c + 1 /\ Len(isns) = 1 /\ window'[c + 1] \in Dispatches)
  /\ \A k \in 1 .. c : \A kind : k \in Positions(kind)' <=> Nth(K, k) \in Positions(kind)
  /\ \A k \in 1 .. c :
       /\ window'[k].addr = window[Nth(K, k)].addr
       /\ window'[k].id = window[Nth(K, k)].id
  /\ \A k : k \in SentLoads' <=> k \in 1 .. c /\ (Nth(K, k) = p \/ Nth(K, k) \in SentLoads)
  /\ \A j, k \in 1 .. c : j < k => Nth(K, j) < Nth(K, k)
  /\ \A k \in 1 .. c : OlderBranches(k)' = OlderBranches(Nth(K, k)) \ right

LEMMA PositionsAfter ==
  ASSUME TypeOK, NEW n, NEW gone, NEW p, NEW r, NEW pf, NEW wrong, NEW right, NEW isns,
         NEW st_idx, Moves(n, gone, p, r, pf, wrong, right, isns, st_idx)
  PROVE  Carried(Kept(n, gone), Cardinality(Kept(n, gone)), p, right, isns)
<1> DEFINE K == Kept(n, gone)
           c == Cardinality(K)
<1>1. /\ c \in Nat /\ K \subseteq 1 .. Len(window) /\ Len(window) \in Nat
      /\ \A q \in K : Rank(K, q) \in 1 .. c /\ Nth(K, Rank(K, q)) = q
      /\ \A q1, q2 \in K : q1 < q2 => Rank(K, q1) < Rank(K, q2)
      /\ \A k \in 1 .. c : Nth(K, k) \in K /\ Rank(K, Nth(K, k)) = k
      /\ window' \in Seq(Entry) /\ Len(window') = c + Len(isns) /\ Len(isns) \in 0 .. 1
      /\ \A k \in 1 .. c :
           window'[k] = IF Nth(K, k) = p THEN [window[p] EXCEPT !.sent = TRUE]
                                         ELSE window[Nth(K, k)]
      /\ Len(isns) = 1 => window'[c + 1] \in Dispatches
  <2>1. Placed(K, c, p, isns)
    BY WindowAfter
  <2> HIDE DEF K, c
  <2> QED BY <2>1 DEF Placed
<1>2. /\ n \in Nat /\ (p = 0 \/ p \in Waiting)
      /\ \A q \in Positions("branch") : q \in gone <=> window[q].id \in right
  BY <1>1 DEF Moves
<1>3. \A q \in K : q \in Nat /\ q <= n /\ q \notin gone
  BY <1>2 DEF Kept
<1>4. \A q \in 1 .. n : q \notin gone => q \in K
  BY DEF Kept
<1> HIDE DEF K, c
<1>5. \A j, k \in 1 .. c : j < k => Nth(K, j) < Nth(K, k)
  <2> SUFFICES ASSUME NEW j \in 1 .. c, NEW k \in 1 .. c, j < k, ~(Nth(K, j) < Nth(K, k))
               PROVE  FALSE
    OBVIOUS
  <2>1. /\ Nth(K, j) \in K /\ Nth(K, k) \in K
        /\ Rank(K, Nth(K, j)) = j /\ Rank(K, Nth(K, k)) = k
        /\ Nth(K, j) \in Nat /\ Nth(K, k) \in Nat
    BY <1>1, <1>3
  <2>2. Nth(K, j) = Nth(K, k) \/ Nth(K, k) < Nth(K, j)
    BY <2>1
  <2>3. Nth(K, k) < Nth(K, j) => k < j
    BY <1>1, <2>1
  <2> QED BY <2>1, <2>2, <2>3
<1>6. DOMAIN window' = 1 .. c + Len(isns) /\ DOMAIN window = 1 .. Len(window)
  BY <1>1, WindowKinds
<1>7. \A k \in 1 .. c :
        /\ window'[k].kind = window[Nth(K, k)].kind
        /\ window'[k].addr = window[Nth(K, k)].addr
        /\ window'[k].id = window[Nth(K, k)].id
        /\ Nth(K, k) = p => window'[k].sent
        /\ Nth(K, k) # p => window'[k] = window[Nth(K, k)]
  <2> SUFFICES ASSUME NEW k \in 1 .. c
               PROVE  /\ window'[k].kind = window[Nth(K, k)].kind
                      /\ window'[k].addr = window[Nth(K, k)].addr
                      /\ window'[k].id = window[Nth(K, k)].id
                      /\ Nth(K, k) = p => window'[k].sent
                      /\ Nth(K, k) # p => window'[k] = window[Nth(K, k)]
    OBVIOUS
  <2>1. CASE Nth(K, k) = p
    <3>1. p \in Waiting
      BY <1>1, <1>2, <1>3, <2>1
    <3>2. window[p] \in LoadEntry /\ window[p].kind = "load"
      BY <3>1, WindowKinds DEF Waiting, Positions
    <3> QED BY <1>1, <2>1, <3>2, SentEntry
  <2>2. CASE Nth(K, k) # p
    BY <1>1, <2>2
  <2> QED BY <2>1, <2>2
<1>8. \A kind : \A k \in Positions(kind)' :
        k \in 1 .. c \/ (k = c + 1 /\ Len(isns) = 1 /\ window'[c + 1] \in Dispatches)
  <2> SUFFICES ASSUME NEW kind, NEW k \in Positions(kind)'
               PROVE  k \in 1 .. c \/ (k = c + 1 /\ Len(isns) = 1 /\ window'[c + 1] \in Dispatches)
    OBVIOUS
  <2>1. k \in 1 .. c + Len(isns)
    BY <1>6 DEF Positions
  <2>2. c \in Nat /\ (Len(isns) = 1 => window'[c + 1] \in Dispatches)
    BY <1>1
  <2>3. Len(isns) = 0 \/ Len(isns) = 1
    BY <1>1
  <2>4. CASE Len(isns) = 0
    <3>1. k \in 1 .. c + 0
      BY <2>1, <2>4
    <3> QED BY <2>2, <3>1
  <2>5. CASE Len(isns) = 1
    <3>1. k \in 1 .. c + 1
      BY <2>1, <2>5
    <3>2. k \in 1 .. c \/ k = c + 1
      BY <2>2, <3>1
    <3> QED BY <2>2, <2>5, <3>2
  <2> QED BY <2>3, <2>4, <2>5
<1>9. \A k \in 1 .. c : \A kind : k \in Positions(kind)' <=> Nth(K, k) \in Positions(kind)
  <2> SUFFICES ASSUME NEW k \in 1 .. c, NEW kind
               PROVE  k \in Positions(kind)' <=> Nth(K, k) \in Positions(kind)
    OBVIOUS
  <2>1. k \in DOMAIN window' /\ Nth(K, k) \in DOMAIN window
    BY <1>1, <1>6
  <2> QED BY <1>7, <2>1 DEF Positions
<1>10. ASSUME NEW k
       PROVE  k \in SentLoads' <=> k \in 1 .. c /\ (Nth(K, k) = p \/ Nth(K, k) \in SentLoads)
  <2>1. k \in SentLoads' <=> k \in Positions("load")' /\ window'[k].sent
    BY DEF SentLoads, Waiting
  <2>2. CASE k \in 1 .. c
    <3>1. k \in Positions("load")' <=> Nth(K, k) \in Positions("load")
      BY <1>9, <2>2
    <3>2. CASE Nth(K, k) = p
      <4>1. p \in Waiting
        BY <1>1, <1>2, <1>3, <2>2, <3>2
      <4> QED BY <1>7, <2>1, <2>2, <3>1, <3>2, <4>1, WindowKinds
    <3>3. CASE Nth(K, k) # p
      BY <1>7, <2>1, <2>2, <3>1, <3>3 DEF SentLoads, Waiting
    <3> QED BY <3>2, <3>3
  <2>3. CASE k \notin 1 .. c
    <3>1. k \in Positions("load")' => window'[k] \in Dispatches /\ window'[k].kind = "load"
      BY <1>8, <2>3 DEF Positions
    <3>2. \A i \in Dispatches : i.kind = "load" => ~i.sent
      BY DEF Dispatches
    <3> QED BY <2>1, <2>3, <3>1, <3>2
  <2> QED BY <2>2, <2>3
<1>11. ASSUME NEW k \in 1 .. c
       PROVE  OlderBranches(k)' = OlderBranches(Nth(K, k)) \ right
  <2> DEFINE q == Nth(K, k)
  <2>1. q \in K /\ Rank(K, q) = k /\ q \in Nat /\ q <= n /\ k \in Nat
    BY <1>1, <1>3
  <2>2. ASSUME NEW j \in Positions("branch")', j < k
        PROVE  window'[j].id \in OlderBranches(q) \ right
    <3>1. j \in 1 .. c
      BY <1>1, <1>8, <2>2
    <3>2. Nth(K, j) \in Positions("branch") /\ Nth(K, j) < q /\ window'[j].id = window[Nth(K, j)].id
      BY <1>5, <1>7, <1>9, <2>2, <3>1
    <3>3. Nth(K, j) \notin gone
      BY <1>1, <1>3, <3>1
    <3> HIDE DEF q
    <3> QED BY <1>2, <3>2, <3>3 DEF OlderBranches
  <2>3. ASSUME NEW j \in Positions("branch"), j < q, window[j].id \notin right
        PROVE  \E i \in Positions("branch")' : i < k /\ window'[i].id = window[j].id
    <3>1. j \notin gone /\ j \in Nat /\ j \in 1 .. Len(window)
      BY <1>2, <2>3, WindowKinds DEF Positions
    <3>2. j \in 1 .. n
      <4>1. j < q /\ q \in Nat /\ q <= n /\ n \in Nat /\ j \in Nat /\ j # 0
        BY <1>1, <1>2, <2>1, <2>3, <3>1
      <4> HIDE DEF q
      <4> QED BY <4>1
    <3>3. j \in K
      BY <1>4, <3>1, <3>2
    <3>4. Rank(K, j) \in 1 .. c /\ Nth(K, Rank(K, j)) = j /\ Rank(K, j) < k
      BY <1>1, <2>1, <2>3, <3>3
    <3>5. Rank(K, j) \in Positions("branch")' /\ window'[Rank(K, j)].id = window[j].id
      BY <1>7, <1>9, <3>4
    <3> QED BY <3>4, <3>5
  <2>4. PICK x : x = k
    OBVIOUS
  <2>5. OlderBranches(x)' = {window'[j].id : j \in {i \in Positions("branch")' : i < x}}
    BY DEF OlderBranches
  <2> HIDE DEF q
  <2>6. OlderBranches(x)' \subseteq OlderBranches(q) \ right
    BY <2>2, <2>4, <2>5
  <2>7. OlderBranches(q) \ right \subseteq OlderBranches(x)'
    BY <2>3, <2>4, <2>5 DEF OlderBranches
  <2> QED BY <2>4, <2>6, <2>7 DEF q
<1>12. Carried(K, c, p, right, isns)
  BY <1>5, <1>7, <1>8, <1>9, <1>10, <1>11 DEF Carried
<1> QED BY <1>12 DEF K, c

-----------------------------------------------------------------------------
(* The invariant. *)
ValidWaits == \A t \in MEM_TAG : statuses[t].valid => waiting_for_bus[t]

\* No store that could answer a load that is out is before it.
Unforwarded == \A p \in SentLoads : ~Forwarded(p)

MissesOwed ==
  \A t \in Misses :
    /\ \E p \in SentLoads : Holds(t, p)
    /\ waiting_for_bus[t] /\ loaded_data[t] = unified_memory[statuses[t].addr]

OneEach == \A s, t \in Misses : statuses[s].destTag = statuses[t].destTag => s = t

LinesPlaced == \A i \in DOMAIN dcache : dcache[i] # None => Idx(dcache[i].addr) = i

MissInv ==
  /\ TypeOK /\ InTime /\ ValidWaits /\ UniqueIds /\ Unforwarded /\ MissesOwed /\ OneEach
  /\ LinesPlaced /\ CacheCoherent

-----------------------------------------------------------------------------
(* The request of a cycle. *)
LEMMA ResetRecord == Reset \in MissStatus /\ ~Reset.valid
BY DEF Reset, Status, MissStatus

LEMMA LoadFacts ==
  ASSUME TypeOK, NEW p, p = 0 \/ p \in Waiting
  PROVE  /\ LoadAt(p) = None \/
            LoadAt(p) = [valid |-> TRUE, addr |-> window[p].addr, dest |-> window[p].id,
                         bmask |-> OlderBranches(p)]
         /\ ldMiss(LoadAt(p)) =>
              /\ p \in Waiting /\ ~Forwarded(p)
              /\ LoadAt(p).addr = window[p].addr /\ LoadAt(p).addr \in LINE
              /\ LoadAt(p).dest = window[p].id /\ LoadAt(p).dest \in DEST
              /\ LoadAt(p).bmask = OlderBranches(p) /\ LoadAt(p).bmask \subseteq BRANCH
<1>1. p \in Waiting => /\ window[p] \in LoadEntry /\ OlderBranches(p) \subseteq BRANCH
  BY WindowKinds DEF OlderBranches, BranchEntry
<1>2. ~None.valid
  BY DEF None
<1> QED BY <1>1, <1>2, LinesAssumption DEF LoadAt, ldMiss, LoadEntry

(* What the request req of a cycle is, when ld is the load issued at p. *)
Asks(p, ld, req) ==
  /\ req.status \in MissStatus /\ req.command \in {"LOAD", "STORE", "NONE"}
  /\ ldMiss(ld) =>
       /\ req.command = "LOAD" /\ req.addr = window[p].addr
       /\ req.status.addr = window[p].addr /\ req.status.destTag = window[p].id
       /\ req.status.bmask = OlderBranches(p)
       /\ req.status.is_load
  /\ ~ldMiss(ld) /\ req.command = "LOAD" => ~req.status.is_load
  /\ req.command = "STORE" <=> stRequest(ld, st)
  /\ req.command = "STORE" => req.addr = st.addr /\ req.data = st.data /\ st.valid
  /\ req.command = "LOAD" => req.addr \in LINE /\ req.status.valid

LEMMA RequestFacts ==
  ASSUME TypeOK, NEW p, NEW pf, p = 0 \/ p \in Waiting
  PROVE  Asks(p, LoadAt(p), Request(LoadAt(p), st, pc, pf))
<1> DEFINE ld  == LoadAt(p)
           req == Request(ld, st, pc, pf)
<1>1. pc \in LINE
  BY LinesAssumption DEF TypeOK
<1>2. CASE ldMiss(ld)
  <2>1. /\ ld.addr = window[p].addr /\ ld.addr \in LINE
        /\ ld.dest = window[p].id /\ ld.dest \in DEST
        /\ ld.bmask = OlderBranches(p) /\ ld.bmask \subseteq BRANCH
    BY <1>2, LoadFacts
  <2> HIDE DEF ld
  <2>2. ~stRequest(ld, st)
    BY <1>2 DEF stRequest
  <2>3. req = [command |-> "LOAD", addr |-> ld.addr, data |-> 0,
               status |-> Status(TRUE, ld.addr, ld.dest, ld.bmask)]
    BY <1>2 DEF Request, stRequest, ifRequest, pfRequest
  <2>4. /\ req.status \in MissStatus /\ req.status.valid /\ req.status.is_load
        /\ req.status.addr = ld.addr /\ req.status.destTag = ld.dest
        /\ req.status.bmask = ld.bmask
    BY <2>1, <2>3 DEF Status, MissStatus
  <2>5. req.command = "LOAD" /\ req.addr = ld.addr
    BY <2>3
  <2> HIDE DEF req
  <2>6. Asks(p, ld, req)
    BY <1>2, <2>1, <2>2, <2>4, <2>5 DEF Asks
  <2> QED BY <2>6 DEF ld, req
<1>3. CASE ~ldMiss(ld)
  <2> HIDE DEF ld
  <2> SUFFICES Asks(p, ld, req)
    BY DEF ld
  <2>1. CASE stRequest(ld, st)
    <3>1. req = [command |-> "STORE", addr |-> st.addr, data |-> st.data, status |-> Reset]
      BY <1>3, <2>1 DEF Request, stRequest, ifRequest, pfRequest
    <3> HIDE DEF req
    <3> QED BY <1>3, <2>1, <3>1, ResetRecord DEF stRequest, Asks
  <2>2. CASE ~stRequest(ld, st) /\ ifRequest(ld, st, pc)
    <3>1. req = [command |-> "LOAD", addr |-> pc, data |-> 0, status |-> Status(FALSE, pc, 0, {})]
      BY <1>3, <2>2 DEF Request, stRequest, ifRequest, pfRequest
    <3> HIDE DEF req
    <3>2. req.status \in MissStatus /\ req.status.valid /\ ~req.status.is_load
      BY <1>1, <3>1 DEF Status, MissStatus
    <3> QED BY <1>1, <1>3, <2>2, <3>1, <3>2 DEF Asks
  <2>3. CASE ~stRequest(ld, st) /\ ~ifRequest(ld, st, pc) /\ pfRequest(ld, st, pc, pf)
    <3>1. req = [command |-> "LOAD", addr |-> pf, data |-> 0, status |-> Status(FALSE, pf, 0, {})]
      BY <1>3, <2>3 DEF Request, stRequest, ifRequest, pfRequest
    <3>2. pf \in LINE
      BY <2>3 DEF pfRequest
    <3> HIDE DEF req
    <3>3. req.status \in MissStatus /\ req.status.valid /\ ~req.status.is_load
      BY <3>1, <3>2 DEF Status, MissStatus
    <3> QED BY <1>3, <2>3, <3>1, <3>2, <3>3 DEF Asks
  <2>4. CASE ~stRequest(ld, st) /\ ~ifRequest(ld, st, pc) /\ ~pfRequest(ld, st, pc, pf)
    <3>1. req = [command |-> "NONE", addr |-> 0, data |-> 0, status |-> Reset]
      BY <1>3, <2>4 DEF Request
    <3> HIDE DEF req
    <3> QED BY <1>3, <2>4, <3>1, ResetRecord DEF Asks
  <2> QED BY <2>1, <2>2, <2>3, <2>4
<1> QED BY <1>2, <1>3

-----------------------------------------------------------------------------
(* The registers after a cycle. *)
\* A register s that held e when a branch turned out right.
Resolved(s, e, right) ==
  /\ s.valid /\ s.is_load = e.is_load /\ s.addr = e.addr /\ s.destTag = e.destTag
  /\ s.bmask = e.bmask \ right

LEMMA EnteredType ==
  ASSUME TypeOK, NEW req, req.status \in MissStatus
  PROVE  Entered(req) \in [MEM_TAG -> MissStatus]
<1>1. \A t \in MEM_TAG : statuses[t] \in MissStatus
  BY DEF TypeOK
<1> QED BY <1>1, ResetRecord DEF Entered

LEMMA StatusAfter ==
  ASSUME TypeOK, NEW n, NEW gone, NEW p, NEW r, NEW pf, NEW wrong, NEW right, NEW isns,
         NEW st_idx, Moves(n, gone, p, r, pf, wrong, right, isns, st_idx),
         NEW req, req = Request(LoadAt(p), st, pc, pf)
  PROVE  /\ statuses' \in [MEM_TAG -> MissStatus]
         /\ \A t \in MEM_TAG :
              statuses'[t].valid <=>
                Entered(req)[t].valid /\ Entered(req)[t].bmask \cap wrong = {}
         /\ \A t \in MEM_TAG :
              statuses'[t].valid => Resolved(statuses'[t], Entered(req)[t], right)
<1> DEFINE E == Entered(req)
<1>1. E \in [MEM_TAG -> MissStatus]
  <2>1. p = 0 \/ p \in Waiting
    BY DEF Moves
  <2>2. req.status \in MissStatus
    BY <2>1, RequestFacts DEF Asks
  <2> QED BY <2>2, EnteredType
<1>2. statuses' = nextStatuses(req, wrong, right)
  BY DEF Moves, CCCycle
<1>3. \A t \in MEM_TAG :
        statuses'[t] = IF t > RESOLVED THEN E[t]
                       ELSE [E[t] EXCEPT !.valid = @ /\ E[t].bmask \cap wrong = {},
                                         !.bmask = @ \ right]
  BY <1>2 DEF nextStatuses
<1>4. DOMAIN statuses' = MEM_TAG /\ statuses' = [t \in MEM_TAG |-> statuses'[t]]
  BY <1>2 DEF nextStatuses
<1> HIDE DEF E
<1>5. ASSUME NEW t \in MEM_TAG
      PROVE  /\ statuses'[t] \in MissStatus
             /\ statuses'[t].valid <=> E[t].valid /\ E[t].bmask \cap wrong = {}
             /\ statuses'[t].valid => Resolved(statuses'[t], E[t], right)
  <2>1. E[t] \in MissStatus
    BY <1>1
  <2>2. CASE t > RESOLVED
    <3>1. statuses'[t] = E[t]
      BY <1>3, <2>2
    <3>2. E[t].valid => E[t].bmask \cap (wrong \cup right) = {}
      BY <2>2, <3>1 DEF Moves
    <3>3. E[t].valid => E[t].bmask \cap wrong = {} /\ E[t].bmask = E[t].bmask \ right
      BY <3>2
    <3> QED BY <2>1, <3>1, <3>3 DEF Resolved
  <2>3. CASE ~(t > RESOLVED)
    <3>1. statuses'[t] = [E[t] EXCEPT !.valid = @ /\ E[t].bmask \cap wrong = {},
                                      !.bmask = @ \ right]
      BY <1>3, <2>3
    <3> QED BY <2>1, <3>1 DEF Resolved, MissStatus
  <2> QED BY <2>2, <2>3
<1>6. statuses' \in [MEM_TAG -> MissStatus]
  BY <1>4, <1>5
<1> QED BY <1>5, <1>6 DEF E

(* A valid register after a cycle is that of the request, or one that was valid *)
(* and whose answer has not come.                                               *)
Registers(req, wrong, right) ==
  LET new == mem2proc_response(req.command)
  IN  /\ \A t \in MEM_TAG : statuses'[t].valid =>
           \/ /\ t = new /\ req.command = "LOAD" /\ req.status.bmask \cap wrong = {}
              /\ Resolved(statuses'[t], req.status, right)
           \/ /\ t # new /\ statuses[t].valid /\ t # mem2proc_tag
              /\ statuses[t].bmask \cap wrong = {}
              /\ Resolved(statuses'[t], statuses[t], right)
      /\ new # 0 /\ req.command = "LOAD" /\ req.status.bmask \cap wrong = {} =>
           Resolved(statuses'[new], req.status, right)
      /\ \A t \in MEM_TAG :
           statuses[t].valid /\ t # mem2proc_tag /\ statuses[t].bmask \cap wrong = {} =>
             Resolved(statuses'[t], statuses[t], right)

LEMMA RegistersAfter ==
  ASSUME TypeOK, ValidWaits,
         NEW n, NEW gone, NEW p, NEW r, NEW pf, NEW wrong, NEW right, NEW isns,
         NEW st_idx, Moves(n, gone, p, r, pf, wrong, right, isns, st_idx),
         NEW req, req = Request(LoadAt(p), st, pc, pf)
  PROVE  Registers(req, wrong, right)
<1> DEFINE new == mem2proc_response(req.command)
<1>1. \A t \in MEM_TAG :
        Entered(req)[t] = IF t = new /\ req.command = "LOAD" THEN req.status
                          ELSE IF t = mem2proc_tag THEN Reset
                          ELSE statuses[t]
  BY DEF Entered
<1>2. \A t \in MEM_TAG : statuses[t].valid => t # new
  <2>1. new = 0 \/ new \in FreeTags
    BY Response
  <2>2. \A t \in FreeTags : ~waiting_for_bus[t]
    BY DEF FreeTags
  <2>3. 0 \notin MEM_TAG
    BY DEF MEM_TAG
  <2> QED BY <2>1, <2>2, <2>3 DEF ValidWaits
<1>3. new = 0 \/ new \in MEM_TAG
  BY Response
<1>4. p = 0 \/ p \in Waiting
  BY DEF Moves
<1>5. req.command = "LOAD" => req.status.valid
  BY <1>4, RequestFacts DEF Asks
<1>6. /\ \A t \in MEM_TAG :
           statuses'[t].valid <=>
             Entered(req)[t].valid /\ Entered(req)[t].bmask \cap wrong = {}
      /\ \A t \in MEM_TAG :
           statuses'[t].valid => Resolved(statuses'[t], Entered(req)[t], right)
  BY StatusAfter
<1> HIDE DEF new
<1>7. ASSUME NEW t \in MEM_TAG, statuses'[t].valid
      PROVE  \/ /\ t = new /\ req.command = "LOAD" /\ req.status.bmask \cap wrong = {}
                /\ Resolved(statuses'[t], req.status, right)
             \/ /\ t # new /\ statuses[t].valid /\ t # mem2proc_tag
                /\ statuses[t].bmask \cap wrong = {}
                /\ Resolved(statuses'[t], statuses[t], right)
  BY <1>1, <1>2, <1>6, <1>7, ResetRecord
<1>8. ASSUME new # 0, req.command = "LOAD", req.status.bmask \cap wrong = {}
      PROVE  Resolved(statuses'[new], req.status, right)
  <2>1. Entered(req)[new] = req.status
    BY <1>1, <1>3, <1>8
  <2> QED BY <1>3, <1>5, <1>6, <1>8, <2>1
<1>9. ASSUME NEW t \in MEM_TAG, statuses[t].valid, t # mem2proc_tag,
             statuses[t].bmask \cap wrong = {}
      PROVE  Resolved(statuses'[t], statuses[t], right)
  <2>1. Entered(req)[t] = statuses[t]
    BY <1>1, <1>2, <1>9
  <2> QED BY <1>6, <1>9, <2>1
<1> QED BY <1>7, <1>8, <1>9 DEF Registers, new

-----------------------------------------------------------------------------
(* Loads that stay, and what a cycle keeps of the window. *)
LEMMA LoadsKept ==
  ASSUME TypeOK, NEW n, NEW gone, NEW p, NEW r, NEW pf, NEW wrong, NEW right, NEW isns,
         NEW st_idx, Moves(n, gone, p, r, pf, wrong, right, isns, st_idx)
  PROVE  /\ \A q \in Positions("load") :
              q \in Kept(n, gone) <=> q \notin Served(p) /\ OlderBranches(q) \cap wrong = {}
         /\ p \in Kept(n, gone) => p \in Waiting /\ ldMiss(LoadAt(p))
         /\ ldMiss(LoadAt(p)) => p \in Waiting /\ p \notin Served(p)
         /\ \A q \in SentLoads :
              q \in Served(p) <=> LoadAnswer /\ window[q].id = statuses[mem2proc_tag].destTag
<1>1. p = 0 \/ p \in Waiting
  BY DEF Moves
<1>2. /\ Waiting \subseteq Positions("load")
      /\ \A q \in Positions("load") : q \in Nat /\ q # 0
  BY WindowKinds DEF Positions
<1>3. \A q \in Positions("load") :
        /\ q \in gone <=> q \in Served(p)
        /\ q <= n <=> OlderBranches(q) \cap wrong = {}
  BY DEF Moves
<1>4. n \in Nat
  BY WindowKinds DEF Moves
<1>5. \A q \in Positions("load") : q \in Kept(n, gone) <=> q <= n /\ q \notin gone
  BY <1>2, <1>4 DEF Kept
<1>6. p # 0 => (p \in Served(p) <=> ~ldMiss(LoadAt(p)))
  BY <1>1, <1>2 DEF Served
<1>7. p \in Kept(n, gone) => p # 0
  BY DEF Kept
<1>8. ldMiss(LoadAt(p)) => p \in Waiting
  BY <1>1, LoadFacts
<1>9. \A q \in SentLoads :
        q \in Served(p) <=> LoadAnswer /\ window[q].id = statuses[mem2proc_tag].destTag
  BY <1>1, <1>2 DEF Served, SentLoads
<1> QED BY <1>1, <1>2, <1>3, <1>5, <1>6, <1>7, <1>8, <1>9

LEMMA UniqueIdsAfter ==
  ASSUME TypeOK, UniqueIds, NEW n, NEW gone, NEW p, NEW r, NEW pf, NEW wrong, NEW right, NEW isns,
         NEW st_idx, Moves(n, gone, p, r, pf, wrong, right, isns, st_idx)
  PROVE  UniqueIds'
<1> DEFINE K == Kept(n, gone)
           c == Cardinality(K)
<1>1. Carried(K, c, p, right, isns)
  BY PositionsAfter
<1>2. Placed(K, c, p, isns)
  BY WindowAfter
<1> HIDE DEF K, c
<1>3. /\ c \in Nat /\ \A k \in 1 .. c : Nth(K, k) \in K /\ Rank(K, Nth(K, k)) = k
  BY <1>2 DEF Placed
<1>4. ASSUME NEW kind \in {"load", "branch"}, NEW k \in Positions(kind)', k = c + 1,
             window'[c + 1] \in Dispatches
      PROVE  \A q \in Positions(kind) : window[q].id # window'[k].id
  <2>1. window'[k] \in Dispatches /\ window'[k].kind = kind
    BY <1>4 DEF Positions
  <2>2. kind = "load" => window'[k].id \in FreeId("load", DEST)
    BY <2>1 DEF Dispatches
  <2>3. kind = "branch" => window'[k].id \in FreeId("branch", BRANCH)
    BY <2>1 DEF Dispatches
  <2>4. ASSUME NEW kd, NEW ids \in SUBSET Nat, NEW x \in FreeId(kd, ids)
        PROVE  \A q \in Positions(kd) : window[q].id # x
    <3> DEFINE fr == ids \ {window[y].id : y \in Positions(kd)}
    <3>1. fr # {} => Min(fr) \in fr
      BY MinIsLeast
    <3>2. FreeId(kd, ids) = IF fr = {} THEN {} ELSE {Min(fr)}
      BY DEF FreeId
    <3> HIDE DEF fr
    <3>3. x \in fr
      BY <2>4, <3>1, <3>2
    <3> QED BY <3>3 DEF fr
  <2>5. DEST \in SUBSET Nat /\ BRANCH \in SUBSET Nat
    BY CacheAssumption
  <2> QED BY <2>2, <2>3, <2>4, <2>5
<1>5. ASSUME NEW kind \in {"load", "branch"}, NEW j \in Positions(kind)', NEW k \in Positions(kind)',
             window'[j].id = window'[k].id
      PROVE  j = k
  <2>1. /\ j \in 1 .. c \/ (j = c + 1 /\ window'[c + 1] \in Dispatches)
        /\ k \in 1 .. c \/ (k = c + 1 /\ window'[c + 1] \in Dispatches)
    BY <1>1 DEF Carried
  <2>2. \A i \in 1 .. c : i \in Positions(kind)' =>
          Nth(K, i) \in Positions(kind) /\ window'[i].id = window[Nth(K, i)].id
    BY <1>1 DEF Carried
  <2>3. CASE j \in 1 .. c /\ k \in 1 .. c
    <3>1. Nth(K, j) = Nth(K, k)
      BY <1>5, <2>2, <2>3 DEF UniqueIds
    <3> QED BY <1>3, <2>3, <3>1
  <2>4. CASE j \in 1 .. c /\ k = c + 1 /\ window'[c + 1] \in Dispatches
    BY <1>4, <1>5, <2>2, <2>4
  <2>5. CASE k \in 1 .. c /\ j = c + 1 /\ window'[c + 1] \in Dispatches
    BY <1>4, <1>5, <2>2, <2>5
  <2> QED BY <2>1, <2>3, <2>4, <2>5
<1> QED BY <1>5 DEF UniqueIds

LEMMA UnforwardedAfter ==
  ASSUME TypeOK, Unforwarded,
         NEW n, NEW gone, NEW p, NEW r, NEW pf, NEW wrong, NEW right, NEW isns,
         NEW st_idx, Moves(n, gone, p, r, pf, wrong, right, isns, st_idx)
  PROVE  Unforwarded'
<1> DEFINE K == Kept(n, gone)
           c == Cardinality(K)
<1>1. Carried(K, c, p, right, isns)
  BY PositionsAfter
<1>2. Placed(K, c, p, isns)
  BY WindowAfter
<1>3. p \in K => p \in Waiting /\ ldMiss(LoadAt(p))
  BY LoadsKept
<1> HIDE DEF K, c
<1>4. ASSUME NEW k \in SentLoads' PROVE ~Forwarded(k)'
  <2> DEFINE q == Nth(K, k)
  <2>1. k \in 1 .. c /\ c \in Nat /\ q \in K
    BY <1>1, <1>2 DEF Carried, Placed
  <2>2. q \in Positions("load") /\ q \in Nat
    <3>1. q = p \/ q \in SentLoads
      BY <1>1 DEF Carried
    <3> QED BY <1>3, <2>1, <3>1, WindowKinds DEF SentLoads
  <2>3. ~Forwarded(q)
    <3>1. CASE q = p
      <4>1. p = 0 \/ p \in Waiting
        BY DEF Moves
      <4> QED BY <1>3, <2>1, <3>1, <4>1, LoadFacts
    <3>2. CASE q # p
      <4>1. q \in SentLoads
        BY <1>1, <3>2 DEF Carried
      <4> QED BY <4>1 DEF Unforwarded
    <3> QED BY <3>1, <3>2
  <2>4. window'[k].addr = window[q].addr
    BY <1>1, <2>1 DEF Carried
  <2>5. ASSUME NEW j \in Positions("store")', j < k PROVE window'[j].addr # window[q].addr
    <3>1. j \in 1 .. c
      <4>1. j \in 1 .. c \/ j = c + 1
        BY <1>1 DEF Carried
      <4> QED BY <2>1, <2>5, <4>1
    <3>2. /\ Nth(K, j) \in Positions("store") /\ Nth(K, j) < q
          /\ window'[j].addr = window[Nth(K, j)].addr
      BY <1>1, <2>1, <2>5, <3>1 DEF Carried
    <3> HIDE DEF q
    <3> QED BY <2>3, <3>2 DEF Forwarded
  <2>6. st'.valid => st'.addr # window[q].addr
    <3>1. st' = IF r # 0 THEN [valid |-> TRUE, addr |-> window[r].addr,
                               data |-> 1 - unified_memory[window[r].addr]]
                ELSE IF Sent(LoadAt(p), st) THEN None ELSE st
      BY DEF Moves
    <3>2. CASE r # 0
      <4>1. r = 1 /\ r \in Positions("store")
        BY <3>2 DEF Moves
      <4>2. q # r /\ q # 0
        <5>1. window[q].kind = "load" /\ window[r].kind = "store" /\ q \in DOMAIN window
          BY <2>2, <4>1 DEF Positions
        <5>2. q \in 1 .. Len(window) /\ Len(window) \in Nat
          BY <5>1, WindowKinds
        <5> HIDE DEF q
        <5>3. q # r
          BY <5>1
        <5> QED BY <5>2, <5>3
      <4> HIDE DEF q
      <4>3. r < q
        BY <2>2, <4>1, <4>2
      <4> QED BY <2>3, <3>1, <3>2, <4>1, <4>3 DEF Forwarded
    <3>3. CASE r = 0
      BY <2>3, <3>1, <3>3 DEF Forwarded, None
    <3> QED BY <3>2, <3>3
  <2>7. PICK x : x = k
    OBVIOUS
  <2>8. Forwarded(x)' <=>
          \/ st'.valid /\ st'.addr = window'[x].addr
          \/ \E i \in Positions("store")' : i < x /\ window'[i].addr = window'[x].addr
    BY DEF Forwarded
  <2> HIDE DEF q
  <2> QED BY <2>4, <2>5, <2>6, <2>7, <2>8
<1>5. \A k \in SentLoads' : ~Forwarded(k)'
  BY <1>4
<1> QED BY <1>5 DEF Unforwarded

-----------------------------------------------------------------------------
(* The registers and memory keep their agreement. *)
LEMMA OwedAfter ==
  ASSUME MissInv, NEW n, NEW gone, NEW p, NEW r, NEW pf, NEW wrong, NEW right, NEW isns,
         NEW st_idx, Moves(n, gone, p, r, pf, wrong, right, isns, st_idx)
  PROVE  ValidWaits' /\ OneEach' /\ MissesOwed'
<1> DEFINE K == Kept(n, gone)
           c == Cardinality(K)
           ld == LoadAt(p)
           req == Request(ld, st, pc, pf)
           new == mem2proc_response(req.command)
<1>1. Carried(K, c, p, right, isns) /\ Placed(K, c, p, isns)
  BY PositionsAfter, WindowAfter DEF MissInv
<1>2. p = 0 \/ p \in Waiting
  BY DEF Moves
<1>3. Asks(p, ld, req)
  BY <1>2, RequestFacts DEF MissInv
<1>4. Registers(req, wrong, right)
  BY RegistersAfter DEF MissInv
<1>5. /\ \A q \in Positions("load") :
           q \in K <=> q \notin Served(p) /\ OlderBranches(q) \cap wrong = {}
      /\ ldMiss(ld) => p \in Waiting /\ p \notin Served(p)
      /\ \A q \in SentLoads :
           q \in Served(p) <=> LoadAnswer /\ window[q].id = statuses[mem2proc_tag].destTag
  BY LoadsKept DEF MissInv
<1>6. /\ waiting_for_bus' = [t \in MEM_TAG |->
           IF t = new THEN req.command = "LOAD" ELSE waiting_for_bus[t] /\ t # mem2proc_tag]
      /\ loaded_data' = [t \in MEM_TAG |->
           IF t = new /\ req.command = "LOAD" THEN unified_memory[req.addr]
           ELSE IF t = mem2proc_tag THEN 0 ELSE loaded_data[t]]
      /\ unified_memory' = IF new # 0 /\ req.command = "STORE"
                             THEN [unified_memory EXCEPT ![req.addr] = req.data]
                             ELSE unified_memory
  BY DEF Moves, CCCycle, MemCycle
<1>7. /\ mem2proc_tag = 0 \/ mem2proc_tag \in MEM_TAG
      /\ 0 \notin MEM_TAG
  BY Answer DEF MissInv
<1> HIDE DEF K, c, ld, req, new
<1>8. Waiting \subseteq Positions("load") /\ SentLoads = Positions("load") \ Waiting
  BY WindowKinds DEF MissInv, SentLoads
(* A register that is valid after the cycle was asked for by the load at p, or  *)
(* held another load, which stays.                                              *)
<1>9. ASSUME NEW t \in MEM_TAG, statuses'[t].valid
      PROVE  \/ /\ t = new /\ req.command = "LOAD" /\ req.status.bmask \cap wrong = {}
                /\ Resolved(statuses'[t], req.status, right)
             \/ /\ t # new /\ statuses[t].valid /\ t # mem2proc_tag
                /\ statuses[t].bmask \cap wrong = {}
                /\ Resolved(statuses'[t], statuses[t], right)
  BY <1>4, <1>9 DEF Registers, new
<1>10. ValidWaits'
  <2> SUFFICES ASSUME NEW t \in MEM_TAG, statuses'[t].valid PROVE waiting_for_bus'[t]
    BY DEF ValidWaits, MEM_TAG
  <2> QED BY <1>6, <1>9 DEF MissInv, ValidWaits
<1>11. ASSUME NEW t \in Misses, t # mem2proc_tag, statuses[t].bmask \cap wrong = {}
       PROVE  \E q \in SentLoads : q \in K /\ Holds(t, q)
  <2>1. PICK q \in SentLoads : Holds(t, q)
    BY DEF MissInv, MissesOwed
  <2>2. window[q].id = statuses[t].destTag /\ OlderBranches(q) = statuses[t].bmask
    BY <2>1 DEF Holds, Status
  <2>3. q \notin Served(p)
    <3> SUFFICES ASSUME q \in Served(p) PROVE FALSE
      OBVIOUS
    <3>1. LoadAnswer /\ window[q].id = statuses[mem2proc_tag].destTag
      BY <1>5, <2>1
    <3>2. mem2proc_tag \in Misses
      BY <1>7, <3>1 DEF LoadAnswer, Misses
    <3>3. OneEach
      BY DEF MissInv
    <3> QED BY <1>11, <2>2, <3>1, <3>2, <3>3 DEF OneEach
  <2>4. q \in K
    BY <1>5, <1>8, <1>11, <2>2, <2>3
  <2> QED BY <2>1, <2>4
<1>12. ASSUME NEW t \in Misses'
       PROVE  \/ /\ t = new /\ req.command = "LOAD" /\ req.status.is_load
                 /\ ldMiss(ld) /\ p \in Waiting /\ p \in K
                 /\ Resolved(statuses'[t], req.status, right)
              \/ /\ t # new /\ t \in Misses /\ t # mem2proc_tag
                 /\ Resolved(statuses'[t], statuses[t], right)
                 /\ \E q \in SentLoads : q \in K /\ Holds(t, q)
  <2>1. t \in MEM_TAG /\ statuses'[t].valid /\ statuses'[t].is_load
    BY DEF Misses, MEM_TAG
  <2>2. CASE /\ t = new /\ req.command = "LOAD" /\ req.status.bmask \cap wrong = {}
             /\ Resolved(statuses'[t], req.status, right)
    <3>1. req.status.is_load
      BY <2>1, <2>2 DEF Resolved
    <3>2. ldMiss(ld) /\ p \in Waiting /\ p \notin Served(p)
      BY <1>3, <1>5, <2>2, <3>1 DEF Asks
    <3>3. p \in K
      BY <1>3, <1>5, <1>8, <2>2, <3>2 DEF Asks
    <3> QED BY <2>2, <3>1, <3>2, <3>3
  <2>3. CASE /\ t # new /\ statuses[t].valid /\ t # mem2proc_tag
             /\ statuses[t].bmask \cap wrong = {}
             /\ Resolved(statuses'[t], statuses[t], right)
    <3>1. t \in Misses
      BY <2>1, <2>3 DEF Resolved, Misses
    <3> QED BY <1>11, <2>3, <3>1
  <2> QED BY <1>9, <2>1, <2>2, <2>3
<1>13. statuses' \in [MEM_TAG -> MissStatus]
  BY StatusAfter DEF MissInv
<1>14. ASSUME NEW t \in Misses', NEW q \in K, q = p \/ q \in SentLoads,
              statuses'[t].addr = window[q].addr, statuses'[t].destTag = window[q].id,
              statuses'[t].bmask = OlderBranches(q) \ right
       PROVE  \E k \in SentLoads' : Holds(t, k)'
  <2> DEFINE k == Rank(K, q)
  <2>1. k \in 1 .. c /\ Nth(K, k) = q
    BY <1>1 DEF Placed
  <2>2. k \in SentLoads'
    BY <1>1, <1>14, <2>1 DEF Carried
  <2>3. /\ window'[k].addr = window[q].addr /\ window'[k].id = window[q].id
        /\ OlderBranches(k)' = OlderBranches(q) \ right
    BY <1>1, <2>1 DEF Carried
  <2>4. statuses'[t] \in MissStatus /\ statuses'[t].valid /\ statuses'[t].is_load
    BY <1>13 DEF Misses, MEM_TAG
  <2> HIDE DEF k
  <2>5. PICK x : x = k
    OBVIOUS
  <2>6. statuses'[t] = Status(TRUE, window'[x].addr, window'[x].id, OlderBranches(q) \ right)
    BY <1>14, <2>3, <2>4, <2>5 DEF MissStatus, Status
  <2>7. OlderBranches(x)' = OlderBranches(q) \ right
    BY <2>3, <2>5
  <2>8. Holds(t, x)'
    BY <2>6, <2>7 DEF Holds
  <2> QED BY <2>2, <2>5, <2>8
<1>15. ASSUME NEW t \in Misses'
       PROVE  /\ \E k \in SentLoads' : Holds(t, k)'
              /\ waiting_for_bus'[t] /\ loaded_data'[t] = unified_memory'[statuses'[t].addr]
  <2>0. t \in MEM_TAG
    BY DEF Misses, MEM_TAG
  <2>1. CASE /\ t = new /\ req.command = "LOAD" /\ req.status.is_load
             /\ ldMiss(ld) /\ p \in Waiting /\ p \in K
             /\ Resolved(statuses'[t], req.status, right)
    <3>1. /\ req.addr = window[p].addr /\ req.status.addr = window[p].addr
          /\ req.status.destTag = window[p].id /\ req.status.bmask = OlderBranches(p)
      BY <1>3, <2>1 DEF Asks
    <3>2. /\ statuses'[t].addr = window[p].addr /\ statuses'[t].destTag = window[p].id
          /\ statuses'[t].bmask = OlderBranches(p) \ right
      BY <2>1, <3>1 DEF Resolved
    <3>3. \E k \in SentLoads' : Holds(t, k)'
      BY <1>14, <2>1, <3>2
    <3>4. waiting_for_bus'[t] /\ loaded_data'[t] = unified_memory[window[p].addr]
      BY <1>6, <2>0, <2>1, <3>1
    <3>5. unified_memory' = unified_memory
      BY <1>6, <2>1
    <3> QED BY <3>2, <3>3, <3>4, <3>5
  <2>2. CASE /\ t # new /\ t \in Misses /\ t # mem2proc_tag
             /\ Resolved(statuses'[t], statuses[t], right)
             /\ \E q \in SentLoads : q \in K /\ Holds(t, q)
    <3>1. PICK q \in SentLoads : q \in K /\ Holds(t, q)
      BY <2>2
    <3>2. /\ statuses[t].addr = window[q].addr /\ statuses[t].destTag = window[q].id
          /\ statuses[t].bmask = OlderBranches(q)
      BY <3>1 DEF Holds, Status
    <3>3. /\ statuses'[t].addr = window[q].addr /\ statuses'[t].destTag = window[q].id
          /\ statuses'[t].bmask = OlderBranches(q) \ right
      BY <2>2, <3>2 DEF Resolved
    <3>4. \E k \in SentLoads' : Holds(t, k)'
      BY <1>14, <3>1, <3>3
    <3>5. waiting_for_bus[t] /\ loaded_data[t] = unified_memory[window[q].addr]
      BY <2>2, <3>2 DEF MissInv, MissesOwed
    <3>6. waiting_for_bus'[t] /\ loaded_data'[t] = loaded_data[t]
      BY <1>6, <2>0, <2>2, <3>5
    <3>7. unified_memory'[window[q].addr] = unified_memory[window[q].addr]
      <4>1. req.command = "STORE" => req.addr # window[q].addr
        <5>1. ~Forwarded(q)
          BY DEF MissInv, Unforwarded
        <5> QED BY <1>3, <5>1 DEF Asks, Forwarded
      <4>2. unified_memory \in [LINE -> DATA]
        BY DEF MissInv, TypeOK
      <4> QED BY <1>6, <4>1, <4>2
    <3> QED BY <3>3, <3>4, <3>5, <3>6, <3>7
  <2> QED BY <1>12, <2>1, <2>2
<1>16. MissesOwed'
  BY <1>15 DEF MissesOwed
<1>17. OneEach'
  <2> SUFFICES ASSUME NEW s \in Misses', NEW t \in Misses',
                      statuses'[s].destTag = statuses'[t].destTag
               PROVE  s = t
    BY DEF OneEach
  <2>1. ASSUME NEW u \in Misses', NEW v \in Misses', u = new, v # new,
               statuses'[u].destTag = statuses'[v].destTag
        PROVE  FALSE
    <3>1. /\ p \in Waiting /\ Resolved(statuses'[u], req.status, right)
          /\ req.status.destTag = window[p].id
      BY <1>3, <1>12, <2>1 DEF Asks
    <3>2. PICK q \in SentLoads : Holds(v, q) /\ Resolved(statuses'[v], statuses[v], right)
      BY <1>12, <2>1
    <3>3. window[q].id = window[p].id
      <4>1. statuses[v].destTag = window[q].id
        BY <3>2 DEF Holds, Status
      <4>2. /\ statuses'[v].destTag = statuses[v].destTag
            /\ statuses'[u].destTag = window[p].id
        BY <3>1, <3>2 DEF Resolved
      <4> QED BY <2>1, <4>1, <4>2
    <3>4. q = p
      BY <1>8, <3>1, <3>3 DEF MissInv, UniqueIds
    <3> QED BY <1>8, <3>1, <3>4
  <2>2. CASE s # new /\ t # new
    <3>1. /\ s \in Misses /\ t \in Misses
          /\ Resolved(statuses'[s], statuses[s], right) /\ Resolved(statuses'[t], statuses[t], right)
      BY <1>12, <2>2
    <3> QED BY <3>1 DEF Resolved, MissInv, OneEach
  <2> QED BY <2>1, <2>2
<1> QED BY <1>10, <1>16, <1>17

LEMMA CachesAfter ==
  ASSUME MissInv, NEW n, NEW gone, NEW p, NEW r, NEW pf, NEW wrong, NEW right, NEW isns,
         NEW st_idx, Moves(n, gone, p, r, pf, wrong, right, isns, st_idx)
  PROVE  TypeOK' /\ InTime' /\ LinesPlaced' /\ CacheCoherent'
<1> DEFINE ld == LoadAt(p)
           req == Request(ld, st, pc, pf)
           new == mem2proc_response(req.command)
           slot == statuses[mem2proc_tag]
           LINES == 0 .. (CACHE_LINES - 1)
<1>1. p = 0 \/ p \in Waiting
  BY DEF Moves
<1>2. Asks(p, ld, req)
  BY <1>1, RequestFacts DEF MissInv
<1>3. /\ waiting_for_bus' = [t \in MEM_TAG |->
           IF t = new THEN req.command = "LOAD" ELSE waiting_for_bus[t] /\ t # mem2proc_tag]
      /\ loaded_data' = [t \in MEM_TAG |->
           IF t = new /\ req.command = "LOAD" THEN unified_memory[req.addr]
           ELSE IF t = mem2proc_tag THEN 0 ELSE loaded_data[t]]
      /\ unified_memory' = IF new # 0 /\ req.command = "STORE"
                             THEN [unified_memory EXCEPT ![req.addr] = req.data]
                             ELSE unified_memory
  BY DEF Moves, CCCycle, MemCycle
<1>4. /\ dcache' = [i \in DOMAIN dcache |->
           IF Sent(ld, st) /\ i = Idx(st.addr) THEN [addr |-> st.addr, data |-> st.data]
           ELSE IF Filled(st_idx) /\ i = Idx(slot.addr)
             THEN [addr |-> slot.addr, data |-> mem2proc_data]
           ELSE dcache[i]]
      /\ icache' = IF mem2proc_tag # 0 /\ ~slot.is_load
                     THEN [icache EXCEPT ![Idx(slot.addr)] = slot.addr] ELSE icache
  BY DEF Moves, CCCycle
<1>5. InTime' /\ cycles_left' \in [MEM_TAG -> 0 .. LATENCY]
  <2>1. MemCycle(req.command, req.addr, req.data)
    BY DEF Moves, CCCycle
  <2> HIDE DEF req
  <2> QED BY <2>1, TagsMove DEF MissInv
<1>6. mem2proc_tag # 0 => mem2proc_tag \in MEM_TAG /\ slot \in MissStatus
  BY Answer DEF MissInv, TypeOK
<1>7. TypeOK
  BY DEF MissInv
<1>8. Sent(ld, st) <=> new # 0 /\ req.command = "STORE"
  BY <1>2 DEF Sent, Asks
<1>9. Sent(ld, st) => /\ st.valid /\ req.addr = st.addr /\ req.data = st.data
                      /\ st.addr \in LINE /\ st.data \in DATA
  <2>1. st.valid => st.addr \in STORED /\ st.data \in DATA
    <3>1. st = None \/ st \in [valid : {TRUE}, addr : STORED, data : DATA]
      BY <1>7 DEF TypeOK
    <3>2. CASE st = None
      <4>1. st.valid = FALSE
        BY <3>2 DEF None
      <4> QED BY <4>1
    <3>3. CASE st \in [valid : {TRUE}, addr : STORED, data : DATA]
      BY <3>3
    <3> QED BY <3>1, <3>2, <3>3
  <2> QED BY <1>2, <1>8, <2>1, LinesAssumption DEF Asks
<1>10. Filled(st_idx) => /\ slot.addr \in LINE /\ mem2proc_data = unified_memory[slot.addr]
                         /\ mem2proc_data \in DATA
  <2> SUFFICES ASSUME Filled(st_idx)
               PROVE  /\ slot.addr \in LINE /\ mem2proc_data = unified_memory[slot.addr]
                      /\ mem2proc_data \in DATA
    OBVIOUS
  <2>1. mem2proc_tag \in Misses
    BY <1>6 DEF Filled, LoadAnswer, Misses
  <2>2. PICK q \in SentLoads : Holds(mem2proc_tag, q)
    BY <2>1 DEF MissInv, MissesOwed
  <2>3. window[q].addr \in LOADED
    BY <1>7, WindowKinds DEF SentLoads, LoadEntry
  <2>4. slot.addr = window[q].addr
    BY <2>2 DEF Holds, Status
  <2>5. slot.addr \in LINE
    BY <2>3, <2>4, LinesAssumption
  <2>6. mem2proc_data = unified_memory[slot.addr]
    BY <2>1 DEF MissInv, MissesOwed, mem2proc_data
  <2> QED BY <1>7, <2>5, <2>6 DEF TypeOK
<1> HIDE DEF ld, req, new
<1>11. unified_memory' \in [LINE -> DATA]
  BY <1>3, <1>7, <1>8, <1>9 DEF TypeOK
<1>12. waiting_for_bus' \in [MEM_TAG -> BOOLEAN]
  <2>1. waiting_for_bus \in [MEM_TAG -> BOOLEAN]
    BY <1>7 DEF TypeOK
  <2> QED BY <1>3, <2>1
<1>13. loaded_data' \in [MEM_TAG -> DATA]
  <2>1. loaded_data \in [MEM_TAG -> DATA] /\ unified_memory \in [LINE -> DATA] /\ 0 \in DATA
    BY <1>7 DEF TypeOK, DATA
  <2>2. req.command = "LOAD" => unified_memory[req.addr] \in DATA
    BY <1>2, <2>1 DEF Asks
  <2> QED BY <1>3, <2>1, <2>2
<1>14. statuses' \in [MEM_TAG -> MissStatus]
  BY <1>7, StatusAfter
<1>15. /\ dcache \in [LINES -> {None} \cup [addr : LINE, data : DATA]]
       /\ dcache' \in [LINES -> {None} \cup [addr : LINE, data : DATA]]
  <2>1. dcache \in [LINES -> {None} \cup [addr : LINE, data : DATA]]
    BY <1>7 DEF TypeOK
  <2> HIDE DEF slot, LINES
  <2> QED BY <1>4, <1>9, <1>10, <2>1
<1>16. icache' \in [LINES -> {NoLine} \cup LINE \cup {0}]
  <2>1. icache \in [LINES -> {NoLine} \cup LINE \cup {0}]
    BY <1>7 DEF TypeOK
  <2>2. mem2proc_tag # 0 => slot.addr \in LINE \cup {0}
    BY <1>6 DEF MissStatus
  <2> HIDE DEF slot, LINES
  <2> QED BY <1>4, <2>1, <2>2
<1>17. window' \in Seq(Entry)
  BY <1>7, WindowAfter DEF Placed
<1>18. st' = None \/ st' \in [valid : {TRUE}, addr : STORED, data : DATA]
  <2>1. st' = IF r # 0 THEN [valid |-> TRUE, addr |-> window[r].addr,
                             data |-> 1 - unified_memory[window[r].addr]]
              ELSE IF Sent(ld, st) THEN None ELSE st
    BY DEF Moves, ld
  <2>2. CASE r # 0
    <3>1. window[r] \in StoreEntry
      BY <1>7, <2>2, WindowKinds DEF Moves
    <3>2. window[r].addr \in STORED /\ window[r].addr \in LINE
      BY <3>1, LinesAssumption DEF StoreEntry
    <3>3. unified_memory[window[r].addr] \in DATA
      BY <1>7, <3>2 DEF TypeOK
    <3>4. 1 - unified_memory[window[r].addr] \in DATA
      BY <3>3 DEF DATA
    <3> QED BY <2>1, <2>2, <3>2, <3>4
  <2>3. CASE r = 0
    BY <1>7, <2>1, <2>3 DEF TypeOK
  <2> QED BY <2>2, <2>3
<1>19. TypeOK'
  <2>1. pc' \in FETCHED
    BY DEF Moves
  <2> QED BY <1>5, <1>11, <1>12, <1>13, <1>14, <1>15, <1>16, <1>17, <1>18, <2>1
       DEF TypeOK, MEM_TAG, MissStatus, Entry, LoadEntry, StoreEntry, BranchEntry, DATA, None, NoLine
<1>20. ASSUME NEW i \in LINES, dcache'[i] # None
       PROVE  Idx(dcache'[i].addr) = i /\ dcache'[i].data = unified_memory'[dcache'[i].addr]
  <2>1. unified_memory \in [LINE -> DATA]
    BY <1>7 DEF TypeOK
  <2>2. dcache'[i] = IF Sent(ld, st) /\ i = Idx(st.addr) THEN [addr |-> st.addr, data |-> st.data]
                     ELSE IF Filled(st_idx) /\ i = Idx(slot.addr)
                       THEN [addr |-> slot.addr, data |-> mem2proc_data]
                     ELSE dcache[i]
    BY <1>4, <1>15
  <2>3. \A a \in LINE : unified_memory'[a] = IF Sent(ld, st) /\ a = st.addr THEN st.data
                                             ELSE unified_memory[a]
    BY <1>3, <1>8, <1>9, <2>1
  <2> HIDE DEF slot
  <2>4. CASE Sent(ld, st) /\ i = Idx(st.addr)
    BY <1>9, <2>2, <2>3, <2>4
  <2>5. CASE ~(Sent(ld, st) /\ i = Idx(st.addr)) /\ Filled(st_idx) /\ i = Idx(slot.addr)
    <3>1. dcache'[i].addr = slot.addr /\ dcache'[i].data = mem2proc_data
      BY <2>2, <2>5
    <3>2. ~(Sent(ld, st) /\ slot.addr = st.addr)
      BY <2>5
    <3> QED BY <1>10, <2>3, <2>5, <3>1, <3>2
  <2>6. CASE ~(Sent(ld, st) /\ i = Idx(st.addr)) /\ ~(Filled(st_idx) /\ i = Idx(slot.addr))
    <3>1. dcache'[i] = dcache[i]
      BY <2>2, <2>6
    <3>2. Idx(dcache[i].addr) = i /\ dcache[i].data = unified_memory[dcache[i].addr]
      BY <1>15, <1>20, <3>1 DEF MissInv, LinesPlaced, CacheCoherent
    <3>3. dcache[i].addr \in LINE
      BY <1>15, <1>20, <3>1
    <3>4. ~(Sent(ld, st) /\ dcache[i].addr = st.addr)
      BY <2>6, <3>2
    <3> QED BY <2>3, <3>1, <3>2, <3>3, <3>4
  <2> QED BY <2>4, <2>5, <2>6
<1>21. DOMAIN dcache' = LINES
  BY <1>15
<1> QED BY <1>5, <1>19, <1>20, <1>21 DEF LinesPlaced, CacheCoherent, Idx

-----------------------------------------------------------------------------
(* Every behaviour keeps the invariant. *)
LEMMA InitMissInv == Init => MissInv
<1> SUFFICES ASSUME Init PROVE MissInv
  OBVIOUS
<1>1. /\ unified_memory = [a \in LINE |-> 0]
      /\ cycles_left = [t \in MEM_TAG |-> 0]
      /\ waiting_for_bus = [t \in MEM_TAG |-> FALSE]
      /\ loaded_data = [t \in MEM_TAG |-> 0]
      /\ statuses = [t \in MEM_TAG |-> Reset]
      /\ dcache = [i \in 0 .. (CACHE_LINES - 1) |-> None]
      /\ icache = [i \in 0 .. (CACHE_LINES - 1) |-> NoLine]
      /\ window = <<>> /\ st = None /\ pc \in FETCHED
  BY DEF Init, MemInit, CCInit
<1>2. 0 \in DATA /\ 0 \in 0 .. LATENCY
  BY MemAssumption DEF DATA
<1>3. Reset \in MissStatus
  BY ResetRecord
<1>4. window \in Seq(Entry)
  BY <1>1
<1>5. TypeOK
  BY <1>1, <1>2, <1>3, <1>4 DEF TypeOK
<1>6. InTime
  BY <1>1 DEF InTime
<1>7. ValidWaits /\ Misses = {}
  BY <1>1, ResetRecord DEF ValidWaits, Misses
<1>8. \A kind : Positions(kind) = {}
  BY <1>1 DEF Positions
<1>9. UniqueIds /\ Unforwarded
  BY <1>8 DEF UniqueIds, Unforwarded, SentLoads
<1>10. MissesOwed /\ OneEach
  BY <1>7 DEF MissesOwed, OneEach
<1>11. LinesPlaced /\ CacheCoherent
  BY <1>1 DEF LinesPlaced, CacheCoherent
<1> QED BY <1>5, <1>6, <1>7, <1>9, <1>10, <1>11 DEF MissInv

(* A step of SafeNext is a cycle. *)
LEMMA SafeNextMoves ==
  ASSUME TypeOK, UniqueIds, SafeNext
  PROVE  \E n, gone, p, r, pf, wrong, right, isns, st_idx :
           Moves(n, gone, p, r, pf, wrong, right, isns, st_idx)
<1>1. CASE Cycle(0)
  BY <1>1, CycleMoves
<1>2. CASE \E b \in Positions("branch") : Cycle(b) /\ Hears(b)
  BY <1>2, CycleMoves
<1>3. CASE \E b \in Positions("branch") : Recover(b) /\ Hears(b)
  BY <1>3, RecoverMoves
<1> QED BY <1>1, <1>2, <1>3 DEF SafeNext

LEMMA MissInvStutters ==
  ASSUME MissInv, UNCHANGED vars
  PROVE  MissInv'
<1> USE DEF vars, mem_vars, cc_vars
<1>1. TypeOK'
  BY DEF MissInv, TypeOK, MEM_TAG
<1>2. InTime' /\ ValidWaits'
  BY DEF MissInv, InTime, ValidWaits, MEM_TAG
<1>3. \A kind : Positions(kind)' = Positions(kind)
  BY DEF Positions
<1>4. SentLoads' = SentLoads /\ Misses' = Misses
  BY <1>3 DEF SentLoads, Waiting, Misses, MEM_TAG
<1>5. UniqueIds' /\ OneEach'
  BY <1>3, <1>4 DEF MissInv, UniqueIds, OneEach
<1>6. Unforwarded'
  BY <1>3, <1>4 DEF MissInv, Unforwarded, Forwarded
<1>7. \A p : OlderBranches(p)' = OlderBranches(p)
  BY <1>3 DEF OlderBranches
<1>8. MissesOwed'
  BY <1>4, <1>7 DEF MissInv, MissesOwed, Holds
<1>9. LinesPlaced' /\ CacheCoherent'
  BY DEF MissInv, LinesPlaced, CacheCoherent
<1> QED BY <1>1, <1>2, <1>5, <1>6, <1>8, <1>9 DEF MissInv

LEMMA MissInvSteps ==
  ASSUME MissInv, [SafeNext]_vars
  PROVE  MissInv'
<1>1. CASE SafeNext
  <2>1. PICK n, gone, p, r, pf, wrong, right, isns, st_idx :
             Moves(n, gone, p, r, pf, wrong, right, isns, st_idx)
    BY <1>1, SafeNextMoves DEF MissInv
  <2>2. TypeOK' /\ InTime' /\ LinesPlaced' /\ CacheCoherent'
    BY <2>1, CachesAfter
  <2>3. ValidWaits' /\ OneEach' /\ MissesOwed'
    BY <2>1, OwedAfter
  <2>4. UniqueIds'
    BY <2>1, UniqueIdsAfter DEF MissInv
  <2>5. Unforwarded'
    BY <2>1, UnforwardedAfter DEF MissInv
  <2> QED BY <2>2, <2>3, <2>4, <2>5 DEF MissInv
<1>2. CASE UNCHANGED vars
  BY <1>2, MissInvStutters
<1> QED BY <1>1, <1>2

LEMMA MissInvHolds == SafeSpec => []MissInv
BY InitMissInv, MissInvSteps, PTL DEF SafeSpec

(* The data cache holds no line that differs from memory: whatever the loads,  *)
(* stores and branches of the program, the sizes of the caches and the latency, *)
(* a load that hits reads what memory holds (dcache.v:45-61,                    *)
(* CacheCtrl.v:305-313).                                                        *)
THEOREM CacheCoherentHolds == SafeSpec => []CacheCoherent
<1>1. MissInv => CacheCoherent
  BY DEF MissInv
<1> QED BY <1>1, MissInvHolds, PTL

-----------------------------------------------------------------------------
(* A request is always accepted when there are more tags than cycles of        *)
(* latency: no two of the tags in use are due in the same cycle.                *)
LEMMA FreeTag ==
  ASSUME TypeOK, InTime, LATENCY < NUM_TAGS
  PROVE  FreeTags # {}
<1> SUFFICES ASSUME FreeTags = {} PROVE FALSE
  OBVIOUS
<1> DEFINE S == 1 .. NUM_TAGS
           T == 1 .. LATENCY
<1>1. NUM_TAGS \in Nat /\ LATENCY \in Nat
  BY MemAssumption
<1>2. cycles_left \in [S -> T]
  <2>1. cycles_left \in [S -> 0 .. LATENCY]
    BY DEF TypeOK, MEM_TAG
  <2>2. \A t \in S : cycles_left[t] # 0
    BY DEF FreeTags, InTime, MEM_TAG
  <2>3. \A t \in S : cycles_left[t] \in T
    BY <1>1, <2>1, <2>2
  <2> HIDE DEF S, T
  <2> QED BY <2>1, <2>3
<1>3. IsFiniteSet(S) /\ Cardinality(S) = NUM_TAGS
  <2>1. IsFiniteSet(S) /\ Cardinality(S) = IF 1 > NUM_TAGS THEN 0 ELSE NUM_TAGS - 1 + 1
    BY <1>1, FS_Interval
  <2> QED BY <1>1, <2>1
<1>4. IsFiniteSet(T) /\ Cardinality(T) = LATENCY
  <2>1. IsFiniteSet(T) /\ Cardinality(T) = IF 1 > LATENCY THEN 0 ELSE LATENCY - 1 + 1
    BY <1>1, FS_Interval
  <2> QED BY <1>1, <2>1
<1> HIDE DEF S, T
<1>5. \E s, t \in S : s # t /\ cycles_left[s] = cycles_left[t]
  BY <1>2, <1>3, <1>4, FS_PigeonHole
<1>6. PICK s \in S, t \in S : s # t /\ cycles_left[s] = cycles_left[t]
  BY <1>5
<1>7. cycles_left[s] # 0
  BY <1>2 DEF T
<1> QED BY <1>6, <1>7 DEF InTime, MEM_TAG, S

(* Every load that is out has a register. *)
SentHeld == \A q \in SentLoads : \E t \in Misses : Holds(t, q)

LEMMA SentHeldAfter ==
  ASSUME MissInv, SentHeld, LATENCY < NUM_TAGS,
         NEW n, NEW gone, NEW p, NEW r, NEW pf, NEW wrong, NEW right, NEW isns,
         NEW st_idx, Moves(n, gone, p, r, pf, wrong, right, isns, st_idx)
  PROVE  SentHeld'
<1> DEFINE K == Kept(n, gone)
           c == Cardinality(K)
           ld == LoadAt(p)
           req == Request(ld, st, pc, pf)
           new == mem2proc_response(req.command)
<1>1. Carried(K, c, p, right, isns) /\ Placed(K, c, p, isns)
  BY PositionsAfter, WindowAfter DEF MissInv
<1>2. p = 0 \/ p \in Waiting
  BY DEF Moves
<1>3. Asks(p, ld, req)
  BY <1>2, RequestFacts DEF MissInv
<1>4. Registers(req, wrong, right) /\ statuses' \in [MEM_TAG -> MissStatus]
  BY RegistersAfter, StatusAfter DEF MissInv
<1>5. /\ \A q \in Positions("load") :
           q \in K <=> q \notin Served(p) /\ OlderBranches(q) \cap wrong = {}
      /\ p \in K => p \in Waiting /\ ldMiss(ld)
      /\ \A q \in SentLoads :
           q \in Served(p) <=> LoadAnswer /\ window[q].id = statuses[mem2proc_tag].destTag
  BY LoadsKept DEF MissInv
<1>6. new \in MEM_TAG \cup {0} /\ (req.command = "LOAD" => new # 0)
  BY Response, FreeTag DEF MissInv
<1>7. 0 \notin MEM_TAG
  BY DEF MEM_TAG
<1> HIDE DEF K, c, ld, req, new
<1>8. Waiting \subseteq Positions("load") /\ SentLoads = Positions("load") \ Waiting
  BY WindowKinds DEF MissInv, SentLoads
<1>9. ASSUME NEW k \in SentLoads' PROVE \E t \in Misses' : Holds(t, k)'
  <2> DEFINE q == Nth(K, k)
  <2>1. k \in 1 .. c /\ q \in K /\ (q = p \/ q \in SentLoads)
    BY <1>1 DEF Carried, Placed
  <2>2. q \in Positions("load") /\ q \notin Served(p) /\ OlderBranches(q) \cap wrong = {}
    BY <1>5, <1>8, <2>1
  <2>3. /\ window'[k].addr = window[q].addr /\ window'[k].id = window[q].id
        /\ OlderBranches(k)' = OlderBranches(q) \ right
    BY <1>1, <2>1 DEF Carried
  <2> HIDE DEF q
  <2>4. \E t \in MEM_TAG :
          /\ statuses'[t].valid /\ statuses'[t].is_load /\ statuses'[t].addr = window[q].addr
          /\ statuses'[t].destTag = window[q].id /\ statuses'[t].bmask = OlderBranches(q) \ right
    <3>1. CASE q = p
      <4>1. req.command = "LOAD" /\ ldMiss(ld)
        BY <1>3, <1>5, <2>1, <3>1 DEF Asks
      <4>2. /\ req.status.addr = window[p].addr /\ req.status.destTag = window[p].id
            /\ req.status.bmask = OlderBranches(p) /\ req.status.is_load
        BY <1>3, <4>1 DEF Asks
      <4>3. new \in MEM_TAG /\ new # 0
        BY <1>6, <4>1
      <4>4. Resolved(statuses'[new], req.status, right)
        BY <1>4, <2>2, <3>1, <4>1, <4>2, <4>3 DEF Registers, new
      <4> QED BY <3>1, <4>2, <4>3, <4>4 DEF Resolved
    <3>2. CASE q \in SentLoads
      <4>1. PICK t \in Misses : Holds(t, q)
        BY <3>2 DEF SentHeld
      <4>2. /\ statuses[t].valid /\ statuses[t].is_load /\ statuses[t].addr = window[q].addr
            /\ statuses[t].destTag = window[q].id /\ statuses[t].bmask = OlderBranches(q)
        BY <4>1 DEF Holds, Status
      <4>3. t \in MEM_TAG
        BY DEF Misses
      <4>4. t # mem2proc_tag
        <5> SUFFICES ASSUME t = mem2proc_tag PROVE FALSE
          OBVIOUS
        <5>1. LoadAnswer
          BY <1>7, <4>2, <4>3 DEF LoadAnswer
        <5> QED BY <1>5, <2>2, <3>2, <4>2, <5>1
      <4>5. Resolved(statuses'[t], statuses[t], right)
        BY <1>4, <2>2, <4>2, <4>3, <4>4 DEF Registers
      <4> QED BY <4>2, <4>3, <4>5 DEF Resolved
    <3> QED BY <2>1, <3>1, <3>2
  <2>5. PICK t \in MEM_TAG :
          /\ statuses'[t].valid /\ statuses'[t].is_load /\ statuses'[t].addr = window[q].addr
          /\ statuses'[t].destTag = window[q].id /\ statuses'[t].bmask = OlderBranches(q) \ right
    BY <2>4
  <2>6. t \in Misses'
    BY <2>5 DEF Misses, MEM_TAG
  <2>7. statuses'[t] \in MissStatus
    BY <1>4
  <2>8. PICK x : x = k
    OBVIOUS
  <2>9. statuses'[t] = Status(TRUE, window'[x].addr, window'[x].id, OlderBranches(q) \ right)
    BY <2>3, <2>5, <2>7, <2>8 DEF MissStatus, Status
  <2>10. Holds(t, x)'
    BY <2>3, <2>8, <2>9 DEF Holds
  <2> QED BY <2>6, <2>8, <2>10
<1> QED BY <1>9 DEF SentHeld

LEMMA SentHeldSteps ==
  ASSUME MissInv, SentHeld, LATENCY < NUM_TAGS, [SafeNext]_vars
  PROVE  SentHeld'
<1>1. CASE SafeNext
  <2>1. PICK n, gone, p, r, pf, wrong, right, isns, st_idx :
             Moves(n, gone, p, r, pf, wrong, right, isns, st_idx)
    BY <1>1, SafeNextMoves DEF MissInv
  <2> QED BY <2>1, SentHeldAfter
<1>2. CASE UNCHANGED vars
  <2> USE <1>2 DEF vars, mem_vars, cc_vars
  <2>1. \A kind : Positions(kind)' = Positions(kind)
    BY DEF Positions
  <2>2. SentLoads' = SentLoads /\ Misses' = Misses
    BY <2>1 DEF SentLoads, Waiting, Misses, MEM_TAG
  <2>3. \A q : OlderBranches(q)' = OlderBranches(q)
    BY <2>1 DEF OlderBranches
  <2> QED BY <2>2, <2>3 DEF SentHeld, Holds
<1> QED BY <1>1, <1>2

(* With more tags than cycles of latency, as on the chip (15 and 8), the valid *)
(* registers of loads are exactly the loads that were sent, are not squashed    *)
(* and wait, with their branches, and memory owes each of them what it holds    *)
(* (CacheCtrl.v:326-350).                                                       *)
THEOREM MissesExactHolds == LATENCY < NUM_TAGS => (SafeSpec => []MissesExact)
<1> SUFFICES ASSUME LATENCY < NUM_TAGS PROVE SafeSpec => []MissesExact
  OBVIOUS
<1>1. Init => SentHeld
  BY DEF Init, SentHeld, SentLoads, Positions
<1>2. MissInv /\ SentHeld /\ [SafeNext]_vars => SentHeld'
  BY SentHeldSteps
<1>3. SafeSpec => []SentHeld
  BY <1>1, <1>2, MissInvHolds, PTL DEF SafeSpec
<1>4. MissInv /\ SentHeld => MissesExact
  BY DEF MissInv, MissesOwed, SentHeld, MissesExact, SentLoads
<1> QED BY <1>3, <1>4, MissInvHolds, PTL
=============================================================================
