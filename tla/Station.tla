------------------------------- MODULE Station ------------------------------
(***************************************************************************)
(* What one functional unit sees of the core: instructions for it and       *)
(* branches are dispatched in program order, the instructions wait in the   *)
(* stations with their branch masks (RS.v), are issued in any order, and     *)
(* branches resolve in any order.                                            *)
(*                                                                          *)
(* window is the program order of what has not been broadcast or resolved;   *)
(* no part of the machine holds it, the properties compare with it.  The bus *)
(* grants or stalls the unit's result buffer as it likes.                    *)
(***************************************************************************)
EXTENDS FUBi, Subsequence, TLC

CONSTANT WINDOW    \* bound: instructions and branches in flight

ASSUME WindowAssumption == WINDOW \in Nat

VARIABLES
  window,    \* instructions and unresolved branches, oldest first
  rs,        \* instructions that wait for issue, with their masks
  fus,       \* the instruction that the unit is given in this cycle
  fub        \* the unit's result buffer

Instr(t)  == [branch |-> FALSE, id |-> t]
Branch(b) == [branch |-> TRUE,  id |-> b]

LiveTags   == {window[p].id : p \in {q \in DOMAIN window : ~window[q].branch}}
Unresolved == {window[p].id : p \in {q \in DOMAIN window : window[q].branch}}

StationInit ==
  /\ window = <<>> /\ rs = {} /\ fus = NoResult
  /\ fub = [i \in {0, 1} |-> NoResult]

\* What may be dispatched in a cycle: a branch takes a free checkpoint.
\* (fault) A checkpoint is given out again before its branch has resolved.
OffersAny ==
  {<<>>} \cup {<<Instr(t)>> : t \in TAG \ LiveTags} \cup {<<Branch(b)>> : b \in BRANCH}
Offers ==
  {<<>>} \cup {<<Instr(t)>> : t \in TAG \ LiveTags}
         \cup {<<Branch(b)>> : b \in BRANCH \ Unresolved}

\* RS.v:265-300: the new entry's mask, without the branch that resolves now.
\* (fault) The branch that resolves now is left in the new mask.
EntriesStale(isns, cleared) ==
  {[valid |-> TRUE, tag |-> isns[k].id, bmask |-> Unresolved] :
     k \in {j \in DOMAIN isns : ~isns[j].branch}}
Entries(isns, cleared) ==
  {[valid |-> TRUE, tag |-> isns[k].id, bmask |-> Unresolved \ cleared] :
     k \in {j \in DOMAIN isns : ~isns[j].branch}}

\* RS.v:137-148: what stays, and may be issued, with the new masks.
Kept(killed, cleared) ==
  {Clear(e, cleared) : e \in {f \in rs : ~Hit(f, killed)}}

\* One of the instructions kept, or none.
Issuable(killed, cleared, busy) ==
  {NoResult} \cup (IF busy THEN {} ELSE Kept(killed, cleared))

\* CDB.v: the buffer is granted only what is valid and not mispredicted.
Stalls(killed) ==
  IF fub[1].valid /\ ~Hit(fub[1], killed) THEN BOOLEAN ELSE {TRUE}

\* What is broadcast and what resolves leaves the window, and what follows
\* a mispredicted branch with it.
Upto(b) == CHOOSE p \in DOMAIN window : window[p] = Branch(b)

Remaining(tags, cleared, killed) ==
  LET last == IF killed = {} THEN Len(window)
              ELSE Upto(CHOOSE b \in killed : TRUE) - 1
  IN  Picked(window, {p \in 1 .. last :
                        window[p].id \notin (IF window[p].branch THEN cleared ELSE tags)})

StationCycle(isns, issued, tags, cleared, killed) ==
  /\ window' = Remaining(tags, cleared, killed) \o isns
  /\ rs' = (Kept(killed, cleared) \ {issued}) \cup Entries(isns, cleared)
  /\ fus' = issued

-----------------------------------------------------------------------------
(* What the properties of ResultPath and MultPath share. *)
\* Tags and branches are only compared.
Interchangeable == Permutations(TAG) \cup Permutations(BRANCH)

\* The place of an instruction in program order.
PlaceOf(t) == CHOOSE p \in DOMAIN window : window[p] = Instr(t)

\* The unresolved branches that are older than an instruction.
OlderBranches(t) ==
  {b \in Unresolved : \E p \in DOMAIN window : window[p] = Branch(b) /\ p < PlaceOf(t)}

WindowOK ==
  /\ \A p \in DOMAIN window :
       \/ window[p].branch /\ window[p].id \in BRANCH
       \/ ~window[p].branch /\ window[p].id \in TAG
  /\ Cardinality(LiveTags) + Cardinality(Unresolved) = Len(window)
=============================================================================
