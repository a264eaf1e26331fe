------------------------------- MODULE IfStage ------------------------------
(***************************************************************************)
(* The fetch stage, IMEM/if_stage.v and FetchDecoder.v, with its predictor and *)
(* the instruction buffer it fills.  In a cycle it takes two instructions, or  *)
(* one, from the address PC_reg; a branch goes first or alone, a halt ends     *)
(* fetching until a misprediction, and words of zero are skipped.              *)
(***************************************************************************)
EXTENDS BP, InstrBuffer, SequencesExt

CONSTANT CODE    \* the program: a function from addresses to words

ASSUME CodeAssumption ==
  /\ DOMAIN CODE \subseteq Nat
  /\ \A a \in DOMAIN CODE :
       /\ CODE[a].kind \in {"op", "store", "cond", "jump", "halt", "zero"}
       /\ CODE[a].targets \subseteq Nat

VARIABLES PC_reg, halt_fetched

if_vars == <<PC_reg, halt_fetched, bp_vars, ib_vars>>

IfInit == PC_reg = 0 /\ halt_fetched = FALSE /\ BPInit /\ IBInit

\* Beyond the program there is nothing but zeros.
KindAt(a)   == IF a \in DOMAIN CODE THEN CODE[a].kind ELSE "zero"
IsBranch(a) == KindAt(a) \in {"cond", "jump"}
IsStore(a)  == KindAt(a) = "store"

(* The instructions taken when the cache has n of them: <<slot, address>>.    *)
(* A zero in the first slot leaves it to the second instruction.               *)
Two(n) == ib_nAvai >= 2 /\ n = 2 /\ ~IsBranch(PC_reg)
Taken(n) ==
  IF Two(n) /\ KindAt(PC_reg) \notin {"halt", "zero"}
    THEN <<<<0, PC_reg>>>> \o (IF KindAt(PC_reg + 1) = "zero" THEN <<>>
                               ELSE <<<<1, PC_reg + 1>>>>)
  ELSE IF Two(n) /\ KindAt(PC_reg) = "zero"
    THEN IF KindAt(PC_reg + 1) = "zero" THEN <<>> ELSE <<<<0, PC_reg + 1>>>>
  ELSE IF ib_nAvai >= 1 /\ n >= 1 /\ KindAt(PC_reg) # "zero" THEN <<<<0, PC_reg>>>>
  ELSE <<>>

\* The slot's own word decides what is noted of the instruction, be it that
\* instruction or not.
NPC(slot)  == PC_reg + slot + 1
BranchIn(slot, n) == \E t \in ToSet(Taken(n)) : t[1] = slot /\ IsBranch(PC_reg + slot)
PredTaken(slot, n, br) == bp_pred_taken(BranchIn(slot, n), NPC(slot), br)
PredNPC(slot, n, br) ==
  bp_pred_NPC(BranchIn(slot, n), NPC(slot), br, PredTaken(1 - slot, n, br))

Fetched(n, br) ==
  [k \in DOMAIN Taken(n) |->
     LET slot == Taken(n)[k][1]
     IN  [addr |-> Taken(n)[k][2], branch |-> IsBranch(PC_reg + slot),
          wr_mem |-> IsStore(PC_reg + slot), pred_taken |-> PredTaken(slot, n, br),
          pred_NPC |-> PredNPC(slot, n, br), not_taken_NPC |-> NPC(slot)]]

Halts(n) == \E t \in ToSet(Taken(n)) : KindAt(t[2]) = "halt"

\* (fault) Halting lasts until a reset.
next_halt_fetchedKept(n, br) == halt_fetched \/ (~br.pred_wrong /\ Halts(n))
next_halt_fetched(n, br) == ~br.pred_wrong /\ (halt_fetched \/ Halts(n))

next_PC(n, br) ==
  IF br.pred_wrong THEN br.recov_NPC
  ELSE IF halt_fetched \/ Halts(n) THEN PC_reg
  ELSE IF Two(n) THEN PredNPC(1, n, br)
  ELSE IF ib_nAvai >= 1 /\ n >= 1 THEN PredNPC(0, n, br) ELSE PC_reg

(* The clock edge, when the instruction cache has n instructions and dispatch  *)
(* takes d; br is what the branch unit tells.                                  *)
IfCycle(n, d, br) ==
  LET stops   == br.pred_wrong \/ halt_fetched
      fetched == IF stops THEN <<>> ELSE Fetched(n, br)
  IN  /\ PC_reg' = next_PC(n, br)
      /\ halt_fetched' = next_halt_fetched(n, br)
      /\ BPCycle({e.not_taken_NPC : e \in {f \in ToSet(fetched) : f.branch}}, br)
      /\ IF br.pred_wrong THEN IBFlush ELSE IBCycle(fetched, d)
=============================================================================
