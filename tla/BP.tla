--------------------------------- MODULE BP ---------------------------------
(***************************************************************************)
(* The branch predictor, IMEM/BP.v: a history of two-bit counters (BHT) and a *)
(* buffer of targets (BTB), both direct mapped by the low bits of the address *)
(* after the branch, without tags.  Addresses count instructions.              *)
(*                                                                          *)
(* At most one of the two instructions fetched in a cycle is a branch.         *)
(***************************************************************************)
EXTENDS Integers

CONSTANTS BHT_SIZE, BTB_SIZE

ASSUME BPAssumption == BHT_SIZE \in Nat \ {0} /\ BTB_SIZE \in Nat \ {0}

VARIABLES bht, btb       \* counters; targets, NoTarget in an invalid entry

bp_vars == <<bht, btb>>

NoTarget == -1
BHTIdx(npc) == npc % BHT_SIZE
BTBIdx(npc) == npc % BTB_SIZE

\* Reset: weakly not taken.
BPInit ==
  /\ bht = [i \in 0 .. (BHT_SIZE - 1) |-> 1]
  /\ btb = [i \in 0 .. (BTB_SIZE - 1) |-> NoTarget]

(* What the branch unit tells, already used by this cycle's prediction.  The  *)
(* branch of br was fetched, so its BTB entry is valid.                        *)
Saturated(c) == IF c < 0 THEN 0 ELSE IF c > 3 THEN 3 ELSE c
corrected_bht(br) ==
  IF ~br.branch_resolved THEN bht
  ELSE [bht EXCEPT ![BHTIdx(br.not_taken_NPC)] =
          Saturated(IF br.pred_taken # br.pred_dir_wrong THEN @ + 1 ELSE @ - 1)]
corrected_btb(br) ==
  IF ~br.taken_NPC_wrong THEN btb
  ELSE [btb EXCEPT ![BTBIdx(br.not_taken_NPC)] = br.recov_NPC]

bp_pred_taken(branch, npc, br) == branch /\ corrected_bht(br)[BHTIdx(npc)] >= 2
btb_taken_NPC(branch, npc, br) ==
  IF branch /\ btb[BTBIdx(npc)] # NoTarget THEN corrected_btb(br)[BTBIdx(npc)] ELSE npc

\* any: the other instruction of the cycle is predicted taken.
bp_pred_NPC(branch, npc, br, any) ==
  IF any \/ bp_pred_taken(branch, npc, br) THEN btb_taken_NPC(branch, npc, br) ELSE npc

(* The clock edge; fetched holds the not-taken NPC of the branch fetched, if  *)
(* there is one.                                                               *)
BPCycle(fetched, br) ==
  /\ bht' = corrected_bht(br)
  /\ btb' = [i \in DOMAIN btb |->
       IF btb[i] = NoTarget /\ \E npc \in fetched : BTBIdx(npc) = i
         THEN CHOOSE npc \in fetched : BTBIdx(npc) = i
       ELSE corrected_btb(br)[i]]
=============================================================================
