------------------------------ MODULE FreeList ------------------------------
(***************************************************************************)
(* The free list (FreeList.v): a ring of ROB_SIZE physical registers.       *)
(* Dispatch takes registers at fl_head, retirement puts the replaced ones   *)
(* back behind fl_tail, and a misprediction gives back what was taken after *)
(* the branch by moving fl_head to its checkpoint: a slot keeps its         *)
(* register until a retirement overwrites it.                               *)
(***************************************************************************)
EXTENDS SysDefs

VARIABLES free, fl_head, fl_tail, fl_availableRegs

fl_vars == <<free, fl_head, fl_tail, fl_availableRegs>>

FLInit ==
  /\ free = [i \in FL_PTR |-> i + ARCH_REGS]
  /\ fl_head = 0
  /\ fl_tail = ROB_SIZE - 1
  /\ fl_availableRegs = ROB_SIZE

\* The two registers offered to dispatch.
fl_freeRegs == <<free[fl_head], free[Wrap(fl_head + 1)]>>

\* (fault) The zero register is freed for an instruction without result.
freed_regTagOld(e) == e.tagOld

\* An instruction that writes no register gives back the one it was given.
freed_reg(e) == IF e.tagOld = PHYS_ZERO_REG THEN e.tag ELSE e.tagOld

nextFree(retired, nRetired) ==
  [i \in FL_PTR |->
     IF nRetired >= 1 /\ i = Wrap(fl_tail + 1) THEN freed_reg(retired[1])
     ELSE IF nRetired = 2 /\ i = Wrap(fl_tail + 2) THEN freed_reg(retired[2])
     ELSE free[i]]

nextFlTail(nRetired) == Wrap(fl_tail + nRetired)

recovAvailableRegs(recov_head, next_tail) ==
  IF recov_head > next_tail \/ (recov_head = 0 /\ next_tail = ROB_SIZE - 1)
    THEN Wrap6(ROB_SIZE - (recov_head - next_tail - 1))
    ELSE next_tail - recov_head + 1

\* (fault) retire_en[0] looks at one bit of rob_nRetired only.
FLCycleLoneLost(n, retired, nRetired) ==
  /\ free' = nextFree(retired, nRetired)
  /\ fl_tail' = nextFlTail(nRetired)
  /\ fl_head' = Wrap(fl_head + n)
  /\ fl_availableRegs' =
       Wrap6(fl_availableRegs + (IF nRetired = 2 THEN 2 ELSE 0) - n)

(* The clock edge when n registers are taken and nRetired given back. *)
FLCycle(n, retired, nRetired) ==
  /\ free' = nextFree(retired, nRetired)
  /\ fl_tail' = nextFlTail(nRetired)
  /\ fl_head' = Wrap(fl_head + n)
  /\ fl_availableRegs' = Wrap6(fl_availableRegs + nRetired - n)

(* The clock edge with br_pred_wrong. *)
FLRecover(recov_head, retired, nRetired) ==
  /\ free' = nextFree(retired, nRetired)
  /\ fl_tail' = nextFlTail(nRetired)
  /\ fl_head' = recov_head
  /\ fl_availableRegs' = recovAvailableRegs(recov_head, nextFlTail(nRetired))

\* The slots the counter says may be handed out.
FreeSlots == {i \in FL_PTR : Dist(fl_head, i) < fl_availableRegs}
=============================================================================
