------------------------------- MODULE Rename -------------------------------
(***************************************************************************)
(* Register renaming, in-order retirement and branch recovery: the reorder  *)
(* buffer, the free list, the two maps and the branch stack, wired together *)
(* as in pipeline.v.  A step is a clock cycle; there is one action for each *)
(* thing the branch unit may report in a cycle.                             *)
(*                                                                          *)
(* The rest of the core is the environment.  It chooses what the instruction*)
(* buffer offers, how many reservation stations are free, which results are *)
(* broadcast, and when and how a branch resolves.                            *)
(***************************************************************************)
EXTENDS ROB, FreeList, MapTable, BranchStack

CONSTANTS
  Insns,      \* the instructions the program may be made of
  RSFree      \* how many reservation stations may be found free

\* decoder.v: a halt and a noop write no register, and are no branches.
ASSUME EnvironmentAssumption ==
  /\ RSFree \subseteq Nat
  /\ Insns \subseteq Instruction
  /\ \A isn \in Insns :
       isn.halt \/ isn.noop => isn.dest = ZERO_REG /\ ~isn.branch

vars == <<buffer, head, rob_tail, rob_availableSlots, rob_halted,
          free, fl_head, fl_tail, fl_availableRegs, map, at_map, bs_stack>>

Init == ROBInit /\ FLInit /\ MTInit /\ ATInit /\ BSInit

Least(S) == CHOOSE x \in S : \A y \in S : x <= y

(* if_id_hazard.v: how many of the instructions offered go on.  Slots that  *)
(* retire in this cycle count for the reorder buffer, not for the free list.*)
haz_nDispatched(isns, rs_availableSlots) ==
  Least({2, rob_availableSlots + rob_nRetired, rs_availableSlots,
         fl_availableRegs, Len(isns)})

(* What the instruction buffer offers: a branch ends the cycle, waits while *)
(* every checkpoint is taken, and nothing is fetched behind a halt.         *)
HaltInFlight ==
  rob_halted \/ \E i \in Occupied : buffer[i].halt

Dispatchable ==
  {a \in Insns : ~HaltInFlight /\ (a.branch => bs_bmask # BS_PTR)}

Offers ==
  {<<>>} \cup {<<a>> : a \in Dispatchable}
         \cup {<<a, b>> : a \in {c \in Dispatchable : ~c.branch /\ ~c.halt},
                         b \in Dispatchable}

(* The tags that may be broadcast: those of the instructions that have not  *)
(* completed, but for the branches that have not resolved.  resolved is the *)
(* set of slots whose branch resolves in this cycle.                        *)
Waiting(resolved) ==
  {i \in Occupied :
     /\ ~buffer[i].complete
     /\ \A b \in bs_bmask \ resolved : bs_stack[b].rob_tail # i}

Broadcasts(slots) ==
  {{}} \cup {{buffer[i].tag, buffer[j].tag} : i, j \in slots}

\* The entries that retire in this cycle, oldest first.
Retired == [j \in 1 .. 2 |-> buffer[RetireSlot(j)]]

(* No branch resolves. *)
Dispatch(isns, rs, cdb) ==
  LET n    == haz_nDispatched(isns, rs)
      tags == fl_freeRegs
  IN  /\ ROBCycle(n, isns, tags, mt_dispatchTagOld(isns, tags), cdb)
      /\ FLCycle(n, Retired, rob_nRetired)
      /\ MTCycle(n, isns, tags, cdb)
      /\ ATCycle(Retired, rob_nRetired)
      /\ BSCycle(n, isns, fl_head, rob_tail, map', cdb)

DispatchCycle ==
  \E isns \in Offers, rs \in RSFree, cdb \in Broadcasts(Waiting({})) :
    Dispatch(isns, rs, cdb)

(* The branch in slot b resolves as predicted. *)
Correct(b, isns, rs, cdb) ==
  LET n    == haz_nDispatched(isns, rs)
      tags == fl_freeRegs
  IN  /\ ROBCycle(n, isns, tags, mt_dispatchTagOld(isns, tags), cdb)
      /\ FLCycle(n, Retired, rob_nRetired)
      /\ MTCycle(n, isns, tags, cdb)
      /\ ATCycle(Retired, rob_nRetired)
      /\ BSCorrect(b, n, isns, fl_head, rob_tail, map', cdb)

CorrectCycle(b) ==
  /\ bs_stack[b].valid
  /\ \E isns \in Offers, rs \in RSFree, cdb \in Broadcasts(Waiting({b})) :
       Correct(b, isns, rs, cdb)

(* The branch in slot b was mispredicted: nothing is dispatched, and what   *)
(* is younger than the branch no longer broadcasts.                         *)
Surviving(b) ==
  {i \in Waiting({b}) : Dist(head, i) <= Dist(head, bs_stack[b].rob_tail)}

Wrong(b, cdb) ==
  /\ ROBRecover(bs_stack[b].rob_tail, cdb)
  /\ FLRecover(bs_stack[b].fl_head, Retired, rob_nRetired)
  /\ MTRecover(bs_stack[b].map, cdb)
  /\ ATCycle(Retired, rob_nRetired)
  /\ BSWrong(b, cdb)

WrongCycle(b) ==
  /\ bs_stack[b].valid
  /\ \E cdb \in Broadcasts(Surviving(b)) : Wrong(b, cdb)

Next ==
  \/ DispatchCycle
  \/ \E b \in BS_PTR : CorrectCycle(b) \/ WrongCycle(b)

Spec == Init /\ [][Next]_vars

(* When the reorder buffer is still full after a misprediction, the free    *)
(* list is empty, but recovAvailableRegs says it is full, unless the wrap   *)
(* of the 6-bit count saves it (fl_head = 0).  What follows a wrong count   *)
(* is not register renaming any more.  SafeSpec has every behaviour of the  *)
(* code in which that does not happen.                                      *)
Miscounted(b) ==
  /\ bs_stack[b].rob_tail = Wrap(nextHead - 1)
  /\ bs_stack[b].fl_head # 0

SafeNext ==
  \/ DispatchCycle
  \/ \E b \in BS_PTR : CorrectCycle(b)
  \/ \E b \in BS_PTR : ~Miscounted(b) /\ WrongCycle(b)

SafeSpec == Init /\ [][SafeNext]_vars
=============================================================================
