------------------------------ MODULE MultPath ------------------------------
(***************************************************************************)
(* The pipelined multiplier, FU/pipe_mult_fu.v, between the stations and    *)
(* its result buffer.  Every stage but the last is a register; a stage stalls*)
(* when it is occupied and the next one stalls, so that bubbles close up.    *)
(* A register keeps the mask of what it last held when it becomes empty.     *)
(***************************************************************************)
EXTENDS Station

CONSTANT STAGES    \* registered stages: NUM_STAGE - 1

ASSUME PipeAssumption == STAGES \in Nat \ {0}

VARIABLE stage

mult_vars == <<window, rs, fus, fub, stage>>

Stage == [done : BOOLEAN, tag : TAG \cup {PHYS_ZERO_REG}, bmask : SUBSET BRANCH]

MultInit ==
  /\ StationInit
  /\ stage = [i \in 1 .. STAGES |-> [done |-> FALSE, tag |-> PHYS_ZERO_REG, bmask |-> {}]]

\* The combinational last stage: what is offered to the result buffer.
mult_done(killed) ==
  LET last == stage[STAGES]
  IN  IF last.done /\ last.bmask \cap killed = {}
      THEN [valid |-> TRUE, tag |-> last.tag, bmask |-> last.bmask]
      ELSE NoResult

\* Which stages stall: those from which on all are occupied, when the last one,
\* the combinational one, stalls.
LastStalls(stall, killed) ==
  /\ fub_busy(fub, mult_done(killed), stall, killed)
  /\ mult_done(killed).valid
Stalled(stall, killed) ==
  [i \in 1 .. STAGES + 1 |->
     LastStalls(stall, killed) /\ \A j \in i .. STAGES : stage[j].done]

\* What the stations are told.
mult_busy(stall, killed) == Stalled(stall, killed)[1]

\* The input of a stage: the register before it, or what was issued.
Input(i) ==
  IF i = 1 THEN [done |-> fus.valid, tag |-> fus.tag, bmask |-> fus.bmask]
  ELSE stage[i - 1]

\* A stage that does not stall takes its input, unless that is mispredicted; its
\* mask is kept whenever the next stage stalls.
StageMask(i, stall, killed, cleared) ==
  (IF Stalled(stall, killed)[i + 1] THEN stage[i].bmask ELSE Input(i).bmask)
    \ (killed \cup cleared)

\* (fault) The input's mask is not looked at.
next_stageDeaf(stall, killed, cleared) ==
  [i \in 1 .. STAGES |->
     LET held == Stalled(stall, killed)[i]
     IN  [done  |-> IF held THEN stage[i].done ELSE Input(i).done,
          tag   |-> IF held THEN stage[i].tag ELSE Input(i).tag,
          bmask |-> StageMask(i, stall, killed, cleared)]]
\* (fault) A held stage does not hear of the branch that resolves.
next_stageHeldMask(stall, killed, cleared) ==
  [i \in 1 .. STAGES |->
     IF Stalled(stall, killed)[i] THEN stage[i]
     ELSE [done  |-> Input(i).done /\ Input(i).bmask \cap killed = {},
           tag   |-> Input(i).tag,
           bmask |-> StageMask(i, stall, killed, cleared)]]
next_stage(stall, killed, cleared) ==
  [i \in 1 .. STAGES |->
     LET held == Stalled(stall, killed)[i]
     IN  [done  |-> IF held THEN stage[i].done
                    ELSE Input(i).done /\ Input(i).bmask \cap killed = {},
          tag   |-> IF held THEN stage[i].tag ELSE Input(i).tag,
          bmask |-> StageMask(i, stall, killed, cleared)]]

MultCycle(isns, issued, stall, killed, cleared) ==
  /\ fub' = next_buffer(fub, Clear(mult_done(killed), cleared), stall, killed, cleared)
  /\ stage' = next_stage(stall, killed, cleared)
  /\ StationCycle(isns, issued, IF stall THEN {} ELSE {fub[1].tag}, cleared, killed)

(* The three ways in which the multiplier loses an instruction, its mask or  *)
(* its squash: an instruction arrives while the first stage stalls (the       *)
(* stations looked at mult_busy a cycle before); a stage takes an instruction *)
(* but keeps the mask it had, because the next one stalls; a stage holds an   *)
(* instruction that is mispredicted.                                          *)
Arrives(stall, killed) == fus.valid /\ mult_busy(stall, killed)

KeepsMask(stall, killed) ==
  \E i \in 1 .. STAGES :
    /\ Stalled(stall, killed)[i + 1] /\ ~stage[i].done
    /\ Input(i).done /\ Input(i).bmask # stage[i].bmask

HoldsSquashed(stall, killed) ==
  \E i \in 1 .. STAGES :
    Stalled(stall, killed)[i] /\ stage[i].bmask \cap killed # {}

Sound(stall, killed) ==
  ~Arrives(stall, killed) /\ ~KeepsMask(stall, killed) /\ ~HoldsSquashed(stall, killed)

MultDispatchCycle(cleared, stalls) ==
  \E isns \in Offers, stall \in stalls :
    \E issued \in Issuable({}, cleared, mult_busy(stall, {})) :
      /\ Len(window) + Len(isns) <= WINDOW
      /\ MultCycle(isns, issued, stall, {}, cleared)

MultRecoverCycle(b, stalls) ==
  \E stall \in stalls :
    \E issued \in Issuable({b}, {}, mult_busy(stall, {b})) :
      MultCycle(<<>>, issued, stall, {b}, {})

MultNext ==
  \/ MultDispatchCycle({}, Stalls({}))
  \/ \E b \in Unresolved :
       MultDispatchCycle({b}, Stalls({})) \/ MultRecoverCycle(b, Stalls({b}))

MultSpec == MultInit /\ [][MultNext]_mult_vars

\* Every behaviour of the code in which none of the three happens.
MultSafeStalls(killed) == {stall \in Stalls(killed) : Sound(stall, killed)}

MultSafeNext ==
  \/ MultDispatchCycle({}, MultSafeStalls({}))
  \/ \E b \in Unresolved :
       MultDispatchCycle({b}, MultSafeStalls({})) \/ MultRecoverCycle(b, MultSafeStalls({b}))

MultSafeSpec == MultInit /\ [][MultSafeNext]_mult_vars
=============================================================================
