----------------------------- MODULE ResultPath -----------------------------
(***************************************************************************)
(* From issue to the common data bus through a unit that takes one cycle -  *)
(* an ALU, the branch unit, or the memory unit - and its result buffer.      *)
(***************************************************************************)
EXTENDS Station

CONSTANT GATED    \* the unit drops a result that is mispredicted while computed

ASSUME PathAssumption == GATED \in BOOLEAN

vars == <<window, rs, fus, fub>>

Init == StationInit

(* alu_fu.v:120-130 and branch_fu.v:98-104 look at the mask, dmemFU.v:82-107 *)
(* does not.                                                                 *)
fu_done(killed) == IF GATED /\ Hit(fus, killed) THEN NoResult ELSE fus

Cycle(isns, issued, stall, killed, cleared) ==
  /\ fub' = next_buffer(fub, fu_done(killed), stall, killed, cleared)
  /\ StationCycle(isns, issued, IF stall THEN {} ELSE {fub[1].tag}, cleared, killed)

DispatchCycle(cleared) ==
  \E isns \in Offers, stall \in Stalls({}) :
    \E issued \in Issuable({}, cleared, fub_busy(fub, fu_done({}), stall, {})) :
      /\ Len(window) + Len(isns) <= WINDOW
      /\ Cycle(isns, issued, stall, {}, cleared)

RecoverCycle(b) ==
  \E stall \in Stalls({b}) :
    \E issued \in Issuable({b}, {}, fub_busy(fub, fu_done({b}), stall, {b})) :
      Cycle(<<>>, issued, stall, {b}, {})

Next ==
  \/ DispatchCycle({})
  \/ \E b \in Unresolved : DispatchCycle({b}) \/ RecoverCycle(b)

Spec == Init /\ [][Next]_vars
=============================================================================
