-------------------------------- MODULE CDB --------------------------------
(***************************************************************************)
(* The arbitration of the common data bus, CDB.v: in every cycle, at most    *)
(* two of the FUBS = 8 result buffers are granted, the lowest indices first. *)
(* It keeps no state: fub is the set of the buffers that offer a result in   *)
(* this cycle, gone those whose result is of the branch that is mispredicted *)
(* in this cycle.                                                             *)
(***************************************************************************)
EXTENDS Integers, Sequences, FiniteSets, FiniteSetsExt

CONSTANT FUBS    \* how many buffers there are

ASSUME FubsAssumption == FUBS \in Nat \ {0}

FUB == 0 .. FUBS - 1

selectable(fub, gone) == fub \ gone

first_selected(fub, gone) ==
  IF selectable(fub, gone) = {} THEN FUBS - 1 ELSE Min(selectable(fub, gone))

second_selectable(fub, gone) == selectable(fub, gone) \ {first_selected(fub, gone)}

\* The buffers that are granted, in the order of the two ports.
cdb_rd(fub, gone) ==
  (IF selectable(fub, gone) = {} THEN <<>> ELSE <<first_selected(fub, gone)>>)
  \o (IF second_selectable(fub, gone) = {} THEN <<>>
      ELSE <<Min(second_selectable(fub, gone))>>)

cdb_granted(fub, gone) == {cdb_rd(fub, gone)[n] : n \in DOMAIN cdb_rd(fub, gone)}

\* (fault) The second port's unit is not told.
cdb_stallSecond(i, fub, gone) ==
  cdb_rd(fub, gone) = <<>> \/ i # cdb_rd(fub, gone)[1]
cdb_stall(i, fub, gone) == i \notin cdb_granted(fub, gone)
=============================================================================
