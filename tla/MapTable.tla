------------------------------ MODULE MapTable ------------------------------
(***************************************************************************)
(* The two register maps.  map (MapTable.v) is the speculative one, with a  *)
(* ready bit per register; at_map (ArchTable.v) is the map of the retired   *)
(* instructions, whose ready bits are always set and are left out.          *)
(***************************************************************************)
EXTENDS SysDefs, Sequences

VARIABLES map, at_map

mt_vars == <<map, at_map>>

ResetMap == [r \in NAMED_REG |-> [register |-> r, ready |-> TRUE]]

MTInit == map = ResetMap
ATInit == at_map = [r \in NAMED_REG |-> r]

\* (fault) The second instruction does not see the first.
mt_dispatchTagOldAlone(isns, tags) ==
  [i \in 1 .. Len(isns) |->
     IF isns[i].dest = ZERO_REG THEN PHYS_ZERO_REG
     ELSE map[isns[i].dest].register]

(* The register an instruction replaces, seen through the instruction      *)
(* dispatched before it in the same cycle.                                 *)
Lookup(r) == IF r = ZERO_REG THEN PHYS_ZERO_REG ELSE map[r].register

mt_dispatchTagOld(isns, tags) ==
  [i \in 1 .. Len(isns) |->
     IF i = 2 /\ isns[1].dest = isns[2].dest /\ isns[1].dest # ZERO_REG
       THEN tags[1]
       ELSE Lookup(isns[i].dest)]

\* The last of the n dispatched instructions that writes r, or 0.
Writer(r, n, isns) ==
  IF n = 2 /\ isns[2].dest = r THEN 2
  ELSE IF n >= 1 /\ isns[1].dest = r THEN 1 ELSE 0

\* base is map, or the checkpoint of a mispredicted branch.
mt_nextMap(base, n, isns, tags, cdb) ==
  [r \in NAMED_REG |->
     IF Writer(r, n, isns) = 0 THEN MarkReady(base, cdb)[r]
     ELSE [register |-> tags[Writer(r, n, isns)], ready |-> FALSE]]

MTCycle(n, isns, tags, cdb) == map' = mt_nextMap(map, n, isns, tags, cdb)
MTRecover(recov_map, cdb)   == map' = mt_nextMap(recov_map, 0, <<>>, <<>>, cdb)

\* One retirement: whatever mapped to tagOld now maps to tag.
Substitute(m, e) ==
  [r \in NAMED_REG |-> IF m[r] = e.tagOld THEN e.tag ELSE m[r]]

ATCycle(retired, nRetired) ==
  at_map' = IF nRetired = 0 THEN at_map
            ELSE IF nRetired = 1 THEN Substitute(at_map, retired[1])
            ELSE Substitute(Substitute(at_map, retired[1]), retired[2])
=============================================================================
