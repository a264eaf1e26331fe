---------------------------- MODULE ExecuteProps -----------------------------
(***************************************************************************)
(* What out-of-order execution owes to the instructions dispatched.            *)
(***************************************************************************)
EXTENDS Execute

Pending == {window[p].tag : p \in {q \in DOMAIN window : ~window[q].done}}

(* Where an instruction can be: a station, a unit, a result buffer.           *)
Stations(t) == {i \in RS_PTR : entries[i].valid /\ entries[i].tag = t}
Units(t)    == {k \in DOMAIN rs_issue : rs_issue[k].entry.tag = t}
Results(t)  == {e \in FUB \X {0, 1} : fub[e[1]][e[2]].valid /\ fub[e[1]][e[2]].tag = t}

(* An instruction that has not been broadcast is in exactly one place, and one *)
(* that has been, or was squashed, in none: dispatch, issue, the buffers and    *)
(* the bus neither lose nor repeat it, though a unit is promised room two       *)
(* cycles ahead.  (RS.v:150-312, FUBi.v, CDB.v.)                                *)
EachInOnePlace ==
  \A t \in TAG :
    Cardinality(Stations(t)) + Cardinality(Units(t)) + Cardinality(Results(t))
      = IF t \in Pending THEN 1 ELSE 0

(* A station's operand is ready exactly when its producer has been broadcast,  *)
(* be that before, in, or after the cycle of the dispatch.  (RS.v:125-135,      *)
(* 265-312.)                                                                    *)
OperandsExact ==
  \A i \in RS_PTR \ Free :
    /\ entries[i].aReady <=> entries[i].tagA \notin Pending
    /\ entries[i].bReady <=> entries[i].tagB \notin Pending

(* The two scans together issue at most one load in a cycle, which the data     *)
(* cache's single request counts on.  (RS.v:156-170, 210-225.)                  *)
OneLoadIssued == Cardinality({k \in DOMAIN rs_issue : rs_issue[k].entry.rd_mem}) <= 1

(* A small instance. *)
Tags       == 1 .. 3
Checkpoint == {1}
Units3     == [LDST |-> {0, 1}, ALU |-> {2}]
=============================================================================
