--------------------------------- MODULE RS ---------------------------------
(***************************************************************************)
(* The reservation stations, RS.v: RS_SIZE = 8 slots that instructions are   *)
(* dispatched to in any order and issued from, at most two in a cycle, when  *)
(* both operands are there and a unit of their kind is free.                  *)
(*                                                                          *)
(* A slot that is not valid keeps its contents in the code; they are read     *)
(* once more, through rs_issuePtr, in the cycle after the issue.  Here the    *)
(* issued entries are in rs_issue and a slot that is not valid is Vacant.     *)
(***************************************************************************)
EXTENDS Integers, FiniteSets, Sequences, FiniteSetsExt

CONSTANTS
  RS_SIZE,
  UnitsOf      \* the units of every kind, by number: [ALU |-> {4, 5}, ...]

ASSUME StationsAssumption ==
  /\ RS_SIZE \in Nat /\ RS_SIZE >= 2
  /\ \A k \in DOMAIN UnitsOf : UnitsOf[k] \subseteq Nat /\ UnitsOf[k] # {}

VARIABLES
  entries,
  rs_issue     \* what was issued at the last edge: slot, unit, entry

rs_vars == <<entries, rs_issue>>

RS_PTR == 0 .. (RS_SIZE - 1)
LAST   == RS_SIZE - 1             \* dispatchPtr when no slot was looked for

Vacant == [valid |-> FALSE]
RSInit == entries = [i \in RS_PTR |-> Vacant] /\ rs_issue = <<>>

Free == {i \in RS_PTR : ~entries[i].valid}
rs_availableSlots == Cardinality(Free)

\* The broadcasts of this cycle already count for the issue.
Ready(e, cdb) == (e.aReady \/ e.tagA \in cdb) /\ (e.bReady \/ e.tagB \in cdb)

FreeUnits(e, busy) == UnitsOf[e.fuType] \ busy

\* canLoad: the slots whose load may pass the store queue.
Issuable(i, cdb, busy, canLoad, killed) ==
  LET e == entries[i]
  IN  /\ e.valid /\ Ready(e, cdb) /\ e.bmask \cap killed = {}
      /\ FreeUnits(e, busy) # {}
      /\ e.rd_mem => i \in canLoad

Issued(i, busy) ==
  [slot |-> i, unit |-> Min(FreeUnits(entries[i], busy)), entry |-> entries[i]]

\* (fault) The second scan does not know that a load has been issued.
IssueSecondLoad(first, cdb, busy, canLoad, killed) ==
  LET taken == busy \cup {first.unit}
      ready == {i \in (1 .. LAST) \ {first.slot} :
                  Issuable(i, cdb, taken, canLoad, killed)}
  IN  IF ready = {} THEN <<>> ELSE <<Issued(Min(ready), taken)>>
\* The second scan begins at slot 1 and takes no second load.
IssueSecond(first, cdb, busy, canLoad, killed) ==
  LET taken == busy \cup {first.unit}
      loads == IF first.entry.rd_mem THEN {} ELSE canLoad
      ready == {i \in (1 .. LAST) \ {first.slot} :
                  Issuable(i, cdb, taken, loads, killed)}
  IN  IF ready = {} THEN <<>> ELSE <<Issued(Min(ready), taken)>>

next_issue(cdb, busy, canLoad, killed) ==
  LET ready == {i \in RS_PTR : Issuable(i, cdb, busy, canLoad, killed)}
      first == Issued(Min(ready), busy)
  IN  IF ready = {} THEN <<>>
      ELSE <<first>> \o IssueSecond(first, cdb, busy, canLoad, killed)

(* Dispatch: isns has the instructions of this cycle, halts and noops among  *)
(* them, which take no slot.  The second one's search begins at slot 1.       *)
\* (fault) The first one's search begins at the last slot.
SlotOfFirstAny(isns) ==
  IF isns # <<>> /\ isns[1].allocates THEN Max(Free) ELSE LAST
SlotOfFirst(isns) ==
  IF isns # <<>> /\ isns[1].allocates /\ Free # {} THEN Min(Free) ELSE LAST
SecondSlots(isns) == Free \ {0, SlotOfFirst(isns)}
SlotOfSecond(isns) ==
  IF Len(isns) = 2 /\ isns[2].allocates /\ SecondSlots(isns) # {}
    THEN Min(SecondSlots(isns)) ELSE LAST
dispatchPtr(isns, k) == IF k = 1 THEN SlotOfFirst(isns) ELSE SlotOfSecond(isns)

\* The slot becomes valid only when the search has found one.
Dispatched(isns) ==
  {k \in 1 .. Len(isns) :
     isns[k].allocates /\ (k = 2 => SecondSlots(isns) # {})}

NewStation(isn, bmask) ==
  [valid |-> TRUE, fuType |-> isn.fuType, rd_mem |-> isn.rd_mem, tag |-> isn.tag,
   tagA |-> isn.tagA.register, aReady |-> isn.tagA.ready,
   tagB |-> isn.tagB.register, bReady |-> isn.tagB.ready, bmask |-> bmask]

\* A broadcast that meets a dispatch sets the ready bit of dispatchPtr, be it
\* the instruction's slot or LAST, whose occupant is another one.
\* (fault) The second instruction is left out.
WokenInNameFirst(i, isns, cdb, operand) ==
  /\ isns # <<>> /\ dispatchPtr(isns, 1) = i /\ isns[1][operand].register \in cdb
WokenInName(i, isns, cdb, operand) ==
  \E k \in 1 .. Len(isns) :
    dispatchPtr(isns, k) = i /\ isns[k][operand].register \in cdb

nextEntry(i, issue, isns, bmask, cdb, killed, cleared) ==
  LET here  == {k \in Dispatched(isns) : dispatchPtr(isns, k) = i}
      keeps == /\ entries[i].valid /\ entries[i].bmask \cap killed = {}
               /\ \A k \in DOMAIN issue : issue[k].slot # i
      base  == IF here # {} THEN NewStation(isns[Max(here)], bmask) ELSE entries[i]
  IN  IF here = {} /\ ~keeps THEN Vacant
      ELSE [base EXCEPT
             !.aReady = @ \/ (here = {} /\ base.tagA \in cdb)
                          \/ WokenInName(i, isns, cdb, "tagA"),
             !.bReady = @ \/ (here = {} /\ base.tagB \in cdb)
                          \/ WokenInName(i, isns, cdb, "tagB"),
             !.bmask  = @ \ cleared]

(* The clock edge.  killed and cleared hold the branch that resolves in this *)
(* cycle, wrong or right; isns is empty with a misprediction.                 *)
RSCycle(isns, bmask, cdb, busy, canLoad, killed, cleared) ==
  LET issue == next_issue(cdb, busy, canLoad, killed)
  IN  /\ entries' = [i \in RS_PTR |->
                       nextEntry(i, issue, isns, bmask, cdb, killed, cleared)]
      /\ rs_issue' = [k \in DOMAIN issue |->
                        [issue[k] EXCEPT !.entry.bmask = @ \ cleared]]
=============================================================================
