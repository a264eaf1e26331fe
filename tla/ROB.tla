-------------------------------- MODULE ROB --------------------------------
(***************************************************************************)
(* The reorder buffer (ROB.v): a ring of ROB_SIZE entries, from which up to *)
(* two completed instructions retire, and to which up to two are added, in  *)
(* one cycle.  There is no valid bit: only the counter rob_availableSlots   *)
(* tells the occupied entries from the stale ones.  A clock edge is one     *)
(* step, ROBCycle or ROBRecover, whose arguments are the wires of that      *)
(* cycle.                                                                   *)
(***************************************************************************)
EXTENDS SysDefs, Sequences

VARIABLES
  buffer, head, rob_tail,   \* rob_tail is the last occupied slot
  rob_availableSlots, rob_halted

rob_vars == <<buffer, head, rob_tail, rob_availableSlots, rob_halted>>

ROBEntry == [halt : BOOLEAN, is_store : BOOLEAN, complete : BOOLEAN,
             tag : PHYS_REG, tagOld : PHYS_REG]

\* Reset leaves the buffer alone: its entries may come up either way.
ROBInit ==
  /\ \E junk \in BOOLEAN :
       buffer = [i \in ROB_PTR |-> [halt |-> FALSE, is_store |-> FALSE,
                                   complete |-> junk, tag |-> 0, tagOld |-> 0]]
  /\ head = 0
  /\ rob_tail = ROB_SIZE - 1
  /\ rob_availableSlots = ROB_SIZE
  /\ rob_halted = FALSE

(* Retire: the head, and the entry after it when the head is no halt. *)
head_plus1_ptr == Wrap(head + 1)

\* (fault) The last instruction in the buffer is taken for an empty slot.
RetireFirstNotLast ==
  buffer[head].complete /\ rob_availableSlots <= ROB_SIZE - 2

RetireFirst ==
  buffer[head].complete /\ rob_availableSlots <= ROB_SIZE - 1

\* (fault) The second instruction leaves whether it is complete or not.
RetireSecondEarly ==
  RetireFirst /\ rob_availableSlots <= ROB_SIZE - 2 /\ ~buffer[head].halt

RetireSecond ==
  /\ RetireFirst
  /\ buffer[head_plus1_ptr].complete
  /\ rob_availableSlots <= ROB_SIZE - 2
  /\ ~buffer[head].halt

rob_nRetired ==
  IF RetireSecond THEN 2 ELSE IF RetireFirst THEN 1 ELSE 0

\* The slots that retire this cycle, oldest first (rob_retireTag[0], [1]).
RetireSlot(j) == Wrap(head + j - 1)

rob_nRetireStores ==
  Cardinality({j \in 1 .. rob_nRetired : buffer[RetireSlot(j)].is_store})

nextHead == Wrap(head + rob_nRetired)

nextHalted ==
  rob_halted \/ \E j \in 1 .. rob_nRetired : buffer[RetireSlot(j)].halt

\* Complete: a broadcast tag matches every entry, occupied or not.
Completed(e, cdb) ==
  [halt |-> e.halt, is_store |-> e.is_store, tag |-> e.tag, tagOld |-> e.tagOld,
   complete |-> e.complete \/ e.tag \in cdb]

NewEntry(isn, tag, tagOld) ==
  [halt |-> isn.halt, is_store |-> isn.wr_mem, tag |-> tag, tagOld |-> tagOld,
   complete |-> isn.halt \/ isn.noop]

\* A slot after the n entries of isns are written behind the tail.
nextBuffer(n, isns, tags, tagOlds, cdb) ==
  [i \in ROB_PTR |->
     IF n = 2 /\ i = Wrap(rob_tail + 2) THEN NewEntry(isns[2], tags[2], tagOlds[2])
     ELSE IF n >= 1 /\ i = Wrap(rob_tail + 1)
       THEN NewEntry(isns[1], tags[1], tagOlds[1])
     ELSE Completed(buffer[i], cdb)]

\* (fault) Recovery forgets what retires in the same cycle.
recovAvailableSlotsFromHead(recov_tail) ==
  IF head > recov_tail
    THEN head - recov_tail - 1
    ELSE ROB_SIZE - (recov_tail - head + 1)

recovAvailableSlots(recov_tail) ==
  IF nextHead > recov_tail
    THEN nextHead - recov_tail - 1
    ELSE ROB_SIZE - (recov_tail - nextHead + 1)

(* The clock edge when no branch is found mispredicted. *)
ROBCycle(n, isns, tags, tagOlds, cdb) ==
  /\ head' = nextHead
  /\ rob_tail' = Wrap(rob_tail + n)
  /\ rob_availableSlots' = Wrap6(rob_availableSlots - n + rob_nRetired)
  /\ rob_halted' = nextHalted
  /\ buffer' = nextBuffer(n, isns, tags, tagOlds, cdb)

(* The clock edge with br_pred_wrong: the tail moves back to the branch,   *)
(* while the head still retires and the broadcasts still complete.         *)
ROBRecover(recov_tail, cdb) ==
  /\ head' = nextHead
  /\ rob_tail' = recov_tail
  /\ rob_availableSlots' = recovAvailableSlots(recov_tail)
  /\ rob_halted' = nextHalted
  /\ buffer' = [i \in ROB_PTR |-> Completed(buffer[i], cdb)]

\* The occupied slots, oldest first, as the counter tells them.
Occupancy == ROB_SIZE - rob_availableSlots
Occupied  == {i \in ROB_PTR : Dist(head, i) < Occupancy}
=============================================================================
