---------------------------- MODULE RenameSims ----------------------------
(***************************************************************************)
(* The C simulators that the unit tests of the rename stage run beside the   *)
(* Verilog: testbench/ROBPrintSim.c, FLPrintSim.c and MTPrintSim.c.  Each    *)
(* keeps its own idea of the module's state in static variables, here the    *)
(* fields of a record; updateSim is one step of it, readLine and             *)
(* getRandomValues draw the inputs, which the Verilog gets as well.           *)
(***************************************************************************)
EXTENDS SysDefs, Sequences

Smallest(S) == CHOOSE x \in S : \A y \in S : x <= y

\* An ordered choice of two out of S; a test with fewer draws what it can.
TwoOf(S) == {<<a, b>> \in S \X S : a # b}

(***************************************************************************)
(* ROBPrintSim.c: every entry has a valid bit, and the free slots are         *)
(* counted.                                                                  *)
(***************************************************************************)
rob_init_sim ==
  [head |-> 0, tail |-> ROB_SIZE - 1, rob_availableSlots |-> ROB_SIZE,
   prev_nRetired |-> 0, rob_prev_retireTag |-> <<0, 0>>, rob_prev_retireTagOld |-> <<0, 0>>,
   buffer |-> [i \in ROB_PTR |->
                 [valid |-> FALSE, complete |-> FALSE, tag |-> 0, tagOld |-> 0]]]

RobInput(n, regs, tagOld, cdb) ==
  [n |-> n, fl_freeRegs |-> regs, mt_dispatchTagOld |-> tagOld, cdb_rd |-> cdb,
   br_fub_pred_wrong |-> FALSE, bs_recov_rob_tail |-> 0]

\* A random line: n is the least of the three numbers that are drawn for the
\* buffer, the stations and the registers; nothing is mispredicted, and at most
\* one broadcast is enabled (rand() % 2).
rob_getRandomValues(c, regs, tagOlds) ==
  LET valid == {i \in ROB_PTR : c.buffer[i].valid}
      free  == regs \ {c.buffer[i].tag : i \in valid}
      waits == {c.buffer[i].tag : i \in {j \in valid : ~c.buffer[j].complete}}
  IN  {RobInput(0, <<0, 0>>, <<0, 0>>, cdb) : cdb \in {{}} \cup {{t} : t \in waits}}
      \cup {RobInput(n, two, olds, cdb) : n \in 1 .. 2, two \in TwoOf(free),
              olds \in tagOlds, cdb \in {{}} \cup {{t} : t \in waits}}

\* A line of a file may also enable both broadcasts, and go back to a branch:
\* an instruction in the buffer, and not one that retires in this cycle.
rob_readLine(c, stays) ==
  LET waits == {c.buffer[i].tag : i \in {j \in ROB_PTR :
                                    c.buffer[j].valid /\ ~c.buffer[j].complete}}
  IN  {[RobInput(0, <<0, 0>>, <<0, 0>>, cdb) EXCEPT
          !.br_fub_pred_wrong = wrong, !.bs_recov_rob_tail = recov] :
        cdb \in {S \in SUBSET waits : Cardinality(S) <= 2},
        wrong \in {TRUE}, recov \in stays}

\* (fault) Only what retires is free.
rob_slotsRetired(c, buffer, n, nRetired) == c.rob_availableSlots + nRetired - n
rob_slots(c, buffer, n, nRetired) == Cardinality({i \in ROB_PTR : ~buffer[i].valid})

rob_updateSim(c, in) ==
  LET done(i)  == c.buffer[i].complete /\ c.buffer[i].valid
      nRetired == IF ~done(c.head) THEN 0
                  ELSE IF done(Wrap(c.head + 1)) THEN 2 ELSE 1
      head     == Wrap(c.head + nRetired)
      slot(k)  == Wrap(c.tail + k)
      n        == IF in.br_fub_pred_wrong THEN 0
                  ELSE Smallest({2, in.n, c.rob_availableSlots + nRetired})
      after(i) == IF \E k \in 1 .. n : i = slot(k)
                    THEN LET k == CHOOSE k \in 1 .. n : i = slot(k)
                         IN  [valid |-> TRUE, complete |-> FALSE,
                              tag |-> in.fl_freeRegs[k], tagOld |-> in.mt_dispatchTagOld[k]]
                  ELSE [c.buffer[i] EXCEPT
                         !.valid = @ /\ Dist(c.head, i) >= nRetired,
                         !.complete = @ \/ c.buffer[i].tag \in in.cdb_rd]
      tail     == IF in.br_fub_pred_wrong THEN in.bs_recov_rob_tail ELSE slot(n)
      \* from the tail to the head: none when the two meet
      undone   == IF in.br_fub_pred_wrong
                    THEN {i \in ROB_PTR : Dist(Wrap(tail + 1), i) < Dist(Wrap(tail + 1), head)}
                    ELSE {}
      buffer   == [i \in ROB_PTR |-> [after(i) EXCEPT !.valid = @ /\ i \notin undone]]
  IN  [head |-> head, tail |-> tail, buffer |-> buffer, prev_nRetired |-> nRetired,
       rob_availableSlots |-> rob_slots(c, buffer, n, nRetired),
       rob_prev_retireTag |-> <<c.buffer[c.head].tag, c.buffer[Wrap(c.head + 1)].tag>>,
       rob_prev_retireTagOld |->
         <<c.buffer[c.head].tagOld, c.buffer[Wrap(c.head + 1)].tagOld>>]

\* What ROBUnitTest.v compares; v has the Verilog's signals.
checkROBState(c, v) ==
  /\ v.head = c.head /\ v.tail = c.tail
  /\ v.rob_availableSlots = c.rob_availableSlots
  /\ v.prev_nRetired = c.prev_nRetired
  /\ \A k \in 1 .. c.prev_nRetired :
       /\ v.rob_prev_retireTag[k] = c.rob_prev_retireTag[k]
       /\ v.rob_prev_retireTagOld[k] = c.rob_prev_retireTagOld[k]
checkROBEntry(c, i, e) ==
  LET b == c.buffer[i]
  IN  b.complete = e.complete /\ b.tag = e.tag /\ b.tagOld = e.tagOld

(***************************************************************************)
(* FLPrintSim.c.  What retires is counted one line later than in FreeList.v. *)
(***************************************************************************)
fl_init_sim ==
  [head |-> 0, tail |-> ROB_SIZE - 1, array |-> [i \in FL_PTR |-> i + ARCH_REGS],
   fl_freeRegs |-> <<0, 0>>, fl_availableRegs |-> ROB_SIZE,
   prevRetired |-> 0, rob_nRetired_IN |-> 0]

\* The lines of a file that retires no more than it has dispatched.
fl_readLine(nAllocated, tagOlds) ==
  {in \in [ext_nDispatched : 0 .. 2, rob_nRetired : 0 .. 2,
           rob_retireTagOld : tagOlds] :
     in.rob_nRetired <= nAllocated}

fl_updateSim(c, in) ==
  LET n == Smallest({in.ext_nDispatched, c.fl_availableRegs})
      put == {k \in 1 .. in.rob_nRetired : TRUE}
  IN  [head |-> Wrap(c.head + n), tail |-> Wrap(c.tail + in.rob_nRetired),
       fl_availableRegs |-> c.fl_availableRegs + c.rob_nRetired_IN - n,
       fl_freeRegs |-> [k \in 1 .. 2 |->
                          IF k <= n THEN c.array[Wrap(c.head + k - 1)] ELSE c.fl_freeRegs[k]],
       array |-> [i \in FL_PTR |->
                    IF \E k \in put : i = Wrap(c.tail + k)
                      THEN in.rob_retireTagOld[CHOOSE k \in put : i = Wrap(c.tail + k)]
                      ELSE c.array[i]],
       prevRetired |-> c.rob_nRetired_IN, rob_nRetired_IN |-> in.rob_nRetired]

checkFLOutputs(c, available, n, freeRegs) ==
  /\ c.fl_availableRegs = available
  /\ \A k \in 1 .. n : c.fl_freeRegs[k] = freeRegs[k]

(***************************************************************************)
(* MTPrintSim.c: the map has all ARCH_REGS registers, and the instructions    *)
(* are looked up after the dispatch, one by one.                              *)
(***************************************************************************)
mt_init_sim ==
  [map |-> [r \in ARCH_REG |-> r], mt_ready |-> [r \in ARCH_REG |-> TRUE],
   nextFree |-> ARCH_REGS]

\* At most one of the two is dispatched (rand() % 2); the register of the
\* other may be one past the last.  The operands are looked up one by one, so
\* one register for all of them is enough.
mt_getRandomValues(c) ==
  {[ext_nDispatched |-> n, destidx |-> dest, regidx |-> <<r, r>>, cdb_rd |-> cdb,
    fl_freeRegs |-> <<c.nextFree, c.nextFree + 1>>] :
     n \in 0 .. 1, dest \in ARCH_REG \X ARCH_REG, r \in ARCH_REG,
     cdb \in {S \in SUBSET PHYS_REG : Cardinality(S) <= 2}}

\* A line of a file may dispatch both.
mt_readLine(regs) ==
  {[ext_nDispatched |-> 2, destidx |-> dest, regidx |-> <<r, r>>, cdb_rd |-> {},
    fl_freeRegs |-> two] :
     dest \in ARCH_REG \X ARCH_REG, r \in ARCH_REG, two \in TwoOf(regs)}

mt_updateSim(c, in) ==
  LET writes == {k \in 1 .. in.ext_nDispatched : in.destidx[k] # ZERO_REG}
      last(r) == {k \in writes : in.destidx[k] = r /\ \A j \in writes :
                                   in.destidx[j] = r => j <= k}
  IN  [map |-> [r \in ARCH_REG |->
                  IF last(r) = {} THEN c.map[r]
                  ELSE in.fl_freeRegs[CHOOSE k \in last(r) : TRUE]],
       mt_ready |-> [r \in ARCH_REG |->
                       last(r) = {} /\ (c.mt_ready[r]
                         \/ (r # ZERO_REG /\ c.map[r] \in in.cdb_rd))],
       nextFree |-> (c.nextFree + in.ext_nDispatched) % Cardinality(PHYS_REG)]

checkMapEntry(c, r, e) == c.map[r] = e.register /\ c.mt_ready[r] = e.ready

\* checkOutputs for the k-th instruction: its operand after the dispatch, and
\* the register it replaces, before, whatever the other one of the pair writes.
checkMTOutputs(before, after, in, k, tag, tagOld) ==
  /\ tag = [register |-> after.map[in.regidx[k]], ready |-> after.mt_ready[in.regidx[k]]]
  /\ tagOld = before.map[in.destidx[k]]
=============================================================================
