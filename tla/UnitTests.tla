----------------------------- MODULE UnitTests -----------------------------
(***************************************************************************)
(* The unit tests, testbench/<X>UnitTest.v: the module under test and its C  *)
(* simulator make the same step with the same inputs, and the check           *)
(* functions of the simulator compare the two.  A test that fails prints      *)
(* FAILED and is over.  One behaviour is a run of one test.                    *)
(***************************************************************************)
EXTENDS ROB, FreeList, MapTable, RenameSims, IssueSims

CONSTANTS
  FreeRegs,     \* registers that the tests of the reorder buffer draw
  TagOlds,      \* pairs of replaced registers that the tests draw
  Fetched,      \* what the tests of the instruction buffer fetch
  Dispatches,   \* what those of the reservation stations dispatch
  Busies,       \* which units are busy
  Tags          \* and what is broadcast

VARIABLES
  test,         \* which test is run
  failed,       \* the line on which a check has failed, if one has
  sim,          \* the simulator's static variables
  rob_prev      \* ROB.v's debug outputs: what retired at the last edge

dut_vars == <<rob_vars, fl_vars, mt_vars, ib_vars, rs_vars, rob_prev>>
vars     == <<dut_vars, test, failed, sim>>

Tests == {"ROB", "FL", "MT", "IB", "RS", "CDB"}

init_sim ==
  [ROB |-> rob_init_sim, FL |-> fl_init_sim, MT |-> mt_init_sim,
   IB |-> ib_init_sim, RS |-> rs_init_sim, CDB |-> cdb_init_sim]

\* The bench resets the buffer; nothing in it is complete.
Init ==
  /\ test \in Tests /\ failed = {} /\ sim = init_sim[test]
  /\ ROBInit /\ ~buffer[0].complete
  /\ FLInit /\ MTInit /\ ATInit /\ IBInit /\ RSInit
  /\ rob_prev = [n |-> 0, tags |-> <<0, 0>>, tagOlds |-> <<0, 0>>]

\* checkSim: the line is the last one if a check fails on it.
Verdict(ok, line) == failed' = IF ok THEN {} ELSE {line}

PlainEntry == [halt |-> FALSE, noop |-> FALSE, wr_mem |-> FALSE]

(* ROBUnitTest.v, with if_id_hazard.v between the inputs and the buffer. *)
ROBCheck ==
  /\ checkROBState(sim', [head |-> head', tail |-> rob_tail',
       rob_availableSlots |-> rob_availableSlots', prev_nRetired |-> rob_prev'.n,
       rob_prev_retireTag |-> rob_prev'.tags, rob_prev_retireTagOld |-> rob_prev'.tagOlds])
  /\ \A i \in ROB_PTR : checkROBEntry(sim', i, buffer'[i])

ROBStep(in) ==
  LET n == Smallest({2, rob_availableSlots + rob_nRetired, in.n})
  IN  /\ IF in.br_fub_pred_wrong THEN ROBRecover(in.bs_recov_rob_tail, in.cdb_rd)
         ELSE ROBCycle(n, <<PlainEntry, PlainEntry>>, in.fl_freeRegs,
                       in.mt_dispatchTagOld, in.cdb_rd)
      /\ rob_prev' = [n |-> rob_nRetired,
                      tags |-> <<buffer[head].tag, buffer[head_plus1_ptr].tag>>,
                      tagOlds |-> <<buffer[head].tagOld, buffer[head_plus1_ptr].tagOld>>]
      /\ sim' = rob_updateSim(sim, in)
      /\ Verdict(ROBCheck, in)
      /\ UNCHANGED <<fl_vars, mt_vars, ib_vars, rs_vars>>

ROBTest ==
  /\ test = "ROB"
  /\ \/ \E in \in rob_getRandomValues(sim, FreeRegs, TagOlds) : ROBStep(in)
     \/ \E in \in rob_readLine(sim, {i \in Occupied : Dist(head, i) >= rob_nRetired}) :
          ROBStep(in)

(* FLUnitTest.v: at the check, haz_nDispatched is cut by the registers that    *)
(* are available after the edge.                                               *)
haz_nDispatched(in, available) == Smallest({in.ext_nDispatched, available})

FLTest ==
  /\ test = "FL"
  /\ \E in \in fl_readLine(ROB_SIZE - fl_availableRegs, TagOlds) :
       /\ FLCycle(haz_nDispatched(in, fl_availableRegs),
                  [k \in 1 .. 2 |-> [tag |-> 0, tagOld |-> in.rob_retireTagOld[k]]],
                  in.rob_nRetired)
       /\ sim' = fl_updateSim(sim, in)
       /\ Verdict(checkFLOutputs(sim', fl_availableRegs',
                    haz_nDispatched(in, fl_availableRegs'), fl_freeRegs), in)
  /\ UNCHANGED <<rob_vars, mt_vars, ib_vars, rs_vars, rob_prev>>

(* MTUnitTest.v: the outputs for the inputs of the last edge, after it.  The   *)
(* second operand is bypassed from the first destination, dispatched or not;   *)
(* map[31] keeps its reset value.                                              *)
mt_map == [r \in ARCH_REG |-> IF r = ZERO_REG THEN [register |-> PHYS_ZERO_REG, ready |-> TRUE]
                             ELSE map[r]]
mt_tag(in, k) ==
  IF k = 2 /\ in.regidx[2] = in.destidx[1] /\ in.destidx[1] # ZERO_REG
    THEN [register |-> in.fl_freeRegs[1], ready |-> FALSE]
  ELSE mt_map[in.regidx[k]]

MTTest ==
  /\ test = "MT"
  /\ \E in \in mt_getRandomValues(sim) \cup mt_readLine(FreeRegs) :
       LET isns == [k \in 1 .. 2 |-> [dest |-> in.destidx[k]]]
           olds == mt_dispatchTagOld(isns, in.fl_freeRegs)
       IN  /\ MTCycle(in.ext_nDispatched, isns, in.fl_freeRegs, in.cdb_rd)
           /\ sim' = mt_updateSim(sim, in)
           /\ Verdict(
                /\ \A r \in ARCH_REG : checkMapEntry(sim', r, mt_map'[r])
                /\ \A k \in 1 .. 2 : checkMTOutputs(sim, sim', in, k, mt_tag(in, k)', olds[k]),
                in)
  /\ UNCHANGED <<rob_vars, fl_vars, at_map, ib_vars, rs_vars, rob_prev>>

(* InstrBufferUnitTest.v: the entries from head to tail are compared. *)
IBTest ==
  /\ test = "IB"
  /\ \E in \in ib_readLine(sim, Fetched) :
       /\ IF in.br_fub_pred_wrong THEN IBFlush
          ELSE IBCycle(in.if_inst_in, in.haz_nDispatched)
       /\ sim' = ib_updateSim(sim, in)
       /\ Verdict(
            LET n == ib_nIsnBuffer(in.bs_nEntries = BS_SLOTS, 2)'
            IN  /\ checkIBState(sim', [head |-> ib_head', tail |-> ib_tail',
                     numIns_buffer |-> numIns_buffer', ib_nAvai |-> ib_nAvai',
                     ib_nIsnBuffer |-> n, ib_data |-> ib_data(2)'])
                /\ \A k \in 0 .. (IBWrap(ib_tail' - ib_head') - 1) :
                     checkIBEntry(sim', IBWrap(ib_head' + k), ib_buffer'[IBWrap(ib_head' + k)]),
            in)
  /\ UNCHANGED <<rob_vars, fl_vars, mt_vars, rs_vars, rob_prev>>

(* RSUnitTest.v, with the inputs that it leaves open at zero.  RS.v sets the  *)
(* ready bit of an operand that is broadcast in the cycle of the dispatch,    *)
(* the simulator does not: such lines are left out.                           *)
RSStep(in) ==
  LET n    == Smallest({Len(in.isns), rs_availableSlots})
      isns == SubSeq(in.isns, 1, n)
  IN  /\ \A k \in 1 .. n :
           in.cdb_rd \cap {isns[k].tagA.register, isns[k].tagB.register} = {}
      /\ Len(in.isns) = 2 => in.isns[1].tag # in.isns[2].tag
      /\ RSCycle(isns, {}, in.cdb_rd, in.fub_busy, RS_PTR, {}, {})
      /\ sim' = rs_updateSim(sim, in)
      /\ Verdict(/\ checkRSState(sim', rs_availableSlots')
                 /\ \A i \in RS_PTR : checkRSEntry(sim', i, entries'[i])
                 /\ checkRSOutputs(sim', rs_issue'), in)
      /\ UNCHANGED <<rob_vars, fl_vars, mt_vars, ib_vars, rob_prev>>

RSTest ==
  /\ test = "RS"
  /\ \/ \E in \in rs_getRandomValues(sim, Dispatches, Busies, Tags) : RSStep(in)
     \/ \E in \in rs_readLine(sim, Dispatches, Tags) : RSStep(in)

(* CDBUnitTest.v: 255 lines, one for every combination but the empty one. *)
CDBTest ==
  /\ test = "CDB" /\ sim.fub_valid < 2 ^ FUBS - 1
  /\ sim' = cdb_updateSim(sim)
  /\ Verdict(LET fub == {i \in FUB : BitOf(sim'.fub_valid, i)}
             IN  checkCDB(sim', cdb_rd(fub, {}), {i \in FUB : cdb_stall(i, fub, {})}),
             sim'.fub_valid)
  /\ UNCHANGED dut_vars

Next ==
  /\ failed = {}
  /\ ROBTest \/ FLTest \/ MTTest \/ IBTest \/ RSTest \/ CDBTest
  /\ UNCHANGED test

Spec == Init /\ [][Next]_vars

(* The simulators of the rename stage describe their modules after every      *)
(* sequence of inputs that the tests may draw, as far as they are written to.  *)
(* That of the reorder buffer, which has valid bits and counts them, is never  *)
(* told FAILED (ROBPrintSim.c:237-285).                                        *)
ROBAgrees == test = "ROB" => failed = {}

(* That of the free list has the same ring, and lacks in its count just the    *)
(* registers that retire with the last line: the test fails on the first line  *)
(* that retires any, and on no other (FLPrintSim.c:57, FreeList.v:51).          *)
FLOneLineBehind ==
  test = "FL" =>
    /\ sim.array = free /\ sim.head = fl_head /\ sim.tail = fl_tail
    /\ sim.fl_availableRegs + sim.rob_nRetired_IN = fl_availableRegs
    /\ failed # {} <=> sim.rob_nRetired_IN > 0

(* That of the map table has the same map, and no bypass: its test fails only  *)
(* on pairs that write one register, or of which the second reads what the     *)
(* first would write and neither is dispatched (MTPrintSim.c:119-135,          *)
(* MapTable.v:36-45).                                                          *)
MTBehindInPairs ==
  test = "MT" =>
    /\ \A r \in ARCH_REG : checkMapEntry(sim, r, mt_map[r])
    /\ \A in \in failed :
         /\ in.destidx[1] # ZERO_REG
         /\ \/ in.destidx[2] = in.destidx[1]
            \/ in.regidx[2] = in.destidx[1] /\ in.ext_nDispatched = 0

(* The three together: where the simulators and the Verilog part, and where   *)
(* they never do.                                                              *)
RenameSimsAgree == ROBAgrees /\ FLOneLineBehind /\ MTBehindInPairs

(* The tests of the buffer, the stations and the bus never print FAILED: one  *)
(* loop with a counter and two scans with priorities issue, and grant, alike   *)
(* (InstrBufferPrintSim.c:277, RSPrintSim.c:371, CDBPrintSim.c:48).             *)
IssueTestsPass == test \in {"IB", "RS", "CDB"} => failed = {}
=============================================================================
