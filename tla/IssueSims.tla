----------------------------- MODULE IssueSims -----------------------------
(***************************************************************************)
(* The C simulators of testbench/InstrBufferPrintSim.c, RSPrintSim.c and     *)
(* CDBPrintSim.c, which the unit tests run beside InstrBuffer.v, RS.v and     *)
(* CDB.v.  As in RenameSims, the static variables of a simulator are the      *)
(* fields of a record.  Sizes and units are those of the Verilog (the tests   *)
(* still count 16 stations and three memory units).                           *)
(***************************************************************************)
EXTENDS InstrBuffer, RS, CDB, SequencesExt

BS_SLOTS == 4

(***************************************************************************)
(* InstrBufferPrintSim.c.                                                    *)
(***************************************************************************)
ib_init_sim ==
  [head |-> 0, tail |-> 0, numIns_buffer |-> 0, ib_nIsnBuffer |-> 0, ib_nAvai |-> 2,
   buffer |-> [i \in IB_PTR |-> NoEntry]]

\* A line of a file: what is fetched fits, and what is dispatched was offered.
\* bs_nEntries counts the free checkpoints here and those in use in the
\* Verilog; only between the ends of its range do both read the same from it.
ib_readLine(c, fetched) ==
  {in \in [br_fub_pred_wrong : BOOLEAN, haz_nDispatched : 0 .. 2,
           bs_nEntries : 1 .. (BS_SLOTS - 1), if_inst_in : fetched] :
     in.haz_nDispatched <= c.ib_nIsnBuffer /\ Len(in.if_inst_in) <= c.ib_nAvai}

nIsnBuffer_corner(buffer, head, bs_nEntries) ==
  IF buffer[head].branch THEN IF bs_nEntries > 0 THEN 1 ELSE 0
  ELSE IF buffer[(head + 1) % IB_SIZE].branch THEN IF bs_nEntries > 0 THEN 2 ELSE 1
  ELSE 2

\* The entries stay when a misprediction empties the buffer.
ib_updateSim(c, in) ==
  LET head   == (c.head + in.haz_nDispatched) % IB_SIZE
      nFill  == Len(in.if_inst_in)
      buffer == [i \in IB_PTR |->
                   IF \E k \in 1 .. nFill : i = (c.tail + k - 1) % IB_SIZE
                     THEN in.if_inst_in[CHOOSE k \in 1 .. nFill :
                                          i = (c.tail + k - 1) % IB_SIZE]
                     ELSE c.buffer[i]]
      num    == c.numIns_buffer - in.haz_nDispatched + nFill
      corner == nIsnBuffer_corner(buffer, head, in.bs_nEntries)
  IN  IF in.br_fub_pred_wrong THEN [ib_init_sim EXCEPT !.buffer = buffer]
      ELSE [head |-> head, tail |-> (c.tail + nFill) % IB_SIZE, numIns_buffer |-> num,
            ib_nIsnBuffer |-> IF num >= 2 \/ corner <= num THEN corner ELSE num,
            ib_nAvai |-> IF num = IB_SIZE THEN 0 ELSE IF num = IB_SIZE - 1 THEN 1 ELSE 2,
            buffer |-> buffer]

checkIBState(c, v) ==
  /\ v.head = c.head /\ v.tail = c.tail /\ v.numIns_buffer = c.numIns_buffer
  /\ v.ib_nIsnBuffer = c.ib_nIsnBuffer /\ v.ib_nAvai = c.ib_nAvai
  /\ \A k \in 1 .. c.ib_nIsnBuffer : v.ib_data[k] = c.buffer[(c.head + k - 1) % IB_SIZE]
checkIBEntry(c, i, e) == c.buffer[i] = e

(***************************************************************************)
(* RSPrintSim.c: one scan issues, with a counter; branches are not simulated.*)
(***************************************************************************)
rs_init_sim ==
  [entries |-> [i \in RS_PTR |-> Vacant], rs_availableSlots |-> RS_SIZE,
   rs_issue |-> <<>>]

\* rand() % 2 of both: at most one dispatch, of a register that no station
\* has, and at most one broadcast; dispatches are the instructions to choose from.
rs_getRandomValues(c, dispatches, busies, tags) ==
  LET taken == {c.entries[i].tag : i \in {j \in RS_PTR : c.entries[j].valid}}
  IN  {[isns |-> isns, fub_busy |-> busy, cdb_rd |-> cdb] :
         isns \in {<<>>} \cup {<<d>> : d \in {x \in dispatches : x.tag \notin taken}},
         busy \in busies,
         cdb \in {{}} \cup {{t} : t \in tags}}

\* A file can dispatch two.
rs_readLine(c, dispatches, tags) ==
  LET taken == {c.entries[i].tag : i \in {j \in RS_PTR : c.entries[j].valid}}
  IN  {[isns |-> <<d, e>>, fub_busy |-> {}, cdb_rd |-> cdb] :
         d \in {x \in dispatches : x.tag \notin taken},
         e \in {x \in dispatches : x.tag \notin taken},
         cdb \in {S \in SUBSET tags : Cardinality(S) <= 2}}

\* One turn of the issue loop; acc is what has been issued so far.
issueTurn(woken, busy, acc, i) ==
  LET e    == woken[i]
      free == IF e.valid
                THEN UnitsOf[e.fuType] \ (busy \cup {acc[k].unit : k \in DOMAIN acc})
                ELSE {}
  IN  IF Len(acc) < 2 /\ e.valid /\ e.aReady /\ e.bReady /\ free # {}
        THEN Append(acc, [slot |-> i, unit |-> Min(free), entry |-> e])
        ELSE acc

\* One turn of the dispatch loop: into the first slot that is not valid and was
\* not vacated just now.
dispatchTurn(issued, es, isn) ==
  LET free == {j \in RS_PTR : ~es[j].valid} \ issued
  IN  IF free = {} THEN es ELSE [es EXCEPT ![Min(free)] = NewStation(isn, {})]

rs_updateSim(c, in) ==
  LET woken == [i \in RS_PTR |->
                  LET e == c.entries[i]
                  IN  IF e.valid
                        THEN [e EXCEPT !.aReady = @ \/ e.tagA \in in.cdb_rd,
                                       !.bReady = @ \/ e.tagB \in in.cdb_rd]
                        ELSE e]
      issue == FoldLeft(LAMBDA acc, i : issueTurn(woken, in.fub_busy, acc, i - 1),
                        <<>>, [i \in 1 .. RS_SIZE |-> i])
      slots == {issue[k].slot : k \in DOMAIN issue}
      left  == [i \in RS_PTR |-> IF i \in slots THEN Vacant ELSE woken[i]]
      n     == IF Len(in.isns) < c.rs_availableSlots THEN Len(in.isns)
               ELSE c.rs_availableSlots
      es    == FoldLeft(LAMBDA acc, isn : dispatchTurn(slots, acc, isn),
                        left, SubSeq(in.isns, 1, n))
  IN  [entries |-> es, rs_issue |-> issue,
       rs_availableSlots |-> Cardinality({i \in RS_PTR : ~es[i].valid})]

checkRSState(c, v)    == c.rs_availableSlots = v
checkRSEntry(c, i, e) == c.entries[i] = e
\* checkRSOutputs and checkFU_EN: the slots, their registers, and the units.
checkRSOutputs(c, issue) ==
  /\ Len(issue) = Len(c.rs_issue)
  /\ \A k \in DOMAIN issue :
       LET v == issue[k]  s == c.rs_issue[k]
       IN  /\ v.slot = s.slot /\ v.unit = s.unit
           /\ v.entry.tag = s.entry.tag
           /\ v.entry.tagA = s.entry.tagA /\ v.entry.tagB = s.entry.tagB

(***************************************************************************)
(* CDBPrintSim.c: fub_valid counts through all combinations; bit i is buffer *)
(* i.  The scan shifts it right and stops at the second bit, or at the last.  *)
(***************************************************************************)
cdb_init_sim == [fub_valid |-> 0, cdb_rd |-> <<>>, cdb_stall |-> FUB]

BitOf(v, i) == (v \div 2 ^ i) % 2 = 1

cdb_updateSim(c) ==
  LET v == c.fub_valid + 1
      turn(acc, i) == IF BitOf(v, i) /\ Len(acc) < 2 THEN Append(acc, i) ELSE acc
      granted == FoldLeft(LAMBDA acc, i : turn(acc, i - 1), <<>>,
                          [i \in 1 .. FUBS |-> i])
  IN  [fub_valid |-> v, cdb_rd |-> granted,
       cdb_stall |-> FUB \ {granted[k] : k \in DOMAIN granted}]

checkCDB(c, rd, stall) == c.cdb_rd = rd /\ c.cdb_stall = stall
=============================================================================
