---------------------------- MODULE InstrBuffer ----------------------------
(***************************************************************************)
(* The instruction buffer between fetch and dispatch, InstrBuffer.v: a ring *)
(* of IB_SIZE = 8 entries.  Its tail is the entry that is filled next, and   *)
(* numIns_buffer tells full from empty.  Reset and a misprediction clear the *)
(* entries too, to NoEntry.                                                  *)
(***************************************************************************)
EXTENDS Integers, Sequences

CONSTANTS
  IB_SIZE,
  NoEntry      \* a cleared entry; an entry tells branch and wr_mem

ASSUME InstrBufferAssumption ==
  /\ IB_SIZE \in Nat /\ IB_SIZE >= 2
  /\ ~NoEntry.branch /\ ~NoEntry.wr_mem

VARIABLES ib_buffer, ib_head, ib_tail, numIns_buffer

ib_vars == <<ib_buffer, ib_head, ib_tail, numIns_buffer>>

IB_PTR == 0 .. (IB_SIZE - 1)

IBInit ==
  /\ ib_buffer = [i \in IB_PTR |-> NoEntry]
  /\ ib_head = 0 /\ ib_tail = 0 /\ numIns_buffer = 0

IBWrap(p) == p % IB_SIZE
AtHead  == ib_buffer[ib_head]
AtHead1 == ib_buffer[IBWrap(ib_head + 1)]      \* stale when one is left

Smaller(a, b) == IF a < b THEN a ELSE b

\* What is offered to fetch, and what to dispatch: a branch goes alone or
\* last, and needs a checkpoint; a store needs a slot of the store queue.
ib_nAvai == Smaller(2, IB_SIZE - numIns_buffer)

branchLimit(bs_full) ==
  IF AtHead.branch THEN IF bs_full THEN 0 ELSE 1
  ELSE IF AtHead1.branch /\ bs_full THEN 1 ELSE 2

\* (fault) The store behind another one is not counted.
storeLimitHead(sq_nAvailable) ==
  IF sq_nAvailable = 0 /\ AtHead.wr_mem THEN 0
  ELSE IF sq_nAvailable = 0 /\ AtHead1.wr_mem THEN 1 ELSE 2
storeLimit(sq_nAvailable) ==
  IF sq_nAvailable = 0 /\ AtHead.wr_mem THEN 0
  ELSE IF AtHead1.wr_mem /\ sq_nAvailable < (IF AtHead.wr_mem THEN 2 ELSE 1) THEN 1
  ELSE 2

\* (fault) It waits for a second instruction.
ib_nIsnBufferPair(bs_full, sq_nAvailable) ==
  IF numIns_buffer < 2 THEN 0
  ELSE Smaller(branchLimit(bs_full), storeLimit(sq_nAvailable))
ib_nIsnBuffer(bs_full, sq_nAvailable) ==
  Smaller(numIns_buffer, Smaller(branchLimit(bs_full), storeLimit(sq_nAvailable)))

ib_data(n) == SubSeq(<<AtHead, AtHead1>>, 1, n)

(* The clock edge: fetched (none, one or two entries) comes in at the tail,  *)
(* and n go out at the head.                                                  *)
IBCycle(fetched, n) ==
  /\ ib_buffer' = [i \in IB_PTR |->
       IF Len(fetched) >= 2 /\ i = IBWrap(ib_tail + 1) THEN fetched[2]
       ELSE IF Len(fetched) >= 1 /\ i = ib_tail THEN fetched[1] ELSE ib_buffer[i]]
  /\ ib_tail' = IBWrap(ib_tail + Len(fetched))
  /\ ib_head' = IBWrap(ib_head + n)
  /\ numIns_buffer' = numIns_buffer + Len(fetched) - n

(* The clock edge with br_pred_wrong. *)
IBFlush ==
  /\ ib_buffer' = [i \in IB_PTR |-> NoEntry]
  /\ ib_head' = 0 /\ ib_tail' = 0 /\ numIns_buffer' = 0
=============================================================================
