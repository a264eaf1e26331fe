--------------------------------- MODULE SQ ---------------------------------
(***************************************************************************)
(* The store queue, DMEM/SQ.v: a ring that stores enter at dispatch, in     *)
(* program order, and leave towards memory after they have retired.  A slot *)
(* travels through it as allocated, executed (its address is known),        *)
(* retired, sent.  The chip has SQ_SIZE = 8.                                 *)
(*                                                                          *)
(* A store's data stays in the slot of its address and is never compared:   *)
(* a slot stands for the data in it.                                         *)
(***************************************************************************)
EXTENDS Integers, FiniteSets, Sequences

CONSTANTS
  SQ_SIZE,     \* slots of the queue
  ADDR         \* addresses; 0 is what reset and allocation write

ASSUME QueueAssumption ==
  /\ SQ_SIZE \in Nat /\ SQ_SIZE >= 2
  /\ 0 \in ADDR

VARIABLES
  queue,         \* the slots: address and retired mark
  ea_calcd,      \* slots whose store has executed
  retireHead,    \* the next slot to be marked retired
  sq_trueHead,   \* the oldest slot
  sq_tail,       \* the youngest slot, unless the queue is empty
  sq_empty

sq_vars == <<queue, ea_calcd, retireHead, sq_trueHead, sq_tail, sq_empty>>

SQ_PTR  == 0 .. (SQ_SIZE - 1)
SQEntry == [addr : ADDR, retired : BOOLEAN]

SQInit ==
  /\ queue = [i \in SQ_PTR |-> [addr |-> 0, retired |-> FALSE]]
  /\ ea_calcd = [i \in SQ_PTR |-> FALSE]
  /\ retireHead = 0 /\ sq_trueHead = 0 /\ sq_tail = 0
  /\ sq_empty = TRUE

\* (fault) The wrap one slot late.
SQWrapLate(p) == IF p = SQ_SIZE THEN p ELSE p % SQ_SIZE
SQWrap(p) == p % SQ_SIZE                   \* (p) & 3'b111
SQDist(p) == SQWrap(p - sq_trueHead)       \* slots past the oldest one
Bit(b)    == IF b THEN 1 ELSE 0

\* The last of the executed stores that follow one another from the head.
sq_ea_empty == ~ea_calcd[sq_trueHead]
sq_ea_ptr ==
  LET run == {k \in SQ_PTR : \A j \in 0 .. k : ea_calcd[SQWrap(sq_trueHead + j)]}
  IN  IF run = {} THEN sq_trueHead
                  ELSE SQWrap(sq_trueHead + Cardinality(run) - 1)

\* The slots of this cycle's two instructions: that of a store, and for the
\* others that of the youngest store before them, if there is one.
halfTailsum(en) == SQWrap(sq_tail + Bit(~sq_empty /\ en[1]))
\* (fault) An empty queue's first store does not use the slot at the tail.
tailsumSkipping(en) == SQWrap(halfTailsum(en) + Bit(en[2]))
tailsum(en) == IF sq_empty /\ ~en[1] THEN halfTailsum(en)
               ELSE SQWrap(halfTailsum(en) + Bit(en[2]))
sq_index(en)       == <<halfTailsum(en), tailsum(en)>>
sq_index_empty(en) == <<sq_empty /\ ~en[1], sq_empty /\ ~en[1] /\ ~en[2]>>

slotsOpen     == IF sq_empty THEN SQ_SIZE ELSE SQ_SIZE - 1 - SQDist(sq_tail)
sq_nAvailable == IF slotsOpen > 2 THEN 2 ELSE slotsOpen

(* A load with index idx looks its address up in the slots from the head to *)
(* idx; the last match forwards its data.                                    *)
\* (fault) The oldest match wins.
sq_ld_slotFirst(idx, addr) ==
  LET hits == {j \in 0 .. SQDist(idx) : queue[SQWrap(sq_trueHead + j)].addr = addr}
  IN  SQWrap(sq_trueHead + (CHOOSE j \in hits : \A k \in hits : j <= k))
sq_ld_hits(idx, addr) ==
  {j \in 0 .. SQDist(idx) :
     ~sq_empty /\ queue[SQWrap(sq_trueHead + j)].addr = addr}
sq_ld_match(idx, addr) == sq_ld_hits(idx, addr) # {}
sq_ld_slot(idx, addr) ==
  LET hits == sq_ld_hits(idx, addr)
  IN  SQWrap(sq_trueHead + (CHOOSE j \in hits : \A k \in hits : k <= j))

(* The slots after allocation, execution and retirement: en tells which of  *)
(* the two instructions are stores, st which slots execute, with what       *)
(* address, and n how many stores retire.                                    *)
Allocated(en)  == {sq_index(en)[k] : k \in {j \in 1 .. 2 : en[j]}}
Retiring(n)    == {SQWrap(retireHead + k) : k \in 0 .. (n - 1)}

nextQueue(en, st, n) ==
  [i \in SQ_PTR |->
     [addr    |-> IF i \in DOMAIN st THEN st[i]
                  ELSE IF i \in Allocated(en) THEN 0 ELSE queue[i].addr,
      retired |-> i \in Retiring(n)
                  \/ (queue[i].retired /\ i \notin Allocated(en))]]
\* (fault) An allocation does not clear ea_calcd.
next_ea_calcdStale(en, st) ==
  [i \in SQ_PTR |-> i \in DOMAIN st \/ ea_calcd[i]]
next_ea_calcd(en, st) ==
  [i \in SQ_PTR |->
     i \in DOMAIN st \/ (ea_calcd[i] /\ i \notin Allocated(en))]

\* The head goes to memory when it is retired and the cache takes it.
sq_mem_en(en, st, n)  == nextQueue(en, st, n)[sq_trueHead].retired
nextTrueHead(pops)    == SQWrap(sq_trueHead + Bit(pops))

nextRetireHead(n, pops) ==
  LET r == SQWrap(retireHead + n)
  IN  IF SQWrap(r + 1) = nextTrueHead(pops) THEN nextTrueHead(pops) ELSE r

\* What both kinds of cycle do to the slots and to the two heads.
Move(en, st, n, pops) ==
  LET filled == nextQueue(en, st, n)
  IN  /\ queue' = IF pops THEN [filled EXCEPT ![sq_trueHead].retired = FALSE]
                          ELSE filled
      /\ ea_calcd' = next_ea_calcd(en, st)
      /\ sq_trueHead' = nextTrueHead(pops)
      /\ retireHead' = nextRetireHead(n, pops)

\* The pop leaves nothing behind it.
Empties(en, pops) == pops /\ sq_trueHead = tailsum(en)

(* A cycle in which no branch turns out mispredicted; pops: the cache takes *)
(* the store it is offered.                                                  *)
SQCycle(en, st, n, pops) ==
  /\ pops => sq_mem_en(en, st, n)
  /\ Move(en, st, n, pops)
  /\ sq_tail'  = IF Empties(en, pops) THEN nextTrueHead(pops) ELSE tailsum(en)
  /\ sq_empty' = (Empties(en, pops) \/ (sq_empty /\ ~en[1] /\ ~en[2]))

(* The branch whose checkpoint is (recov_tail, recov_empty) was             *)
(* mispredicted; nothing is dispatched.                                      *)
SQRecover(recov_tail, recov_empty, st, n, pops) ==
  LET en   == <<FALSE, FALSE>>
      gone == SQWrap(recov_tail + 1) = nextTrueHead(pops)
  IN  /\ pops => sq_mem_en(en, st, n)
      /\ Move(en, st, n, pops)
      /\ sq_tail'  = IF gone THEN nextTrueHead(pops) ELSE recov_tail
      /\ sq_empty' = (gone \/ recov_empty \/ sq_empty \/ Empties(en, pops))
=============================================================================
