---------------------------- MODULE MemOrderProps ---------------------------
(***************************************************************************)
(* What the store queue and its users have to keep together.                  *)
(***************************************************************************)
EXTENDS MemOrder, Subsequence

(* Every register of SQ.v and every index kept outside it has its width.    *)
TypeOK ==
  /\ queue \in [SQ_PTR -> SQEntry]
  /\ ea_calcd \in [SQ_PTR -> BOOLEAN]
  /\ retireHead \in SQ_PTR /\ sq_trueHead \in SQ_PTR /\ sq_tail \in SQ_PTR
  /\ sq_empty \in BOOLEAN
  /\ window \in Seq(InFlight) /\ Len(window) <= WINDOW

\* The k-th slot from the head, and the window's stores, oldest first.
Slot(k) == SQWrap(sq_trueHead + k - 1)
Stores  == Picked(window, {p \in DOMAIN window : window[p].kind = "store"})

(* The queue holds the retired stores, marked, and then exactly the stores  *)
(* of the window in program order, each in the slot its station knows and    *)
(* executed when that one is; retireHead is between the two, and when the    *)
(* queue is empty its tail is its head.  (SQ.v:101-146, 178-223.)            *)
QueueHoldsProgramOrder ==
  LET r == Cardinality(RetiredWaiting)
  IN  /\ Occupancy = r + Len(Stores)
      /\ RetiredWaiting = {Slot(k) : k \in 1 .. r}
      /\ retireHead = Slot(r + 1)
      /\ \A k \in 1 .. r : ea_calcd[Slot(k)]
      /\ \A k \in DOMAIN Stores :
           /\ Stores[k].index = Slot(r + k)
           /\ ea_calcd[Slot(r + k)] <=> Stores[k].state = "done"
      /\ sq_empty => sq_tail = sq_trueHead

(* Whatever a branch's checkpoint says of the tail, a recovery in this cycle *)
(* would keep exactly the stores older than the branch.  (BranchStack.v:62,  *)
(* 70; SQ.v:208-219.)                                                        *)
CheckpointsKeepTheOlder ==
  \A b \in Positions("branch", "waiting") :
    LET n == OlderCount(b)
    IN  IF n = 0
        THEN \/ window[b].empty /\ window[b].index = sq_trueHead
             \/ sq_empty
             \/ SQWrap(window[b].index + 1) = sq_trueHead
        ELSE ~window[b].empty /\ window[b].index = Slot(n)

(* A load that is issued has no older store in the queue whose address is    *)
(* still unknown.  (RS.v:86-89, SQ.v:83-94.)                                 *)
LoadsWaitForOlder ==
  \A p \in Positions("load", "issued") :
    \A k \in 1 .. OlderCount(p) : ea_calcd[Slot(k)]

(* A load with older stores in the queue takes its data from the youngest    *)
(* of them with its address, and from memory when there is none: the         *)
(* look-up in the cycle after issue, by an index given out at dispatch, sees *)
(* through the pops and pushes in between.  (SQ.v:159-176.)                  *)
LoadSeesYoungestOlder ==
  \A p \in Positions("load", "issued"), a \in ADDR :
    LET same == {k \in 1 .. OlderCount(p) : queue[Slot(k)].addr = a}
        idx  == window[p].index
    IN  OlderCount(p) > 0 =>
          /\ sq_ld_match(idx, a) <=> same # {}
          /\ same # {} => \E k \in same : /\ sq_ld_slot(idx, a) = Slot(k)
                                          /\ \A j \in same : j <= k

(* The rings, marks and pointers implement a queue of stores that lets them  *)
(* go to memory in program order, each once, only after it has retired.      *)
FifoView ==
  [k \in 1 .. Occupancy |->
     [addr |-> queue[Slot(k)].addr, executed |-> ea_calcd[Slot(k)],
      retired |-> queue[Slot(k)].retired]]

Fifo == INSTANCE StoreFifo
          WITH pending <- FifoView, Capacity <- SQ_SIZE, Address <- ADDR
ImplementsFifo == Fifo!Spec
=============================================================================
