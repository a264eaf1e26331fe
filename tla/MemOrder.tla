------------------------------ MODULE MemOrder ------------------------------
(***************************************************************************)
(* Memory order: the store queue with what uses it - the buffer that limits *)
(* the stores of a cycle, the stations that hold a load back, the branch    *)
(* stack's copy of the tail, retirement, and the cache that takes a store.   *)
(*                                                                          *)
(* window is the loads, stores and branches between dispatch and            *)
(* retirement, oldest first, each with the queue index it was given (RS.v,  *)
(* BranchStack.v).  Everything else is the environment's choice: operands,  *)
(* addresses, outcomes of branches, latencies.                               *)
(***************************************************************************)
EXTENDS SQ

CONSTANTS
  WINDOW,      \* bound: loads, stores and branches in flight
  BRANCHES     \* checkpoints

ASSUME WindowAssumption == WINDOW \in Nat /\ BRANCHES \in Nat

VARIABLE window

vars == <<queue, ea_calcd, retireHead, sq_trueHead, sq_tail, sq_empty, window>>

Kind  == {"load", "store", "branch"}
\* A load is issued in one cycle and looks the queue up in the next.
State == {"waiting", "issued", "done"}
InFlight == [kind : Kind, index : SQ_PTR, empty : BOOLEAN, state : State]

Init == SQInit /\ window = <<>>

Positions(kind, state) ==
  {p \in DOMAIN window : window[p].kind = kind /\ window[p].state = state}

\* (fault) Nothing executed is taken for the first store executed.
canLoadIssueEager(load) ==
  \/ sq_empty
  \/ SQDist(load.index) <= SQDist(sq_ea_ptr)
  \/ SQDist(load.index) > SQDist(sq_tail)
\* RS.v's canLoadIssue[i].
canLoadIssue(load) ==
  \/ sq_empty
  \/ /\ SQDist(load.index) <= SQDist(sq_ea_ptr)
     /\ load.empty \/ ~sq_ea_empty
  \/ SQDist(load.index) > SQDist(sq_tail)

(* What the instruction buffer offers: a branch ends the cycle and needs a  *)
(* checkpoint, and there must be slots for the stores.                       *)
StoresIn(isns) == Cardinality({k \in DOMAIN isns : isns[k] = "store"})

Offers ==
  {isns \in {<<>>} \cup {<<a>> : a \in Kind}
                   \cup {<<a, b>> : a \in Kind \ {"branch"}, b \in Kind} :
     /\ StoresIn(isns) <= sq_nAvailable
     /\ (\E k \in DOMAIN isns : isns[k] = "branch")
          => Cardinality(Positions("branch", "waiting")) < BRANCHES}

ib_store_en(isns) ==
  [k \in 1 .. 2 |-> k \in DOMAIN isns /\ isns[k] = "store"]

\* (fault) The store dispatched with the branch is left out.
CheckpointOfStart(isns) == <<sq_tail, sq_empty>>
\* BranchStack.v: the tail and the empty flag that a branch's checkpoint holds.
CheckpointOf(isns) ==
  LET en == ib_store_en(isns)
  IN  IF Len(isns) = 1 THEN <<sq_tail, sq_empty>>
      ELSE <<IF sq_empty THEN sq_tail ELSE SQWrap(sq_tail + Bit(en[1])),
             sq_empty /\ ~en[1]>>

Dispatched(isns) ==
  LET en == ib_store_en(isns)
  IN  [k \in DOMAIN isns |->
         IF isns[k] = "branch"
         THEN [kind |-> "branch", index |-> CheckpointOf(isns)[1],
               empty |-> CheckpointOf(isns)[2], state |-> "waiting"]
         ELSE [kind |-> isns[k], index |-> sq_index(en)[k],
               empty |-> sq_index_empty(en)[k], state |-> "waiting"]]

\* How many may retire now, and the stores among the first n.
Retirements ==
  {n \in 0 .. 2 : n <= Len(window) /\ \A p \in 1 .. n : window[p].state = "done"}
rob_nRetireStores(n) == Cardinality({p \in 1 .. n : window[p].kind = "store"})

(* The two memory units: the load that was issued, and stores execute.      *)
Executions ==
  {S \in SUBSET Positions("store", "waiting") :
     Cardinality(S) + Cardinality(Positions("load", "issued")) <= 2}

\* The slots that execute, with the addresses computed.
Addresses(S) == [{window[p].index : p \in S} -> ADDR]

\* At most one of the loads of L is issued.
Issues(L) == {{}} \cup {{p} : p \in {q \in L : canLoadIssue(window[q])}}

Advanced(done, issued) ==
  [p \in DOMAIN window |->
     [kind |-> window[p].kind, index |-> window[p].index, empty |-> window[p].empty,
      state |-> IF p \in done THEN "done"
                ELSE IF p \in issued THEN "issued" ELSE window[p].state]]

(* A cycle that dispatches isns; the branches in resolved turn out right.   *)
Cycle(isns, n, S, st, issued, resolved, pops) ==
  /\ SQCycle(ib_store_en(isns), st, rob_nRetireStores(n), pops)
  /\ window' = SubSeq(Advanced(S \cup Positions("load", "issued") \cup resolved, issued),
                      n + 1, Len(window)) \o Dispatched(isns)

(* A cycle in which the branch at position b was mispredicted: what follows *)
(* it in the window is squashed.                                             *)
Recover(b, n, S, st, issued, pops) ==
  /\ SQRecover(window[b].index, window[b].empty, st, rob_nRetireStores(n), pops)
  /\ window' = SubSeq(Advanced(S \cup Positions("load", "issued") \cup {b}, issued),
                      n + 1, b)

Resolved == {{}} \cup {{b} : b \in Positions("branch", "waiting")}

DispatchCycle ==
  \E n \in Retirements, isns \in Offers, S \in Executions, pops \in BOOLEAN,
     issued \in Issues(Positions("load", "waiting")), resolved \in Resolved :
    \E st \in Addresses(S) :
      /\ Len(window) - n + Len(isns) <= WINDOW
      /\ Cycle(isns, n, S, st, issued, resolved, pops)

RecoverCycle(b) ==
  \E n \in Retirements, S \in Executions, pops \in BOOLEAN :
    \E st \in Addresses(S),
       issued \in Issues({p \in Positions("load", "waiting") : p < b}) :
      Recover(b, n, S, st, issued, pops)

Next ==
  \/ DispatchCycle
  \/ \E b \in Positions("branch", "waiting") : RecoverCycle(b)

Spec == Init /\ [][Next]_vars

(* Two things lose track of stores (see MemOrderProps): the recovery of a   *)
(* branch with SQ_SIZE older stores in the queue, and SQ_SIZE - 1 retired    *)
(* stores that wait for memory.  SafeSpec has every behaviour of the code in *)
(* which neither happens.                                                    *)
Occupancy == IF sq_empty THEN 0 ELSE SQDist(sq_tail) + 1

\* How many stores in the queue are older than the window's position p.
OlderCount(p) ==
  Occupancy - Cardinality({q \in p .. Len(window) : window[q].kind = "store"})

AllOlder(b)    == OlderCount(b) = SQ_SIZE /\ sq_trueHead' = sq_trueHead
RetiredWaiting == {i \in SQ_PTR : queue[i].retired}

SafeNext ==
  /\ \/ DispatchCycle
     \/ \E b \in Positions("branch", "waiting") : RecoverCycle(b) /\ ~AllOlder(b)
  /\ Cardinality(RetiredWaiting') # SQ_SIZE - 1

SafeSpec == Init /\ [][SafeNext]_vars
=============================================================================
