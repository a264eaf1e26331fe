------------------------------- MODULE Memory --------------------------------
(***************************************************************************)
(* The cache controller with what asks it: fetch and prefetch, the loads of   *)
(* the memory unit, the retired store at the head of the store queue, and the *)
(* branches whose outcome squashes loads that wait.                            *)
(*                                                                          *)
(* window is the loads and stores not finished and the branches not resolved, *)
(* oldest first.  A load leaves it with its data, a store when it retires.  An *)
(* instruction enters it in the cycle that fetches it, or not at all: how long *)
(* it would wait in the buffer or for its operands is the same here.            *)
(* Operands, outcomes and latencies are the environment's choice.              *)
(***************************************************************************)
EXTENDS CacheCtrl, Subsequence

CONSTANTS
  LOADED, STORED, FETCHED,  \* the lines of loads, of stores and of the program
  WINDOW                    \* bound: entries of window

\* No program writes the lines it is fetched from: the icache never hears of it.
ASSUME LinesAssumption ==
  /\ LOADED \cup STORED \cup FETCHED = LINE /\ STORED \cap FETCHED = {}
  /\ FETCHED # {} /\ WINDOW \in Nat

VARIABLES
  window,
  st,        \* the retired store that asks for memory, or None
  pc         \* if_requested_addr

vars == <<mem_vars, cc_vars, window, st, pc>>

Init ==
  /\ MemInit /\ CCInit
  /\ window = <<>> /\ st = None
  /\ pc \in FETCHED

Positions(kind)  == {p \in DOMAIN window : window[p].kind = kind}
Waiting          == {p \in Positions("load") : ~window[p].sent}
OlderBranches(p) == {window[q].id : q \in {r \in Positions("branch") : r < p}}

\* The store queue answers the load: the cache is not asked.
Forwarded(p) ==
  \/ st.valid /\ st.addr = window[p].addr
  \/ \E q \in Positions("store") : q < p /\ window[q].addr = window[p].addr

\* The load issued at p (0: none) as the controller sees it.
LoadAt(p) ==
  IF p \notin Waiting \/ Forwarded(p) THEN None
  ELSE [valid |-> TRUE, addr |-> window[p].addr, dest |-> window[p].id,
        bmask |-> OlderBranches(p)]

\* The loads that have their data at the end of the cycle.
Served(p) ==
  {q \in {p} \ {0} : ~ldMiss(LoadAt(q))}
  \cup {q \in Positions("load") \ Waiting :
          LoadAnswer /\ window[q].id = statuses[mem2proc_tag].destTag}

(* The window's first n entries without those in gone; the load at p is out.  *)
Remaining(n, gone, p) ==
  LET kept == (1 .. n) \ gone
  IN  [k \in 1 .. Cardinality(kept) |->
         IF Nth(kept, k) = p THEN [window[p] EXCEPT !.sent = TRUE]
                             ELSE window[Nth(kept, k)]]

\* What may be dispatched: with the first free destination or checkpoint.
FreeId(kind, ids) ==
  LET free == ids \ {window[p].id : p \in Positions(kind)}
  IN  IF free = {} THEN {} ELSE {Min(free)}
Dispatches ==
  [kind : {"load"}, addr : LOADED, id : FreeId("load", DEST), sent : {FALSE}]
  \cup [kind : {"store"}, addr : STORED]
  \cup [kind : {"branch"}, id : FreeId("branch", BRANCH)]

\* A store may retire once nothing is before it and none waits for memory.
Retirements ==
  {0} \cup {p \in Positions("store") : p = 1 /\ ~st.valid}

\* The line of the store at the queue's head; without one that asks, its slot
\* holds any address.  It is read only when a load's answer comes.
HeadLines ==
  IF st.valid THEN {Idx(st.addr)}
  ELSE IF mem2proc_tag = 0 \/ ~statuses[mem2proc_tag].is_load THEN {0} ELSE DOMAIN dcache

(* What every cycle does, with the load at p, the store at r retiring, and    *)
(* pf prefetched.                                                              *)
Common(p, r, pf, wrong, right) ==
  /\ st' = IF r # 0 THEN [valid |-> TRUE, addr |-> window[r].addr,
                          data |-> 1 - unified_memory[window[r].addr]]
           ELSE IF Sent(LoadAt(p), st) THEN None ELSE st
  /\ \E st_idx \in HeadLines :
       CCCycle(LoadAt(p), st, pc, pf, wrong, right, st_idx)

Issued == {0} \cup Waiting

\* The prefetches that make a difference.
Prefetches(p) == {NoLine} \cup {a \in FETCHED : pfRequest(LoadAt(p), st, pc, a)}

(* A cycle without a misprediction: the branch at b (0: none) was right.      *)
Cycle(b) ==
  \E p \in Issued, r \in Retirements,
     isns \in {<<>>} \cup {<<i>> : i \in Dispatches} :
    /\ isns # <<>> => icache_valid(pc)
    /\ window' = Remaining(Len(window), (Served(p) \cup {b, r}), p) \o isns
    /\ Len(window') <= WINDOW
    /\ \E pf \in Prefetches(p) :
         Common(p, r, pf, {}, {window[q].id : q \in {b} \ {0}})
    /\ pc' \in IF icache_valid(pc) THEN FETCHED ELSE {pc}

(* The branch at b was mispredicted: what is younger is squashed and fetching *)
(* goes on elsewhere.                                                          *)
Recover(b) ==
  \E p \in Issued, r \in Retirements :
    /\ \E pf \in Prefetches(p) : Common(p, r, pf, {window[b].id}, {})
    /\ window' = Remaining(b - 1, (Served(p) \cup {r}), p)
    /\ pc' \in FETCHED

Next ==
  \/ \E b \in {0} \cup Positions("branch") : Cycle(b)
  \/ \E b \in Positions("branch") : Recover(b)

Spec == Init /\ [][Next]_vars

(* A register above RESOLVED does not hear of a branch.  SafeSpec has the     *)
(* behaviours in which none of them holds a load behind the branch resolved.  *)
Hears(b) ==
  \A t \in MEM_TAG :
    t > RESOLVED /\ statuses'[t].valid => window[b].id \notin statuses'[t].bmask

SafeNext ==
  \/ Cycle(0)
  \/ \E b \in Positions("branch") : Cycle(b) /\ Hears(b)
  \/ \E b \in Positions("branch") : Recover(b) /\ Hears(b)

SafeSpec     == Init /\ [][SafeNext]_vars
FairSafeSpec == SafeSpec /\ WF_vars(SafeNext)
=============================================================================
