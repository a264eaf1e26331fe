-------------------------------- MODULE Fetch --------------------------------
(***************************************************************************)
(* Fetching with what answers it: dispatch takes instructions out of the       *)
(* buffer, the branch unit (FU/branch_fu.v) executes branches in any order and *)
(* tells of each one cycle later, retirement is in order.                      *)
(*                                                                          *)
(* flight is what is dispatched and not retired, oldest first.  npc is where   *)
(* the program really goes after an instruction, known once it is executed.    *)
(* The caches, the operands and the latencies are the environment's choice.    *)
(***************************************************************************)
EXTENDS IfStage

CONSTANTS
  BRANCHES,    \* checkpoints
  WINDOW       \* bound: length of flight

ASSUME FlightAssumption == BRANCHES \in Nat \ {0} /\ WINDOW \in Nat

VARIABLES
  br,          \* the branch unit's registers
  flight,
  arch_NPC     \* where the program goes on after what has retired

vars == <<if_vars, br, flight, arch_NPC>>

Unresolved == -1
Silent == [branch_resolved |-> FALSE, pred_wrong |-> FALSE, pred_dir_wrong |-> FALSE,
           taken_NPC_wrong |-> FALSE, pred_taken |-> FALSE,
           not_taken_NPC |-> 0, recov_NPC |-> 0]

Init ==
  /\ IfInit
  /\ br = Silent /\ flight = <<>> /\ arch_NPC = 0

\* waiting, executed (br tells of it in this cycle), done.
Positions(state) == {p \in DOMAIN flight : flight[p].state = state}
Told == Positions("executed")

\* Nothing younger than a mispredicted branch is executed.
Kept       == IF br.pred_wrong THEN Min(Told) ELSE Len(flight)
Executable == {p \in Positions("waiting") : p <= Kept}

\* Where a branch may go: a conditional one to its target or on.
Outcomes(e) ==
  CODE[e.addr].targets \cup (IF KindAt(e.addr) = "cond" THEN {e.addr + 1} ELSE {})

BranchUnit(e, npc) ==
  LET take == e.branch /\ npc \in CODE[e.addr].targets
      recov == IF take THEN npc ELSE e.not_taken_NPC
      npc_wrong == take /\ recov # e.pred_NPC
      dir_wrong == e.pred_taken # take
  IN  [branch_resolved |-> TRUE, pred_wrong |-> dir_wrong \/ npc_wrong,
       pred_dir_wrong |-> dir_wrong, taken_NPC_wrong |-> npc_wrong,
       pred_taken |-> e.pred_taken, not_taken_NPC |-> e.not_taken_NPC,
       recov_NPC |-> recov]

(* Dispatch; a checkpoint is free again in the cycle after br tells.          *)
bs_full == Cardinality(Positions("waiting") \cup Told) >= BRANCHES
Dispatched(d) ==
  [k \in 1 .. d |->
     LET e == ib_data(d)[k]
     IN  [addr |-> e.addr, entry |-> e,
          state |-> IF IsBranch(e.addr) THEN "waiting" ELSE "done",
          npc |-> IF IsBranch(e.addr) THEN Unresolved ELSE e.addr + 1]]

\* flight at the end of the cycle, with the branch at x (0: none) executed.
Advanced(x, npc) ==
  [p \in 1 .. Kept |->
     IF p = x THEN [flight[p] EXCEPT !.state = "executed", !.npc = npc]
     ELSE IF p \in Told THEN [flight[p] EXCEPT !.state = "done"] ELSE flight[p]]

(* A cycle: n instructions in the cache, d dispatched, the branch at x goes to *)
(* npc, and the oldest instruction retires or not.                             *)
Cycle(n, d, x, npc, retires) ==
  /\ IfCycle(n, d, br)
  /\ br' = IF x = 0 THEN Silent ELSE BranchUnit(flight[x].entry, npc)
  /\ LET stays == Advanced(x, npc) \o Dispatched(d)
     IN  /\ flight' = IF retires THEN Tail(stays) ELSE stays
         /\ Len(flight') <= WINDOW
  /\ arch_NPC' = IF retires THEN flight[1].npc ELSE arch_NPC

\* What dispatch may take; none in the cycle of a misprediction.
Dispatches ==
  IF br.pred_wrong THEN {0}
  ELSE {d \in 0 .. 2 : \E sq \in 0 .. 2 : d <= ib_nIsnBuffer(bs_full, sq)}
Retirable == 1 \in Positions("done")

Move(n, d, x, retires) ==
  IF x = 0 THEN Cycle(n, d, 0, Unresolved, retires)
  ELSE \E npc \in Outcomes(flight[x]) : Cycle(n, d, x, npc, retires)

Executions  == {0} \cup Executable
Retirements == {FALSE} \cup {Retirable}

Next ==
  \E n \in 0 .. 2, d \in Dispatches, x \in Executions, retires \in Retirements :
    Move(n, d, x, retires)

Spec == Init /\ [][Next]_vars

(* A zero in the first slot makes the stage note nothing of a branch or store *)
(* in the second one.  SafeSpec has the behaviours in which that does not      *)
(* happen: such a pair comes from the cache one by one.                        *)
Misnoted(n) ==
  /\ ~br.pred_wrong /\ ~halt_fetched /\ Two(n) /\ KindAt(PC_reg) = "zero"
  /\ IsBranch(PC_reg + 1) \/ IsStore(PC_reg + 1)

Deliveries == {n \in 0 .. 2 : ~Misnoted(n)}

SafeNext ==
  \E n \in Deliveries, d \in Dispatches, x \in Executions, retires \in Retirements :
    Move(n, d, x, retires)

SafeSpec == Init /\ [][SafeNext]_vars

(* The cache gives what is fetched again and again (FetchServed in             *)
(* MemoryProps), and dispatch, the branch unit and retirement do not wait for   *)
(* ever for what they can take.                                                *)
Delivering ==
  \E n \in Deliveries \ {0}, d \in Dispatches, x \in Executions, retires \in Retirements :
    Move(n, d, x, retires)
Dispatching ==
  \E n \in Deliveries, d \in Dispatches \ {0}, x \in Executions, retires \in Retirements :
    Move(n, d, x, retires)
Executing ==
  \E n \in Deliveries, d \in Dispatches, x \in Executable, retires \in Retirements :
    Move(n, d, x, retires)
Retiring ==
  Retirable /\ \E n \in Deliveries, d \in Dispatches, x \in Executions :
    Move(n, d, x, TRUE)

FairSafeSpec ==
  /\ SafeSpec
  /\ WF_vars(Delivering) /\ WF_vars(Dispatching)
  /\ WF_vars(Executing) /\ WF_vars(Retiring)
=============================================================================
