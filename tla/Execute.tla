------------------------------- MODULE Execute -------------------------------
(***************************************************************************)
(* Out-of-order execution: the reservation stations, units of one cycle with   *)
(* their result buffers, and the common data bus that wakes the stations.       *)
(*                                                                          *)
(* window is the instructions between dispatch and retirement, oldest first,   *)
(* each done once it has been broadcast (ROB.v).  At most one branch is         *)
(* unresolved: checkpoint is how many of the window are older, or NoCheckpoint. *)
(* When a load may pass the stores, and outcomes, are the environment's choice. *)
(***************************************************************************)
EXTENDS RS, FUBi, CDB, Subsequence

CONSTANT WINDOW    \* bound: length of window

ASSUME ExecuteAssumption ==
  /\ WINDOW \in Nat
  /\ FUB = UNION {UnitsOf[k] : k \in DOMAIN UnitsOf}
  /\ TAG \cup {PHYS_ZERO_REG} \subseteq Nat
  /\ BRANCH # {} /\ DOMAIN UnitsOf = {"LDST", "ALU"}

VARIABLES fub, window, checkpoint

vars == <<rs_vars, fub, window, checkpoint>>

NoCheckpoint == -1
bs_bmask == IF checkpoint = NoCheckpoint THEN {} ELSE BRANCH

Init ==
  /\ RSInit
  /\ fub = [u \in FUB |-> Pair(NoResult, NoResult)]
  /\ window = <<>> /\ checkpoint = NoCheckpoint

Live == {window[p].tag : p \in DOMAIN window}

(* What a unit computes in this cycle.  alu_fu.v drops a result that is        *)
(* mispredicted, dmemFU.v does not (see ResultPath).                            *)
Computing(u) == {k \in DOMAIN rs_issue : rs_issue[k].unit = u}
fu_result(u) ==
  IF Computing(u) = {} THEN NoResult
  ELSE LET e == rs_issue[Min(Computing(u))].entry
       IN  [valid |-> TRUE, tag |-> e.tag, bmask |-> e.bmask]
fu_done(u, killed) ==
  IF Hit(fu_result(u), killed) /\ u \notin UnitsOf["LDST"] THEN NoResult ELSE fu_result(u)

(* The bus in this cycle.                                                      *)
Offered       == {u \in FUB : fub[u][1].valid}
Gone(killed)  == {u \in Offered : Hit(fub[u][1], killed)}
Stalled(u, killed) == cdb_stall(u, Offered, Gone(killed))
Broadcast(killed) == {fub[u][1].tag : u \in cdb_granted(Offered, Gone(killed))}
Busy(killed) ==
  {u \in FUB : fub_busy(fub[u], fu_done(u, killed), Stalled(u, killed), killed)}

(* Dispatch.  An operand is ready, or it is of an instruction that has not been *)
(* broadcast before this cycle, as far as the map table knows.  An address has  *)
(* one operand; the two of another instruction are named in either order.       *)
NoOperand  == [register |-> PHYS_ZERO_REG, ready |-> TRUE]
Awaited(t) == [register |-> t, ready |-> FALSE]
Operands ==
  {NoOperand} \cup {Awaited(window[p].tag) :
                      p \in {q \in DOMAIN window : ~window[q].done}}
Noop == [fuType |-> "none", rd_mem |-> FALSE, tag |-> PHYS_ZERO_REG,
         tagA |-> NoOperand, tagB |-> NoOperand, allocates |-> FALSE]
Instruction(k, t, a, b) ==
  [fuType |-> k, rd_mem |-> k = "LDST", tag |-> t, tagA |-> a, tagB |-> b,
   allocates |-> TRUE]
Instructions(tags, operands) ==
  {Instruction("LDST", t, NoOperand, b) : t \in tags, b \in operands}
  \cup {Instruction("ALU", t, o[1], o[2]) :
          t \in tags, o \in {q \in operands \X operands : q[1].register <= q[2].register}}

\* A halt is a noop that names a register.
Idle == {[Noop EXCEPT !.tagA = a] : a \in Operands}

\* Registers are given out in order; one that a station still names is in use.
Named == UNION {{entries[i].tagA, entries[i].tagB} : i \in RS_PTR \ Free}
First(tags) == IF tags = {} THEN {} ELSE {Min(tags)}
Singles == Idle \cup Instructions(First(TAG \ (Live \cup Named)), Operands)
Seconds(i) ==
  LET more == IF i.allocates THEN {Awaited(i.tag)} ELSE {}
  IN  {Noop} \cup Instructions(First(TAG \ (Live \cup Named \cup {i.tag})), Operands \cup more)
Dispatches ==
  {<<>>} \cup (IF rs_availableSlots >= 1 THEN {<<i>> : i \in Singles} ELSE {})
  \cup (IF rs_availableSlots >= 2
          THEN UNION {{<<i, j>> : j \in Seconds(i)} : i \in Singles} ELSE {})
Entering(isns) ==
  Picked([k \in DOMAIN isns |-> [tag |-> isns[k].tag, done |-> FALSE]],
         {k \in DOMAIN isns : isns[k].tag # PHYS_ZERO_REG})

(* A cycle: isns is dispatched, r instructions retire, and the branch resolves *)
(* (killed or cleared) or not.                                                 *)
Cycle(isns, r, canLoad, killed, cleared) ==
  LET cdb  == Broadcast(killed)
      size == IF killed # {} THEN checkpoint ELSE Len(window)
      told == [p \in 1 .. size |->
                 [window[p] EXCEPT !.done = @ \/ window[p].tag \in cdb]]
  IN  /\ window' = SubSeq(told, r + 1, size) \o Entering(isns)
      /\ Len(window') <= WINDOW
      /\ RSCycle(isns, bs_bmask \ cleared, cdb, Busy(killed), canLoad, killed, cleared)
      /\ fub' = [u \in FUB |->
                   next_buffer(fub[u], fu_done(u, killed), Stalled(u, killed),
                               killed, cleared)]

\* The oldest may retire when it is done and no unresolved branch is older.
Retirements == {0} \cup {r \in 1 .. Len(window) :
                           r = 1 /\ window[1].done /\ checkpoint # 0}
Loads       == {i \in RS_PTR : entries[i].valid /\ entries[i].rd_mem}

\* A branch dispatched last takes the checkpoint.
DispatchCycle(isns, canLoad) ==
  \E r \in Retirements :
    \/ /\ Cycle(isns, r, canLoad, {}, {})
       /\ checkpoint' \in
            IF checkpoint # NoCheckpoint THEN {checkpoint - r}
            ELSE {NoCheckpoint} \cup (IF Len(isns) = 1 THEN {Len(window')} ELSE {})
    \/ /\ checkpoint # NoCheckpoint
       /\ Cycle(isns, r, canLoad, {}, BRANCH)
       /\ checkpoint' = NoCheckpoint

RecoverCycle(canLoad) ==
  /\ checkpoint # NoCheckpoint
  /\ \E r \in Retirements : Cycle(<<>>, r, canLoad, BRANCH, {})
  /\ checkpoint' = NoCheckpoint

Next ==
  \E canLoad \in SUBSET Loads :
    \/ \E isns \in Dispatches : DispatchCycle(isns, canLoad)
    \/ RecoverCycle(canLoad)

Spec == Init /\ [][Next]_vars

(* Three things go wrong in the stations and units: a noop or a halt leaves no *)
(* slot for the second instruction (RS.v:286), or wakes the occupant of the     *)
(* last slot (RS.v:305), and the memory unit keeps what is mispredicted while   *)
(* it is computed (dmemFU.v:86).  SafeSpec has the behaviours without them.     *)
SecondFits(isns) == Len(isns) = 2 /\ isns[2].allocates => SecondSlots(isns) # {}
WakesNobody(isns) ==
  \A k \in DOMAIN isns :
    isns[k].allocates \/ isns[k].tagA.register \notin Broadcast({})
KeepsNothing == \A u \in UnitsOf["LDST"] : ~Hit(fu_result(u), BRANCH)

SafeNext ==
  \E canLoad \in SUBSET Loads :
    \/ \E isns \in {i \in Dispatches : SecondFits(i) /\ WakesNobody(i)} :
         DispatchCycle(isns, canLoad)
    \/ KeepsNothing /\ RecoverCycle(canLoad)
SafeSpec == Init /\ [][SafeNext]_vars
=============================================================================
