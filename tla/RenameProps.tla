----------------------------- MODULE RenameProps -----------------------------
(***************************************************************************)
(* What must be true of Rename, for the model checker and the proofs.       *)
(***************************************************************************)
EXTENDS Rename

(* Every register of the five components holds a value of its width.        *)
TypeOK ==
  /\ buffer \in [ROB_PTR -> ROBEntry]
  /\ head \in ROB_PTR /\ rob_tail \in ROB_PTR
  /\ rob_availableSlots \in COUNT
  /\ rob_halted \in BOOLEAN
  /\ free \in [FL_PTR -> PHYS_REG]
  /\ fl_head \in FL_PTR /\ fl_tail \in FL_PTR
  /\ fl_availableRegs \in COUNT
  /\ map \in RegisterMap
  /\ at_map \in [NAMED_REG -> PHYS_REG]
  /\ bs_stack \in [BS_PTR -> BSEntry]

(* The two rings move together: the free list's window starts where the    *)
(* reorder buffer's ends, and both counters tell the distance between the   *)
(* pointers.  The code keeps six registers for what one number determines;  *)
(* each of them is updated by its own adder, on dispatch, on retirement and *)
(* on recovery.                                                             *)
CountsAgree ==
  /\ fl_head = Wrap(rob_tail + 1)
  /\ head = Wrap(fl_tail + 1)
  /\ rob_availableSlots \in 0 .. ROB_SIZE
  /\ fl_availableRegs = rob_availableSlots
  /\ rob_tail = Wrap(head + Occupancy - 1)

\* The registers that hold committed values, that in-flight instructions
\* will write, and that may be handed out.
Committed == {at_map[r] : r \in NAMED_REG}
InFlight  == {buffer[i].tag : i \in Occupied}
Available == {free[i] : i \in FreeSlots}

(* No physical register is lost and none has two owners: committed,        *)
(* in-flight and available registers, with the zero register, are all       *)
(* there is, each exactly once.                                             *)
RegistersPartitioned ==
  /\ Committed \cup InFlight \cup Available \cup {PHYS_ZERO_REG} = PHYS_REG
  /\ Cardinality(Committed) = ARCH_REGS - 1
  /\ Cardinality(InFlight) + Cardinality(Available) = ROB_SIZE

\* The architectural map once the k oldest instructions have retired.
Replay ==
  LET m[k \in 0 .. Occupancy] ==
        IF k = 0 THEN at_map ELSE Substitute(m[k - 1], buffer[RetireSlot(k)])
  IN  m

Names(m) == [r \in NAMED_REG |-> m[r].register]

\* The age of a checkpoint's branch: how many instructions are older.
Age(b) == Dist(head, bs_stack[b].rob_tail)

(* Precise state: retiring everything in flight would bring the            *)
(* architectural map to the speculative one, and retiring it up to a branch *)
(* would bring it to the map saved for that branch, whatever has retired,   *)
(* completed or been squashed since the branch was dispatched.              *)
PreciseState ==
  /\ Names(map) = Replay[Occupancy]
  /\ \A b \in bs_bmask :
       /\ Age(b) < Occupancy
       /\ Names(bs_stack[b].map) = Replay[Age(b) + 1]

(* A ready bit is set exactly when the instruction that writes the register *)
(* has completed, in the map and in every checkpoint: a broadcast that      *)
(* misses a checkpoint would leave a restored source waiting for ever, and   *)
(* one that comes too early would feed a consumer a stale value.            *)
Pending == {buffer[i].tag : i \in {j \in Occupied : ~buffer[j].complete}}

ReadyBitsExact ==
  \A m \in {map} \cup {bs_stack[b].map : b \in bs_bmask} :
    \A r \in NAMED_REG : m[r].ready <=> m[r].register \notin Pending

(* A checkpoint belongs to a branch that is still in the reorder buffer     *)
(* (ROB.v:61 relies on it) and points just behind it in both rings; bmask   *)
(* orders the branches by age, without gaps, through slots that are reused  *)
(* in any order.                                                            *)
CheckpointsOrdered ==
  \A b \in bs_bmask :
    /\ bs_stack[b].rob_tail \in Occupied
    /\ bs_stack[b].fl_head = Wrap(bs_stack[b].rob_tail + 1)
    /\ bs_stack[b].bmask = {c \in bs_bmask : Age(c) < Age(b)}

(* bmask alone is a strict total order of the branches in flight: of two    *)
(* branches exactly one was dispatched behind the other, and a mask never   *)
(* names a slot that has been freed, and maybe taken by a younger branch.   *)
BranchOrder ==
  \A b \in bs_bmask :
    /\ b \notin bs_stack[b].bmask
    /\ bs_stack[b].bmask \subseteq bs_bmask
    /\ \A c \in bs_bmask \ {b} :
         c \in bs_stack[b].bmask <=> b \notin bs_stack[c].bmask
    /\ \A c \in bs_stack[b].bmask : bs_stack[c].bmask \subseteq bs_stack[b].bmask

(* A misprediction squashes exactly the instructions and the checkpoints    *)
(* younger than the branch, while the oldest may retire in the same cycle.  *)
SquashesTheYounger ==
  [][\A b \in BS_PTR : WrongCycle(b) =>
       /\ Occupied' = {i \in Occupied : Dist(head, i) \in rob_nRetired .. Age(b)}
       /\ bs_bmask' = {c \in bs_bmask : Age(c) < Age(b)}]_vars

(* FreeList.v:53: "if tail is right before head, the free list must be      *)
(* empty because there is at least one instruction in the ROB, meaning that *)
(* the free list cannot be full after rollback".                            *)
FreeListNotFullAfterRollback ==
  [][(\E b \in BS_PTR : WrongCycle(b)) => fl_availableRegs' < ROB_SIZE]_vars

(* Renaming implements the in-order window: the rings, their counters and   *)
(* the checkpoints are an implementation of a sequence and two maps.        *)
Window ==
  [k \in 1 .. Occupancy |->
     [tag      |-> buffer[RetireSlot(k)].tag,
      tagOld   |-> buffer[RetireSlot(k)].tagOld,
      complete |-> buffer[RetireSlot(k)].complete]]

Abstract ==
  INSTANCE InOrder WITH
    Named <- NAMED_REG, Registers <- PHYS_REG, Zero <- PHYS_ZERO_REG,
    Capacity <- ROB_SIZE, Width <- 2,
    window <- Window, arch <- at_map, spec <- Names(map)

ImplementsInOrder == Abstract!AbstractSpec

(* Fairness: the clock runs, so a complete oldest instruction retires; an  *)
(* incomplete one, which waits for nobody, is executed and broadcast; and   *)
(* if it is a branch, it resolves.                                          *)
HeadLeaves == rob_nRetired > 0 /\ SafeNext

HeadCompletes ==
  /\ rob_nRetired = 0 /\ Occupancy > 0
  /\ \/ \E isns \in Offers, rs \in RSFree,
           cdb \in {c \in Broadcasts(Waiting({})) : buffer[head].tag \in c} :
           Dispatch(isns, rs, cdb)
     \/ \E b \in bs_bmask : \E isns \in Offers, rs \in RSFree,
           cdb \in {c \in Broadcasts(Waiting({b})) : buffer[head].tag \in c} :
           Correct(b, isns, rs, cdb)
     \/ \E b \in bs_bmask :
           \E cdb \in {c \in Broadcasts(Surviving(b)) : buffer[head].tag \in c} :
             ~Miscounted(b) /\ Wrong(b, cdb)

HeadResolves ==
  \E b \in bs_bmask :
    Age(b) = 0 /\ (CorrectCycle(b) \/ (~Miscounted(b) /\ WrongCycle(b)))

FairSpec ==
  /\ SafeSpec
  /\ WF_vars(HeadLeaves)
  /\ WF_vars(HeadCompletes)
  /\ WF_vars(HeadResolves)

(* Every instruction that becomes the oldest retires: no counter, pointer   *)
(* or checkpoint state wedges the ring.                                     *)
HeadRetires ==
  \A i \in ROB_PTR : (head = i /\ Occupancy > 0) ~> head # i

(* A machine that is not halted never runs out of registers or of entries   *)
(* for good.                                                                *)
RoomComesBack == []<>(rob_availableSlots > 0 /\ fl_availableRegs > 0)
=============================================================================
