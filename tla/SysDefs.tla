------------------------------ MODULE SysDefs ------------------------------
(***************************************************************************)
(* Sizes, register names and pointer arithmetic shared by every module.    *)
(* They are the macros and typedefs of sys_defs.vh, with the sizes made     *)
(* parameters: the chip has ROB_SIZE = 32, ARCH_REGS = 32, BS_SIZE = 4.      *)
(* Verilog pointers wrap because their width is log2 of the size; here the  *)
(* same wrap is written out, so that any size can be checked.               *)
(***************************************************************************)
EXTENDS Integers, FiniteSets

CONSTANTS
  ROB_SIZE,    \* entries of the reorder buffer, and of the free list
  ARCH_REGS,   \* architectural registers, the zero register included
  BS_SIZE      \* branches that may be in flight (checkpoints)

ASSUME SizeAssumption ==
  /\ ROB_SIZE \in Nat  /\ ROB_SIZE >= 3
  /\ ARCH_REGS \in Nat /\ ARCH_REGS >= 2
  /\ BS_SIZE \in 1 .. 4

ROB_PTR  == 0 .. (ROB_SIZE - 1)
FL_PTR   == 0 .. (ROB_SIZE - 1)
BS_PTR   == 0 .. (BS_SIZE - 1)
B_MASK   == SUBSET BS_PTR
ARCH_REG == 0 .. (ARCH_REGS - 1)
PHYS_REG == 0 .. (ARCH_REGS + ROB_SIZE - 1)

\* The last architectural register reads as zero and is never renamed.
ZERO_REG      == ARCH_REGS - 1
PHYS_ZERO_REG == ZERO_REG
NAMED_REG     == 0 .. (ARCH_REGS - 2)      \* map[30:0]

PHYS_WITH_READY == [register : PHYS_REG, ready : BOOLEAN]
RegisterMap     == [NAMED_REG -> PHYS_WITH_READY]

\* A broadcast sets the ready bit of every register it matches.
MarkReady(m, cdb) ==
  [r \in NAMED_REG |->
     [register |-> m[r].register,
      ready    |-> m[r].ready \/ m[r].register \in cdb]]

\* (fault) The wrap one slot late.
WrapLate(p) == IF p > ROB_SIZE THEN p - ROB_SIZE
               ELSE IF p < 0 THEN p + ROB_SIZE ELSE p

\* A ROB_PTR or FL_PTR after an addition or a subtraction of at most ROB_SIZE.
Wrap(p) == IF p >= ROB_SIZE THEN p - ROB_SIZE
           ELSE IF p < 0 THEN p + ROB_SIZE ELSE p

\* The slot counters have one bit more than the pointers (logic[5:0] for 32).
COUNT   == 0 .. (2 * ROB_SIZE - 1)
Wrap6(c) == IF c >= 2 * ROB_SIZE THEN c - 2 * ROB_SIZE
            ELSE IF c < 0 THEN c + 2 * ROB_SIZE ELSE c

\* How far slot p is past slot h on the ring.
Dist(h, p) == Wrap(p - h)

\* What the rest of the core needs to know of an instruction it dispatches.
Instruction == [dest : ARCH_REG, branch : BOOLEAN, wr_mem : BOOLEAN,
                halt : BOOLEAN, noop : BOOLEAN]
=============================================================================
