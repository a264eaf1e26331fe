---------------------------- MODULE RenameProofs ----------------------------
(***************************************************************************)
(* Theorems about Rename, for every size of the core and every program:    *)
(* types and order, the ring, exact ready bits, precise state, and that     *)
(* renaming implements the in-order window.                                 *)
(***************************************************************************)
EXTENDS RenameProps, FiniteSetTheorems, SequenceTheorems, WellFoundedInduction,
        NaturalsInduction, TLAPS

(* Pointer and counter arithmetic stays within its width.                  *)
LEMMA WrapType ==
  ASSUME NEW p \in Int, p >= 0 - ROB_SIZE, p < 2 * ROB_SIZE
  PROVE  Wrap(p) \in ROB_PTR
BY SizeAssumption DEF Wrap, ROB_PTR

LEMMA Wrap6Type ==
  ASSUME NEW c \in Int, c >= 0 - 2 * ROB_SIZE, c < 4 * ROB_SIZE
  PROVE  Wrap6(c) \in COUNT
BY SizeAssumption DEF Wrap6, COUNT

LEMMA NRetiredType == rob_nRetired \in 0 .. 2
BY DEF rob_nRetired

LEMMA LeastOfFive ==
  ASSUME NEW a \in Nat, NEW b \in Nat, NEW c \in Nat, NEW d \in Nat, NEW e \in Nat
  PROVE  /\ Least({a, b, c, d, e}) \in {a, b, c, d, e}
         /\ Least({a, b, c, d, e}) <= a
         /\ Least({a, b, c, d, e}) <= d
         /\ Least({a, b, c, d, e}) <= e
<1> DEFINE S == {a, b, c, d, e}
<1>1. \E x \in S : \A y \in S : x <= y
  OBVIOUS
<1>2. Least(S) \in S /\ \A y \in S : Least(S) <= y
  BY <1>1 DEF Least
<1> QED BY <1>2

(* What the instruction buffer offers is at most two instructions.         *)
LEMMA OffersType ==
  ASSUME NEW isns \in Offers
  PROVE  /\ isns \in Seq(Instruction)
         /\ Len(isns) \in 0 .. 2
         /\ \A i \in 1 .. Len(isns) : isns[i] \in Dispatchable
<1>1. Dispatchable \subseteq Instruction
  BY EnvironmentAssumption DEF Dispatchable
<1>2. CASE isns = <<>>
  BY <1>2
<1>3. CASE \E a \in Dispatchable : isns = <<a>>
  BY <1>1, <1>3
<1>4. CASE \E a \in Dispatchable, b \in Dispatchable : isns = <<a, b>>
  BY <1>1, <1>4
<1> QED BY <1>2, <1>3, <1>4 DEF Offers

(* The hazard unit never dispatches more than is offered, nor more than    *)
(* there are registers for.                                                *)
LEMMA DispatchedType ==
  ASSUME TypeOK, NEW isns \in Offers, NEW rs \in RSFree
  PROVE  /\ haz_nDispatched(isns, rs) \in 0 .. 2
         /\ haz_nDispatched(isns, rs) <= Len(isns)
         /\ haz_nDispatched(isns, rs) <= fl_availableRegs
<1> DEFINE room == rob_availableSlots + rob_nRetired
<1>1. room \in Nat /\ fl_availableRegs \in Nat
  BY NRetiredType, SizeAssumption DEF TypeOK, COUNT
<1>2. rs \in Nat /\ Len(isns) \in Nat
  BY OffersType, EnvironmentAssumption
<1>3. Least({2, room, rs, fl_availableRegs, Len(isns)})
        \in {2, room, rs, fl_availableRegs, Len(isns)}
  BY <1>1, <1>2, LeastOfFive
<1>4. /\ Least({2, room, rs, fl_availableRegs, Len(isns)}) <= 2
      /\ Least({2, room, rs, fl_availableRegs, Len(isns)}) <= Len(isns)
      /\ Least({2, room, rs, fl_availableRegs, Len(isns)}) <= fl_availableRegs
  BY <1>1, <1>2, LeastOfFive
<1> QED BY <1>1, <1>2, <1>3, <1>4 DEF haz_nDispatched

LEMMA RetiredType ==
  ASSUME TypeOK
  PROVE  /\ Retired[1] \in ROBEntry /\ Retired[2] \in ROBEntry
         /\ nextHead \in ROB_PTR
         /\ nextHalted \in BOOLEAN
<1>1. RetireSlot(1) \in ROB_PTR /\ RetireSlot(2) \in ROB_PTR
  BY WrapType, SizeAssumption DEF TypeOK, RetireSlot, ROB_PTR
<1>2. nextHead \in ROB_PTR
  BY WrapType, NRetiredType, SizeAssumption DEF TypeOK, nextHead, ROB_PTR
<1>3. nextHalted \in BOOLEAN
  BY DEF nextHalted, TypeOK
<1> QED BY <1>1, <1>2, <1>3 DEF TypeOK, Retired

(* The maps stay maps of physical registers.                               *)
LEMMA MarkReadyType ==
  ASSUME NEW m \in RegisterMap, NEW cdb
  PROVE  MarkReady(m, cdb) \in RegisterMap
BY DEF MarkReady, RegisterMap, PHYS_WITH_READY

LEMMA FreeRegsType ==
  ASSUME TypeOK
  PROVE  fl_freeRegs[1] \in PHYS_REG /\ fl_freeRegs[2] \in PHYS_REG
<1>1. fl_head \in FL_PTR /\ Wrap(fl_head + 1) \in FL_PTR
  BY WrapType, SizeAssumption DEF TypeOK, FL_PTR, ROB_PTR
<1> QED BY <1>1 DEF TypeOK, fl_freeRegs

LEMMA NextMapType ==
  ASSUME NEW m \in RegisterMap, NEW n \in 0 .. 2, NEW isns, NEW cdb,
         NEW tags, n >= 1 => tags[1] \in PHYS_REG, n = 2 => tags[2] \in PHYS_REG
  PROVE  mt_nextMap(m, n, isns, tags, cdb) \in RegisterMap
<1> SUFFICES ASSUME NEW r \in NAMED_REG
             PROVE  mt_nextMap(m, n, isns, tags, cdb)[r] \in PHYS_WITH_READY
  BY DEF mt_nextMap, RegisterMap
<1>1. CASE Writer(r, n, isns) = 0
  BY <1>1, MarkReadyType DEF mt_nextMap, RegisterMap
<1>2. CASE Writer(r, n, isns) # 0
  <2>1. tags[Writer(r, n, isns)] \in PHYS_REG
    BY <1>2 DEF Writer
  <2> QED BY <1>2, <2>1 DEF mt_nextMap, PHYS_WITH_READY
<1> QED BY <1>1, <1>2

LEMMA TagOldType ==
  ASSUME TypeOK, NEW isns \in Offers
  PROVE  \A i \in 1 .. Len(isns) :
           mt_dispatchTagOld(isns, fl_freeRegs)[i] \in PHYS_REG
<1> SUFFICES ASSUME NEW i \in 1 .. Len(isns)
             PROVE  mt_dispatchTagOld(isns, fl_freeRegs)[i] \in PHYS_REG
  OBVIOUS
<1>1. isns[i].dest \in ARCH_REG
  <2>1. isns[i] \in Instruction
    BY OffersType
  <2> QED BY <2>1 DEF Instruction
<1>2. Lookup(isns[i].dest) \in PHYS_REG
  <2>1. isns[i].dest = ZERO_REG \/ isns[i].dest \in NAMED_REG
    BY <1>1, SizeAssumption DEF ZERO_REG, ARCH_REG, NAMED_REG
  <2>2. \A r \in NAMED_REG : map[r].register \in PHYS_REG
    BY DEF TypeOK, RegisterMap, PHYS_WITH_READY
  <2>3. PHYS_ZERO_REG \in PHYS_REG
    BY SizeAssumption DEF PHYS_ZERO_REG, ZERO_REG, PHYS_REG
  <2> QED BY <2>1, <2>2, <2>3 DEF Lookup
<1> QED BY <1>2, FreeRegsType DEF mt_dispatchTagOld

LEMMA SubstituteType ==
  ASSUME NEW m \in [NAMED_REG -> PHYS_REG], NEW e \in ROBEntry
  PROVE  Substitute(m, e) \in [NAMED_REG -> PHYS_REG]
BY DEF Substitute, ROBEntry

(* Each component's clock edge keeps its registers typed.                  *)
LEMMA ArchTableType ==
  ASSUME TypeOK, ATCycle(Retired, rob_nRetired)
  PROVE  at_map' \in [NAMED_REG -> PHYS_REG]
<1>1. Substitute(at_map, Retired[1]) \in [NAMED_REG -> PHYS_REG]
  BY SubstituteType, RetiredType DEF TypeOK
<1>2. Substitute(Substitute(at_map, Retired[1]), Retired[2])
        \in [NAMED_REG -> PHYS_REG]
  BY <1>1, SubstituteType, RetiredType
<1> QED BY <1>1, <1>2 DEF ATCycle, TypeOK

LEMMA NextFreeType ==
  ASSUME TypeOK
  PROVE  /\ nextFree(Retired, rob_nRetired) \in [FL_PTR -> PHYS_REG]
         /\ nextFlTail(rob_nRetired) \in FL_PTR
<1>1. freed_reg(Retired[1]) \in PHYS_REG /\ freed_reg(Retired[2]) \in PHYS_REG
  BY RetiredType DEF freed_reg, ROBEntry
<1>2. nextFlTail(rob_nRetired) \in FL_PTR
  BY WrapType, NRetiredType, SizeAssumption DEF TypeOK, nextFlTail, FL_PTR, ROB_PTR
<1> QED BY <1>1, <1>2 DEF nextFree, TypeOK

LEMMA FreeListType ==
  ASSUME TypeOK, NEW n \in 0 .. 2, FLCycle(n, Retired, rob_nRetired)
  PROVE  /\ free' \in [FL_PTR -> PHYS_REG] /\ fl_tail' \in FL_PTR
         /\ fl_head' \in FL_PTR /\ fl_availableRegs' \in COUNT
<1>1. Wrap(fl_head + n) \in FL_PTR
  BY WrapType, SizeAssumption DEF TypeOK, FL_PTR, ROB_PTR
<1>2. Wrap6(fl_availableRegs + rob_nRetired - n) \in COUNT
  BY Wrap6Type, NRetiredType, SizeAssumption DEF TypeOK, COUNT
<1> QED BY <1>1, <1>2, NextFreeType DEF FLCycle

LEMMA FreeListRecoverType ==
  ASSUME TypeOK, NEW h \in FL_PTR, FLRecover(h, Retired, rob_nRetired)
  PROVE  /\ free' \in [FL_PTR -> PHYS_REG] /\ fl_tail' \in FL_PTR
         /\ fl_head' \in FL_PTR /\ fl_availableRegs' \in COUNT
<1>1. recovAvailableRegs(h, nextFlTail(rob_nRetired)) \in COUNT
  BY NextFreeType, SizeAssumption DEF recovAvailableRegs, FL_PTR, COUNT, Wrap6
<1> QED BY <1>1, NextFreeType DEF FLRecover

LEMMA CompletedType ==
  ASSUME NEW e \in ROBEntry, NEW cdb
  PROVE  Completed(e, cdb) \in ROBEntry
BY DEF Completed, ROBEntry

LEMMA NewEntryType ==
  ASSUME NEW isn \in Instruction, NEW tag \in PHYS_REG, NEW tagOld \in PHYS_REG
  PROVE  NewEntry(isn, tag, tagOld) \in ROBEntry
BY DEF NewEntry, ROBEntry, Instruction

ROBTypeOK ==
  /\ buffer \in [ROB_PTR -> ROBEntry]
  /\ head \in ROB_PTR /\ rob_tail \in ROB_PTR
  /\ rob_availableSlots \in COUNT
  /\ rob_halted \in BOOLEAN

LEMMA ROBType ==
  ASSUME TypeOK, NEW isns \in Offers, NEW n \in 0 .. 2, n <= Len(isns), NEW cdb,
         ROBCycle(n, isns, fl_freeRegs, mt_dispatchTagOld(isns, fl_freeRegs), cdb)
  PROVE  ROBTypeOK'
<1> DEFINE old == mt_dispatchTagOld(isns, fl_freeRegs)
           new == nextBuffer(n, isns, fl_freeRegs, old, cdb)
<1>1. n >= 1 => NewEntry(isns[1], fl_freeRegs[1], old[1]) \in ROBEntry
  <2>1. n >= 1 => isns[1] \in Instruction /\ old[1] \in PHYS_REG
    BY OffersType, TagOldType
  <2> QED BY <2>1, FreeRegsType, NewEntryType
<1>2. n = 2 => NewEntry(isns[2], fl_freeRegs[2], old[2]) \in ROBEntry
  <2>1. n = 2 => isns[2] \in Instruction /\ old[2] \in PHYS_REG
    BY OffersType, TagOldType
  <2> QED BY <2>1, FreeRegsType, NewEntryType
<1>3. \A i \in ROB_PTR : Completed(buffer[i], cdb) \in ROBEntry
  BY CompletedType DEF TypeOK
<1>4. new \in [ROB_PTR -> ROBEntry]
  BY <1>1, <1>2, <1>3 DEF nextBuffer
<1>5. Wrap(rob_tail + n) \in ROB_PTR
  BY WrapType, SizeAssumption DEF TypeOK, ROB_PTR
<1>6. Wrap6(rob_availableSlots - n + rob_nRetired) \in COUNT
  BY Wrap6Type, NRetiredType, SizeAssumption DEF TypeOK, COUNT
<1> QED BY <1>4, <1>5, <1>6, RetiredType DEF ROBCycle, ROBTypeOK

LEMMA ROBRecoverType ==
  ASSUME TypeOK, NEW t \in ROB_PTR, NEW cdb, ROBRecover(t, cdb)
  PROVE  ROBTypeOK'
<1>1. \A i \in ROB_PTR : Completed(buffer[i], cdb) \in ROBEntry
  BY CompletedType DEF TypeOK
<1>2. recovAvailableSlots(t) \in COUNT
  BY RetiredType, SizeAssumption DEF recovAvailableSlots, COUNT, ROB_PTR
<1> QED BY <1>1, <1>2, RetiredType DEF ROBRecover, ROBTypeOK

(* The branch stack. *)
LEMMA NoEntryType == NoEntry \in BSEntry
BY SizeAssumption DEF NoEntry, BSEntry, FL_PTR, ROB_PTR, RegisterMap,
   PHYS_WITH_READY, PHYS_REG, B_MASK

LEMMA FilledType ==
  ASSUME TypeOK, NEW b \in BS_PTR, NEW n \in 0 .. 2, NEW isns, NEW cdb,
         NEW h \in FL_PTR, NEW t \in ROB_PTR, NEW m,
         n >= 1 => m \in RegisterMap
  PROVE  Filled(b, n, isns, h, t, m, cdb) \in BSEntry
<1> DEFINE e == IF BranchDispatched(n, isns) /\ b = bs_ptr
                  THEN Checkpoint(n, h, t, m) ELSE bs_stack[b]
<1>1. Wrap(h + n) \in FL_PTR /\ Wrap(t + n) \in ROB_PTR
  BY WrapType, SizeAssumption DEF FL_PTR, ROB_PTR
<1>2. n >= 1 => Checkpoint(n, h, t, m) \in BSEntry
  BY <1>1 DEF Checkpoint, BSEntry, bs_bmask, B_MASK
<1>3. e \in BSEntry
  BY <1>2 DEF BranchDispatched, TypeOK
<1>4. MarkReady(e.map, cdb) \in RegisterMap
  BY <1>3, MarkReadyType DEF BSEntry
<1>5. [e EXCEPT !.map = MarkReady(@, cdb)] \in BSEntry
  BY <1>3, <1>4 DEF BSEntry
<1> QED BY <1>5, NoEntryType DEF Filled

LEMMA InitType == Init => TypeOK
<1> SUFFICES ASSUME Init PROVE TypeOK
  OBVIOUS
<1> USE SizeAssumption DEF Init
<1>1. buffer \in [ROB_PTR -> ROBEntry]
  BY DEF ROBInit, ROBEntry, PHYS_REG
<1>2. /\ head \in ROB_PTR /\ rob_tail \in ROB_PTR
      /\ rob_availableSlots \in COUNT /\ rob_halted \in BOOLEAN
  <2>1. /\ head = 0 /\ rob_tail = ROB_SIZE - 1
        /\ rob_availableSlots = ROB_SIZE /\ rob_halted = FALSE
    BY Zenon DEF ROBInit
  <2>2. 0 \in ROB_PTR /\ ROB_SIZE - 1 \in ROB_PTR /\ ROB_SIZE \in COUNT
    BY DEF ROB_PTR, COUNT
  <2> QED BY <2>1, <2>2
<1>3. /\ free \in [FL_PTR -> PHYS_REG]
      /\ fl_head \in FL_PTR /\ fl_tail \in FL_PTR
      /\ fl_availableRegs \in COUNT
  BY DEF FLInit, FL_PTR, COUNT, PHYS_REG
<1>4. map \in RegisterMap /\ at_map \in [NAMED_REG -> PHYS_REG]
  BY DEF MTInit, ATInit, ResetMap, RegisterMap, PHYS_WITH_READY, PHYS_REG, NAMED_REG
<1>5. bs_stack \in [BS_PTR -> BSEntry]
  BY NoEntryType DEF BSInit
<1> QED BY <1>1, <1>2, <1>3, <1>4, <1>5 DEF TypeOK

(* One lemma per kind of cycle. *)
LEMMA CheckpointType ==
  ASSUME TypeOK, NEW b \in bs_bmask
  PROVE  /\ b \in BS_PTR
         /\ bs_stack[b].fl_head \in FL_PTR
         /\ bs_stack[b].rob_tail \in ROB_PTR
         /\ bs_stack[b].map \in RegisterMap
BY DEF TypeOK, BSEntry, bs_bmask

LEMMA DispatchType ==
  ASSUME TypeOK, NEW isns \in Offers, NEW rs \in RSFree, NEW cdb,
         Dispatch(isns, rs, cdb)
  PROVE  TypeOK'
<1> DEFINE n == haz_nDispatched(isns, rs)
<1>1. n \in 0 .. 2 /\ n <= Len(isns)
  BY DispatchedType
<1>2. ROBTypeOK'
  BY <1>1, ROBType DEF Dispatch
<1>3. /\ free' \in [FL_PTR -> PHYS_REG] /\ fl_tail' \in FL_PTR
      /\ fl_head' \in FL_PTR /\ fl_availableRegs' \in COUNT
  BY <1>1, FreeListType DEF Dispatch
<1>4. map' \in RegisterMap
  BY <1>1, NextMapType, FreeRegsType DEF Dispatch, MTCycle, TypeOK
<1>5. at_map' \in [NAMED_REG -> PHYS_REG]
  BY ArchTableType DEF Dispatch
<1>6. bs_stack' \in [BS_PTR -> BSEntry]
  <2>1. \A b \in BS_PTR :
          Filled(b, n, isns, fl_head, rob_tail, map', cdb) \in BSEntry
    BY <1>1, <1>4, FilledType DEF TypeOK
  <2> QED BY <2>1 DEF Dispatch, BSCycle
<1> QED BY <1>2, <1>3, <1>4, <1>5, <1>6 DEF TypeOK, ROBTypeOK

LEMMA CorrectType ==
  ASSUME TypeOK, NEW br \in BS_PTR, NEW isns \in Offers, NEW rs \in RSFree,
         NEW cdb, Correct(br, isns, rs, cdb)
  PROVE  TypeOK'
<1> DEFINE n == haz_nDispatched(isns, rs)
           F(b) == Filled(b, n, isns, fl_head, rob_tail, map', cdb)
<1>1. n \in 0 .. 2 /\ n <= Len(isns)
  BY DispatchedType
<1>2. ROBTypeOK'
  BY <1>1, ROBType DEF Correct
<1>3. /\ free' \in [FL_PTR -> PHYS_REG] /\ fl_tail' \in FL_PTR
      /\ fl_head' \in FL_PTR /\ fl_availableRegs' \in COUNT
  BY <1>1, FreeListType DEF Correct
<1>4. map' \in RegisterMap
  BY <1>1, NextMapType, FreeRegsType DEF Correct, MTCycle, TypeOK
<1>5. at_map' \in [NAMED_REG -> PHYS_REG]
  BY ArchTableType DEF Correct
<1>6. bs_stack' \in [BS_PTR -> BSEntry]
  <2>1. \A b \in BS_PTR : F(b) \in BSEntry
    BY <1>1, <1>4, FilledType DEF TypeOK
  <2>2. \A b \in BS_PTR : [F(b) EXCEPT !.bmask = @ \ {br}] \in BSEntry
    <3> HIDE DEF F
    <3> QED BY <2>1 DEF BSEntry, B_MASK
  <2> QED BY <2>2, NoEntryType DEF Correct, BSCorrect
<1> QED BY <1>2, <1>3, <1>4, <1>5, <1>6 DEF TypeOK, ROBTypeOK

LEMMA WrongType ==
  ASSUME TypeOK, NEW br \in bs_bmask, NEW cdb, Wrong(br, cdb)
  PROVE  TypeOK'
<1>1. ROBTypeOK'
  BY CheckpointType, ROBRecoverType DEF Wrong
<1>2. /\ free' \in [FL_PTR -> PHYS_REG] /\ fl_tail' \in FL_PTR
      /\ fl_head' \in FL_PTR /\ fl_availableRegs' \in COUNT
  BY CheckpointType, FreeListRecoverType DEF Wrong
<1>3. map' \in RegisterMap
  BY CheckpointType, NextMapType DEF Wrong, MTRecover
<1>4. at_map' \in [NAMED_REG -> PHYS_REG]
  BY ArchTableType DEF Wrong
<1>5. bs_stack' \in [BS_PTR -> BSEntry]
  <2>1. \A b \in BS_PTR : Filled(b, 0, <<>>, 0, 0, <<>>, cdb) \in BSEntry
    BY FilledType, SizeAssumption DEF FL_PTR, ROB_PTR
  <2> QED BY <2>1, NoEntryType DEF Wrong, BSWrong
<1> QED BY <1>1, <1>2, <1>3, <1>4, <1>5 DEF TypeOK, ROBTypeOK

LEMMA NextType == TypeOK /\ [Next]_vars => TypeOK'
<1> SUFFICES ASSUME TypeOK, [Next]_vars PROVE TypeOK'
  OBVIOUS
<1>1. CASE DispatchCycle
  BY <1>1, DispatchType DEF DispatchCycle
<1>2. ASSUME NEW b \in BS_PTR, CorrectCycle(b) PROVE TypeOK'
  BY <1>2, CorrectType DEF CorrectCycle
<1>3. ASSUME NEW b \in BS_PTR, WrongCycle(b) PROVE TypeOK'
  BY <1>3, WrongType DEF WrongCycle, bs_bmask
<1>4. CASE UNCHANGED vars
  BY <1>4 DEF vars, TypeOK
<1> QED BY <1>1, <1>2, <1>3, <1>4 DEF Next

(* Every register of the renaming core holds a value of its width, in every *)
(* behaviour of the code, those with a miscounted rollback included.        *)
THEOREM TypeCorrect == Spec => []TypeOK
<1> QED BY InitType, NextType, PTL DEF Spec

-----------------------------------------------------------------------------
(* The masks m of the branches V order them.                               *)
Order(V, m) ==
  \A b \in V :
    /\ b \notin m[b]
    /\ m[b] \subseteq V
    /\ \A c \in V \ {b} : c \in m[b] <=> b \notin m[c]
    /\ \A c \in m[b] : m[c] \subseteq m[b]

Masks == [b \in BS_PTR |-> bs_stack[b].bmask]

LEMMA OrderOfStack == BranchOrder <=> Order(bs_bmask, Masks)
BY DEF BranchOrder, Order, Masks, bs_bmask

(* A branch enters behind all the others,                                  *)
LEMMA PushKeepsOrder ==
  ASSUME NEW V, NEW m, NEW mm, NEW p, Order(V, m), p \notin V, mm[p] = V,
         \A b \in V : mm[b] = m[b]
  PROVE  Order(V \cup {p}, mm)
BY DEF Order

(* one leaves, and no mask names it any more,                              *)
LEMMA RemoveKeepsOrder ==
  ASSUME NEW V, NEW m, NEW mm, NEW br, Order(V, m),
         \A b \in V \ {br} : mm[b] = m[b] \ {br}
  PROVE  Order(V \ {br}, mm)
BY DEF Order

(* or one leaves with all that are behind it.                              *)
LEMMA SquashKeepsOrder ==
  ASSUME NEW V, NEW W, NEW m, NEW mm, NEW br, Order(V, m),
         \A b : b \in W <=> b \in V /\ br # b /\ br \notin m[b],
         \A b \in W : mm[b] = m[b]
  PROVE  Order(W, mm)
BY DEF Order

(* A branch is only offered when there is a slot, and takes a free one.    *)
LEMMA BsPtrFree ==
  ASSUME bs_bmask # BS_PTR
  PROVE  bs_ptr \in BS_PTR /\ bs_ptr \notin bs_bmask
<1> DEFINE S == BS_PTR \ bs_bmask
<1>1. S # {} /\ S \subseteq 0 .. 3
  BY SizeAssumption DEF bs_bmask, BS_PTR
<1>2. \E b \in S : \A c \in S : b <= c
  <2> HIDE DEF S
  <2>1. CASE 0 \in S
    BY <1>1, <2>1
  <2>2. CASE 0 \notin S /\ 1 \in S
    BY <1>1, <2>2
  <2>3. CASE 0 \notin S /\ 1 \notin S /\ 2 \in S
    BY <1>1, <2>3
  <2>4. CASE 0 \notin S /\ 1 \notin S /\ 2 \notin S /\ 3 \in S
    BY <1>1, <2>4
  <2>5. 0 \in S \/ 1 \in S \/ 2 \in S \/ 3 \in S
    <3>1. PICK x \in S : TRUE
      BY <1>1
    <3>2. x = 0 \/ x = 1 \/ x = 2 \/ x = 3
      BY <1>1, <3>1
    <3> QED BY <3>1, <3>2
  <2> QED BY <2>1, <2>2, <2>3, <2>4, <2>5
<1>3. bs_ptr = CHOOSE b \in S : \A c \in S : b <= c
  BY DEF bs_ptr
<1>4. bs_ptr \in S
  BY <1>2, <1>3
<1> QED BY <1>4

LEMMA BranchOffered ==
  ASSUME TypeOK, NEW isns \in Offers, NEW rs \in RSFree,
         BranchDispatched(haz_nDispatched(isns, rs), isns)
  PROVE  bs_ptr \in BS_PTR /\ bs_ptr \notin bs_bmask
<1> DEFINE n == haz_nDispatched(isns, rs)
<1>1. n \in 1 .. Len(isns) /\ isns[n].branch
  BY DispatchedType, OffersType DEF BranchDispatched
<1>2. isns[n] \in Dispatchable
  BY <1>1, OffersType
<1>3. bs_bmask # BS_PTR
  BY <1>1, <1>2 DEF Dispatchable
<1> QED BY <1>3, BsPtrFree

(* What dispatch does to the valid bits and the masks.                     *)
LEMMA FilledEffect ==
  ASSUME TypeOK, NEW isns \in Offers, NEW rs \in RSFree, NEW h, NEW t, NEW m, NEW cdb
  PROVE  LET n == haz_nDispatched(isns, rs)
             pushed == BranchDispatched(n, isns)
             F(b) == Filled(b, n, isns, h, t, m, cdb)
         IN  \A b \in BS_PTR :
               /\ F(b).valid <=> b \in bs_bmask \/ (pushed /\ b = bs_ptr)
               /\ b \in bs_bmask => F(b).bmask = bs_stack[b].bmask
               /\ pushed /\ b = bs_ptr => F(b).bmask = bs_bmask
<1> DEFINE n == haz_nDispatched(isns, rs)
           pushed == BranchDispatched(n, isns)
<1> SUFFICES ASSUME NEW b \in BS_PTR
    PROVE  LET F == Filled(b, n, isns, h, t, m, cdb)
           IN  /\ F.valid <=> b \in bs_bmask \/ (pushed /\ b = bs_ptr)
               /\ b \in bs_bmask => F.bmask = bs_stack[b].bmask
               /\ pushed /\ b = bs_ptr => F.bmask = bs_bmask
  OBVIOUS
<1> DEFINE e == IF pushed /\ b = bs_ptr THEN Checkpoint(n, h, t, m) ELSE bs_stack[b]
           F == Filled(b, n, isns, h, t, m, cdb)
<1>1. pushed => bs_ptr \notin bs_bmask
  BY BranchOffered
<1>2. F = IF e.valid THEN [e EXCEPT !.map = MarkReady(@, cdb)] ELSE NoEntry
  BY DEF Filled
<1>3. CASE pushed /\ b = bs_ptr
  <2>1. e = Checkpoint(n, h, t, m)
    BY <1>3
  <2>2. F.valid = TRUE /\ F.bmask = bs_bmask
    BY <1>2, <2>1 DEF Checkpoint
  <2> QED BY <1>1, <1>3, <2>2
<1>4. CASE ~(pushed /\ b = bs_ptr) /\ b \in bs_bmask
  <2>1. e = bs_stack[b] /\ e \in BSEntry /\ e.valid
    BY <1>4 DEF bs_bmask, TypeOK
  <2>2. F.valid = TRUE /\ F.bmask = bs_stack[b].bmask
    BY <1>2, <2>1 DEF BSEntry
  <2> QED BY <1>4, <2>2
<1>5. CASE ~(pushed /\ b = bs_ptr) /\ b \notin bs_bmask
  <2>1. e = bs_stack[b] /\ e.valid = FALSE
    BY <1>5 DEF bs_bmask, TypeOK, BSEntry
  <2>2. F.valid = FALSE
    BY <1>2, <2>1 DEF NoEntry
  <2> QED BY <1>5, <2>2
<1> QED BY <1>3, <1>4, <1>5

(* The valid bits and masks after dispatch, as a set and a function.       *)
Pushed(n, isns) ==
  IF BranchDispatched(n, isns) THEN bs_bmask \cup {bs_ptr} ELSE bs_bmask

LEMMA DispatchKeepsOrder ==
  ASSUME TypeOK, BranchOrder, NEW isns \in Offers, NEW rs \in RSFree,
         NEW h, NEW t, NEW m, NEW cdb
  PROVE  LET n == haz_nDispatched(isns, rs)
             F(b) == Filled(b, n, isns, h, t, m, cdb)
         IN  /\ Pushed(n, isns) = {b \in BS_PTR : F(b).valid}
             /\ Order(Pushed(n, isns), [b \in BS_PTR |-> F(b).bmask])
<1> DEFINE n == haz_nDispatched(isns, rs)
           F(b) == Filled(b, n, isns, h, t, m, cdb)
           mm == [b \in BS_PTR |-> F(b).bmask]
           pushed == BranchDispatched(n, isns)
<1>0. Order(bs_bmask, Masks)
  BY OrderOfStack
<1>1. \A b \in BS_PTR : /\ F(b).valid <=> b \in bs_bmask \/ (pushed /\ b = bs_ptr)
                        /\ b \in bs_bmask => F(b).bmask = bs_stack[b].bmask
                        /\ pushed /\ b = bs_ptr => F(b).bmask = bs_bmask
  BY FilledEffect
<1>2. pushed => bs_ptr \in BS_PTR /\ bs_ptr \notin bs_bmask
  BY BranchOffered
<1>3. bs_bmask \subseteq BS_PTR
  BY DEF bs_bmask
<1> HIDE DEF F, pushed, n
<1>4. \A b \in bs_bmask : mm[b] = Masks[b]
  BY <1>1, <1>3 DEF Masks
<1>5. CASE pushed
  <2>1. mm[bs_ptr] = bs_bmask
    BY <1>1, <1>2, <1>5
  <2>2. Order(bs_bmask \cup {bs_ptr}, mm)
    BY <1>0, <1>2, <1>4, <1>5, <2>1, PushKeepsOrder
  <2>3. bs_bmask \cup {bs_ptr} = {b \in BS_PTR : F(b).valid}
    BY <1>1, <1>2, <1>3, <1>5
  <2> QED BY <1>5, <2>2, <2>3 DEF Pushed, pushed, F, n
<1>6. CASE ~pushed
  <2>1. Order(bs_bmask, mm)
    BY <1>0, <1>3, <1>4 DEF Order
  <2>2. bs_bmask = {b \in BS_PTR : F(b).valid}
    BY <1>1, <1>3, <1>6
  <2> QED BY <1>6, <2>1, <2>2 DEF Pushed, pushed, F, n
<1> QED BY <1>5, <1>6

LEMMA OrderDispatch ==
  ASSUME TypeOK, BranchOrder, NEW isns \in Offers, NEW rs \in RSFree, NEW cdb,
         Dispatch(isns, rs, cdb)
  PROVE  BranchOrder'
<1> DEFINE n == haz_nDispatched(isns, rs)
           F(b) == Filled(b, n, isns, fl_head, rob_tail, map', cdb)
           V == Pushed(n, isns)
           mm == [b \in BS_PTR |-> F(b).bmask]
<1>1. bs_stack' = [b \in BS_PTR |-> F(b)]
  BY DEF Dispatch, BSCycle
<1>2. Order(V, mm) /\ V = {b \in BS_PTR : F(b).valid}
  BY DispatchKeepsOrder
<1> HIDE DEF F, n, V
<1>3. bs_bmask' = V /\ Masks' = mm
  BY <1>1, <1>2 DEF bs_bmask, Masks
<1> QED BY <1>2, <1>3 DEF BranchOrder, Order, Masks, bs_bmask

LEMMA OrderCorrect ==
  ASSUME TypeOK, TypeOK', BranchOrder, NEW br \in bs_bmask, NEW isns \in Offers,
         NEW rs \in RSFree, NEW cdb, Correct(br, isns, rs, cdb)
  PROVE  BranchOrder'
<1> DEFINE n == haz_nDispatched(isns, rs)
           F(b) == Filled(b, n, isns, fl_head, rob_tail, map', cdb)
           V == Pushed(n, isns)
           mm == [b \in BS_PTR |-> F(b).bmask]
<1>1. bs_stack' = [b \in BS_PTR |-> IF b = br THEN NoEntry
                                   ELSE [F(b) EXCEPT !.bmask = @ \ {br}]]
  BY DEF Correct, BSCorrect
<1>2. Order(V, mm) /\ V = {b \in BS_PTR : F(b).valid}
  BY DispatchKeepsOrder
<1>3. \A b \in BS_PTR : F(b) \in BSEntry
  <2>1. map' \in RegisterMap
    BY DEF TypeOK
  <2> QED BY <2>1, DispatchedType, FilledType DEF TypeOK
<1> HIDE DEF F, n, V
<1>4. \A b \in BS_PTR \ {br} : /\ bs_stack'[b].valid = F(b).valid
                               /\ bs_stack'[b].bmask = F(b).bmask \ {br}
  BY <1>1, <1>3 DEF BSEntry
<1>5. br \in BS_PTR /\ bs_stack'[br].valid = FALSE
  BY <1>1 DEF NoEntry, bs_bmask
<1>6. bs_bmask' = V \ {br}
  BY <1>2, <1>4, <1>5 DEF bs_bmask
<1>7. \A b \in V \ {br} : Masks'[b] = mm[b] \ {br}
  BY <1>2, <1>4 DEF Masks
<1>8. Order(V \ {br}, Masks')
  BY <1>2, <1>7, RemoveKeepsOrder
<1> QED BY <1>6, <1>8 DEF BranchOrder, Order, Masks, bs_bmask

LEMMA OrderWrong ==
  ASSUME TypeOK, BranchOrder, NEW br \in bs_bmask, NEW cdb, Wrong(br, cdb)
  PROVE  BranchOrder'
<1> DEFINE F(b) == Filled(b, 0, <<>>, 0, 0, <<>>, cdb)
           V == {b \in bs_bmask : br # b /\ br \notin Masks[b]}
<1>1. bs_stack' = [b \in BS_PTR |-> IF b = br \/ br \in bs_stack[b].bmask
                                   THEN NoEntry ELSE F(b)]
  BY DEF Wrong, BSWrong
<1>2. \A b \in BS_PTR : /\ F(b).valid <=> b \in bs_bmask
                        /\ b \in bs_bmask => F(b).bmask = bs_stack[b].bmask
  <2> SUFFICES ASSUME NEW b \in BS_PTR
               PROVE  /\ F(b).valid <=> b \in bs_bmask
                      /\ b \in bs_bmask => F(b).bmask = bs_stack[b].bmask
    OBVIOUS
  <2>1. F(b) = IF bs_stack[b].valid
                 THEN [bs_stack[b] EXCEPT !.map = MarkReady(@, cdb)] ELSE NoEntry
    BY DEF Filled, BranchDispatched
  <2>2. CASE b \in bs_bmask
    <3>1. bs_stack[b] \in BSEntry /\ bs_stack[b].valid = TRUE
      BY <2>2 DEF bs_bmask, TypeOK, BSEntry
    <3> QED BY <2>1, <2>2, <3>1 DEF BSEntry
  <2>3. CASE b \notin bs_bmask
    <3>1. ~bs_stack[b].valid
      BY <2>3 DEF bs_bmask
    <3> QED BY <2>1, <2>3, <3>1 DEF NoEntry
  <2> QED BY <2>2, <2>3
<1> HIDE DEF F
<1>3. bs_bmask' = V
  BY <1>1, <1>2 DEF bs_bmask, Masks, NoEntry
<1>4. \A b \in V : Masks'[b] = Masks[b]
  BY <1>1, <1>2 DEF bs_bmask, Masks
<1>5. Order(V, Masks')
  <2>1. Order(bs_bmask, Masks)
    BY OrderOfStack
  <2>2. \A b : b \in V <=> b \in bs_bmask /\ br # b /\ br \notin Masks[b]
    OBVIOUS
  <2> HIDE DEF V
  <2> QED BY <1>4, <2>1, <2>2, SquashKeepsOrder
<1> QED BY <1>3, <1>5 DEF BranchOrder, Order, Masks, bs_bmask

(* In every behaviour of the code, the branch masks are a strict total order *)
(* of the branches in flight: a misprediction finds exactly what is younger, *)
(* however the four slots have been freed and taken again.                  *)
THEOREM BranchOrderHolds == Spec => []BranchOrder
<1>1. Init => BranchOrder
  BY DEF Init, BSInit, BranchOrder, bs_bmask, NoEntry
<1>2. TypeOK /\ TypeOK' /\ BranchOrder /\ [Next]_vars => BranchOrder'
  <2> SUFFICES ASSUME TypeOK, TypeOK', BranchOrder, [Next]_vars PROVE BranchOrder'
    OBVIOUS
  <2>1. CASE DispatchCycle
    BY <2>1, OrderDispatch DEF DispatchCycle
  <2>2. ASSUME NEW b \in BS_PTR, CorrectCycle(b) PROVE BranchOrder'
    BY <2>2, OrderCorrect DEF CorrectCycle, bs_bmask
  <2>3. ASSUME NEW b \in BS_PTR, WrongCycle(b) PROVE BranchOrder'
    BY <2>3, OrderWrong DEF WrongCycle, bs_bmask
  <2>4. CASE UNCHANGED vars
    BY <2>4 DEF vars, BranchOrder, bs_bmask
  <2> QED BY <2>1, <2>2, <2>3, <2>4 DEF Next
<1> QED BY <1>1, <1>2, TypeCorrect, PTL DEF Spec

-----------------------------------------------------------------------------
(***************************************************************************)
(* The inductive invariant behind the safety of Rename, and what follows    *)
(* from it.                                                                 *)
(*                                                                         *)
(* What comes first is about one ring, given as parameters: its window       *)
(* starts at slot h and is o slots long, old[i] is the register that the     *)
(* instruction in slot i replaces, fr the ring of registers and am the       *)
(* architectural map.  Retiring one instruction, entering one and cutting    *)
(* the window keep what the invariant says; a clock edge is made of those.   *)
(***************************************************************************)
SlotsIn(h, o) == {i \in ROB_PTR : Dist(h, i) < o}

(* The slots of the free list and the entries of the architectural map     *)
(* name different registers, and none of them the zero register.           *)
Distinct(fr, am) ==
  /\ \A i, j \in ROB_PTR : fr[i] = fr[j] => i = j
  /\ \A q, r \in NAMED_REG : am[q] = am[r] => q = r
  /\ \A i \in ROB_PTR, r \in NAMED_REG : fr[i] # am[r]
  /\ \A i \in ROB_PTR : fr[i] # PHYS_ZERO_REG
  /\ \A r \in NAMED_REG : am[r] # PHYS_ZERO_REG

(* x is a committed register, or one that one of the first l instructions  *)
(* of the window writes.                                                    *)
Known(x, h, l, old, fr, am) ==
  \/ \E r \in NAMED_REG : am[r] = x
  \/ \E j \in SlotsIn(h, l) : old[j] # PHYS_ZERO_REG /\ fr[j] = x

(* An instruction replaces a register that is known when it enters, and no *)
(* two replace the same one.                                                *)
Chained(h, o, old, fr, am) ==
  /\ \A i \in SlotsIn(h, o) :
       old[i] = PHYS_ZERO_REG \/ Known(old[i], h, Dist(h, i), old, fr, am)
  /\ \A i, j \in SlotsIn(h, o) :
       i # j /\ old[i] = old[j] => old[i] = PHYS_ZERO_REG

(* m is a map of the program after the first l instructions: one to one,   *)
(* to known registers, none of which one of those instructions replaces.    *)
Fits(m, h, l, old, fr, am) ==
  /\ \A q, r \in NAMED_REG : m[q] = m[r] => q = r
  /\ \A r \in NAMED_REG : Known(m[r], h, l, old, fr, am)
  /\ \A r \in NAMED_REG : \A j \in SlotsIn(h, l) : old[j] # m[r]

Olds == [i \in ROB_PTR |-> buffer[i].tagOld]

(* The tag of an instruction in flight is what the free list holds in its  *)
(* slot.                                                                    *)
TagsInRing == \A i \in Occupied : buffer[i].tag = free[i]

(* A branch that holds a checkpoint has not completed.                     *)
BranchesWait == \A b \in bs_bmask : ~buffer[bs_stack[b].rob_tail].complete

MapsFit ==
  /\ Fits(Names(map), head, Occupancy, Olds, free, at_map)
  /\ \A b \in bs_bmask :
       Fits(Names(bs_stack[b].map), head, Age(b) + 1, Olds, free, at_map)

RingInv ==
  /\ CountsAgree
  /\ CheckpointsOrdered
  /\ BranchesWait
  /\ TagsInRing
  /\ Distinct(free, at_map)
  /\ Chained(head, Occupancy, Olds, free, at_map)
  /\ MapsFit

-----------------------------------------------------------------------------
(* Distances on the ring. *)
LEMMA DistType ==
  ASSUME NEW h \in ROB_PTR, NEW i \in ROB_PTR
  PROVE  /\ Dist(h, i) \in 0 .. ROB_SIZE - 1
         /\ Dist(h, h) = 0
         /\ Dist(h, i) = 0 => i = h
BY SizeAssumption DEF Dist, Wrap, ROB_PTR

LEMMA DistOf ==
  ASSUME NEW h \in ROB_PTR, NEW d \in 0 .. ROB_SIZE - 1
  PROVE  Wrap(h + d) \in ROB_PTR /\ Dist(h, Wrap(h + d)) = d
BY SizeAssumption DEF Dist, Wrap, ROB_PTR

LEMMA DistDetermines ==
  ASSUME NEW h \in ROB_PTR, NEW i \in ROB_PTR
  PROVE  i = Wrap(h + Dist(h, i))
BY SizeAssumption DEF Dist, Wrap, ROB_PTR

LEMMA DistFrom ==
  ASSUME NEW h \in ROB_PTR, NEW k \in 0 .. 2, NEW i \in ROB_PTR
  PROVE  /\ Wrap(h + k) \in ROB_PTR
         /\ Dist(h, i) >= k => Dist(Wrap(h + k), i) = Dist(h, i) - k
         /\ Dist(h, i) < k => Dist(Wrap(h + k), i) = Dist(h, i) - k + ROB_SIZE
BY SizeAssumption DEF Dist, Wrap, ROB_PTR

LEMMA WrapTwice ==
  ASSUME NEW h \in ROB_PTR
  PROVE  Wrap(Wrap(h + 1) + 1) = Wrap(h + 2) /\ Wrap(h + 0) = h
BY SizeAssumption DEF Wrap, ROB_PTR

LEMMA SlotsInFacts ==
  ASSUME NEW h \in ROB_PTR, NEW o, NEW i
  PROVE  i \in SlotsIn(h, o) <=> i \in ROB_PTR /\ Dist(h, i) < o
BY DEF SlotsIn

-----------------------------------------------------------------------------
(* The oldest instruction leaves.  The register it replaces, if it replaces *)
(* one, and the one it was given change places between the free list and    *)
(* the architectural map.                                                   *)
Leaving(h, old, fr, am, fr2, am2) ==
  /\ \A i \in ROB_PTR : i # h => fr2[i] = fr[i]
  /\ fr2[h] = IF old[h] = PHYS_ZERO_REG THEN fr[h] ELSE old[h]
  /\ \A r \in NAMED_REG : am2[r] = IF am[r] = old[h] THEN fr[h] ELSE am[r]

LEMMA LeavingSwaps ==
  ASSUME NEW h \in ROB_PTR, NEW old, NEW fr, NEW am, NEW fr2, NEW am2,
         Distinct(fr, am),
         old[h] = PHYS_ZERO_REG \/ \E r \in NAMED_REG : am[r] = old[h],
         Leaving(h, old, fr, am, fr2, am2)
  PROVE  Distinct(fr2, am2)
<1>1. CASE old[h] = PHYS_ZERO_REG
  <2>1. /\ \A i \in ROB_PTR : fr2[i] = fr[i]
        /\ \A r \in NAMED_REG : am2[r] = am[r]
    BY <1>1 DEF Leaving, Distinct
  <2> QED BY <2>1 DEF Distinct
<1>2. CASE old[h] # PHYS_ZERO_REG
  <2>1. PICK r0 \in NAMED_REG : am[r0] = old[h]
    BY <1>2
  <2>2. /\ am2[r0] = fr[h] /\ fr2[h] = am[r0]
        /\ \A r \in NAMED_REG : r # r0 => am2[r] = am[r]
        /\ \A i \in ROB_PTR : i # h => fr2[i] = fr[i]
    BY <1>2, <2>1 DEF Leaving, Distinct
  <2> QED BY <2>1, <2>2 DEF Distinct
<1> QED BY <1>1, <1>2

(* What was known is known afterwards, but for the replaced register.      *)
LEMMA LeavingKnown ==
  ASSUME NEW h \in ROB_PTR, NEW l \in 1 .. ROB_SIZE, NEW x,
         NEW old, NEW fr, NEW am, NEW fr2, NEW am2,
         old[h] = PHYS_ZERO_REG \/ \E r \in NAMED_REG : am[r] = old[h],
         Distinct(fr, am), Leaving(h, old, fr, am, fr2, am2),
         Known(x, h, l, old, fr, am), x # old[h]
  PROVE  Known(x, Wrap(h + 1), l - 1, old, fr2, am2)
<1>1. CASE \E r \in NAMED_REG : am[r] = x
  <2>1. PICK r \in NAMED_REG : am[r] = x
    BY <1>1
  <2>2. am2[r] = x
    BY <2>1 DEF Leaving
  <2> QED BY <2>2 DEF Known
<1>2. CASE \E j \in SlotsIn(h, l) : old[j] # PHYS_ZERO_REG /\ fr[j] = x
  <2>1. PICK j \in SlotsIn(h, l) : old[j] # PHYS_ZERO_REG /\ fr[j] = x
    BY <1>2
  <2>2. CASE j = h
    <3>1. PICK r \in NAMED_REG : am[r] = old[h]
      BY <2>1, <2>2
    <3>2. am2[r] = x
      BY <2>1, <2>2, <3>1 DEF Leaving
    <3> QED BY <3>2 DEF Known
  <2>3. CASE j # h
    <3>1. j \in ROB_PTR /\ Dist(h, j) < l /\ Dist(h, j) >= 1
      BY <2>3, DistType DEF SlotsIn
    <3>2. Dist(Wrap(h + 1), j) = Dist(h, j) - 1
      BY <3>1, DistFrom
    <3>3. j \in SlotsIn(Wrap(h + 1), l - 1)
      BY <3>1, <3>2, DistType DEF SlotsIn
    <3>4. fr2[j] = x
      BY <2>1, <2>3, <3>1 DEF Leaving
    <3> QED BY <2>1, <3>3, <3>4 DEF Known
  <2> QED BY <2>2, <2>3
<1> QED BY <1>1, <1>2 DEF Known

LEMMA SlotsAfterLeaving ==
  ASSUME NEW h \in ROB_PTR, NEW l \in 1 .. ROB_SIZE, NEW i \in SlotsIn(Wrap(h + 1), l - 1)
  PROVE  /\ i \in SlotsIn(h, l) /\ i # h
         /\ Dist(h, i) \in 1 .. ROB_SIZE
         /\ Dist(Wrap(h + 1), i) = Dist(h, i) - 1
<1>1. i \in ROB_PTR /\ Dist(Wrap(h + 1), i) < l - 1
  BY DEF SlotsIn
<1>2. Dist(h, i) \in 0 .. ROB_SIZE - 1
  BY <1>1, DistType
<1>3. CASE Dist(h, i) < 1
  BY <1>1, <1>2, <1>3, DistFrom, SizeAssumption
<1>4. CASE Dist(h, i) >= 1
  BY <1>1, <1>2, <1>4, DistFrom, DistType, SizeAssumption DEF SlotsIn
<1> QED BY <1>2, <1>3, <1>4

LEMMA LeavingChained ==
  ASSUME NEW h \in ROB_PTR, NEW o \in 1 .. ROB_SIZE,
         NEW old, NEW fr, NEW am, NEW fr2, NEW am2,
         Distinct(fr, am), Chained(h, o, old, fr, am),
         Leaving(h, old, fr, am, fr2, am2)
  PROVE  /\ old[h] = PHYS_ZERO_REG \/ \E r \in NAMED_REG : am[r] = old[h]
         /\ Distinct(fr2, am2)
         /\ Chained(Wrap(h + 1), o - 1, old, fr2, am2)
<1>1. h \in SlotsIn(h, o) /\ Dist(h, h) = 0
  BY DistType DEF SlotsIn
<1>2. ~ \E j : j \in SlotsIn(h, 0)
  BY DistType DEF SlotsIn
<1>3. old[h] = PHYS_ZERO_REG \/ \E r \in NAMED_REG : am[r] = old[h]
  BY <1>1, <1>2 DEF Chained, Known
<1>4. Distinct(fr2, am2)
  BY <1>3, LeavingSwaps
<1>5. ASSUME NEW i \in SlotsIn(Wrap(h + 1), o - 1), old[i] # PHYS_ZERO_REG
      PROVE  Known(old[i], Wrap(h + 1), Dist(Wrap(h + 1), i), old, fr2, am2)
  <2>1. i \in SlotsIn(h, o) /\ i # h /\ Dist(h, i) \in 1 .. ROB_SIZE
        /\ Dist(Wrap(h + 1), i) = Dist(h, i) - 1
    BY SlotsAfterLeaving
  <2>2. Known(old[i], h, Dist(h, i), old, fr, am) /\ old[i] # old[h]
    BY <1>1, <1>5, <2>1 DEF Chained
  <2> QED BY <1>3, <2>1, <2>2, LeavingKnown
<1>6. \A i \in SlotsIn(Wrap(h + 1), o - 1) : i \in SlotsIn(h, o)
  BY SlotsAfterLeaving
<1>7. Chained(Wrap(h + 1), o - 1, old, fr2, am2)
  BY <1>5, <1>6 DEF Chained
<1> QED BY <1>3, <1>4, <1>7

LEMMA LeavingFits ==
  ASSUME NEW h \in ROB_PTR, NEW l \in 1 .. ROB_SIZE, NEW m,
         NEW old, NEW fr, NEW am, NEW fr2, NEW am2,
         old[h] = PHYS_ZERO_REG \/ \E r \in NAMED_REG : am[r] = old[h],
         Distinct(fr, am), Leaving(h, old, fr, am, fr2, am2),
         Fits(m, h, l, old, fr, am)
  PROVE  Fits(m, Wrap(h + 1), l - 1, old, fr2, am2)
<1>1. h \in SlotsIn(h, l)
  BY DistType DEF SlotsIn
<1>2. \A r \in NAMED_REG : Known(m[r], Wrap(h + 1), l - 1, old, fr2, am2)
  <2> SUFFICES ASSUME NEW r \in NAMED_REG
               PROVE  Known(m[r], Wrap(h + 1), l - 1, old, fr2, am2)
    OBVIOUS
  <2>1. Known(m[r], h, l, old, fr, am) /\ m[r] # old[h]
    BY <1>1 DEF Fits
  <2> QED BY <2>1, LeavingKnown
<1>3. \A r \in NAMED_REG : \A j \in SlotsIn(Wrap(h + 1), l - 1) : old[j] # m[r]
  BY SlotsAfterLeaving DEF Fits
<1> QED BY <1>2, <1>3 DEF Fits

-----------------------------------------------------------------------------
(* An instruction enters behind the window and is given the register in    *)
(* its slot; it replaces none, or the one that m has for some r.            *)
Entering(h, o, old, fr, m, old2, m2) ==
  LET s == Wrap(h + o)
  IN  /\ \A i \in SlotsIn(h, o) : old2[i] = old[i]
      /\ \/ old2[s] = PHYS_ZERO_REG /\ \A q \in NAMED_REG : m2[q] = m[q]
         \/ \E r \in NAMED_REG :
              /\ old2[s] = m[r]
              /\ m2[r] = fr[s]
              /\ \A q \in NAMED_REG \ {r} : m2[q] = m[q]

LEMMA SlotsAfterEntering ==
  ASSUME NEW h \in ROB_PTR, NEW o \in 0 .. ROB_SIZE - 1
  PROVE  /\ Wrap(h + o) \in ROB_PTR
         /\ Dist(h, Wrap(h + o)) = o
         /\ Wrap(h + o) \notin SlotsIn(h, o)
         /\ \A i : i \in SlotsIn(h, o + 1) <=> i \in SlotsIn(h, o) \/ i = Wrap(h + o)
<1>1. Wrap(h + o) \in ROB_PTR /\ Dist(h, Wrap(h + o)) = o
  BY DistOf
<1>2. Wrap(h + o) \notin SlotsIn(h, o) /\ Wrap(h + o) \in SlotsIn(h, o + 1)
  BY <1>1 DEF SlotsIn
<1>3. ASSUME NEW i \in SlotsIn(h, o + 1) PROVE i \in SlotsIn(h, o) \/ i = Wrap(h + o)
  <2>1. i \in ROB_PTR /\ Dist(h, i) < o + 1 /\ Dist(h, i) \in 0 .. ROB_SIZE - 1
    BY DistType DEF SlotsIn
  <2>2. CASE Dist(h, i) < o
    BY <2>1, <2>2 DEF SlotsIn
  <2>3. CASE Dist(h, i) = o
    BY <2>1, <2>3, DistDetermines
  <2> QED BY <2>1, <2>2, <2>3
<1>4. \A i \in SlotsIn(h, o) : i \in SlotsIn(h, o + 1)
  BY DistType DEF SlotsIn
<1> QED BY <1>1, <1>2, <1>3, <1>4

(* What the first l of the window know, they know whatever enters.         *)
LEMMA KnownFrame ==
  ASSUME NEW h \in ROB_PTR, NEW l \in Int, NEW o \in Int, l <= o, NEW x, NEW old, NEW old2, NEW fr, NEW am,
         \A i \in SlotsIn(h, l) : old2[i] = old[i],
         Known(x, h, l, old, fr, am)
  PROVE  Known(x, h, o, old2, fr, am)
<1>1. \A i \in SlotsIn(h, l) : i \in SlotsIn(h, o)
  BY DistType DEF SlotsIn
<1> QED BY <1>1 DEF Known

LEMMA FitsFrame ==
  ASSUME NEW h \in ROB_PTR, NEW l \in Int, NEW m, NEW m2, NEW old, NEW old2, NEW fr, NEW am,
         \A i \in SlotsIn(h, l) : old2[i] = old[i],
         \A r \in NAMED_REG : m2[r] = m[r],
         Fits(m, h, l, old, fr, am)
  PROVE  Fits(m2, h, l, old2, fr, am)
<1>1. \A r \in NAMED_REG : Known(m2[r], h, l, old2, fr, am)
  <2> SUFFICES ASSUME NEW r \in NAMED_REG PROVE Known(m[r], h, l, old2, fr, am)
    OBVIOUS
  <2>1. Known(m[r], h, l, old, fr, am)
    BY DEF Fits
  <2> QED BY <2>1, KnownFrame
<1> QED BY <1>1 DEF Fits

(* A shorter window of a chained one is chained.                           *)
LEMMA ChainedFrame ==
  ASSUME NEW h \in ROB_PTR, NEW l \in Int, NEW o \in Int, l <= o,
         NEW old, NEW old2, NEW fr, NEW am,
         \A i \in SlotsIn(h, l) : old2[i] = old[i],
         Chained(h, o, old, fr, am)
  PROVE  Chained(h, l, old2, fr, am)
<1>1. \A i \in SlotsIn(h, l) : i \in SlotsIn(h, o) /\ Dist(h, i) \in Int /\ Dist(h, i) < l
  BY DistType DEF SlotsIn
<1>2. ASSUME NEW i \in SlotsIn(h, l), old2[i] # PHYS_ZERO_REG
      PROVE  Known(old2[i], h, Dist(h, i), old2, fr, am)
  <2>1. Known(old2[i], h, Dist(h, i), old, fr, am)
    BY <1>1, <1>2 DEF Chained
  <2>2. \A j \in SlotsIn(h, Dist(h, i)) : old2[j] = old[j]
    BY <1>1, DistType DEF SlotsIn
  <2> QED BY <1>1, <2>1, <2>2, KnownFrame
<1> QED BY <1>1, <1>2 DEF Chained

(* A register that is known, or that a map names, is not the one in the    *)
(* slot behind the window.                                                  *)
LEMMA KnownIsOther ==
  ASSUME NEW h \in ROB_PTR, NEW o \in 0 .. ROB_SIZE - 1, NEW l \in Int, l <= o, NEW x,
         NEW old, NEW fr, NEW am, Distinct(fr, am), Known(x, h, l, old, fr, am)
  PROVE  x # fr[Wrap(h + o)] /\ x # PHYS_ZERO_REG
<1>1. Wrap(h + o) \in ROB_PTR /\ Wrap(h + o) \notin SlotsIn(h, o)
  BY SlotsAfterEntering
<1>2. \A j \in SlotsIn(h, l) : j \in SlotsIn(h, o) /\ j \in ROB_PTR
  BY DistType DEF SlotsIn
<1> QED BY <1>1, <1>2 DEF Known, Distinct

LEMMA EnteringKeeps ==
  ASSUME NEW h \in ROB_PTR, NEW o \in 0 .. ROB_SIZE - 1, NEW m, NEW m2,
         NEW old, NEW old2, NEW fr, NEW am,
         Distinct(fr, am), Chained(h, o, old, fr, am), Fits(m, h, o, old, fr, am),
         Entering(h, o, old, fr, m, old2, m2)
  PROVE  Chained(h, o + 1, old2, fr, am) /\ Fits(m2, h, o + 1, old2, fr, am)
<1> DEFINE s == Wrap(h + o)
<1>1. /\ s \in ROB_PTR /\ Dist(h, s) = o /\ s \notin SlotsIn(h, o)
      /\ \A i : i \in SlotsIn(h, o + 1) <=> i \in SlotsIn(h, o) \/ i = s
  BY SlotsAfterEntering
<1>2. \A i \in SlotsIn(h, o) : old2[i] = old[i]
  BY DEF Entering
<1>3. Chained(h, o, old2, fr, am) /\ Fits(m, h, o, old2, fr, am)
  BY <1>2, ChainedFrame, FitsFrame
<1>4. fr[s] # PHYS_ZERO_REG
  BY <1>1 DEF Distinct
<1>5. \A r \in NAMED_REG : /\ Known(m[r], h, o, old2, fr, am)
                           /\ Known(m[r], h, o + 1, old2, fr, am)
                           /\ m[r] # fr[s] /\ m[r] # PHYS_ZERO_REG
  <2> SUFFICES ASSUME NEW r \in NAMED_REG
               PROVE  /\ Known(m[r], h, o, old2, fr, am)
                      /\ Known(m[r], h, o + 1, old2, fr, am)
                      /\ m[r] # fr[s] /\ m[r] # PHYS_ZERO_REG
    OBVIOUS
  <2>1. Known(m[r], h, o, old2, fr, am)
    BY <1>3 DEF Fits
  <2> QED BY <2>1, KnownFrame, KnownIsOther
<1>6. \A i \in SlotsIn(h, o) : old2[i] # fr[s]
  <2> SUFFICES ASSUME NEW i \in SlotsIn(h, o), old2[i] # PHYS_ZERO_REG
               PROVE  old2[i] # fr[s]
    BY <1>4
  <2>1. Known(old2[i], h, Dist(h, i), old2, fr, am)
    BY <1>3 DEF Chained
  <2>2. Dist(h, i) \in Int /\ Dist(h, i) <= o
    BY DistType DEF SlotsIn
  <2> QED BY <2>1, <2>2, KnownIsOther
<1> HIDE DEF s
<1>7. CASE old2[s] = PHYS_ZERO_REG /\ \A q \in NAMED_REG : m2[q] = m[q]
  <2>1. Chained(h, o + 1, old2, fr, am)
    BY <1>1, <1>3, <1>7 DEF Chained
  <2>2. Fits(m2, h, o + 1, old2, fr, am)
    BY <1>1, <1>3, <1>5, <1>7 DEF Fits
  <2> QED BY <2>1, <2>2
<1>8. CASE \E r \in NAMED_REG : /\ old2[s] = m[r] /\ m2[r] = fr[s]
                                /\ \A q \in NAMED_REG \ {r} : m2[q] = m[q]
  <2>1. PICK r \in NAMED_REG : /\ old2[s] = m[r] /\ m2[r] = fr[s]
                               /\ \A q \in NAMED_REG \ {r} : m2[q] = m[q]
    BY <1>8
  <2>2. Chained(h, o + 1, old2, fr, am)
    <3>1. \A i \in SlotsIn(h, o) : old2[i] # old2[s]
      BY <1>3, <2>1 DEF Fits
    <3>2. Known(old2[s], h, Dist(h, s), old2, fr, am)
      BY <1>1, <1>5, <2>1
    <3> QED BY <1>1, <1>3, <3>1, <3>2 DEF Chained
  <2>3. Known(fr[s], h, o + 1, old2, fr, am)
    BY <1>1, <1>5, <2>1 DEF Known
  <2>4. Fits(m2, h, o + 1, old2, fr, am)
    <3>1. \A q \in NAMED_REG : Known(m2[q], h, o + 1, old2, fr, am)
      BY <1>5, <2>1, <2>3
    <3>2. \A p, q \in NAMED_REG : m2[p] = m2[q] => p = q
      BY <1>3, <1>5, <2>1 DEF Fits
    <3>3. \A q \in NAMED_REG : \A j \in SlotsIn(h, o) : old2[j] # m2[q]
      BY <1>3, <1>6, <2>1 DEF Fits
    <3>4. \A q \in NAMED_REG : old2[s] # m2[q]
      BY <1>3, <1>5, <2>1 DEF Fits
    <3> QED BY <1>1, <3>1, <3>2, <3>3, <3>4 DEF Fits
  <2> QED BY <2>2, <2>4
<1> QED BY <1>7, <1>8 DEF Entering, s

-----------------------------------------------------------------------------
(* The clock edge in terms of those steps. *)
LEMMA Counts ==
  ASSUME TypeOK, CountsAgree
  PROVE  /\ Occupancy \in 0 .. ROB_SIZE
         /\ head \in ROB_PTR
         /\ Occupied = SlotsIn(head, Occupancy)
         /\ rob_nRetired \in 0 .. 2 /\ rob_nRetired <= Occupancy
         /\ rob_nRetired >= 1 => buffer[head].complete
         /\ rob_nRetired = 2 => buffer[Wrap(head + 1)].complete
         /\ nextHead = Wrap(head + rob_nRetired) /\ nextHead \in ROB_PTR
<1>1. Occupancy \in 0 .. ROB_SIZE /\ head \in ROB_PTR
  BY SizeAssumption DEF CountsAgree, Occupancy, TypeOK
<1>2. /\ rob_nRetired \in 0 .. 2 /\ rob_nRetired <= Occupancy
      /\ rob_nRetired >= 1 => buffer[head].complete
      /\ rob_nRetired = 2 => buffer[Wrap(head + 1)].complete
  BY <1>1, SizeAssumption DEF rob_nRetired, RetireFirst, RetireSecond, head_plus1_ptr,
     Occupancy, CountsAgree
<1>3. Occupied = SlotsIn(head, Occupancy)
  BY DEF Occupied, SlotsIn
<1>4. nextHead = Wrap(head + rob_nRetired) /\ nextHead \in ROB_PTR
  BY RetiredType DEF nextHead
<1> QED BY <1>1, <1>2, <1>3, <1>4

(* The registers that retirement writes: slot head, and the one after it.  *)
LEMMA FreedSlots ==
  ASSUME TypeOK, CountsAgree
  PROVE  /\ Wrap(fl_tail + 1) = head
         /\ Wrap(fl_tail + 2) = Wrap(head + 1)
         /\ RetireSlot(1) = head /\ RetireSlot(2) = Wrap(head + 1)
         /\ Wrap(head + 1) \in ROB_PTR /\ Wrap(head + 1) # head
BY SizeAssumption DEF TypeOK, CountsAgree, RetireSlot, Wrap, FL_PTR, ROB_PTR

LEMMA FirstLeaves ==
  ASSUME TypeOK, CountsAgree, TagsInRing, Occupancy >= 1,
         NEW fr2, NEW am2,
         \A i \in ROB_PTR : fr2[i] = IF i = head THEN freed_reg(buffer[head]) ELSE free[i],
         am2 = Substitute(at_map, buffer[head])
  PROVE  Leaving(head, Olds, free, at_map, fr2, am2)
<1>1. head \in ROB_PTR /\ Olds[head] = buffer[head].tagOld
  BY Counts DEF Olds
<1>2. buffer[head].tag = free[head]
  BY Counts, DistType DEF TagsInRing, SlotsIn
<1> QED BY <1>1, <1>2 DEF Leaving, freed_reg, Substitute

LEMMA RetireKeeps ==
  ASSUME TypeOK, CountsAgree, TagsInRing, Distinct(free, at_map),
         Chained(head, Occupancy, Olds, free, at_map),
         NEW m, NEW l \in rob_nRetired .. ROB_SIZE,
         Fits(m, head, l, Olds, free, at_map),
         ATCycle(Retired, rob_nRetired),
         free' = nextFree(Retired, rob_nRetired)
  PROVE  /\ Distinct(free', at_map')
         /\ Chained(nextHead, Occupancy - rob_nRetired, Olds, free', at_map')
         /\ Fits(m, nextHead, l - rob_nRetired, Olds, free', at_map')
<1> DEFINE k == rob_nRetired
           h1 == Wrap(head + 1)
<1>0. /\ k \in 0 .. 2 /\ k <= Occupancy /\ Occupancy \in 0 .. ROB_SIZE
      /\ head \in ROB_PTR /\ nextHead = Wrap(head + k)
  BY Counts
<1>1. Retired[1] = buffer[head] /\ Retired[2] = buffer[h1]
  BY FreedSlots DEF Retired
<1>2. \A i \in ROB_PTR :
        free'[i] = IF k >= 1 /\ i = head THEN freed_reg(buffer[head])
                   ELSE IF k = 2 /\ i = h1 THEN freed_reg(buffer[h1]) ELSE free[i]
  BY <1>1, FreedSlots DEF nextFree, FL_PTR, ROB_PTR
<1>3. h1 \in ROB_PTR /\ h1 # head /\ Wrap(h1 + 1) = Wrap(head + 2) /\ Wrap(head + 0) = head
  BY <1>0, FreedSlots, WrapTwice
<1>4. CASE k = 0
  <2>1. at_map' = at_map /\ nextHead = head /\ Occupancy - k = Occupancy /\ l - k = l
    BY <1>0, <1>3, <1>4 DEF ATCycle
  <2>2. \A i \in ROB_PTR : free'[i] = free[i]
    BY <1>2, <1>4
  <2>3. Distinct(free', at_map')
    BY <2>1, <2>2 DEF Distinct
  <2>4. \A x, n : Known(x, head, n, Olds, free', at_map') <=> Known(x, head, n, Olds, free, at_map)
    BY <2>1, <2>2 DEF Known, SlotsIn
  <2> QED BY <2>1, <2>3, <2>4 DEF Chained, Fits
<1> DEFINE fr1 == [i \in ROB_PTR |-> IF i = head THEN freed_reg(buffer[head]) ELSE free[i]]
           am1 == Substitute(at_map, buffer[head])
<1>5. CASE k >= 1
  <2>0. l \in 1 .. ROB_SIZE /\ Occupancy \in 1 .. ROB_SIZE
    BY <1>0, <1>5
  <2>1. Leaving(head, Olds, free, at_map, fr1, am1)
    BY <2>0, FirstLeaves
  <2>2. /\ Olds[head] = PHYS_ZERO_REG \/ \E r \in NAMED_REG : at_map[r] = Olds[head]
        /\ Distinct(fr1, am1)
        /\ Chained(h1, Occupancy - 1, Olds, fr1, am1)
    BY <1>0, <2>0, <2>1, LeavingChained
  <2>3. Fits(m, h1, l - 1, Olds, fr1, am1)
    BY <1>0, <2>0, <2>1, <2>2, LeavingFits
  <2>4. CASE k = 1
    <3>1. at_map' = am1 /\ nextHead = h1
      BY <1>0, <1>1, <2>4 DEF ATCycle
    <3>2. \A i \in ROB_PTR : free'[i] = fr1[i]
      BY <1>2, <2>4
    <3> HIDE DEF fr1, am1
    <3>3. Distinct(free', at_map')
      BY <2>2, <3>1, <3>2 DEF Distinct
    <3>4. \A x, n : Known(x, h1, n, Olds, free', at_map') <=> Known(x, h1, n, Olds, fr1, am1)
      BY <3>1, <3>2 DEF Known, SlotsIn
    <3> QED BY <2>2, <2>3, <2>4, <3>1, <3>3, <3>4 DEF Chained, Fits
  <2>5. CASE k = 2
    <3>0. at_map' = Substitute(am1, buffer[h1]) /\ nextHead = Wrap(h1 + 1)
      BY <1>0, <1>1, <1>3, <2>5 DEF ATCycle
    <3>1. /\ Occupancy - 1 \in 1 .. ROB_SIZE /\ l - 1 \in 1 .. ROB_SIZE
          /\ Occupancy - k = (Occupancy - 1) - 1 /\ l - k = (l - 1) - 1
      BY <1>0, <2>0, <2>5, SizeAssumption
    <3>2. h1 \in Occupied
      <4>1. Dist(head, h1) = 1
        BY <1>0, SizeAssumption, DistOf
      <4> QED BY <1>0, <1>3, <2>5, <4>1 DEF Occupied
    <3>3. buffer[h1].tag = free[h1] /\ Olds[h1] = buffer[h1].tagOld
      BY <1>3, <3>2 DEF TagsInRing, Olds
    <3>4. Leaving(h1, Olds, fr1, am1, free', at_map')
      <4>1. \A i \in ROB_PTR : i # h1 => free'[i] = fr1[i]
        BY <1>2, <2>5
      <4>2. free'[h1] = IF Olds[h1] = PHYS_ZERO_REG THEN fr1[h1] ELSE Olds[h1]
        BY <1>2, <1>3, <2>5, <3>3 DEF freed_reg
      <4>3. \A r \in NAMED_REG : at_map'[r] = IF am1[r] = Olds[h1] THEN fr1[h1] ELSE am1[r]
        BY <1>3, <3>0, <3>3 DEF Substitute
      <4> QED BY <4>1, <4>2, <4>3 DEF Leaving
    <3> HIDE DEF fr1, am1, h1
    <3>5. /\ Olds[h1] = PHYS_ZERO_REG \/ \E r \in NAMED_REG : am1[r] = Olds[h1]
          /\ Distinct(free', at_map')
          /\ Chained(nextHead, Occupancy - k, Olds, free', at_map')
      BY <1>3, <2>2, <3>0, <3>1, <3>4, LeavingChained
    <3>6. Fits(m, nextHead, l - k, Olds, free', at_map')
      BY <1>3, <2>2, <2>3, <3>0, <3>1, <3>4, <3>5, LeavingFits
    <3> QED BY <3>5, <3>6
  <2> QED BY <1>0, <1>5, <2>4, <2>5
<1> QED BY <1>0, <1>4, <1>5

-----------------------------------------------------------------------------
(* A clock edge of the rings and the maps on which n instructions enter.   *)
CoreCycle(n, isns, cdb) ==
  /\ ROBCycle(n, isns, fl_freeRegs, mt_dispatchTagOld(isns, fl_freeRegs), cdb)
  /\ FLCycle(n, Retired, rob_nRetired)
  /\ MTCycle(n, isns, fl_freeRegs, cdb)
  /\ ATCycle(Retired, rob_nRetired)

(* Every adder gives what the one number, how many are in flight, says.    *)
LEMMA CoreCounts ==
  ASSUME TypeOK, CountsAgree, NEW n \in 0 .. 2, n <= fl_availableRegs,
         NEW isns, NEW cdb, CoreCycle(n, isns, cdb)
  PROVE  /\ CountsAgree'
         /\ Occupancy' = Occupancy - rob_nRetired + n
         /\ head' = nextHead
         /\ Occupancy + n <= ROB_SIZE
<1> DEFINE k == rob_nRetired
           O == ROB_SIZE - rob_availableSlots
<1>1. k \in 0 .. 2 /\ k <= O /\ O \in 0 .. ROB_SIZE
  BY Counts DEF Occupancy
<1>2. O + n <= ROB_SIZE /\ rob_availableSlots \in 0 .. ROB_SIZE
  BY SizeAssumption DEF CountsAgree
<1>3. /\ head \in 0 .. ROB_SIZE - 1 /\ rob_tail \in 0 .. ROB_SIZE - 1
      /\ fl_head \in 0 .. ROB_SIZE - 1 /\ fl_tail \in 0 .. ROB_SIZE - 1
  BY DEF TypeOK, ROB_PTR, FL_PTR
<1>4. /\ head' = Wrap(head + k) /\ rob_tail' = Wrap(rob_tail + n)
      /\ rob_availableSlots' = Wrap6(rob_availableSlots - n + k)
      /\ fl_head' = Wrap(fl_head + n) /\ fl_tail' = Wrap(fl_tail + k)
      /\ fl_availableRegs' = Wrap6(fl_availableRegs + k - n)
  BY DEF CoreCycle, ROBCycle, FLCycle, nextHead, nextFlTail
<1> HIDE DEF k
<1>5. rob_availableSlots' = rob_availableSlots - n + k /\ fl_availableRegs' = rob_availableSlots'
  BY <1>1, <1>2, <1>4, SizeAssumption DEF CountsAgree, Wrap6
<1>6. rob_availableSlots' \in 0 .. ROB_SIZE
  BY <1>1, <1>2, <1>5, SizeAssumption
<1>7. fl_head' = Wrap(rob_tail' + 1)
  BY <1>1, <1>3, <1>4, SizeAssumption DEF CountsAgree, Wrap
<1>8. head' = Wrap(fl_tail' + 1)
  BY <1>1, <1>3, <1>4, SizeAssumption DEF CountsAgree, Wrap
<1>9. rob_tail = Wrap(head + O - 1)
  BY DEF CountsAgree, Occupancy
<1>10. rob_tail' = Wrap(head' + (O - k + n) - 1)
  BY <1>1, <1>2, <1>3, <1>4, <1>9, SizeAssumption DEF Wrap
<1>11. Occupancy' = O - k + n
  BY <1>1, <1>2, <1>5, SizeAssumption DEF Occupancy
<1>12. CountsAgree'
  BY <1>5, <1>6, <1>7, <1>8, <1>10, <1>11 DEF CountsAgree
<1> QED BY <1>2, <1>4, <1>11, <1>12 DEF k, Occupancy, nextHead

(* Where the instructions that enter go: behind the window, in both rings. *)
LEMMA EntrySlots ==
  ASSUME TypeOK, CountsAgree, NEW k \in 0 .. 2, k <= Occupancy
  PROVE  /\ Occupancy + 1 <= ROB_SIZE =>
              /\ Wrap(rob_tail + 1) = fl_head
              /\ Wrap(Wrap(head + k) + (Occupancy - k)) = fl_head
         /\ Occupancy + 2 <= ROB_SIZE =>
              /\ Wrap(rob_tail + 2) = Wrap(fl_head + 1)
              /\ Wrap(Wrap(head + k) + (Occupancy - k + 1)) = Wrap(fl_head + 1)
              /\ fl_head # Wrap(fl_head + 1)
<1> DEFINE O == ROB_SIZE - rob_availableSlots
<1>1. O \in 0 .. ROB_SIZE /\ k <= O
  BY Counts DEF Occupancy
<1>3. /\ head \in 0 .. ROB_SIZE - 1 /\ rob_tail \in 0 .. ROB_SIZE - 1
      /\ fl_head \in 0 .. ROB_SIZE - 1
  BY DEF TypeOK, ROB_PTR, FL_PTR
<1>4. fl_head = Wrap(rob_tail + 1) /\ rob_tail = Wrap(head + O - 1)
  BY DEF CountsAgree, Occupancy
<1> HIDE DEF O
<1>5. O + 1 <= ROB_SIZE => Wrap(Wrap(head + k) + (O - k)) = fl_head
  BY <1>1, <1>3, <1>4, SizeAssumption DEF Wrap
<1>6. O + 2 <= ROB_SIZE =>
              /\ Wrap(rob_tail + 2) = Wrap(fl_head + 1)
              /\ Wrap(Wrap(head + k) + (O - k + 1)) = Wrap(fl_head + 1)
              /\ fl_head # Wrap(fl_head + 1)
  BY <1>1, <1>3, <1>4, SizeAssumption DEF Wrap
<1> QED BY <1>4, <1>5, <1>6 DEF O, Occupancy

(* Retirement overwrites no register but those of the slots that leave.    *)
LEMMA FreeFrame ==
  ASSUME TypeOK, CountsAgree, free' = nextFree(Retired, rob_nRetired),
         NEW i \in ROB_PTR, Dist(head, i) >= rob_nRetired
  PROVE  free'[i] = free[i]
<1>1. /\ rob_nRetired \in 0 .. 2 /\ head \in ROB_PTR
      /\ Dist(head, head) = 0 /\ Dist(head, Wrap(head + 1)) = 1
  BY Counts, DistType, DistOf, SizeAssumption
<1>2. rob_nRetired >= 1 => i # Wrap(fl_tail + 1)
  BY <1>1, FreedSlots
<1>3. rob_nRetired = 2 => i # Wrap(fl_tail + 2)
  BY <1>1, FreedSlots
<1> QED BY <1>2, <1>3 DEF nextFree, FL_PTR, ROB_PTR

(* What the entries hold after the edge. *)
LEMMA EntriesAfter ==
  ASSUME TypeOK, CountsAgree, NEW isns \in Offers, NEW n \in 0 .. 2, n <= Len(isns),
         n <= fl_availableRegs, NEW cdb, CoreCycle(n, isns, cdb)
  PROVE  LET old == mt_dispatchTagOld(isns, fl_freeRegs)
         IN  /\ \A i \in ROB_PTR : Dist(head, i) < Occupancy =>
                  buffer'[i] = Completed(buffer[i], cdb)
             /\ n >= 1 => buffer'[fl_head] = NewEntry(isns[1], free[fl_head], old[1])
             /\ n = 2 => buffer'[Wrap(fl_head + 1)] =
                           NewEntry(isns[2], free[Wrap(fl_head + 1)], old[2])
<1> DEFINE old == mt_dispatchTagOld(isns, fl_freeRegs)
           s2 == Wrap(fl_head + 1)
<1>1. Occupancy \in 0 .. ROB_SIZE /\ Occupancy + n <= ROB_SIZE
  BY CoreCounts, Counts
<1>2. /\ n >= 1 => Wrap(rob_tail + 1) = fl_head
      /\ n = 2 => Wrap(rob_tail + 2) = s2 /\ fl_head # s2
  BY <1>1, EntrySlots, SizeAssumption
<1>3. n >= 1 => fl_head \in ROB_PTR /\ Dist(head, fl_head) = Occupancy
  <2>1. n >= 1 => Wrap(head + Occupancy) = fl_head
    BY <1>1, EntrySlots, Counts, WrapTwice, SizeAssumption
  <2> QED BY <1>1, <2>1, DistOf, Counts, SizeAssumption
<1>4. n = 2 => s2 \in ROB_PTR /\ Dist(head, s2) = Occupancy + 1
  <2>1. n = 2 => Wrap(head + (Occupancy + 1)) = s2
    BY <1>1, EntrySlots, Counts, WrapTwice, SizeAssumption
  <2> QED BY <1>1, <2>1, DistOf, Counts, SizeAssumption
<1>5. buffer' = nextBuffer(n, isns, fl_freeRegs, old, cdb)
  BY DEF CoreCycle, ROBCycle
<1>6. fl_freeRegs[1] = free[fl_head] /\ fl_freeRegs[2] = free[s2]
  BY DEF fl_freeRegs
<1> HIDE DEF old, s2
<1>7. ASSUME NEW i \in ROB_PTR, Dist(head, i) < Occupancy
      PROVE  buffer'[i] = Completed(buffer[i], cdb)
  <2>1. /\ n >= 1 => i # Wrap(rob_tail + 1)
        /\ n = 2 => i # Wrap(rob_tail + 2)
    BY <1>1, <1>2, <1>3, <1>4, <1>7
  <2> QED BY <1>5, <2>1 DEF nextBuffer
<1>8. n >= 1 => buffer'[fl_head] = NewEntry(isns[1], free[fl_head], old[1])
  BY <1>2, <1>3, <1>5, <1>6 DEF nextBuffer
<1>9. n = 2 => buffer'[s2] = NewEntry(isns[2], free[s2], old[2])
  BY <1>2, <1>4, <1>5, <1>6 DEF nextBuffer
<1> QED BY <1>7, <1>8, <1>9 DEF old, s2

(* The names in the map after the edge, and what the entries replace.      *)
LEMMA NamesAfter ==
  ASSUME TypeOK, NEW isns \in Offers, NEW n \in 0 .. 2, n <= Len(isns), NEW cdb,
         MTCycle(n, isns, fl_freeRegs, cdb)
  PROVE  \A r \in NAMED_REG :
           Names(map')[r] =
             IF n = 2 /\ isns[2].dest = r THEN free[Wrap(fl_head + 1)]
             ELSE IF n >= 1 /\ isns[1].dest = r THEN free[fl_head]
             ELSE Names(map)[r]
<1> SUFFICES ASSUME NEW r \in NAMED_REG
    PROVE  Names(map')[r] =
             IF n = 2 /\ isns[2].dest = r THEN free[Wrap(fl_head + 1)]
             ELSE IF n >= 1 /\ isns[1].dest = r THEN free[fl_head]
             ELSE Names(map)[r]
  OBVIOUS
<1>1. Names(map')[r] = mt_nextMap(map, n, isns, fl_freeRegs, cdb)[r].register
  BY DEF MTCycle, Names
<1>2. CASE n = 2 /\ isns[2].dest = r
  BY <1>1, <1>2 DEF mt_nextMap, Writer, fl_freeRegs
<1>3. CASE ~(n = 2 /\ isns[2].dest = r) /\ n >= 1 /\ isns[1].dest = r
  BY <1>1, <1>3 DEF mt_nextMap, Writer, fl_freeRegs
<1>4. CASE ~(n = 2 /\ isns[2].dest = r) /\ ~(n >= 1 /\ isns[1].dest = r)
  <2>1. Writer(r, n, isns) = 0
    BY <1>4 DEF Writer
  <2> QED BY <1>1, <1>4, <2>1 DEF mt_nextMap, MarkReady, Names
<1> QED BY <1>2, <1>3, <1>4

LEMMA ReplacedBy ==
  ASSUME TypeOK, NEW isns \in Offers
  PROVE  LET old == mt_dispatchTagOld(isns, fl_freeRegs)
             replaced(i) == IF isns[i].dest = ZERO_REG THEN PHYS_ZERO_REG
                            ELSE Names(map)[isns[i].dest]
         IN  /\ \A i \in 1 .. Len(isns) :
                  isns[i].dest = ZERO_REG \/ isns[i].dest \in NAMED_REG
             /\ Len(isns) >= 1 => old[1] = replaced(1)
             /\ Len(isns) = 2 =>
                  old[2] = IF isns[1].dest = isns[2].dest /\ isns[1].dest # ZERO_REG
                             THEN free[fl_head] ELSE replaced(2)
<1> DEFINE old == mt_dispatchTagOld(isns, fl_freeRegs)
           replaced(i) == IF isns[i].dest = ZERO_REG THEN PHYS_ZERO_REG
                          ELSE Names(map)[isns[i].dest]
<1>1. \A i \in 1 .. Len(isns) : isns[i].dest = ZERO_REG \/ isns[i].dest \in NAMED_REG
  <2> SUFFICES ASSUME NEW i \in 1 .. Len(isns)
               PROVE  isns[i].dest = ZERO_REG \/ isns[i].dest \in NAMED_REG
    OBVIOUS
  <2>1. isns[i] \in Instruction
    BY OffersType
  <2>2. isns[i].dest \in ARCH_REG
    BY <2>1 DEF Instruction
  <2> QED BY <2>2, SizeAssumption DEF ARCH_REG, NAMED_REG, ZERO_REG
<1>2. \A i \in 1 .. Len(isns) : Lookup(isns[i].dest) = replaced(i)
  BY <1>1 DEF Lookup, Names
<1>3. Len(isns) \in 0 .. 2 /\ fl_freeRegs[1] = free[fl_head]
  BY OffersType DEF fl_freeRegs
<1> HIDE DEF replaced
<1>4. Len(isns) >= 1 => old[1] = replaced(1)
  BY <1>2, <1>3 DEF mt_dispatchTagOld
<1>5. Len(isns) = 2 =>
        old[2] = IF isns[1].dest = isns[2].dest /\ isns[1].dest # ZERO_REG
                   THEN free[fl_head] ELSE replaced(2)
  BY <1>2, <1>3 DEF mt_dispatchTagOld
<1> QED BY <1>1, <1>4, <1>5 DEF replaced, old

(* The slots left after retirement, seen from the old head and the new.    *)
LEMMA SlotsLeft ==
  ASSUME TypeOK, CountsAgree, NEW l \in rob_nRetired .. ROB_SIZE,
         NEW i \in SlotsIn(nextHead, l - rob_nRetired)
  PROVE  /\ i \in SlotsIn(head, l)
         /\ i \in ROB_PTR /\ Dist(head, i) >= rob_nRetired
         /\ Dist(nextHead, i) = Dist(head, i) - rob_nRetired
<1>1. /\ rob_nRetired \in 0 .. 2 /\ head \in ROB_PTR
      /\ nextHead = Wrap(head + rob_nRetired) /\ nextHead \in ROB_PTR
  BY Counts
<1>2. i \in ROB_PTR /\ Dist(nextHead, i) < l - rob_nRetired
  BY DEF SlotsIn
<1>3. Dist(head, i) \in 0 .. ROB_SIZE - 1
  BY <1>1, <1>2, DistType
<1>4. Dist(head, i) >= rob_nRetired
  BY <1>1, <1>2, <1>3, DistFrom, SizeAssumption
<1>5. Dist(nextHead, i) = Dist(head, i) - rob_nRetired
  BY <1>1, <1>2, <1>4, DistFrom
<1>6. Dist(head, i) < l
  BY <1>1, <1>2, <1>3, <1>5
<1> QED BY <1>2, <1>4, <1>5, <1>6 DEF SlotsIn

LEMMA CoreFits ==
  ASSUME TypeOK, CountsAgree, TagsInRing, Distinct(free, at_map),
         Chained(head, Occupancy, Olds, free, at_map),
         NEW isns \in Offers, NEW n \in 0 .. 2, n <= Len(isns),
         n <= fl_availableRegs, NEW cdb, CoreCycle(n, isns, cdb),
         NEW m, NEW l \in rob_nRetired .. Occupancy,
         Fits(m, head, l, Olds, free, at_map)
  PROVE  Fits(m, head', l - rob_nRetired, Olds', free', at_map')
<1>1. Occupancy \in 0 .. ROB_SIZE /\ rob_nRetired \in 0 .. 2 /\ nextHead \in ROB_PTR
  BY Counts
<1>2. l \in rob_nRetired .. ROB_SIZE /\ l - rob_nRetired \in Int
  BY <1>1, SizeAssumption
<1>3. Fits(m, nextHead, l - rob_nRetired, Olds, free', at_map')
  BY <1>2, RetireKeeps DEF CoreCycle, FLCycle
<1>4. \A i \in SlotsIn(nextHead, l - rob_nRetired) : Olds'[i] = Olds[i]
  <2> SUFFICES ASSUME NEW i \in SlotsIn(nextHead, l - rob_nRetired)
               PROVE  Olds'[i] = Olds[i]
    OBVIOUS
  <2>1. i \in ROB_PTR /\ Dist(head, i) < Occupancy
    <3>1. i \in SlotsIn(head, l)
      BY <1>2, SlotsLeft
    <3> QED BY <1>1, <3>1, DistType, Counts DEF SlotsIn
  <2>2. buffer'[i] = Completed(buffer[i], cdb)
    BY <2>1, EntriesAfter
  <2> QED BY <2>1, <2>2 DEF Olds, Completed
<1>5. head' = nextHead
  BY CoreCounts
<1> QED BY <1>1, <1>2, <1>3, <1>4, <1>5, FitsFrame

(* The names in the map between the two instructions of a cycle.           *)
FirstMap(isns) ==
  [r \in NAMED_REG |-> IF isns[1].dest = r THEN free[fl_head] ELSE Names(map)[r]]

LEMMA CoreKeeps ==
  ASSUME TypeOK, CountsAgree, TagsInRing, Distinct(free, at_map),
         Chained(head, Occupancy, Olds, free, at_map),
         Fits(Names(map), head, Occupancy, Olds, free, at_map),
         NEW isns \in Offers, NEW n \in 0 .. 2, n <= Len(isns),
         n <= fl_availableRegs, NEW cdb, CoreCycle(n, isns, cdb)
  PROVE  /\ Distinct(free', at_map')
         /\ Chained(head', Occupancy', Olds', free', at_map')
         /\ Fits(Names(map'), head', Occupancy', Olds', free', at_map')
         /\ TagsInRing'
         /\ n = 0 => Names(map') = Names(map)
         /\ n >= 1 => /\ Entering(nextHead, Occupancy - rob_nRetired, Olds, free',
                                Names(map), Olds', FirstMap(isns))
                      /\ Fits(FirstMap(isns), nextHead, Occupancy - rob_nRetired + 1,
                              Olds', free', at_map')
         /\ n = 1 => Names(map') = FirstMap(isns)
         /\ n = 2 => Entering(nextHead, Occupancy - rob_nRetired + 1, Olds', free',
                              FirstMap(isns), Olds', Names(map'))
         /\ Fits(Names(map), nextHead, Occupancy - rob_nRetired, Olds', free', at_map')
<1> DEFINE k == rob_nRetired
           h == nextHead
           o == Occupancy - k
           s1 == fl_head
           s2 == Wrap(fl_head + 1)
           old == mt_dispatchTagOld(isns, fl_freeRegs)
<1>1. /\ Occupancy \in 0 .. ROB_SIZE /\ k \in 0 .. 2 /\ k <= Occupancy
      /\ h \in ROB_PTR /\ h = Wrap(head + k)
      /\ head' = h /\ Occupancy' = o + n /\ Occupancy + n <= ROB_SIZE
      /\ o \in 0 .. ROB_SIZE
  BY Counts, CoreCounts, SizeAssumption
<1>2. /\ n >= 1 => s1 = Wrap(h + o) /\ o \in 0 .. ROB_SIZE - 1
      /\ n = 2 => s2 = Wrap(h + (o + 1)) /\ o + 1 \in 0 .. ROB_SIZE - 1
  BY <1>1, EntrySlots, SizeAssumption
<1>3. /\ Distinct(free', at_map')
      /\ Chained(h, o, Olds, free', at_map')
      /\ Fits(Names(map), h, o, Olds, free', at_map')
  BY <1>1, RetireKeeps DEF CoreCycle, FLCycle
<1>4. \A i \in SlotsIn(h, o) : /\ i \in ROB_PTR /\ Dist(head, i) < Occupancy
                               /\ Dist(head, i) >= k
  BY <1>1, SlotsLeft DEF SlotsIn
<1>5. \A i \in SlotsIn(h, o) : /\ Olds'[i] = Olds[i]
                               /\ buffer'[i].tag = buffer[i].tag
                               /\ free'[i] = free[i]
                               /\ i \in Occupied
  <2> SUFFICES ASSUME NEW i \in SlotsIn(h, o)
               PROVE  /\ Olds'[i] = Olds[i]
                      /\ buffer'[i].tag = buffer[i].tag
                      /\ free'[i] = free[i]
                      /\ i \in Occupied
    OBVIOUS
  <2>1. i \in ROB_PTR /\ Dist(head, i) < Occupancy /\ Dist(head, i) >= k
    BY <1>4
  <2>2. buffer'[i] = Completed(buffer[i], cdb)
    BY <2>1, EntriesAfter
  <2>3. free'[i] = free[i]
    BY <2>1, FreeFrame DEF CoreCycle, FLCycle
  <2> QED BY <2>1, <2>2, <2>3 DEF Olds, Completed, Occupied
<1>6. n >= 1 => /\ s1 \in ROB_PTR /\ Olds'[s1] = old[1] /\ free'[s1] = free[s1]
                /\ buffer'[s1].tag = free[s1]
  <2> SUFFICES ASSUME n >= 1
               PROVE  /\ s1 \in ROB_PTR /\ Olds'[s1] = old[1] /\ free'[s1] = free[s1]
                      /\ buffer'[s1].tag = free[s1]
    OBVIOUS
  <2>1. s1 \in ROB_PTR
    BY DEF TypeOK, ROB_PTR, FL_PTR
  <2>2. Dist(head, s1) = Occupancy
    <3>1. Wrap(head + Occupancy) = s1
      BY <1>1, EntrySlots, Counts, WrapTwice, SizeAssumption
    <3> QED BY <1>1, <3>1, DistOf, Counts, SizeAssumption
  <2>3. free'[s1] = free[s1]
    BY <1>1, <2>1, <2>2, FreeFrame DEF CoreCycle, FLCycle
  <2>4. buffer'[s1] = NewEntry(isns[1], free[s1], old[1])
    BY EntriesAfter
  <2> QED BY <2>1, <2>3, <2>4 DEF Olds, NewEntry
<1>7. n = 2 => /\ s2 \in ROB_PTR /\ Olds'[s2] = old[2] /\ free'[s2] = free[s2]
               /\ buffer'[s2].tag = free[s2]
  <2> SUFFICES ASSUME n = 2
               PROVE  /\ s2 \in ROB_PTR /\ Olds'[s2] = old[2] /\ free'[s2] = free[s2]
                      /\ buffer'[s2].tag = free[s2]
    OBVIOUS
  <2>1. Wrap(head + (Occupancy + 1)) = s2
    BY <1>1, EntrySlots, Counts, WrapTwice, SizeAssumption
  <2>2. s2 \in ROB_PTR /\ Dist(head, s2) = Occupancy + 1
    BY <1>1, <2>1, DistOf, Counts, SizeAssumption
  <2>3. free'[s2] = free[s2]
    BY <1>1, <2>2, FreeFrame DEF CoreCycle, FLCycle
  <2>4. buffer'[s2] = NewEntry(isns[2], free[s2], old[2])
    BY EntriesAfter
  <2> QED BY <2>2, <2>3, <2>4 DEF Olds, NewEntry
<1>8. /\ n >= 1 => \A i : i \in SlotsIn(h, o + 1) <=> i \in SlotsIn(h, o) \/ i = s1
      /\ n = 2 => \A i : i \in SlotsIn(h, o + 2) <=> i \in SlotsIn(h, o) \/ i = s1 \/ i = s2
  <2>1. n >= 1 => \A i : i \in SlotsIn(h, o + 1) <=> i \in SlotsIn(h, o) \/ i = s1
    BY <1>1, <1>2, SlotsAfterEntering
  <2>2. n = 2 => \A i : i \in SlotsIn(h, (o + 1) + 1) <=> i \in SlotsIn(h, o + 1) \/ i = s2
    BY <1>1, <1>2, SlotsAfterEntering
  <2>3. (o + 1) + 1 = o + 2
    BY <1>1
  <2> QED BY <2>1, <2>2, <2>3
<1>9. TagsInRing'
  <2>1. Occupied' = SlotsIn(h, o + n)
    BY <1>1 DEF Occupied, SlotsIn
  <2>2. \A i \in SlotsIn(h, o) : buffer'[i].tag = free'[i]
    BY <1>5 DEF TagsInRing
  <2>3. n = 0 => o + n = o
    BY <1>1
  <2>4. \A i \in SlotsIn(h, o + n) : buffer'[i].tag = free'[i]
    BY <1>6, <1>7, <1>8, <2>2, <2>3
  <2> QED BY <2>1, <2>4 DEF TagsInRing
<1> DEFINE m1 == FirstMap(isns)
<1>m. \A r \in NAMED_REG : m1[r] = IF isns[1].dest = r THEN free[s1] ELSE Names(map)[r]
  BY DEF FirstMap
<1>10. n >= 1 => Entering(h, o, Olds, free', Names(map), Olds', m1)
  <2> SUFFICES ASSUME n >= 1 PROVE Entering(h, o, Olds, free', Names(map), Olds', m1)
    OBVIOUS
  <2>1. Len(isns) >= 1 /\ 1 \in 1 .. Len(isns)
    BY OffersType
  <2>2. /\ isns[1].dest = ZERO_REG \/ isns[1].dest \in NAMED_REG
        /\ old[1] = IF isns[1].dest = ZERO_REG THEN PHYS_ZERO_REG
                    ELSE Names(map)[isns[1].dest]
    BY <2>1, ReplacedBy
  <2>3. CASE isns[1].dest = ZERO_REG
    <3>1. \A r \in NAMED_REG : m1[r] = Names(map)[r]
      BY <1>m, <2>3, SizeAssumption DEF NAMED_REG, ZERO_REG
    <3> QED BY <1>2, <1>5, <1>6, <2>2, <2>3, <3>1 DEF Entering
  <2>4. CASE isns[1].dest # ZERO_REG
    <3>1. /\ isns[1].dest \in NAMED_REG
          /\ Olds'[s1] = Names(map)[isns[1].dest] /\ m1[isns[1].dest] = free'[s1]
          /\ \A r \in NAMED_REG \ {isns[1].dest} : m1[r] = Names(map)[r]
      BY <1>m, <1>6, <2>2, <2>4
    <3> QED BY <1>2, <1>5, <3>1 DEF Entering
  <2> QED BY <2>3, <2>4
<1>11. n = 2 => Entering(h, o + 1, Olds', free', m1, Olds', Names(map'))
  <2> SUFFICES ASSUME n = 2 PROVE Entering(h, o + 1, Olds', free', m1, Olds', Names(map'))
    OBVIOUS
  <2>1. Len(isns) = 2 /\ 1 \in 1 .. Len(isns) /\ 2 \in 1 .. Len(isns)
    BY OffersType
  <2>2. /\ isns[2].dest = ZERO_REG \/ isns[2].dest \in NAMED_REG
        /\ old[2] = IF isns[1].dest = isns[2].dest /\ isns[1].dest # ZERO_REG
                      THEN free[s1]
                    ELSE IF isns[2].dest = ZERO_REG THEN PHYS_ZERO_REG
                    ELSE Names(map)[isns[2].dest]
    BY <2>1, ReplacedBy
  <2>3. \A r \in NAMED_REG :
          Names(map')[r] = IF isns[2].dest = r THEN free[s2] ELSE m1[r]
    BY <1>m, NamesAfter DEF CoreCycle
  <2>4. CASE isns[2].dest = ZERO_REG
    <3>1. \A r \in NAMED_REG : Names(map')[r] = m1[r]
      BY <2>3, <2>4, SizeAssumption DEF NAMED_REG, ZERO_REG
    <3>2. Olds'[s2] = PHYS_ZERO_REG
      BY <1>7, <2>2, <2>4
    <3> QED BY <1>2, <3>1, <3>2 DEF Entering
  <2>5. CASE isns[2].dest # ZERO_REG
    <3>1. isns[2].dest \in NAMED_REG
      BY <2>2, <2>5
    <3>2. Olds'[s2] = m1[isns[2].dest]
      BY <1>m, <1>7, <2>2, <2>5, <3>1
    <3>3. /\ Names(map')[isns[2].dest] = free'[s2]
          /\ \A r \in NAMED_REG \ {isns[2].dest} : Names(map')[r] = m1[r]
      BY <1>7, <2>3, <3>1
    <3> HIDE DEF m1
    <3> QED BY <1>2, <3>1, <3>2, <3>3 DEF Entering
  <2> QED BY <2>4, <2>5
<1>12. Fits(Names(map), h, o, Olds', free', at_map') /\ Chained(h, o, Olds', free', at_map')
  BY <1>1, <1>3, <1>5, FitsFrame, ChainedFrame
<1>13. n >= 1 => /\ Chained(h, o + 1, Olds', free', at_map')
                 /\ Fits(m1, h, o + 1, Olds', free', at_map')
  <2> HIDE DEF m1, h, o
  <2> QED BY <1>1, <1>2, <1>3, <1>10, EnteringKeeps
<1>14. /\ n = 0 => Names(map') = Names(map)
       /\ n = 1 => Names(map') = m1
  <2>1. n = 0 => \A r \in NAMED_REG : Names(map')[r] = Names(map)[r]
    BY NamesAfter DEF CoreCycle
  <2>2. n = 1 => \A r \in NAMED_REG : Names(map')[r] = m1[r]
    BY <1>m, NamesAfter DEF CoreCycle
  <2> QED BY <2>1, <2>2 DEF Names, FirstMap
<1>15. /\ Chained(h, o + n, Olds', free', at_map')
       /\ Fits(Names(map'), h, o + n, Olds', free', at_map')
  <2>1. CASE n = 0
    <3>1. o + n = o
      BY <1>1, <2>1
    <3> QED BY <1>12, <1>14, <2>1, <3>1
  <2>2. CASE n = 1
    BY <1>13, <1>14, <2>2
  <2>3. CASE n = 2
    <3>1. o + n = (o + 1) + 1
      BY <1>1, <2>3
    <3> HIDE DEF m1, h, o
    <3> QED BY <1>1, <1>2, <1>3, <1>11, <1>13, <2>3, <3>1, EnteringKeeps
  <2> QED BY <2>1, <2>2, <2>3
<1> HIDE DEF m1
<1>16. /\ n >= 1 => /\ Entering(h, o, Olds, free', Names(map), Olds', m1)
                    /\ Fits(m1, h, o + 1, Olds', free', at_map')
       /\ n = 1 => Names(map') = m1
       /\ n = 2 => Entering(h, o + 1, Olds', free', m1, Olds', Names(map'))
  BY <1>10, <1>11, <1>13, <1>14
<1> QED BY <1>1, <1>3, <1>9, <1>12, <1>14, <1>15, <1>16 DEF m1

-----------------------------------------------------------------------------
(* A clock edge on which the branch in slot b is found mispredicted.       *)
(* Retirement stops short of a branch that has not completed.               *)
LEMMA BranchStays ==
  ASSUME TypeOK, CountsAgree, CheckpointsOrdered, BranchesWait, NEW b \in bs_bmask
  PROVE  /\ rob_nRetired <= Age(b) /\ Age(b) < Occupancy
         /\ Age(b) \in 0 .. ROB_SIZE - 1
         /\ bs_stack[b].rob_tail \in ROB_PTR
         /\ bs_stack[b].rob_tail = Wrap(head + Age(b))
         /\ bs_stack[b].fl_head = Wrap(bs_stack[b].rob_tail + 1)
<1> DEFINE t == bs_stack[b].rob_tail
<1>1. t \in Occupied /\ ~buffer[t].complete /\ bs_stack[b].fl_head = Wrap(t + 1)
  BY DEF CheckpointsOrdered, BranchesWait
<1>2. t \in ROB_PTR /\ Age(b) < Occupancy /\ Age(b) = Dist(head, t)
  BY <1>1 DEF Occupied, Age
<1>3. /\ rob_nRetired \in 0 .. 2 /\ head \in ROB_PTR
      /\ rob_nRetired >= 1 => buffer[head].complete
      /\ rob_nRetired = 2 => buffer[Wrap(head + 1)].complete
  BY Counts
<1>4. Age(b) \in 0 .. ROB_SIZE - 1 /\ t = Wrap(head + Age(b))
  BY <1>2, <1>3, DistType, DistDetermines
<1>5. Age(b) = 0 => t = head
  BY <1>2, <1>3, DistType
<1>6. rob_nRetired <= Age(b)
  <2>1. rob_nRetired >= 1 => Age(b) # 0
    BY <1>1, <1>3, <1>5
  <2>2. rob_nRetired = 2 => Age(b) # 1
    BY <1>1, <1>3, <1>4
  <2> QED BY <1>3, <1>4, <2>1, <2>2
<1> QED BY <1>1, <1>2, <1>4, <1>6

(* The reorder buffer is left with what is not younger than the branch.    *)
LEMMA RecoverCounts ==
  ASSUME TypeOK, CountsAgree, CheckpointsOrdered, BranchesWait, NEW b \in bs_bmask,
         NEW cdb, ROBRecover(bs_stack[b].rob_tail, cdb)
  PROVE  /\ head' = nextHead
         /\ rob_availableSlots' = ROB_SIZE - (Age(b) + 1 - rob_nRetired)
         /\ rob_availableSlots' \in 0 .. ROB_SIZE
         /\ Occupancy' = Age(b) + 1 - rob_nRetired
         /\ rob_tail' = Wrap(nextHead + Occupancy' - 1)
<1> DEFINE k == rob_nRetired
           t == bs_stack[b].rob_tail
           a == Age(b)
<1>1. /\ k \in 0 .. 2 /\ k <= a /\ a \in 0 .. ROB_SIZE - 1
      /\ head \in 0 .. ROB_SIZE - 1 /\ t \in 0 .. ROB_SIZE - 1
      /\ t = Wrap(head + a) /\ nextHead = Wrap(head + k)
  BY Counts, BranchStays DEF ROB_PTR
<1>2. head' = nextHead /\ rob_tail' = t /\ rob_availableSlots' = recovAvailableSlots(t)
  BY DEF ROBRecover
<1> HIDE DEF k, t, a
<1>3. recovAvailableSlots(t) = ROB_SIZE - (a + 1 - k)
  BY <1>1, SizeAssumption DEF recovAvailableSlots, Wrap
<1>4. t = Wrap(nextHead + (a + 1 - k) - 1)
  BY <1>1, SizeAssumption DEF Wrap
<1>5. ROB_SIZE - (a + 1 - k) \in 0 .. ROB_SIZE
  BY <1>1, SizeAssumption
<1>6. Occupancy' = a + 1 - k
  BY <1>1, <1>2, <1>3, SizeAssumption DEF Occupancy
<1> QED BY <1>2, <1>3, <1>4, <1>5, <1>6 DEF k, t, a

LEMMA WrongCounts ==
  ASSUME TypeOK, CountsAgree, CheckpointsOrdered, BranchesWait, NEW b \in bs_bmask,
         NEW cdb, Wrong(b, cdb), ~Miscounted(b)
  PROVE  CountsAgree'
<1> DEFINE k == rob_nRetired
           o == Age(b) + 1 - k
           f == bs_stack[b].fl_head
           t == nextFlTail(k)
<1>1. /\ head' = nextHead /\ rob_availableSlots' = ROB_SIZE - o
      /\ rob_availableSlots' \in 0 .. ROB_SIZE
      /\ Occupancy' = o /\ rob_tail' = Wrap(nextHead + Occupancy' - 1)
  BY RecoverCounts DEF Wrong
<1>2. /\ fl_head' = f /\ fl_tail' = t
      /\ fl_availableRegs' = recovAvailableRegs(f, t)
  BY DEF Wrong, FLRecover
<1>3. /\ nextHead \in 0 .. ROB_SIZE - 1 /\ o \in 1 .. ROB_SIZE
      /\ bs_stack[b].rob_tail = rob_tail' /\ rob_tail' \in 0 .. ROB_SIZE - 1
      /\ f = Wrap(rob_tail' + 1)
  <2>1. rob_tail' = bs_stack[b].rob_tail
    BY DEF Wrong, ROBRecover
  <2>2. o \in 1 .. ROB_SIZE
    BY BranchStays, Counts, SizeAssumption
  <2> QED BY <2>1, <2>2, BranchStays, Counts DEF ROB_PTR
<1>4. nextHead = Wrap(t + 1) /\ t \in 0 .. ROB_SIZE - 1
  <2>1. /\ fl_tail \in 0 .. ROB_SIZE - 1 /\ head = Wrap(fl_tail + 1)
        /\ k \in 0 .. 2 /\ nextHead = Wrap(head + k)
    BY Counts DEF TypeOK, CountsAgree, FL_PTR
  <2> QED BY <2>1, SizeAssumption DEF Wrap, nextFlTail
<1>5. ~(rob_tail' = Wrap(nextHead - 1) /\ f # 0)
  BY <1>3 DEF Miscounted
<1> HIDE DEF o, f, t
<1>6. rob_tail' = Wrap(nextHead + o - 1)
  BY <1>1
<1>7. recovAvailableRegs(f, t) = ROB_SIZE - o
  BY <1>3, <1>4, <1>5, <1>6, SizeAssumption DEF recovAvailableRegs, Wrap, Wrap6
<1> QED BY <1>1, <1>2, <1>3, <1>4, <1>7 DEF CountsAgree

LEMMA CompletedSame ==
  ASSUME NEW cdb, buffer' = [i \in ROB_PTR |-> Completed(buffer[i], cdb)]
  PROVE  Olds' = Olds /\ \A i \in ROB_PTR : buffer'[i].tag = buffer[i].tag
BY DEF Olds, Completed

LEMMA MarkReadyNames ==
  ASSUME NEW m, NEW cdb
  PROVE  Names(MarkReady(m, cdb)) = Names(m)
BY DEF Names, MarkReady

LEMMA WrongKeeps ==
  ASSUME TypeOK, RingInv, NEW b \in bs_bmask, NEW cdb, Wrong(b, cdb), Occupancy' = Age(b) + 1 - rob_nRetired
  PROVE  /\ Distinct(free', at_map')
         /\ Chained(head', Occupancy', Olds', free', at_map')
         /\ Fits(Names(map'), head', Occupancy', Olds', free', at_map')
         /\ TagsInRing'
<1> DEFINE k == rob_nRetired
           l == Age(b) + 1
           o == l - k
<1>0. /\ CountsAgree /\ CheckpointsOrdered /\ BranchesWait /\ TagsInRing
      /\ Distinct(free, at_map) /\ Chained(head, Occupancy, Olds, free, at_map)
      /\ Fits(Names(map), head, Occupancy, Olds, free, at_map)
      /\ Fits(Names(bs_stack[b].map), head, l, Olds, free, at_map)
  BY DEF RingInv, MapsFit
<1>1. /\ k \in 0 .. 2 /\ k <= Age(b) /\ Age(b) < Occupancy /\ Occupancy \in 0 .. ROB_SIZE
      /\ Age(b) \in 0 .. ROB_SIZE - 1 /\ nextHead \in ROB_PTR
  BY <1>0, BranchStays, Counts
<1>2. l \in k .. ROB_SIZE /\ l <= Occupancy /\ o \in Int /\ Occupancy - k \in Int /\ o <= Occupancy - k
  BY <1>1, SizeAssumption
<1>3. /\ head' = nextHead /\ Occupancy' = o
      /\ ATCycle(Retired, k) /\ free' = nextFree(Retired, k)
  <2>1. Occupancy' = o
    BY <1>1, SizeAssumption
  <2>2. /\ head' = nextHead
        /\ ATCycle(Retired, k) /\ free' = nextFree(Retired, k)
    BY DEF Wrong, ROBRecover, FLRecover
  <2> QED BY <2>1, <2>2
<1> HIDE DEF l
<1>4. buffer' = [i \in ROB_PTR |-> Completed(buffer[i], cdb)]
  BY DEF Wrong, ROBRecover
<1>5. Olds' = Olds /\ \A i \in ROB_PTR : buffer'[i].tag = buffer[i].tag
  BY <1>4, CompletedSame
<1>6. /\ Distinct(free', at_map')
      /\ Chained(nextHead, Occupancy - k, Olds, free', at_map')
      /\ Fits(Names(bs_stack[b].map), nextHead, o, Olds, free', at_map')
  BY <1>0, <1>2, <1>3, RetireKeeps
<1>7. Chained(nextHead, o, Olds, free', at_map')
  BY <1>1, <1>2, <1>6, ChainedFrame
<1>8. \A r \in NAMED_REG : Names(map')[r] = Names(bs_stack[b].map)[r]
  BY DEF Wrong, MTRecover, mt_nextMap, Writer, MarkReady, Names
<1>9. Fits(Names(map'), nextHead, o, Olds, free', at_map')
  BY <1>1, <1>2, <1>6, <1>8, FitsFrame
<1>10. TagsInRing'
  <2>1. Occupied' = SlotsIn(nextHead, o)
    BY <1>3 DEF Occupied, SlotsIn
  <2>2. \A i \in SlotsIn(nextHead, o) : buffer'[i].tag = free'[i]
    <3> SUFFICES ASSUME NEW i \in SlotsIn(nextHead, o) PROVE buffer'[i].tag = free'[i]
      OBVIOUS
    <3>1. i \in ROB_PTR /\ Dist(head, i) >= k /\ i \in SlotsIn(head, l)
      BY <1>0, <1>2, SlotsLeft
    <3>2. i \in Occupied
      BY <1>0, <1>1, <1>2, <3>1, DistType, Counts DEF Occupied, SlotsIn
    <3>3. free'[i] = free[i]
      BY <1>0, <1>3, <3>1, FreeFrame
    <3> QED BY <1>0, <1>5, <3>1, <3>2, <3>3 DEF TagsInRing
  <2> QED BY <2>1, <2>2 DEF TagsInRing
<1> QED BY <1>3, <1>5, <1>6, <1>7, <1>9, <1>10

-----------------------------------------------------------------------------
(* The checkpoints.  What dispatch leaves in a slot of the branch stack.   *)
LEMMA FilledFields ==
  ASSUME TypeOK, NEW isns \in Offers, NEW rs \in RSFree, NEW h, NEW t, NEW m, NEW cdb,
         NEW b \in BS_PTR
  PROVE  LET n == haz_nDispatched(isns, rs)
             F == Filled(b, n, isns, h, t, m, cdb)
         IN  /\ b \in bs_bmask =>
                  /\ F.fl_head = bs_stack[b].fl_head
                  /\ F.rob_tail = bs_stack[b].rob_tail
                  /\ F.map = MarkReady(bs_stack[b].map, cdb)
             /\ BranchDispatched(n, isns) /\ b = bs_ptr =>
                  /\ F.fl_head = Wrap(h + n)
                  /\ F.rob_tail = Wrap(t + n)
                  /\ F.map = MarkReady(m, cdb)
<1> DEFINE n == haz_nDispatched(isns, rs)
           pushed == BranchDispatched(n, isns)
           e == IF pushed /\ b = bs_ptr THEN Checkpoint(n, h, t, m) ELSE bs_stack[b]
           F == Filled(b, n, isns, h, t, m, cdb)
<1>1. pushed => bs_ptr \notin bs_bmask
  BY BranchOffered
<1>2. F = IF e.valid THEN [e EXCEPT !.map = MarkReady(@, cdb)] ELSE NoEntry
  BY DEF Filled
<1>3. CASE pushed /\ b = bs_ptr
  <2>1. e = Checkpoint(n, h, t, m)
    BY <1>3
  <2>2. /\ F.fl_head = Wrap(h + n) /\ F.rob_tail = Wrap(t + n)
        /\ F.map = MarkReady(m, cdb)
    BY <1>2, <2>1 DEF Checkpoint
  <2> QED BY <1>1, <1>3, <2>2
<1>4. CASE ~(pushed /\ b = bs_ptr) /\ b \in bs_bmask
  <2>1. e = bs_stack[b] /\ e \in BSEntry /\ e.valid
    BY <1>4 DEF bs_bmask, TypeOK
  <2>2. /\ F.fl_head = bs_stack[b].fl_head /\ F.rob_tail = bs_stack[b].rob_tail
        /\ F.map = MarkReady(bs_stack[b].map, cdb)
    BY <1>2, <2>1 DEF BSEntry
  <2> QED BY <1>4, <2>2
<1> QED BY <1>3, <1>4

(* A broadcast completes the instructions it is for and nobody else, since *)
(* no two instructions in flight have the same tag.                         *)
LEMMA NotBroadcast ==
  ASSUME TypeOK, TagsInRing, Distinct(free, at_map),
         NEW slots \in SUBSET Occupied, NEW cdb \in Broadcasts(slots),
         NEW i \in Occupied, i \notin slots
  PROVE  buffer[i].tag \notin cdb
<1>1. \A j \in slots : buffer[j].tag # buffer[i].tag
  BY DEF TagsInRing, Distinct, Occupied
<1>2. ASSUME NEW x \in cdb PROVE \E j \in slots : x = buffer[j].tag
  BY DEF Broadcasts
<1> QED BY <1>1, <1>2

LEMMA WaitingInFlight ==
  ASSUME NEW R
  PROVE  /\ Waiting(R) \in SUBSET Occupied
         /\ \A b \in bs_bmask \ R : bs_stack[b].rob_tail \notin Waiting(R)
BY DEF Waiting

LEMMA BranchNotBroadcast ==
  ASSUME TypeOK, RingInv, NEW R, NEW slots \in SUBSET Waiting(R),
         NEW cdb \in Broadcasts(slots), NEW b \in bs_bmask \ R
  PROVE  ~Completed(buffer[bs_stack[b].rob_tail], cdb).complete
<1> DEFINE t == bs_stack[b].rob_tail
<1>1. t \in Occupied /\ ~buffer[t].complete
  BY DEF RingInv, CheckpointsOrdered, BranchesWait
<1>2. slots \in SUBSET Occupied /\ t \notin slots
  BY WaitingInFlight
<1>3. buffer[t].tag \notin cdb
  BY <1>1, <1>2, NotBroadcast DEF RingInv
<1> QED BY <1>1, <1>3 DEF Completed

LEMMA AgeAfter ==
  ASSUME TypeOK, RingInv, NEW b \in bs_bmask, head' = nextHead,
         bs_stack'[b].rob_tail = bs_stack[b].rob_tail
  PROVE  /\ Age(b)' = Age(b) - rob_nRetired
         /\ Age(b) - rob_nRetired \in 0 .. ROB_SIZE - 1
<1>1. /\ rob_nRetired <= Age(b) /\ Age(b) \in 0 .. ROB_SIZE - 1
      /\ bs_stack[b].rob_tail \in ROB_PTR
      /\ rob_nRetired \in 0 .. 2 /\ head \in ROB_PTR /\ nextHead = Wrap(head + rob_nRetired)
  BY BranchStays, Counts DEF RingInv
<1>2. Dist(nextHead, bs_stack[b].rob_tail) = Dist(head, bs_stack[b].rob_tail) - rob_nRetired
  BY <1>1, DistFrom DEF Age
<1> QED BY <1>1, <1>2, SizeAssumption DEF Age

(* What a cycle with dispatch does to the branch stack when the branches   *)
(* in R resolve.                                                            *)
StackCycle(n, isns, R, cdb) ==
  /\ bs_bmask' = Pushed(n, isns) \ R
  /\ \A b \in bs_bmask \ R :
       /\ bs_stack'[b].rob_tail = bs_stack[b].rob_tail
       /\ bs_stack'[b].fl_head = bs_stack[b].fl_head
       /\ bs_stack'[b].map = MarkReady(bs_stack[b].map, cdb)
       /\ bs_stack'[b].bmask = bs_stack[b].bmask \ R
  /\ BranchDispatched(n, isns) =>
       /\ bs_ptr \in BS_PTR /\ bs_ptr \notin bs_bmask
       /\ bs_stack'[bs_ptr].rob_tail = Wrap(rob_tail + n)
       /\ bs_stack'[bs_ptr].fl_head = Wrap(fl_head + n)
       /\ bs_stack'[bs_ptr].map = MarkReady(map', cdb)
       /\ bs_stack'[bs_ptr].bmask = bs_bmask \ R

LEMMA DispatchStack ==
  ASSUME TypeOK, NEW isns \in Offers, NEW rs \in RSFree, NEW cdb,
         Dispatch(isns, rs, cdb)
  PROVE  StackCycle(haz_nDispatched(isns, rs), isns, {}, cdb)
<1> DEFINE n == haz_nDispatched(isns, rs)
           F(b) == Filled(b, n, isns, fl_head, rob_tail, map', cdb)
<1>1. bs_stack' = [b \in BS_PTR |-> F(b)]
  BY DEF Dispatch, BSCycle
<1>2. \A b \in BS_PTR :
        /\ F(b).valid <=> b \in bs_bmask \/ (BranchDispatched(n, isns) /\ b = bs_ptr)
        /\ b \in bs_bmask => F(b).bmask = bs_stack[b].bmask
        /\ BranchDispatched(n, isns) /\ b = bs_ptr => F(b).bmask = bs_bmask
  BY FilledEffect
<1>3. \A b \in BS_PTR :
        /\ b \in bs_bmask =>
             /\ F(b).fl_head = bs_stack[b].fl_head
             /\ F(b).rob_tail = bs_stack[b].rob_tail
             /\ F(b).map = MarkReady(bs_stack[b].map, cdb)
        /\ BranchDispatched(n, isns) /\ b = bs_ptr =>
             /\ F(b).fl_head = Wrap(fl_head + n)
             /\ F(b).rob_tail = Wrap(rob_tail + n)
             /\ F(b).map = MarkReady(map', cdb)
  BY FilledFields
<1>4. BranchDispatched(n, isns) => bs_ptr \in BS_PTR /\ bs_ptr \notin bs_bmask
  BY BranchOffered
<1>5. bs_bmask \subseteq BS_PTR
  BY DEF bs_bmask
<1> HIDE DEF F, n
<1>6. bs_bmask' = Pushed(n, isns)
  BY <1>1, <1>2, <1>4, <1>5 DEF bs_bmask, Pushed
<1> QED BY <1>1, <1>2, <1>3, <1>4, <1>5, <1>6 DEF StackCycle, n

LEMMA CorrectStack ==
  ASSUME TypeOK, TypeOK', NEW br \in bs_bmask, NEW isns \in Offers, NEW rs \in RSFree,
         NEW cdb, Correct(br, isns, rs, cdb)
  PROVE  StackCycle(haz_nDispatched(isns, rs), isns, {br}, cdb)
<1> DEFINE n == haz_nDispatched(isns, rs)
           F(b) == Filled(b, n, isns, fl_head, rob_tail, map', cdb)
<1>1. bs_stack' = [b \in BS_PTR |-> IF b = br THEN NoEntry
                                   ELSE [F(b) EXCEPT !.bmask = @ \ {br}]]
  BY DEF Correct, BSCorrect
<1>2. \A b \in BS_PTR :
        /\ F(b).valid <=> b \in bs_bmask \/ (BranchDispatched(n, isns) /\ b = bs_ptr)
        /\ b \in bs_bmask => F(b).bmask = bs_stack[b].bmask
        /\ BranchDispatched(n, isns) /\ b = bs_ptr => F(b).bmask = bs_bmask
  BY FilledEffect
<1>3. \A b \in BS_PTR :
        /\ b \in bs_bmask =>
             /\ F(b).fl_head = bs_stack[b].fl_head
             /\ F(b).rob_tail = bs_stack[b].rob_tail
             /\ F(b).map = MarkReady(bs_stack[b].map, cdb)
        /\ BranchDispatched(n, isns) /\ b = bs_ptr =>
             /\ F(b).fl_head = Wrap(fl_head + n)
             /\ F(b).rob_tail = Wrap(rob_tail + n)
             /\ F(b).map = MarkReady(map', cdb)
  BY FilledFields
<1>4. BranchDispatched(n, isns) => bs_ptr \in BS_PTR /\ bs_ptr \notin bs_bmask
  BY BranchOffered
<1>5. bs_bmask \subseteq BS_PTR
  BY DEF bs_bmask
<1>6. \A b \in BS_PTR : F(b) \in BSEntry
  <2>1. map' \in RegisterMap
    BY DEF TypeOK
  <2> QED BY <2>1, DispatchedType, FilledType DEF TypeOK
<1> HIDE DEF F, n
<1>7. \A b \in BS_PTR \ {br} : /\ bs_stack'[b].valid = F(b).valid
                               /\ bs_stack'[b].fl_head = F(b).fl_head
                               /\ bs_stack'[b].rob_tail = F(b).rob_tail
                               /\ bs_stack'[b].map = F(b).map
                               /\ bs_stack'[b].bmask = F(b).bmask \ {br}
  BY <1>1, <1>6 DEF BSEntry
<1>8. bs_stack'[br].valid = FALSE
  BY <1>1, <1>5 DEF NoEntry
<1>9. bs_bmask' = Pushed(n, isns) \ {br}
  BY <1>2, <1>4, <1>5, <1>7, <1>8 DEF bs_bmask, Pushed
<1> QED BY <1>2, <1>3, <1>4, <1>5, <1>7, <1>9 DEF StackCycle, n

LEMMA BranchEntryWaits ==
  ASSUME NEW isn \in Insns, isn.branch, NEW tag, NEW tagOld
  PROVE  NewEntry(isn, tag, tagOld).complete = FALSE
<1>1. isn \in Instruction /\ ~isn.halt /\ ~isn.noop
  BY EnvironmentAssumption
<1>2. isn.halt = FALSE /\ isn.noop = FALSE
  BY <1>1 DEF Instruction
<1>3. (isn.halt \/ isn.noop) = FALSE
  BY <1>2
<1> QED BY <1>3 DEF NewEntry

LEMMA CheckpointsAfter ==
  ASSUME TypeOK, RingInv, NEW isns \in Offers, NEW n \in 0 .. 2, n <= Len(isns),
         n <= fl_availableRegs, NEW R \in SUBSET bs_bmask,
         NEW cdb \in Broadcasts(Waiting(R)), CoreCycle(n, isns, cdb),
         StackCycle(n, isns, R, cdb), NEW b \in bs_bmask'
  PROVE  /\ bs_stack'[b].rob_tail \in Occupied'
         /\ bs_stack'[b].fl_head = Wrap(bs_stack'[b].rob_tail + 1)
         /\ bs_stack'[b].bmask = {c \in bs_bmask' : Age(c)' < Age(b)'}
         /\ ~buffer'[bs_stack'[b].rob_tail].complete
         /\ Fits(Names(bs_stack'[b].map), head', Age(b)' + 1, Olds', free', at_map')
<1> DEFINE k == rob_nRetired
<1>0. /\ CountsAgree /\ CheckpointsOrdered /\ BranchesWait /\ TagsInRing
      /\ Distinct(free, at_map) /\ Chained(head, Occupancy, Olds, free, at_map)
      /\ MapsFit
  BY DEF RingInv
<1>1. /\ CountsAgree' /\ Occupancy' = Occupancy - k + n /\ head' = nextHead
      /\ Occupancy + n <= ROB_SIZE /\ Occupancy \in 0 .. ROB_SIZE
      /\ k \in 0 .. 2 /\ k <= Occupancy /\ nextHead \in ROB_PTR /\ head \in ROB_PTR
  BY <1>0, CoreCounts, Counts
<1>2. \A c \in bs_bmask \ R : /\ Age(c)' = Age(c) - k /\ Age(c) \in k .. Occupancy - 1
                              /\ c \in bs_bmask' /\ c \in bs_bmask
  <2> SUFFICES ASSUME NEW c \in bs_bmask \ R
               PROVE  /\ Age(c)' = Age(c) - k /\ Age(c) \in k .. Occupancy - 1
                      /\ c \in bs_bmask' /\ c \in bs_bmask
    OBVIOUS
  <2>1. bs_stack'[c].rob_tail = bs_stack[c].rob_tail
    BY DEF StackCycle
  <2>2. c \in bs_bmask'
    BY DEF StackCycle, Pushed
  <2> QED BY <1>0, <1>1, <2>1, <2>2, AgeAfter, BranchStays
<1>p. PICK p : p = bs_ptr
  OBVIOUS
<1>3. bs_bmask' = IF BranchDispatched(n, isns) THEN (bs_bmask \ R) \cup {p} ELSE bs_bmask \ R
  BY <1>p DEF StackCycle, Pushed
<1>4. BranchDispatched(n, isns) =>
        /\ n >= 1 /\ p \notin bs_bmask
        /\ Age(p)' = Occupancy' - 1
        /\ bs_stack'[p].rob_tail = rob_tail'
        /\ rob_tail' \in ROB_PTR
  <2> SUFFICES ASSUME BranchDispatched(n, isns)
      PROVE  /\ n >= 1 /\ p \notin bs_bmask
             /\ Age(p)' = Occupancy' - 1
             /\ bs_stack'[p].rob_tail = rob_tail'
             /\ rob_tail' \in ROB_PTR
    OBVIOUS
  <2>1. n >= 1 /\ p \notin bs_bmask /\ bs_stack'[p].rob_tail = Wrap(rob_tail + n)
    BY <1>p DEF BranchDispatched, StackCycle
  <2>2. rob_tail' = Wrap(rob_tail + n)
    BY DEF CoreCycle, ROBCycle
  <2>3. Occupancy' - 1 \in 0 .. ROB_SIZE - 1 /\ rob_tail' = Wrap(nextHead + (Occupancy' - 1))
    <3>1. rob_tail' = Wrap(head' + Occupancy' - 1)
      BY <1>1 DEF CountsAgree
    <3>2. Occupancy' \in 1 .. ROB_SIZE
      BY <1>1, <2>1, SizeAssumption
    <3> QED BY <1>1, <3>1, <3>2, SizeAssumption
  <2>4. Dist(nextHead, rob_tail') = Occupancy' - 1 /\ rob_tail' \in ROB_PTR
    BY <1>1, <2>3, DistOf
  <2> QED BY <1>1, <2>1, <2>2, <2>4 DEF Age
<1>5. CASE b \in bs_bmask \ R
  <2>1. /\ bs_stack'[b].rob_tail = bs_stack[b].rob_tail
        /\ bs_stack'[b].fl_head = bs_stack[b].fl_head
        /\ Names(bs_stack'[b].map) = Names(bs_stack[b].map)
        /\ bs_stack'[b].bmask = bs_stack[b].bmask \ R
    BY <1>5, MarkReadyNames DEF StackCycle
  <2>2. /\ bs_stack[b].rob_tail \in ROB_PTR /\ bs_stack[b].fl_head = Wrap(bs_stack[b].rob_tail + 1)
        /\ Age(b)' = Age(b) - k /\ Age(b) \in k .. Occupancy - 1
    BY <1>0, <1>2, <1>5, BranchStays
  <2>3. bs_stack'[b].rob_tail \in Occupied'
    <3>1. Age(b)' < Occupancy'
      BY <1>1, <2>2
    <3> QED BY <2>1, <2>2, <3>1 DEF Age, Occupied
  <2>4. bs_stack'[b].bmask = {c \in bs_bmask' : Age(c)' < Age(b)'}
    <3>1. bs_stack[b].bmask = {c \in bs_bmask : Age(c) < Age(b)}
      BY <1>0, <1>5 DEF CheckpointsOrdered
    <3>2. \A c \in bs_bmask \ R : Age(c)' < Age(b)' <=> Age(c) < Age(b)
      BY <1>1, <1>2, <2>2
    <3>3. BranchDispatched(n, isns) => ~(Age(p)' < Age(b)') /\ p \notin bs_bmask
      BY <1>1, <1>4, <2>2
    <3> QED BY <1>3, <2>1, <3>1, <3>2, <3>3
  <2>5. ~buffer'[bs_stack'[b].rob_tail].complete
    <3>1. ~Completed(buffer[bs_stack[b].rob_tail], cdb).complete
      BY <1>5, BranchNotBroadcast
    <3>2. buffer'[bs_stack[b].rob_tail] = Completed(buffer[bs_stack[b].rob_tail], cdb)
      <4>1. Dist(head, bs_stack[b].rob_tail) < Occupancy
        BY <1>1, <2>2 DEF Age
      <4> QED BY <1>0, <2>2, <4>1, EntriesAfter
    <3> QED BY <2>1, <3>1, <3>2
  <2>6. Fits(Names(bs_stack'[b].map), head', Age(b)' + 1, Olds', free', at_map')
    <3> DEFINE l == Age(b) + 1
    <3>1. Fits(Names(bs_stack[b].map), head, l, Olds, free, at_map)
      BY <1>0, <1>5 DEF MapsFit
    <3>2. l \in k .. Occupancy /\ l - k = Age(b)' + 1
      BY <1>1, <2>2
    <3> HIDE DEF l
    <3>3. Fits(Names(bs_stack[b].map), head', l - k, Olds', free', at_map')
      BY <1>0, <3>1, <3>2, CoreFits
    <3> QED BY <2>1, <3>2, <3>3
  <2> QED BY <2>1, <2>2, <2>3, <2>4, <2>5, <2>6
<1>6. CASE BranchDispatched(n, isns) /\ b = p
  <2>1. /\ bs_stack'[b].rob_tail = rob_tail' /\ bs_stack'[b].fl_head = Wrap(fl_head + n)
        /\ Names(bs_stack'[b].map) = Names(map') /\ bs_stack'[b].bmask = bs_bmask \ R
        /\ Age(b)' = Occupancy' - 1 /\ rob_tail' \in ROB_PTR
    BY <1>p, <1>4, <1>6, MarkReadyNames DEF StackCycle
  <2>2. bs_stack'[b].rob_tail \in Occupied'
    <3>1. Age(b)' < Occupancy'
      BY <1>1, <2>1
    <3> QED BY <2>1, <3>1 DEF Age, Occupied
  <2>3. bs_stack'[b].fl_head = Wrap(bs_stack'[b].rob_tail + 1)
    BY <1>1, <2>1 DEF CountsAgree, CoreCycle, FLCycle
  <2>4. bs_stack'[b].bmask = {c \in bs_bmask' : Age(c)' < Age(b)'}
    <3>1. \A c \in bs_bmask \ R : Age(c)' < Age(b)'
      BY <1>1, <1>2, <1>4, <1>6, <2>1
    <3>2. ~(Age(b)' < Age(b)')
      BY <1>1, <2>1
    <3> QED BY <1>3, <1>6, <2>1, <3>1, <3>2
  <2>5. ~buffer'[bs_stack'[b].rob_tail].complete
    <3>1. n >= 1 /\ isns[n].branch /\ n \in 1 .. Len(isns)
      BY <1>6, OffersType DEF BranchDispatched
    <3>2. isns[n] \in Insns
      BY <3>1, OffersType DEF Dispatchable
    <3>3. n = 1 => rob_tail' = fl_head
      BY <1>0, <1>1, EntrySlots, SizeAssumption DEF CoreCycle, ROBCycle
    <3>4. n = 2 => rob_tail' = Wrap(fl_head + 1)
      BY <1>0, <1>1, EntrySlots, SizeAssumption DEF CoreCycle, ROBCycle
    <3>5. CASE n = 1
      <4>0. isns[1] \in Insns /\ isns[1].branch
        BY <3>1, <3>2, <3>5
      <4>1. buffer'[rob_tail'] =
              NewEntry(isns[1], free[fl_head], mt_dispatchTagOld(isns, fl_freeRegs)[1])
        BY <1>0, <3>3, <3>5, EntriesAfter
      <4> QED BY <2>1, <4>0, <4>1, BranchEntryWaits
    <3>6. CASE n = 2
      <4>0. isns[2] \in Insns /\ isns[2].branch
        BY <3>1, <3>2, <3>6
      <4>1. buffer'[rob_tail'] =
              NewEntry(isns[2], free[Wrap(fl_head + 1)], mt_dispatchTagOld(isns, fl_freeRegs)[2])
        BY <1>0, <3>4, <3>6, EntriesAfter
      <4> QED BY <2>1, <4>0, <4>1, BranchEntryWaits
    <3> QED BY <3>1, <3>5, <3>6
  <2>6. Fits(Names(bs_stack'[b].map), head', Age(b)' + 1, Olds', free', at_map')
    <3>1. Age(b)' + 1 = Occupancy'
      BY <1>1, <2>1
    <3>2. Fits(Names(map'), head', Occupancy', Olds', free', at_map')
      BY <1>0, CoreKeeps DEF MapsFit
    <3> QED BY <2>1, <3>1, <3>2
  <2> QED BY <2>2, <2>3, <2>4, <2>5, <2>6
<1> QED BY <1>3, <1>5, <1>6

(* The branches that a misprediction leaves are the older ones.            *)
LEMMA AgesDiffer ==
  ASSUME TypeOK, BranchOrder, RingInv, NEW b \in bs_bmask, NEW c \in bs_bmask \ {b}
  PROVE  /\ c \notin bs_stack[b].bmask <=> Age(b) < Age(c)
         /\ b \notin bs_stack[c].bmask <=> Age(c) < Age(b)
<1>1. Age(b) \in Int /\ Age(c) \in Int
  BY BranchStays DEF RingInv
<1>2. /\ c \in bs_stack[b].bmask <=> Age(c) < Age(b)
      /\ b \in bs_stack[c].bmask <=> Age(b) < Age(c)
  BY DEF RingInv, CheckpointsOrdered
<1>3. c \in bs_stack[b].bmask <=> b \notin bs_stack[c].bmask
  BY DEF BranchOrder
<1> QED BY <1>1, <1>2, <1>3

LEMMA WrongStack ==
  ASSUME TypeOK, BranchOrder, RingInv, NEW br \in bs_bmask, NEW cdb, BSWrong(br, cdb)
  PROVE  /\ bs_bmask' = {c \in bs_bmask : Age(c) < Age(br)}
         /\ \A c \in bs_bmask' :
              /\ bs_stack'[c].rob_tail = bs_stack[c].rob_tail
              /\ bs_stack'[c].fl_head = bs_stack[c].fl_head
              /\ bs_stack'[c].map = MarkReady(bs_stack[c].map, cdb)
              /\ bs_stack'[c].bmask = bs_stack[c].bmask
<1> DEFINE F(b) == Filled(b, 0, <<>>, 0, 0, <<>>, cdb)
<1>1. bs_stack' = [b \in BS_PTR |-> IF b = br \/ br \in bs_stack[b].bmask
                                   THEN NoEntry ELSE F(b)]
  BY DEF BSWrong
<1>2. \A b \in BS_PTR : /\ F(b).valid <=> b \in bs_bmask
                        /\ b \in bs_bmask =>
                             /\ F(b).rob_tail = bs_stack[b].rob_tail
                             /\ F(b).fl_head = bs_stack[b].fl_head
                             /\ F(b).map = MarkReady(bs_stack[b].map, cdb)
                             /\ F(b).bmask = bs_stack[b].bmask
  <2> SUFFICES ASSUME NEW b \in BS_PTR
               PROVE  /\ F(b).valid <=> b \in bs_bmask
                      /\ b \in bs_bmask =>
                           /\ F(b).rob_tail = bs_stack[b].rob_tail
                           /\ F(b).fl_head = bs_stack[b].fl_head
                           /\ F(b).map = MarkReady(bs_stack[b].map, cdb)
                           /\ F(b).bmask = bs_stack[b].bmask
    OBVIOUS
  <2>1. F(b) = IF bs_stack[b].valid
                 THEN [bs_stack[b] EXCEPT !.map = MarkReady(@, cdb)] ELSE NoEntry
    BY DEF Filled, BranchDispatched
  <2>2. CASE b \in bs_bmask
    <3>1. bs_stack[b] \in BSEntry /\ bs_stack[b].valid = TRUE
      BY <2>2 DEF bs_bmask, TypeOK, BSEntry
    <3>2. /\ F(b).valid = TRUE /\ F(b).rob_tail = bs_stack[b].rob_tail
          /\ F(b).fl_head = bs_stack[b].fl_head /\ F(b).bmask = bs_stack[b].bmask
          /\ F(b).map = MarkReady(bs_stack[b].map, cdb)
      BY <2>1, <3>1 DEF BSEntry
    <3> QED BY <2>2, <3>2
  <2>3. CASE b \notin bs_bmask
    <3>1. ~bs_stack[b].valid
      BY <2>3 DEF bs_bmask
    <3> QED BY <2>1, <2>3, <3>1 DEF NoEntry
  <2> QED BY <2>2, <2>3
<1> HIDE DEF F
<1>3. bs_bmask' = {c \in bs_bmask : c # br /\ br \notin bs_stack[c].bmask}
  BY <1>1, <1>2 DEF bs_bmask, NoEntry
<1>4. \A c \in bs_bmask : c # br /\ br \notin bs_stack[c].bmask <=> Age(c) < Age(br)
  <2> SUFFICES ASSUME NEW c \in bs_bmask
               PROVE  c # br /\ br \notin bs_stack[c].bmask <=> Age(c) < Age(br)
    OBVIOUS
  <2>1. Age(br) \in Int
    BY BranchStays DEF RingInv
  <2> QED BY <2>1, AgesDiffer
<1>5. bs_bmask' = {c \in bs_bmask : Age(c) < Age(br)}
  BY <1>3, <1>4
<1>6. \A c \in bs_bmask' : bs_stack'[c] = F(c) /\ c \in BS_PTR /\ c \in bs_bmask
  BY <1>1, <1>3 DEF bs_bmask
<1> QED BY <1>2, <1>5, <1>6

LEMMA WrongCheckpoints ==
  ASSUME TypeOK, BranchOrder, RingInv, NEW br \in bs_bmask,
         NEW cdb \in Broadcasts(Surviving(br)), Wrong(br, cdb), NEW b \in bs_bmask'
  PROVE  /\ bs_stack'[b].rob_tail \in Occupied'
         /\ bs_stack'[b].fl_head = Wrap(bs_stack'[b].rob_tail + 1)
         /\ bs_stack'[b].bmask = {c \in bs_bmask' : Age(c)' < Age(b)'}
         /\ ~buffer'[bs_stack'[b].rob_tail].complete
         /\ Fits(Names(bs_stack'[b].map), head', Age(b)' + 1, Olds', free', at_map')
<1> DEFINE k == rob_nRetired
<1>0. /\ CountsAgree /\ CheckpointsOrdered /\ BranchesWait /\ TagsInRing
      /\ Distinct(free, at_map) /\ Chained(head, Occupancy, Olds, free, at_map)
      /\ MapsFit
  BY DEF RingInv
<1>1. /\ bs_bmask' = {c \in bs_bmask : Age(c) < Age(br)}
      /\ \A c \in bs_bmask' :
           /\ bs_stack'[c].rob_tail = bs_stack[c].rob_tail
           /\ bs_stack'[c].fl_head = bs_stack[c].fl_head
           /\ Names(bs_stack'[c].map) = Names(bs_stack[c].map)
           /\ bs_stack'[c].bmask = bs_stack[c].bmask
  BY WrongStack, MarkReadyNames DEF Wrong
<1>2. /\ head' = nextHead /\ Occupancy' = Age(br) + 1 - k
      /\ k \in 0 .. 2 /\ Age(br) \in k .. ROB_SIZE - 1
      /\ nextHead \in ROB_PTR
      /\ buffer' = [i \in ROB_PTR |-> Completed(buffer[i], cdb)]
      /\ ATCycle(Retired, k) /\ free' = nextFree(Retired, k)
  BY <1>0, RecoverCounts, BranchStays, Counts DEF Wrong, ROBRecover, FLRecover
<1>3. \A c \in bs_bmask' : Age(c)' = Age(c) - k /\ Age(c) \in k .. ROB_SIZE - 1
  <2> SUFFICES ASSUME NEW c \in bs_bmask'
               PROVE  Age(c)' = Age(c) - k /\ Age(c) \in k .. ROB_SIZE - 1
    OBVIOUS
  <2>1. c \in bs_bmask /\ bs_stack'[c].rob_tail = bs_stack[c].rob_tail
    BY <1>1
  <2> QED BY <1>0, <1>2, <2>1, AgeAfter, BranchStays
<1>4. /\ b \in bs_bmask \ {br} /\ Age(b) < Age(br)
      /\ bs_stack[b].rob_tail \in ROB_PTR /\ bs_stack[b].fl_head = Wrap(bs_stack[b].rob_tail + 1)
  BY <1>0, <1>1, <1>2, BranchStays
<1>5. bs_stack'[b].rob_tail \in Occupied'
  <2>1. Age(b)' < Occupancy'
    BY <1>2, <1>3, <1>4
  <2> QED BY <1>1, <1>4, <2>1 DEF Age, Occupied
<1>6. bs_stack'[b].bmask = {c \in bs_bmask' : Age(c)' < Age(b)'}
  <2>1. bs_stack[b].bmask = {c \in bs_bmask : Age(c) < Age(b)}
    BY <1>0, <1>4 DEF CheckpointsOrdered
  <2>2. \A c \in bs_bmask' : Age(c)' < Age(b)' <=> Age(c) < Age(b)
    BY <1>2, <1>3
  <2>3. \A c \in bs_bmask : Age(c) < Age(b) => c \in bs_bmask'
    <3> SUFFICES ASSUME NEW c \in bs_bmask, Age(c) < Age(b) PROVE c \in bs_bmask'
      OBVIOUS
    <3>1. Age(c) \in Int
      BY <1>0, BranchStays
    <3> QED BY <1>1, <1>2, <1>3, <1>4, <3>1
  <2> QED BY <1>1, <2>1, <2>2, <2>3
<1>7. ~buffer'[bs_stack'[b].rob_tail].complete
  <2>1. Surviving(br) \in SUBSET Waiting({br})
    BY DEF Surviving
  <2>2. ~Completed(buffer[bs_stack[b].rob_tail], cdb).complete
    BY <1>4, <2>1, BranchNotBroadcast
  <2> QED BY <1>1, <1>2, <1>4, <2>2
<1>8. Fits(Names(bs_stack'[b].map), head', Age(b)' + 1, Olds', free', at_map')
  <2> DEFINE l == Age(b) + 1
  <2>1. Fits(Names(bs_stack[b].map), head, l, Olds, free, at_map)
    BY <1>0, <1>4 DEF MapsFit
  <2>2. l \in k .. ROB_SIZE /\ l - k = Age(b)' + 1
    BY <1>2, <1>3, SizeAssumption
  <2> HIDE DEF l
  <2>3. Fits(Names(bs_stack[b].map), nextHead, l - k, Olds, free', at_map')
    BY <1>0, <1>2, <2>1, <2>2, RetireKeeps
  <2>4. Olds' = Olds
    BY <1>2, CompletedSame
  <2> QED BY <1>1, <1>2, <2>2, <2>3, <2>4
<1> QED BY <1>1, <1>4, <1>5, <1>6, <1>7, <1>8

-----------------------------------------------------------------------------
(* The invariant holds initially and every step keeps it. *)
LEMMA InitRing == Init => RingInv
<1> SUFFICES ASSUME Init PROVE RingInv
  OBVIOUS
<1>1. /\ head = 0 /\ rob_tail = ROB_SIZE - 1 /\ rob_availableSlots = ROB_SIZE
      /\ fl_head = 0 /\ fl_tail = ROB_SIZE - 1 /\ fl_availableRegs = ROB_SIZE
      /\ free = [i \in FL_PTR |-> i + ARCH_REGS]
      /\ map = ResetMap /\ at_map = [r \in NAMED_REG |-> r]
  BY DEF Init, ROBInit, FLInit, MTInit, ATInit
<1>2. bs_bmask = {}
  BY DEF Init, BSInit, bs_bmask, NoEntry
<1>3. Occupancy = 0 /\ Occupied = {} /\ SlotsIn(head, 0) = {} /\ 0 \in ROB_PTR
  <2>1. Occupancy = 0 /\ 0 \in ROB_PTR
    BY <1>1, SizeAssumption DEF Occupancy, ROB_PTR
  <2>2. \A i \in ROB_PTR : ~(Dist(head, i) < 0)
    BY <1>1, <2>1, DistType
  <2> QED BY <2>1, <2>2 DEF Occupied, SlotsIn
<1>4. CountsAgree
  BY <1>1, <1>3, SizeAssumption DEF CountsAgree, Wrap
<1>5. Distinct(free, at_map)
  BY <1>1, SizeAssumption DEF Distinct, NAMED_REG, FL_PTR, ROB_PTR, PHYS_ZERO_REG, ZERO_REG
<1>6. Fits(Names(map), head, Occupancy, Olds, free, at_map)
  <2>1. \A r \in NAMED_REG : Names(map)[r] = r /\ at_map[r] = r
    BY <1>1 DEF Names, ResetMap
  <2> QED BY <1>3, <2>1 DEF Fits, Known
<1>7. Chained(head, Occupancy, Olds, free, at_map)
  BY <1>3 DEF Chained
<1> QED BY <1>2, <1>3, <1>4, <1>5, <1>6, <1>7
     DEF RingInv, CheckpointsOrdered, BranchesWait, TagsInRing, MapsFit

LEMMA RingAssembled ==
  ASSUME CountsAgree', TagsInRing', Distinct(free', at_map'),
         Chained(head', Occupancy', Olds', free', at_map'),
         Fits(Names(map'), head', Occupancy', Olds', free', at_map'),
         \A b \in bs_bmask' :
           /\ bs_stack'[b].rob_tail \in Occupied'
           /\ bs_stack'[b].fl_head = Wrap(bs_stack'[b].rob_tail + 1)
           /\ bs_stack'[b].bmask = {c \in bs_bmask' : Age(c)' < Age(b)'}
           /\ ~buffer'[bs_stack'[b].rob_tail].complete
           /\ Fits(Names(bs_stack'[b].map), head', Age(b)' + 1, Olds', free', at_map')
  PROVE  RingInv'
<1>1. CheckpointsOrdered'
  BY DEF CheckpointsOrdered
<1>2. BranchesWait'
  BY DEF BranchesWait
<1>3. MapsFit'
  BY DEF MapsFit
<1> QED BY <1>1, <1>2, <1>3 DEF RingInv

LEMMA RingRenames ==
  ASSUME TypeOK, RingInv, NEW isns \in Offers, NEW n \in 0 .. 2, n <= Len(isns),
         n <= fl_availableRegs, NEW R \in SUBSET bs_bmask,
         NEW cdb \in Broadcasts(Waiting(R)), CoreCycle(n, isns, cdb),
         StackCycle(n, isns, R, cdb)
  PROVE  RingInv'
<1>1. /\ CountsAgree /\ TagsInRing /\ Distinct(free, at_map)
      /\ Chained(head, Occupancy, Olds, free, at_map)
      /\ Fits(Names(map), head, Occupancy, Olds, free, at_map)
  BY DEF RingInv, MapsFit
<1>2. CountsAgree'
  BY <1>1, CoreCounts
<1>3. /\ Distinct(free', at_map')
      /\ Chained(head', Occupancy', Olds', free', at_map')
      /\ Fits(Names(map'), head', Occupancy', Olds', free', at_map')
      /\ TagsInRing'
  BY <1>1, CoreKeeps
<1> QED BY <1>2, <1>3, CheckpointsAfter, RingAssembled

LEMMA RingDispatch ==
  ASSUME TypeOK, RingInv, DispatchCycle
  PROVE  RingInv'
<1>1. PICK isns \in Offers, rs \in RSFree, cdb \in Broadcasts(Waiting({})) :
        Dispatch(isns, rs, cdb)
  BY DEF DispatchCycle
<1> DEFINE n == haz_nDispatched(isns, rs)
<1>2. n \in 0 .. 2 /\ n <= Len(isns) /\ n <= fl_availableRegs
  BY DispatchedType
<1>3. CoreCycle(n, isns, cdb)
  BY <1>1 DEF Dispatch, CoreCycle
<1>4. StackCycle(n, isns, {}, cdb)
  BY <1>1, DispatchStack
<1> HIDE DEF n
<1> QED BY <1>2, <1>3, <1>4, RingRenames

LEMMA RingCorrect ==
  ASSUME TypeOK, TypeOK', RingInv, NEW b \in BS_PTR, CorrectCycle(b)
  PROVE  RingInv'
<1>0. b \in bs_bmask
  BY DEF CorrectCycle, bs_bmask
<1>1. PICK isns \in Offers, rs \in RSFree, cdb \in Broadcasts(Waiting({b})) :
        Correct(b, isns, rs, cdb)
  BY DEF CorrectCycle
<1> DEFINE n == haz_nDispatched(isns, rs)
<1>2. n \in 0 .. 2 /\ n <= Len(isns) /\ n <= fl_availableRegs
  BY DispatchedType
<1>3. CoreCycle(n, isns, cdb)
  BY <1>1 DEF Correct, CoreCycle
<1>4. StackCycle(n, isns, {b}, cdb)
  BY <1>0, <1>1, CorrectStack
<1> HIDE DEF n
<1> QED BY <1>0, <1>2, <1>3, <1>4, RingRenames

LEMMA RingWrong ==
  ASSUME TypeOK, BranchOrder, RingInv, NEW b \in BS_PTR, WrongCycle(b), ~Miscounted(b)
  PROVE  RingInv'
<1>1. b \in bs_bmask
  BY DEF WrongCycle, bs_bmask
<1>2. PICK cdb \in Broadcasts(Surviving(b)) : Wrong(b, cdb)
  BY DEF WrongCycle
<1>3. CountsAgree /\ CheckpointsOrdered /\ BranchesWait
  BY DEF RingInv
<1>4. CountsAgree' /\ Occupancy' = Age(b) + 1 - rob_nRetired
  BY <1>1, <1>2, <1>3, WrongCounts, RecoverCounts DEF Wrong
<1>5. /\ Distinct(free', at_map')
      /\ Chained(head', Occupancy', Olds', free', at_map')
      /\ Fits(Names(map'), head', Occupancy', Olds', free', at_map')
      /\ TagsInRing'
  BY <1>1, <1>2, <1>4, WrongKeeps
<1> QED BY <1>1, <1>2, <1>4, <1>5, WrongCheckpoints, RingAssembled

LEMMA RingStutter ==
  ASSUME RingInv, UNCHANGED vars
  PROVE  RingInv'
<1>1. /\ head' = head /\ buffer' = buffer /\ free' = free /\ at_map' = at_map
      /\ map' = map /\ bs_stack' = bs_stack /\ rob_tail' = rob_tail
      /\ rob_availableSlots' = rob_availableSlots
      /\ fl_head' = fl_head /\ fl_tail' = fl_tail /\ fl_availableRegs' = fl_availableRegs
  BY DEF vars
<1>2. /\ Occupancy' = Occupancy /\ Occupied' = Occupied /\ Olds' = Olds
      /\ bs_bmask' = bs_bmask /\ \A b : Age(b)' = Age(b)
  BY <1>1 DEF Occupancy, Occupied, Olds, bs_bmask, Age
<1>3. CountsAgree' /\ TagsInRing'
  BY <1>1, <1>2 DEF RingInv, CountsAgree, TagsInRing
<1>4. /\ Distinct(free', at_map')
      /\ Chained(head', Occupancy', Olds', free', at_map')
      /\ Fits(Names(map'), head', Occupancy', Olds', free', at_map')
  BY <1>1, <1>2 DEF RingInv, MapsFit
<1>5. \A b \in bs_bmask' :
        /\ bs_stack'[b].rob_tail \in Occupied'
        /\ bs_stack'[b].fl_head = Wrap(bs_stack'[b].rob_tail + 1)
        /\ bs_stack'[b].bmask = {c \in bs_bmask' : Age(c)' < Age(b)'}
        /\ ~buffer'[bs_stack'[b].rob_tail].complete
        /\ Fits(Names(bs_stack'[b].map), head', Age(b)' + 1, Olds', free', at_map')
  BY <1>1, <1>2 DEF RingInv, CheckpointsOrdered, BranchesWait, MapsFit
<1> QED BY <1>3, <1>4, <1>5, RingAssembled

(* The inductive invariant. *)
SafeInv == TypeOK /\ BranchOrder /\ RingInv

LEMMA SafeStep == SafeInv /\ TypeOK' /\ BranchOrder' /\ [SafeNext]_vars => SafeInv'
<1> SUFFICES ASSUME SafeInv, TypeOK', BranchOrder', [SafeNext]_vars PROVE RingInv'
  BY DEF SafeInv
<1> USE DEF SafeInv
<1>1. CASE DispatchCycle
  BY <1>1, RingDispatch
<1>2. ASSUME NEW b \in BS_PTR, CorrectCycle(b) PROVE RingInv'
  BY <1>2, RingCorrect
<1>3. ASSUME NEW b \in BS_PTR, ~Miscounted(b), WrongCycle(b) PROVE RingInv'
  BY <1>3, RingWrong
<1>4. CASE UNCHANGED vars
  BY <1>4, RingStutter
<1> QED BY <1>1, <1>2, <1>3, <1>4 DEF SafeNext

(* What the code does without a miscounted rollback is what the code does. *)
LEMMA SafeIsSpec == SafeSpec => Spec
<1>1. [SafeNext]_vars => [Next]_vars
  BY DEF SafeNext, Next
<1> QED BY <1>1, PTL DEF SafeSpec, Spec

(* What the proofs below rest on holds in every state: the types, the order *)
(* of the branches, and the invariant of the rings.  It is about the code's *)
(* behaviours in which no rollback miscounts the free list.                 *)
THEOREM RingHolds == SafeSpec => []SafeInv
<1>1. Init => RingInv
  BY InitRing
<1>2. TypeOK /\ BranchOrder /\ RingInv => SafeInv
  BY DEF SafeInv
<1> QED BY <1>1, <1>2, SafeStep, SafeIsSpec, TypeCorrect, BranchOrderHolds, PTL
     DEF SafeSpec

(* The six registers that the reorder buffer and the free list keep for one *)
(* number never disagree: no adder, on dispatch, retirement or recovery, is *)
(* off by one.                                                              *)
THEOREM CountsAgreeHolds == SafeSpec => []CountsAgree
<1>1. SafeInv => CountsAgree
  BY DEF SafeInv, RingInv
<1> QED BY <1>1, RingHolds, PTL

(* Every checkpoint belongs to a branch that is still in the reorder        *)
(* buffer, points just behind it in both rings, and its mask names exactly  *)
(* the older branches, whatever slots are freed and taken again.            *)
THEOREM CheckpointsOrderedHolds == SafeSpec => []CheckpointsOrdered
<1>1. SafeInv => CheckpointsOrdered
  BY DEF SafeInv, RingInv
<1> QED BY <1>1, RingHolds, PTL

LEMMA SquashStep ==
  ASSUME SafeInv, NEW b \in BS_PTR, WrongCycle(b)
  PROVE  /\ Occupied' = {i \in Occupied : Dist(head, i) \in rob_nRetired .. Age(b)}
         /\ bs_bmask' = {c \in bs_bmask : Age(c) < Age(b)}
<1>0. TypeOK /\ BranchOrder /\ RingInv /\ CountsAgree /\ CheckpointsOrdered /\ BranchesWait
  BY DEF SafeInv, RingInv
<1>1. b \in bs_bmask
  BY DEF WrongCycle, bs_bmask
<1>2. PICK cdb : Wrong(b, cdb)
  BY DEF WrongCycle
<1>3. bs_bmask' = {c \in bs_bmask : Age(c) < Age(b)}
  BY <1>0, <1>1, <1>2, WrongStack DEF Wrong
<1>4. head' = nextHead /\ Occupancy' = Age(b) + 1 - rob_nRetired
  BY <1>0, <1>1, <1>2, RecoverCounts DEF Wrong
<1>5. /\ rob_nRetired \in 0 .. 2 /\ head \in ROB_PTR /\ nextHead = Wrap(head + rob_nRetired)
      /\ rob_nRetired <= Age(b) /\ Age(b) < Occupancy /\ Age(b) \in 0 .. ROB_SIZE - 1
      /\ Occupancy \in 0 .. ROB_SIZE
  BY <1>0, <1>1, BranchStays, Counts
<1>6. ASSUME NEW i \in ROB_PTR
      PROVE  i \in Occupied' <=> i \in Occupied /\ Dist(head, i) \in rob_nRetired .. Age(b)
  <2>1. Dist(head, i) \in 0 .. ROB_SIZE - 1
    BY <1>5, DistType
  <2>2. /\ Dist(head, i) >= rob_nRetired => Dist(nextHead, i) = Dist(head, i) - rob_nRetired
        /\ Dist(head, i) < rob_nRetired =>
             Dist(nextHead, i) = Dist(head, i) - rob_nRetired + ROB_SIZE
    BY <1>5, DistFrom
  <2>3. i \in Occupied' <=> Dist(nextHead, i) < Age(b) + 1 - rob_nRetired
    BY <1>4 DEF Occupied
  <2>4. i \in Occupied <=> Dist(head, i) < Occupancy
    BY DEF Occupied
  <2> QED BY <1>5, <2>1, <2>2, <2>3, <2>4, SizeAssumption
<1>7. Occupied \subseteq ROB_PTR /\ Occupied' \subseteq ROB_PTR
  BY DEF Occupied, ROB_PTR
<1> QED BY <1>3, <1>6, <1>7

(* A misprediction removes the instructions and the checkpoints younger     *)
(* than the branch, those only, while the oldest instructions retire.       *)
THEOREM SquashesTheYoungerHolds == SafeSpec => SquashesTheYounger
<1>1. SafeInv /\ [SafeNext]_vars =>
        [\A b \in BS_PTR : WrongCycle(b) =>
           /\ Occupied' = {i \in Occupied : Dist(head, i) \in rob_nRetired .. Age(b)}
           /\ bs_bmask' = {c \in bs_bmask : Age(c) < Age(b)}]_vars
  BY SquashStep
<1> QED BY <1>1, RingHolds, PTL DEF SafeSpec, SquashesTheYounger

-----------------------------------------------------------------------------
(* The registers. *)
LEMMA ImageOfDistinct ==
  ASSUME NEW S, IsFiniteSet(S), NEW f, \A x, y \in S : f[x] = f[y] => x = y
  PROVE  /\ IsFiniteSet({f[x] : x \in S})
         /\ Cardinality({f[x] : x \in S}) = Cardinality(S)
<1> DEFINE T == {f[x] : x \in S}
           g == [x \in S |-> f[x]]
<1>1. g \in Bijection(S, T)
  BY DEF Bijection, Injection, Surjection, IsInjective
<1>2. ExistsBijection(S, T)
  BY <1>1 DEF ExistsBijection
<1> QED BY <1>2, FS_Bijection

LEMMA DisjointUnion ==
  ASSUME NEW S, NEW T, IsFiniteSet(S), IsFiniteSet(T), S \cap T = {}
  PROVE  /\ IsFiniteSet(S \cup T)
         /\ Cardinality(S \cup T) = Cardinality(S) + Cardinality(T)
<1>1. Cardinality(S \cap T) = 0
  BY FS_EmptySet
<1> QED BY <1>1, FS_Union, FS_CardinalityType

(* The window of the reorder buffer and that of the free list are the two  *)
(* arcs of one ring.                                                        *)
LEMMA TwoArcs ==
  ASSUME TypeOK, CountsAgree, NEW i \in ROB_PTR
  PROVE  i \in FreeSlots <=> i \notin Occupied
<1> DEFINE O == ROB_SIZE - rob_availableSlots
<1>1. /\ O \in 0 .. ROB_SIZE /\ fl_availableRegs = ROB_SIZE - O
      /\ head \in 0 .. ROB_SIZE - 1 /\ i \in 0 .. ROB_SIZE - 1
      /\ rob_tail = Wrap(head + O - 1) /\ fl_head = Wrap(rob_tail + 1)
  BY SizeAssumption DEF CountsAgree, Occupancy, TypeOK, ROB_PTR
<1>2. /\ i \in Occupied <=> Wrap(i - head) < O
      /\ i \in FreeSlots <=> Wrap(i - fl_head) < fl_availableRegs
  BY DEF Occupied, Occupancy, FreeSlots, Dist, FL_PTR, ROB_PTR
<1> HIDE DEF O
<1> QED BY <1>1, <1>2, SizeAssumption DEF Wrap

LEMMA Partition ==
  ASSUME TypeOK, CountsAgree, TagsInRing, Distinct(free, at_map)
  PROVE  RegistersPartitioned
<1> DEFINE All == {free[i] : i \in ROB_PTR}
<1>1. /\ IsFiniteSet(ROB_PTR) /\ Cardinality(ROB_PTR) = ROB_SIZE
      /\ IsFiniteSet(NAMED_REG) /\ Cardinality(NAMED_REG) = ARCH_REGS - 1
      /\ IsFiniteSet(PHYS_REG) /\ Cardinality(PHYS_REG) = ARCH_REGS + ROB_SIZE
  BY FS_Interval, SizeAssumption DEF ROB_PTR, NAMED_REG, PHYS_REG
<1>2. IsFiniteSet(Committed) /\ Cardinality(Committed) = ARCH_REGS - 1
  <2>1. \A q, r \in NAMED_REG : at_map[q] = at_map[r] => q = r
    BY DEF Distinct
  <2> QED BY <1>1, <2>1, ImageOfDistinct DEF Committed
<1>3. IsFiniteSet(All) /\ Cardinality(All) = ROB_SIZE
  <2>1. \A i, j \in ROB_PTR : free[i] = free[j] => i = j
    BY DEF Distinct
  <2> QED BY <1>1, <2>1, ImageOfDistinct
<1>4. InFlight \cup Available = All /\ InFlight \cap Available = {}
  <2>1. InFlight = {free[i] : i \in Occupied}
    BY DEF InFlight, TagsInRing
  <2>2. Available = {free[i] : i \in FreeSlots}
    BY DEF Available
  <2>3. Occupied \subseteq ROB_PTR /\ FreeSlots \subseteq ROB_PTR
    BY DEF Occupied, FreeSlots, FL_PTR, ROB_PTR
  <2>4. \A i \in ROB_PTR : i \in FreeSlots <=> i \notin Occupied
    BY TwoArcs
  <2>5. InFlight \cup Available = All
    BY <2>1, <2>2, <2>3, <2>4
  <2>6. InFlight \cap Available = {}
    BY <2>1, <2>2, <2>3, <2>4 DEF Distinct
  <2> QED BY <2>5, <2>6
<1>5. Cardinality(InFlight) + Cardinality(Available) = ROB_SIZE
  <2>1. InFlight \in SUBSET All /\ Available \in SUBSET All
    BY <1>4
  <2>2. IsFiniteSet(InFlight) /\ IsFiniteSet(Available)
    BY <1>3, <2>1, FS_Subset
  <2> QED BY <1>3, <1>4, <2>2, DisjointUnion
<1>6. Committed \cup All \cup {PHYS_ZERO_REG} = PHYS_REG
  <2>1. Committed \cap All = {} /\ PHYS_ZERO_REG \notin Committed \cup All
    BY DEF Distinct, Committed
  <2>2. /\ IsFiniteSet(Committed \cup All)
        /\ Cardinality(Committed \cup All) = (ARCH_REGS - 1) + ROB_SIZE
    BY <1>2, <1>3, <2>1, DisjointUnion
  <2>3. Cardinality(Committed \cup All \cup {PHYS_ZERO_REG}) = ARCH_REGS + ROB_SIZE
    <3> DEFINE S == Committed \cup All
    <3>1. IsFiniteSet(S) /\ PHYS_ZERO_REG \notin S
      BY <2>1, <2>2
    <3> HIDE DEF S
    <3>2. Cardinality(S \cup {PHYS_ZERO_REG}) = Cardinality(S) + 1
      BY <3>1, FS_AddElement
    <3>3. Cardinality(S) = (ARCH_REGS - 1) + ROB_SIZE
      BY <2>2 DEF S
    <3>4. Cardinality(S \cup {PHYS_ZERO_REG}) = ARCH_REGS + ROB_SIZE
      BY <3>2, <3>3, SizeAssumption
    <3> QED BY <3>4 DEF S
  <2>4. Committed \cup All \cup {PHYS_ZERO_REG} \in SUBSET PHYS_REG
    <3>1. \A r \in NAMED_REG : at_map[r] \in PHYS_REG
      BY DEF TypeOK
    <3>2. \A i \in ROB_PTR : free[i] \in PHYS_REG
      BY DEF TypeOK, FL_PTR, ROB_PTR
    <3>3. PHYS_ZERO_REG \in PHYS_REG
      BY SizeAssumption DEF PHYS_ZERO_REG, ZERO_REG, PHYS_REG
    <3> QED BY <3>1, <3>2, <3>3 DEF Committed
  <2> QED BY <1>1, <2>3, <2>4, FS_Subset
<1>7. Committed \cup InFlight \cup Available \cup {PHYS_ZERO_REG} = PHYS_REG
  BY <1>4, <1>6
<1> QED BY <1>2, <1>5, <1>7 DEF RegistersPartitioned

(* No physical register is lost and none is in two places: each is the      *)
(* zero register, committed, given to one instruction in flight, or free.   *)
THEOREM RegistersPartitionedHolds == SafeSpec => []RegistersPartitioned
<1>1. SafeInv => RegistersPartitioned
  BY Partition DEF SafeInv, RingInv
<1> QED BY <1>1, RingHolds, PTL

-----------------------------------------------------------------------------
(***************************************************************************)
(* Exact ready bits.                                                         *)
(***************************************************************************)
(* The ready bits of m tell which registers of P are still to be written.  *)
Exact(m, P) ==
  \A r \in NAMED_REG : m[r].ready <=> m[r].register \notin P

LEMMA ReadyExact ==
  ReadyBitsExact <=>
    Exact(map, Pending) /\ \A b \in bs_bmask : Exact(bs_stack[b].map, Pending)
BY DEF ReadyBitsExact, Exact

(* Who is in flight after a cycle: who was and has not retired, and who    *)
(* enters.                                                                  *)
LEMMA WindowAfter ==
  ASSUME TypeOK, RingInv, NEW isns \in Offers, NEW n \in 0 .. 2, n <= Len(isns),
         n <= fl_availableRegs, NEW cdb, CoreCycle(n, isns, cdb)
  PROVE  LET s2 == Wrap(fl_head + 1)
             old == mt_dispatchTagOld(isns, fl_freeRegs)
         IN  /\ \A i \in Occupied : buffer'[i] = Completed(buffer[i], cdb)
             /\ \A i : i \in Occupied' <=>
                  \/ i \in Occupied /\ Dist(head, i) >= rob_nRetired
                  \/ n >= 1 /\ i = fl_head
                  \/ n = 2 /\ i = s2
             /\ n >= 1 =>
                  /\ fl_head = Wrap(head + Occupancy) /\ Occupancy \in 0 .. ROB_SIZE - 1
                  /\ buffer'[fl_head] = NewEntry(isns[1], free[fl_head], old[1])
             /\ n = 2 =>
                  /\ s2 = Wrap(head + (Occupancy + 1)) /\ Occupancy + 1 \in 0 .. ROB_SIZE - 1
                  /\ buffer'[s2] = NewEntry(isns[2], free[s2], old[2])
<1> DEFINE k == rob_nRetired
           h == nextHead
           o == Occupancy - k
           s2 == Wrap(fl_head + 1)
<1>0. CountsAgree
  BY DEF RingInv
<1>1. /\ Occupancy \in 0 .. ROB_SIZE /\ k \in 0 .. 2 /\ k <= Occupancy
      /\ h \in ROB_PTR /\ head \in ROB_PTR /\ h = Wrap(head + k)
      /\ head' = h /\ Occupancy' = o + n /\ Occupancy + n <= ROB_SIZE
      /\ o \in 0 .. ROB_SIZE
  BY <1>0, Counts, CoreCounts, SizeAssumption
<1>2. /\ n >= 1 => /\ fl_head = Wrap(h + o) /\ o \in 0 .. ROB_SIZE - 1
                   /\ fl_head = Wrap(head + Occupancy) /\ Occupancy \in 0 .. ROB_SIZE - 1
      /\ n = 2 => /\ s2 = Wrap(h + (o + 1)) /\ o + 1 \in 0 .. ROB_SIZE - 1
                  /\ s2 = Wrap(head + (Occupancy + 1)) /\ Occupancy + 1 \in 0 .. ROB_SIZE - 1
  <2>1. /\ n >= 1 => fl_head = Wrap(h + o) /\ o \in 0 .. ROB_SIZE - 1
        /\ n = 2 => s2 = Wrap(h + (o + 1)) /\ o + 1 \in 0 .. ROB_SIZE - 1
    BY <1>0, <1>1, EntrySlots, SizeAssumption
  <2>2. /\ n >= 1 => fl_head = Wrap(head + Occupancy) /\ Occupancy \in 0 .. ROB_SIZE - 1
        /\ n = 2 => s2 = Wrap(head + (Occupancy + 1)) /\ Occupancy + 1 \in 0 .. ROB_SIZE - 1
    BY <1>0, <1>1, EntrySlots, WrapTwice, SizeAssumption
  <2> QED BY <2>1, <2>2
<1>3. \A i : i \in SlotsIn(h, o) <=> i \in Occupied /\ Dist(head, i) >= k
  <2>1. \A i \in SlotsIn(h, o) : i \in SlotsIn(head, Occupancy) /\ Dist(head, i) >= k
    BY <1>0, <1>1, SlotsLeft
  <2>2. ASSUME NEW i \in SlotsIn(head, Occupancy), Dist(head, i) >= k
        PROVE  i \in SlotsIn(h, o)
    <3>1. i \in ROB_PTR /\ Dist(head, i) < Occupancy /\ Dist(head, i) \in 0 .. ROB_SIZE - 1
      BY <1>1, DistType DEF SlotsIn
    <3>2. Dist(h, i) = Dist(head, i) - k
      BY <1>1, <2>2, <3>1, DistFrom
    <3> QED BY <1>1, <3>1, <3>2, SizeAssumption DEF SlotsIn
  <2> QED BY <1>0, <2>1, <2>2, Counts
<1>4. Occupied' = SlotsIn(h, o + n)
  BY <1>1 DEF Occupied, SlotsIn
<1>5. /\ n >= 1 => \A i : i \in SlotsIn(h, o + 1) <=> i \in SlotsIn(h, o) \/ i = fl_head
      /\ n = 2 => \A i : i \in SlotsIn(h, o + 2) <=> i \in SlotsIn(h, o) \/ i = fl_head \/ i = s2
  <2>1. n >= 1 => \A i : i \in SlotsIn(h, o + 1) <=> i \in SlotsIn(h, o) \/ i = fl_head
    BY <1>1, <1>2, SlotsAfterEntering
  <2>2. n = 2 => \A i : i \in SlotsIn(h, (o + 1) + 1) <=> i \in SlotsIn(h, o + 1) \/ i = s2
    BY <1>1, <1>2, SlotsAfterEntering
  <2>3. (o + 1) + 1 = o + 2
    BY <1>1
  <2> QED BY <2>1, <2>2, <2>3
<1>6. \A i : i \in Occupied' <=> \/ i \in Occupied /\ Dist(head, i) >= k
                                 \/ n >= 1 /\ i = fl_head
                                 \/ n = 2 /\ i = s2
  <2>1. n = 0 => o + n = o
    BY <1>1
  <2> HIDE DEF o, h, s2
  <2> QED BY <1>3, <1>4, <1>5, <2>1
<1>7. \A i \in Occupied : buffer'[i] = Completed(buffer[i], cdb)
  BY <1>0, EntriesAfter DEF Occupied
<1> QED BY <1>0, <1>2, <1>6, <1>7, EntriesAfter

LEMMA CompletedFields ==
  ASSUME NEW e \in ROBEntry, NEW cdb
  PROVE  /\ Completed(e, cdb).tag = e.tag /\ Completed(e, cdb).tagOld = e.tagOld
         /\ Completed(e, cdb).complete <=> e.complete \/ e.tag \in cdb
<1>1. e.complete \in BOOLEAN /\ (e.tag \in cdb) \in BOOLEAN
  BY DEF ROBEntry
<1>2. Completed(e, cdb).complete = (e.complete \/ e.tag \in cdb)
  BY DEF Completed
<1>3. Completed(e, cdb).tag = e.tag /\ Completed(e, cdb).tagOld = e.tagOld
  BY DEF Completed
<1> QED BY <1>1, <1>2, <1>3

LEMMA NewEntryFields ==
  ASSUME NEW isn \in Instruction, NEW tag, NEW tagOld
  PROVE  /\ NewEntry(isn, tag, tagOld).tag = tag
         /\ NewEntry(isn, tag, tagOld).tagOld = tagOld
         /\ NewEntry(isn, tag, tagOld).complete <=> isn.halt \/ isn.noop
<1>1. isn.halt \in BOOLEAN /\ isn.noop \in BOOLEAN
  BY DEF Instruction
<1>2. NewEntry(isn, tag, tagOld).complete = (isn.halt \/ isn.noop)
  BY DEF NewEntry
<1>3. NewEntry(isn, tag, tagOld).tag = tag /\ NewEntry(isn, tag, tagOld).tagOld = tagOld
  BY DEF NewEntry
<1> QED BY <1>1, <1>2, <1>3

(* An instruction that retires has completed. *)
LEMMA PendingStays ==
  ASSUME TypeOK, RingInv, NEW i \in Occupied, ~buffer[i].complete
  PROVE  Dist(head, i) >= rob_nRetired
<1>1. /\ rob_nRetired \in 0 .. 2 /\ head \in ROB_PTR
      /\ rob_nRetired >= 1 => buffer[head].complete
      /\ rob_nRetired = 2 => buffer[Wrap(head + 1)].complete
  BY Counts DEF RingInv
<1>2. /\ i \in ROB_PTR /\ Dist(head, i) \in 0 .. ROB_SIZE - 1
      /\ Dist(head, i) = 0 => i = head
      /\ i = Wrap(head + Dist(head, i))
  BY <1>1, DistType, DistDetermines DEF Occupied
<1>3. rob_nRetired >= 1 => Dist(head, i) # 0
  BY <1>1, <1>2
<1>4. rob_nRetired = 2 => Dist(head, i) # 1
  BY <1>1, <1>2
<1> QED BY <1>1, <1>2, <1>3, <1>4, SizeAssumption

(* A broadcast takes its tags, and nothing else, out of the pending ones;  *)
(* what enters adds its own, if it writes a register.                       *)
LEMMA CorePending ==
  ASSUME TypeOK, RingInv, NEW isns \in Offers, NEW n \in 0 .. 2, n <= Len(isns),
         n <= fl_availableRegs, NEW R, NEW cdb \in Broadcasts(Waiting(R)),
         CoreCycle(n, isns, cdb)
  PROVE  /\ \A l \in Int : l <= Occupancy => \A x :
              Known(x, head, l, Olds, free, at_map) =>
                (x \in Pending' <=> x \in Pending /\ x \notin cdb)
         /\ \A x \in cdb : x \notin Pending'
         /\ n >= 1 /\ isns[1].dest \in NAMED_REG => free[fl_head] \in Pending'
         /\ n = 2 /\ isns[2].dest \in NAMED_REG => free[Wrap(fl_head + 1)] \in Pending'
<1> DEFINE s2 == Wrap(fl_head + 1)
           old == mt_dispatchTagOld(isns, fl_freeRegs)
<1>1. /\ \A i \in Occupied : buffer'[i] = Completed(buffer[i], cdb)
      /\ \A i : i \in Occupied' <=> \/ i \in Occupied /\ Dist(head, i) >= rob_nRetired
                                    \/ n >= 1 /\ i = fl_head
                                    \/ n = 2 /\ i = s2
      /\ n >= 1 => /\ fl_head = Wrap(head + Occupancy) /\ Occupancy \in 0 .. ROB_SIZE - 1
                   /\ buffer'[fl_head] = NewEntry(isns[1], free[fl_head], old[1])
      /\ n = 2 => /\ s2 = Wrap(head + (Occupancy + 1)) /\ Occupancy + 1 \in 0 .. ROB_SIZE - 1
                  /\ buffer'[s2] = NewEntry(isns[2], free[s2], old[2])
  BY WindowAfter
<1> HIDE DEF s2, old
<1>2. /\ CountsAgree /\ TagsInRing /\ Distinct(free, at_map) /\ head \in ROB_PTR
      /\ Occupancy \in 0 .. ROB_SIZE /\ Occupied = SlotsIn(head, Occupancy)
  BY Counts DEF RingInv
<1>3. ASSUME NEW x, x \in Pending' PROVE
        \/ x \in Pending /\ x \notin cdb
        \/ n >= 1 /\ x = free[fl_head]
        \/ n = 2 /\ x = free[s2]
  <2>1. PICK i \in Occupied' : buffer'[i].tag = x /\ ~buffer'[i].complete
    BY <1>3 DEF Pending
  <2>2. CASE i \in Occupied
    <3>1. buffer'[i] = Completed(buffer[i], cdb)
      BY <1>1, <2>2
    <3>2. buffer[i].tag = x /\ ~buffer[i].complete /\ x \notin cdb
      BY <2>1, <2>2, <3>1, CompletedFields DEF TypeOK, Occupied
    <3> QED BY <2>2, <3>2 DEF Pending
  <2>3. CASE n >= 1 /\ i = fl_head
    BY <1>1, <2>1, <2>3 DEF NewEntry
  <2>4. CASE n = 2 /\ i = s2
    BY <1>1, <2>1, <2>4 DEF NewEntry
  <2> QED BY <1>1, <2>1, <2>2, <2>3, <2>4
<1>4. ASSUME NEW x \in Pending, x \notin cdb PROVE x \in Pending'
  <2>1. PICK i \in Occupied : buffer[i].tag = x /\ ~buffer[i].complete
    BY DEF Pending
  <2>2. i \in Occupied' /\ buffer'[i] = Completed(buffer[i], cdb)
    BY <1>1, <2>1, PendingStays
  <2>3. buffer'[i].tag = x /\ ~buffer'[i].complete
    BY <1>4, <2>1, <2>2, CompletedFields DEF TypeOK, Occupied
  <2> QED BY <2>2, <2>3 DEF Pending
<1>5. /\ n >= 1 => fl_head \in ROB_PTR /\ fl_head \notin Occupied
      /\ n = 2 => s2 \in ROB_PTR /\ s2 \notin Occupied
  <2>1. n >= 1 => fl_head \in ROB_PTR /\ Dist(head, fl_head) = Occupancy
    BY <1>1, <1>2, DistOf
  <2>2. n = 2 => s2 \in ROB_PTR /\ Dist(head, s2) = Occupancy + 1
    BY <1>1, <1>2, DistOf
  <2> QED BY <1>2, <2>1, <2>2 DEF Occupied
<1>6. ASSUME NEW x \in cdb PROVE x \notin Pending'
  <2>1. PICK j \in Waiting(R) : x = buffer[j].tag
    BY DEF Broadcasts
  <2>2. j \in Occupied /\ j \in ROB_PTR /\ x = free[j]
    BY <1>2, <2>1, WaitingInFlight DEF TagsInRing, Occupied
  <2>3. n >= 1 => x # free[fl_head]
    BY <1>2, <1>5, <2>2 DEF Distinct
  <2>4. n = 2 => x # free[s2]
    BY <1>2, <1>5, <2>2 DEF Distinct
  <2> QED BY <1>3, <2>3, <2>4
<1>7. ASSUME NEW l \in Int, l <= Occupancy, NEW x, Known(x, head, l, Olds, free, at_map)
      PROVE  x \in Pending' <=> x \in Pending /\ x \notin cdb
  <2>1. n >= 1 => x # free[fl_head]
    BY <1>1, <1>2, <1>7, KnownIsOther
  <2>2. n = 2 => x # free[s2]
    BY <1>1, <1>2, <1>7, KnownIsOther
  <2> QED BY <1>3, <1>4, <2>1, <2>2
<1>8. \A j \in 1 .. 2 : n >= j /\ isns[j].dest \in NAMED_REG =>
        isns[j] \in Instruction /\ ~(isns[j].halt \/ isns[j].noop)
  <2> SUFFICES ASSUME NEW j \in 1 .. 2, n >= j, isns[j].dest \in NAMED_REG
               PROVE  isns[j] \in Instruction /\ ~(isns[j].halt \/ isns[j].noop)
    OBVIOUS
  <2>1. isns[j] \in Insns
    BY OffersType DEF Dispatchable
  <2>2. isns[j].dest # ZERO_REG
    BY SizeAssumption DEF NAMED_REG, ZERO_REG
  <2> QED BY <2>1, <2>2, EnvironmentAssumption
<1>9. n >= 1 /\ isns[1].dest \in NAMED_REG => free[fl_head] \in Pending'
  <2> SUFFICES ASSUME n >= 1, isns[1].dest \in NAMED_REG PROVE free[fl_head] \in Pending'
    OBVIOUS
  <2>1. buffer'[fl_head].tag = free[fl_head] /\ ~buffer'[fl_head].complete
    BY <1>1, <1>8, NewEntryFields
  <2>2. fl_head \in Occupied'
    BY <1>1
  <2> QED BY <2>1, <2>2 DEF Pending
<1>10. n = 2 /\ isns[2].dest \in NAMED_REG => free[s2] \in Pending'
  <2> SUFFICES ASSUME n = 2, isns[2].dest \in NAMED_REG PROVE free[s2] \in Pending'
    OBVIOUS
  <2>1. buffer'[s2].tag = free[s2] /\ ~buffer'[s2].complete
    BY <1>1, <1>8, NewEntryFields
  <2>2. s2 \in Occupied'
    BY <1>1
  <2> QED BY <2>1, <2>2 DEF Pending
<1> QED BY <1>6, <1>7, <1>9, <1>10 DEF s2

LEMMA WrongPending ==
  ASSUME TypeOK, RingInv, NEW br \in bs_bmask, NEW cdb, Wrong(br, cdb)
  PROVE  \A l \in Int : l <= Age(br) + 1 => \A x :
           Known(x, head, l, Olds, free, at_map) =>
             (x \in Pending' <=> x \in Pending /\ x \notin cdb)
<1> DEFINE L == Age(br) + 1
<1>1. /\ CountsAgree /\ CheckpointsOrdered /\ BranchesWait /\ TagsInRing
      /\ Distinct(free, at_map)
  BY DEF RingInv
<1>2. /\ head' = nextHead /\ Occupancy' = L - rob_nRetired
      /\ rob_nRetired \in 0 .. 2 /\ head \in ROB_PTR /\ nextHead = Wrap(head + rob_nRetired)
      /\ nextHead \in ROB_PTR
      /\ L \in rob_nRetired .. ROB_SIZE /\ L <= Occupancy /\ L \in Int
      /\ Occupancy \in 0 .. ROB_SIZE /\ Occupied = SlotsIn(head, Occupancy)
  BY <1>1, RecoverCounts, BranchStays, Counts, SizeAssumption DEF Wrong
<1>3. buffer' = [i \in ROB_PTR |-> Completed(buffer[i], cdb)]
  BY DEF Wrong, ROBRecover
<1> HIDE DEF L
<1>4. \A i : i \in Occupied' <=>
        i \in ROB_PTR /\ Dist(head, i) >= rob_nRetired /\ Dist(head, i) < L
  <2>1. Occupied' = SlotsIn(nextHead, L - rob_nRetired)
    BY <1>2 DEF Occupied, SlotsIn
  <2>2. ASSUME NEW i \in SlotsIn(nextHead, L - rob_nRetired)
        PROVE  i \in ROB_PTR /\ Dist(head, i) >= rob_nRetired /\ Dist(head, i) < L
    BY <1>1, <1>2, SlotsLeft DEF SlotsIn
  <2>3. ASSUME NEW i \in ROB_PTR, Dist(head, i) >= rob_nRetired, Dist(head, i) < L
        PROVE  i \in SlotsIn(nextHead, L - rob_nRetired)
    <3>1. Dist(nextHead, i) = Dist(head, i) - rob_nRetired /\ Dist(head, i) \in 0 .. ROB_SIZE - 1
      <4>1. /\ head \in ROB_PTR /\ rob_nRetired \in 0 .. 2
            /\ nextHead = Wrap(head + rob_nRetired)
        BY <1>2
      <4>2. Dist(Wrap(head + rob_nRetired), i) = Dist(head, i) - rob_nRetired
        BY <2>3, <4>1, DistFrom
      <4> QED BY <4>1, <4>2, DistType
    <3> QED BY <1>2, <2>3, <3>1 DEF SlotsIn
  <2> QED BY <2>1, <2>2, <2>3
<1>5. \A i \in Occupied' : i \in Occupied
  <2> SUFFICES ASSUME NEW i \in Occupied' PROVE i \in Occupied
    OBVIOUS
  <2>1. i \in ROB_PTR /\ Dist(head, i) < L /\ Dist(head, i) \in 0 .. ROB_SIZE - 1
    BY <1>2, <1>4, DistType
  <2> QED BY <1>2, <2>1 DEF SlotsIn
<1>6. ASSUME NEW l \in Int, l <= L, NEW x, Known(x, head, l, Olds, free, at_map)
      PROVE  x \in Pending' <=> x \in Pending /\ x \notin cdb
  <2>1. ASSUME x \in Pending' PROVE x \in Pending /\ x \notin cdb
    <3>1. PICK i \in Occupied' : buffer'[i].tag = x /\ ~buffer'[i].complete
      BY <2>1 DEF Pending
    <3>2. i \in Occupied /\ i \in ROB_PTR /\ buffer[i] \in ROBEntry
      BY <1>5 DEF Occupied, TypeOK
    <3>3. buffer[i].tag = x /\ ~buffer[i].complete /\ x \notin cdb
      BY <1>3, <3>1, <3>2, CompletedFields
    <3> QED BY <3>2, <3>3 DEF Pending
  <2>2. ASSUME x \in Pending, x \notin cdb PROVE x \in Pending'
    <3>1. PICK i \in Occupied : buffer[i].tag = x /\ ~buffer[i].complete
      BY <2>2 DEF Pending
    <3>2. i \in ROB_PTR /\ buffer[i] \in ROBEntry /\ x = free[i]
      BY <1>1, <3>1 DEF Occupied, TypeOK, TagsInRing
    <3>3. i \in SlotsIn(head, l)
      BY <1>1, <1>6, <3>2 DEF Known, Distinct, SlotsIn
    <3>4. Dist(head, i) < L /\ Dist(head, i) >= rob_nRetired
      <4>1. Dist(head, i) < L
        BY <1>2, <1>6, <3>3, DistType DEF SlotsIn
      <4>2. Dist(head, i) >= rob_nRetired
        BY <3>1, PendingStays
      <4> QED BY <4>1, <4>2
    <3>5. i \in Occupied'
      BY <1>4, <3>2, <3>4
    <3>6. buffer'[i].tag = x /\ ~buffer'[i].complete
      BY <1>3, <2>2, <3>1, <3>2, CompletedFields
    <3> QED BY <3>5, <3>6 DEF Pending
  <2> QED BY <2>1, <2>2
<1> QED BY <1>6 DEF L

-----------------------------------------------------------------------------
(* A map that was exact, and is told of the broadcasts, is exact.          *)
LEMMA MarkReadyFields ==
  ASSUME NEW m \in RegisterMap, NEW cdb, NEW r \in NAMED_REG
  PROVE  /\ MarkReady(m, cdb)[r].register = m[r].register
         /\ MarkReady(m, cdb)[r].ready <=> m[r].ready \/ m[r].register \in cdb
<1>1. m[r].ready \in BOOLEAN /\ (m[r].register \in cdb) \in BOOLEAN
  BY DEF RegisterMap, PHYS_WITH_READY
<1>2. MarkReady(m, cdb)[r].ready = (m[r].ready \/ m[r].register \in cdb)
  BY DEF MarkReady
<1>3. MarkReady(m, cdb)[r].register = m[r].register
  BY DEF MarkReady
<1> QED BY <1>1, <1>2, <1>3

LEMMA MarkReadyExact ==
  ASSUME NEW m \in RegisterMap, NEW cdb, NEW P, NEW Q, Exact(m, P),
         \A r \in NAMED_REG : m[r].register \in Q <=> m[r].register \in P /\ m[r].register \notin cdb
  PROVE  Exact(MarkReady(m, cdb), Q)
BY MarkReadyFields DEF Exact

LEMMA FitsKnown ==
  ASSUME NEW m, NEW h, NEW l, NEW old, NEW fr, NEW am, Fits(Names(m), h, l, old, fr, am),
         NEW r \in NAMED_REG
  PROVE  Known(m[r].register, h, l, old, fr, am)
<1>1. Names(m)[r] = m[r].register
  BY DEF Names
<1>2. Known(Names(m)[r], h, l, old, fr, am)
  BY DEF Fits
<1> QED BY <1>1, <1>2

LEMMA CoreExact ==
  ASSUME TypeOK, RingInv, ReadyBitsExact,
         NEW isns \in Offers, NEW n \in 0 .. 2, n <= Len(isns),
         n <= fl_availableRegs, NEW R \in SUBSET bs_bmask,
         NEW cdb \in Broadcasts(Waiting(R)), CoreCycle(n, isns, cdb),
         StackCycle(n, isns, R, cdb), map' \in RegisterMap
  PROVE  ReadyBitsExact'
<1>1. /\ \A l \in Int : l <= Occupancy => \A x :
           Known(x, head, l, Olds, free, at_map) =>
             (x \in Pending' <=> x \in Pending /\ x \notin cdb)
      /\ \A x \in cdb : x \notin Pending'
      /\ n >= 1 /\ isns[1].dest \in NAMED_REG => free[fl_head] \in Pending'
      /\ n = 2 /\ isns[2].dest \in NAMED_REG => free[Wrap(fl_head + 1)] \in Pending'
  BY CorePending
<1>2. /\ Exact(map, Pending) /\ \A b \in bs_bmask : Exact(bs_stack[b].map, Pending)
      /\ map \in RegisterMap /\ \A b \in bs_bmask : bs_stack[b].map \in RegisterMap
  BY ReadyExact DEF TypeOK, bs_bmask, BSEntry
<1>3. /\ Occupancy \in Int /\ Fits(Names(map), head, Occupancy, Olds, free, at_map)
      /\ \A b \in bs_bmask :
           /\ Age(b) + 1 \in Int /\ Age(b) + 1 <= Occupancy
           /\ Fits(Names(bs_stack[b].map), head, Age(b) + 1, Olds, free, at_map)
  <2>1. \A b \in bs_bmask : Age(b) + 1 \in Int /\ Age(b) + 1 <= Occupancy
    BY BranchStays, Counts DEF RingInv
  <2> QED BY <2>1, Counts DEF RingInv, MapsFit
<1>4. Exact(MarkReady(map, cdb), Pending')
  <2>1. \A r \in NAMED_REG :
          map[r].register \in Pending' <=> map[r].register \in Pending /\ map[r].register \notin cdb
    BY <1>1, <1>3, FitsKnown
  <2> QED BY <1>2, <2>1, MarkReadyExact
<1>5. \A b \in bs_bmask : Exact(MarkReady(bs_stack[b].map, cdb), Pending')
  <2> SUFFICES ASSUME NEW b \in bs_bmask PROVE Exact(MarkReady(bs_stack[b].map, cdb), Pending')
    OBVIOUS
  <2> DEFINE m == bs_stack[b].map
  <2>1. \A r \in NAMED_REG :
          m[r].register \in Pending' <=> m[r].register \in Pending /\ m[r].register \notin cdb
    BY <1>1, <1>3, FitsKnown
  <2>2. m \in RegisterMap /\ Exact(m, Pending)
    BY <1>2
  <2> HIDE DEF m
  <2>3. Exact(MarkReady(m, cdb), Pending')
    BY <2>1, <2>2, MarkReadyExact
  <2> QED BY <2>3 DEF m
<1>6. Exact(map', Pending')
  <2> SUFFICES ASSUME NEW r \in NAMED_REG
               PROVE  map'[r].ready <=> map'[r].register \notin Pending'
    BY DEF Exact
  <2>0. map'[r] = IF Writer(r, n, isns) = 0 THEN MarkReady(map, cdb)[r]
                  ELSE [register |-> fl_freeRegs[Writer(r, n, isns)], ready |-> FALSE]
    BY DEF CoreCycle, MTCycle, mt_nextMap
  <2>1. CASE Writer(r, n, isns) = 0
    BY <1>4, <2>0, <2>1 DEF Exact
  <2>2. CASE n >= 1 /\ isns[1].dest = r /\ Writer(r, n, isns) = 1
    <3>1. map'[r].register = free[fl_head] /\ ~map'[r].ready
      BY <2>0, <2>2 DEF fl_freeRegs
    <3> QED BY <1>1, <2>2, <3>1
  <2>3. CASE n = 2 /\ isns[2].dest = r /\ Writer(r, n, isns) = 2
    <3>1. map'[r].register = free[Wrap(fl_head + 1)] /\ ~map'[r].ready
      BY <2>0, <2>3 DEF fl_freeRegs
    <3> QED BY <1>1, <2>3, <3>1
  <2> QED BY <2>1, <2>2, <2>3 DEF Writer
<1>7. Exact(MarkReady(map', cdb), Pending')
  BY <1>1, <1>6, MarkReadyExact
<1>8. \A b \in bs_bmask' : Exact(bs_stack'[b].map, Pending')
  <2> SUFFICES ASSUME NEW b \in bs_bmask' PROVE Exact(bs_stack'[b].map, Pending')
    OBVIOUS
  <2>1. CASE b \in bs_bmask \ R
    BY <1>5, <2>1 DEF StackCycle
  <2>2. CASE BranchDispatched(n, isns) /\ bs_stack'[b].map = MarkReady(map', cdb)
    BY <1>7, <2>2
  <2>p. PICK p : p = bs_ptr
    OBVIOUS
  <2>3. b \in bs_bmask \ R \/ (BranchDispatched(n, isns) /\ b = p)
    BY <2>p DEF StackCycle, Pushed
  <2>4. BranchDispatched(n, isns) => bs_stack'[p].map = MarkReady(map', cdb)
    BY <2>p DEF StackCycle
  <2> QED BY <2>1, <2>2, <2>3, <2>4
<1>9. ReadyBitsExact' <=>
        Exact(map', Pending') /\ \A b \in bs_bmask' : Exact(bs_stack'[b].map, Pending')
  BY DEF ReadyBitsExact, Exact
<1> QED BY <1>6, <1>8, <1>9

LEMMA WrongExact ==
  ASSUME SafeInv, ReadyBitsExact, NEW br \in bs_bmask, NEW cdb, Wrong(br, cdb)
  PROVE  ReadyBitsExact'
<1>0. TypeOK /\ BranchOrder /\ RingInv /\ CountsAgree /\ CheckpointsOrdered /\ BranchesWait
  BY DEF SafeInv, RingInv
<1>1. \A l \in Int : l <= Age(br) + 1 => \A x :
        Known(x, head, l, Olds, free, at_map) =>
          (x \in Pending' <=> x \in Pending /\ x \notin cdb)
  BY <1>0, WrongPending
<1>2. ASSUME NEW b \in bs_bmask, Age(b) <= Age(br)
      PROVE  Exact(MarkReady(bs_stack[b].map, cdb), Pending')
  <2> DEFINE m == bs_stack[b].map
  <2>1. Age(b) + 1 \in Int /\ Age(b) + 1 <= Age(br) + 1
    BY <1>0, <1>2, BranchStays
  <2>2. Fits(Names(m), head, Age(b) + 1, Olds, free, at_map)
    BY <1>0 DEF RingInv, MapsFit
  <2>3. \A r \in NAMED_REG :
          m[r].register \in Pending' <=> m[r].register \in Pending /\ m[r].register \notin cdb
    BY <1>1, <2>1, <2>2, FitsKnown
  <2>4. m \in RegisterMap /\ Exact(m, Pending)
    BY <1>0, ReadyExact DEF TypeOK, bs_bmask, BSEntry
  <2> HIDE DEF m
  <2>5. Exact(MarkReady(m, cdb), Pending')
    BY <2>3, <2>4, MarkReadyExact
  <2> QED BY <2>5 DEF m
<1>3. Age(br) \in Int
  BY <1>0, BranchStays
<1>4. /\ bs_bmask' = {c \in bs_bmask : Age(c) < Age(br)}
      /\ \A c \in bs_bmask' : bs_stack'[c].map = MarkReady(bs_stack[c].map, cdb)
  BY <1>0, WrongStack DEF Wrong
<1>5. \A b \in bs_bmask' : Exact(bs_stack'[b].map, Pending')
  <2> SUFFICES ASSUME NEW b \in bs_bmask' PROVE Exact(bs_stack'[b].map, Pending')
    OBVIOUS
  <2>1. b \in bs_bmask /\ Age(b) < Age(br) /\ bs_stack'[b].map = MarkReady(bs_stack[b].map, cdb)
    BY <1>4
  <2>2. Age(b) <= Age(br)
    BY <1>0, <1>3, <2>1, BranchStays
  <2> QED BY <1>2, <2>1, <2>2
<1>6. Exact(map', Pending')
  <2>1. \A r \in NAMED_REG : map'[r] = MarkReady(bs_stack[br].map, cdb)[r]
    BY DEF Wrong, MTRecover, mt_nextMap, Writer
  <2>2. Exact(MarkReady(bs_stack[br].map, cdb), Pending')
    BY <1>2, <1>3
  <2> QED BY <2>1, <2>2 DEF Exact
<1>7. ReadyBitsExact' <=>
        Exact(map', Pending') /\ \A b \in bs_bmask' : Exact(bs_stack'[b].map, Pending')
  BY DEF ReadyBitsExact, Exact
<1> QED BY <1>5, <1>6, <1>7

-----------------------------------------------------------------------------
LEMMA InitExact == Init => ReadyBitsExact
<1> SUFFICES ASSUME Init PROVE ReadyBitsExact
  OBVIOUS
<1>1. bs_bmask = {} /\ map = ResetMap
  BY DEF Init, BSInit, MTInit, bs_bmask, NoEntry
<1>2. Pending = {}
  <2>1. Occupancy = 0 /\ head \in ROB_PTR
    BY SizeAssumption DEF Init, ROBInit, Occupancy, ROB_PTR
  <2>2. \A i \in ROB_PTR : ~(Dist(head, i) < Occupancy)
    BY <2>1, DistType
  <2> QED BY <2>2 DEF Pending, Occupied
<1>3. \A r \in NAMED_REG : map[r].ready = TRUE
  BY <1>1 DEF ResetMap
<1> QED BY <1>1, <1>2, <1>3 DEF ReadyBitsExact

LEMMA ExactStep ==
  SafeInv /\ SafeInv' /\ ReadyBitsExact /\ [SafeNext]_vars => ReadyBitsExact'
<1> SUFFICES ASSUME SafeInv, SafeInv', ReadyBitsExact, [SafeNext]_vars
             PROVE  ReadyBitsExact'
  OBVIOUS
<1>0. TypeOK /\ TypeOK' /\ RingInv /\ map' \in RegisterMap
  BY DEF SafeInv, TypeOK
<1>1. CASE DispatchCycle
  <2>1. PICK isns \in Offers, rs \in RSFree, cdb \in Broadcasts(Waiting({})) :
          Dispatch(isns, rs, cdb)
    BY <1>1 DEF DispatchCycle
  <2> DEFINE n == haz_nDispatched(isns, rs)
  <2>2. n \in 0 .. 2 /\ n <= Len(isns) /\ n <= fl_availableRegs
    BY <1>0, DispatchedType
  <2>3. CoreCycle(n, isns, cdb) /\ StackCycle(n, isns, {}, cdb)
    BY <1>0, <2>1, DispatchStack DEF Dispatch, CoreCycle
  <2> HIDE DEF n
  <2> QED BY <1>0, <2>2, <2>3, CoreExact
<1>2. ASSUME NEW b \in BS_PTR, CorrectCycle(b) PROVE ReadyBitsExact'
  <2>0. b \in bs_bmask
    BY <1>2 DEF CorrectCycle, bs_bmask
  <2>1. PICK isns \in Offers, rs \in RSFree, cdb \in Broadcasts(Waiting({b})) :
          Correct(b, isns, rs, cdb)
    BY <1>2 DEF CorrectCycle
  <2> DEFINE n == haz_nDispatched(isns, rs)
  <2>2. n \in 0 .. 2 /\ n <= Len(isns) /\ n <= fl_availableRegs
    BY <1>0, DispatchedType
  <2>3. CoreCycle(n, isns, cdb) /\ StackCycle(n, isns, {b}, cdb)
    BY <1>0, <2>0, <2>1, CorrectStack DEF Correct, CoreCycle
  <2> HIDE DEF n
  <2> QED BY <1>0, <2>0, <2>2, <2>3, CoreExact
<1>3. ASSUME NEW b \in BS_PTR, WrongCycle(b) PROVE ReadyBitsExact'
  <2>1. b \in bs_bmask
    BY <1>3 DEF WrongCycle, bs_bmask
  <2>2. PICK cdb : Wrong(b, cdb)
    BY <1>3 DEF WrongCycle
  <2> QED BY <2>1, <2>2, WrongExact
<1>4. CASE UNCHANGED vars
  <2>1. Pending' = Pending /\ map' = map /\ bs_stack' = bs_stack /\ bs_bmask' = bs_bmask
    BY <1>4 DEF vars, Pending, Occupied, Occupancy, bs_bmask
  <2> QED BY <2>1 DEF ReadyBitsExact
<1> QED BY <1>1, <1>2, <1>3, <1>4 DEF SafeNext

(* A source is marked ready, in the map and in every checkpoint, exactly    *)
(* when the instruction that writes it has completed: no broadcast misses a *)
(* checkpoint, none marks a register that was handed out again.             *)
THEOREM ReadyBitsExactHolds == SafeSpec => []ReadyBitsExact
BY InitExact, ExactStep, RingHolds, PTL DEF SafeSpec

-----------------------------------------------------------------------------
(* Precise state, and the refinement. *)

(* f[k] is the map m once the first k entries of w have retired, k <= o.   *)
Steps(f, m, w, o) ==
  /\ f[0] = m
  /\ \A k \in 1 .. o : f[k] = Substitute(f[k - 1], w[k])

(* A set of numbers that is not empty has a least one. *)
LEMMA LeastElement ==
  ASSUME NEW T \in SUBSET Nat, T # {}
  PROVE  \E x \in T : \A y \in T : ~(y < x)
<1>1. PICK x \in T : \A y \in T : <<y, x>> \notin OpToRel(<, Nat)
  BY WFMin, NatLessThanWellFounded, Zenon
<1> QED BY <1>1, Zenon DEF OpToRel

(* There is only one way to replay the same entries from the same map.     *)
LEMMA StepsAgree ==
  ASSUME NEW f, NEW g, NEW m, NEW w, NEW o \in Nat, Steps(f, m, w, o), Steps(g, m, w, o)
  PROVE  \A k \in 0 .. o : f[k] = g[k]
<1> DEFINE T == {k \in 0 .. o : f[k] # g[k]}
<1>1. SUFFICES ASSUME T # {} PROVE FALSE
  OBVIOUS
<1>2. T \in SUBSET Nat
  OBVIOUS
<1>3. PICK x \in T : \A y \in T : ~(y < x)
  <2> HIDE DEF T
  <2> QED BY <1>1, <1>2, LeastElement
<1>4. x # 0
  BY DEF Steps
<1>5. x \in 1 .. o /\ x - 1 \in 0 .. o
  BY <1>4
<1>6. f[x - 1] = g[x - 1]
  BY <1>3, <1>5
<1> QED BY <1>5, <1>6 DEF Steps

LEMMA ReplayIs ==
  ASSUME NEW f, Occupancy \in Nat, Steps(f, at_map, Window, Occupancy)
  PROVE  \A k \in 0 .. Occupancy : Replay[k] = f[k]
<1> DEFINE F(g) == [k \in 0 .. Occupancy |->
                      IF k = 0 THEN at_map ELSE Substitute(g[k - 1], buffer[RetireSlot(k)])]
           c == [k \in 0 .. Occupancy |-> f[k]]
<1>0. \A k \in 1 .. Occupancy : \A m : Substitute(m, Window[k]) = Substitute(m, buffer[RetireSlot(k)])
  BY DEF Substitute, Window
<1>1. c = F(c)
  BY <1>0 DEF Steps
<1>2. Replay = F(Replay)
  BY <1>1 DEF Replay
<1> HIDE DEF F
<1>3. Steps(Replay, at_map, Window, Occupancy)
  <2>1. \A k \in 0 .. Occupancy :
          Replay[k] = IF k = 0 THEN at_map ELSE Substitute(Replay[k - 1], buffer[RetireSlot(k)])
    BY <1>2 DEF F
  <2> QED BY <1>0, <2>1 DEF Steps
<1> QED BY <1>3, StepsAgree

(* The same for the abstract map after a sequence of instructions.         *)
LEMMA AfterIs ==
  ASSUME NEW f, NEW m, NEW w, Len(w) \in Nat, Steps(f, m, w, Len(w))
  PROVE  Abstract!After(m, w) = f[Len(w)]
<1> DEFINE F(g) == [k \in 0 .. Len(w) |->
                      IF k = 0 THEN m
                      ELSE [r \in NAMED_REG |-> IF g[k - 1][r] = w[k].tagOld THEN w[k].tag
                                                ELSE g[k - 1][r]]]
           c == [k \in 0 .. Len(w) |-> f[k]]
           g == CHOOSE h : h = F(h)
<1>0. \A h : F(h) = [k \in 0 .. Len(w) |-> IF k = 0 THEN m ELSE Substitute(h[k - 1], w[k])]
  BY DEF Substitute
<1>1. c = F(c)
  <2>1. \A k \in 0 .. Len(w) : f[k] = IF k = 0 THEN m ELSE Substitute(c[k - 1], w[k])
    BY DEF Steps
  <2>2. c = [k \in 0 .. Len(w) |-> IF k = 0 THEN m ELSE Substitute(c[k - 1], w[k])]
    BY <2>1
  <2> HIDE DEF F, c
  <2> QED BY <1>0, <2>2
<1>2. g = F(g)
  BY <1>1
<1>3. Abstract!After(m, w) = g[Len(w)]
  BY DEF Abstract!After
<1> HIDE DEF g
<1>4. Steps(g, m, w, Len(w))
  <2>1. g = [k \in 0 .. Len(w) |-> IF k = 0 THEN m ELSE Substitute(g[k - 1], w[k])]
    BY <1>0, <1>2
  <2> QED BY <2>1 DEF Steps
<1> QED BY <1>3, <1>4, StepsAgree

LEMMA AfterSmall ==
  ASSUME NEW m, NEW w, Len(w) \in 0 .. 2
  PROVE  /\ Len(w) = 0 => Abstract!After(m, w) = m
         /\ Len(w) = 1 => Abstract!After(m, w) = Substitute(m, w[1])
         /\ Len(w) = 2 => Abstract!After(m, w) = Substitute(Substitute(m, w[1]), w[2])
<1> DEFINE f == [k \in 0 .. 2 |-> IF k = 0 THEN m ELSE IF k = 1 THEN Substitute(m, w[1])
                                  ELSE Substitute(Substitute(m, w[1]), w[2])]
<1>1. /\ f[0] = m /\ f[1] = Substitute(m, w[1])
      /\ f[2] = Substitute(Substitute(m, w[1]), w[2])
  OBVIOUS
<1> HIDE DEF f
<1>2. Steps(f, m, w, Len(w))
  BY <1>1 DEF Steps
<1>3. Abstract!After(m, w) = f[Len(w)]
  BY <1>2, AfterIs
<1> QED BY <1>1, <1>3

-----------------------------------------------------------------------------
(* The window as a sequence. *)
Entries == [tag : PHYS_REG, tagOld : PHYS_REG, complete : BOOLEAN]

LEMMA WindowEntries ==
  ASSUME TypeOK, CountsAgree
  PROVE  /\ Occupancy \in 0 .. ROB_SIZE
         /\ Window \in Seq(Entries) /\ Len(Window) = Occupancy
         /\ \A k \in 1 .. Occupancy :
              /\ RetireSlot(k) \in Occupied /\ RetireSlot(k) \in ROB_PTR
              /\ Dist(head, RetireSlot(k)) = k - 1
              /\ Window[k].tag = buffer[RetireSlot(k)].tag
              /\ Window[k].tagOld = buffer[RetireSlot(k)].tagOld
              /\ Window[k].complete = buffer[RetireSlot(k)].complete
<1>1. Occupancy \in 0 .. ROB_SIZE /\ head \in ROB_PTR
  BY Counts
<1>2. ASSUME NEW k \in 1 .. Occupancy
      PROVE  /\ RetireSlot(k) \in Occupied /\ RetireSlot(k) \in ROB_PTR
             /\ Dist(head, RetireSlot(k)) = k - 1
  <2>1. k - 1 \in 0 .. ROB_SIZE - 1 /\ head + (k - 1) = head + k - 1
    BY <1>1, SizeAssumption DEF ROB_PTR
  <2>2. RetireSlot(k) \in ROB_PTR /\ Dist(head, RetireSlot(k)) = k - 1
    BY <1>1, <2>1, DistOf DEF RetireSlot
  <2> QED BY <1>1, <2>2 DEF Occupied
<1>3. \A k \in 1 .. Occupancy : Window[k] \in Entries
  BY <1>2 DEF Window, Entries, TypeOK, ROBEntry
<1>4. Window \in [1 .. Occupancy -> Entries]
  BY <1>3 DEF Window
<1>5. Window \in Seq(Entries) /\ Len(Window) = Occupancy
  <2> HIDE DEF Occupancy, Window
  <2> QED BY <1>1, <1>4, IsASeq, LenProperties
<1> QED BY <1>1, <1>2, <1>5 DEF Window

LEMMA WrapShift ==
  ASSUME NEW h \in ROB_PTR, NEW r \in 0 .. 2, NEW k \in 1 .. ROB_SIZE, k + r <= ROB_SIZE
  PROVE  Wrap(Wrap(h + r) + k - 1) = Wrap(h + (k + r) - 1)
BY SizeAssumption DEF Wrap, ROB_PTR

(* An entry moves up as the older ones retire, and may complete. *)
Moved(r, o, cdb) ==
  \A k \in 1 .. o :
    /\ k + r \in 1 .. Occupancy
    /\ Window'[k].tag = Window[k + r].tag
    /\ Window'[k].tagOld = Window[k + r].tagOld
    /\ Window'[k].complete <=> Window[k + r].complete \/ Window[k + r].tag \in cdb

LEMMA NextWindow ==
  ASSUME NEW k, k \in 1 .. Occupancy'
  PROVE  /\ Window'[k].tag = buffer'[Wrap(head' + k - 1)].tag
         /\ Window'[k].tagOld = buffer'[Wrap(head' + k - 1)].tagOld
         /\ Window'[k].complete = buffer'[Wrap(head' + k - 1)].complete
BY DEF Window, RetireSlot

LEMMA WindowMoves ==
  ASSUME TypeOK, CountsAgree, NEW o \in 0 .. ROB_SIZE, o + rob_nRetired <= Occupancy,
         Occupancy' \in Int, o <= Occupancy', head' = nextHead, NEW cdb,
         \A i \in Occupied : Dist(head, i) < o + rob_nRetired =>
           buffer'[i] = Completed(buffer[i], cdb)
  PROVE  Moved(rob_nRetired, o, cdb)
<1> SUFFICES ASSUME NEW k \in 1 .. o
             PROVE  LET j == k + rob_nRetired
                    IN  /\ j \in 1 .. Occupancy
                        /\ Window'[k].tag = Window[j].tag
                        /\ Window'[k].tagOld = Window[j].tagOld
                        /\ Window'[k].complete <=> Window[j].complete \/ Window[j].tag \in cdb
  BY DEF Moved
<1> DEFINE j == k + rob_nRetired
<1>1. /\ Occupancy \in 0 .. ROB_SIZE /\ head \in ROB_PTR /\ rob_nRetired \in 0 .. 2
      /\ nextHead = Wrap(head + rob_nRetired) /\ nextHead \in ROB_PTR
  BY Counts
<1>2. j \in 1 .. Occupancy /\ k \in 1 .. ROB_SIZE /\ j <= ROB_SIZE
  BY <1>1, SizeAssumption
<1>3. RetireSlot(k)' = RetireSlot(j)
  BY <1>1, <1>2, WrapShift DEF RetireSlot
<1>4. /\ RetireSlot(j) \in Occupied /\ RetireSlot(j) \in ROB_PTR
      /\ Dist(head, RetireSlot(j)) = j - 1
      /\ Window[j].tag = buffer[RetireSlot(j)].tag
      /\ Window[j].tagOld = buffer[RetireSlot(j)].tagOld
      /\ Window[j].complete = buffer[RetireSlot(j)].complete
  BY <1>2, WindowEntries
<1>5. k \in 1 .. Occupancy'
  OBVIOUS
<1>6. /\ Window'[k].tag = buffer'[RetireSlot(k)'].tag
      /\ Window'[k].tagOld = buffer'[RetireSlot(k)'].tagOld
      /\ Window'[k].complete = buffer'[RetireSlot(k)'].complete
  BY <1>5, NextWindow DEF RetireSlot
<1>7. buffer'[RetireSlot(j)] = Completed(buffer[RetireSlot(j)], cdb)
  BY <1>1, <1>2, <1>4
<1>8. buffer[RetireSlot(j)] \in ROBEntry
  BY <1>4 DEF TypeOK
<1> QED BY <1>2, <1>3, <1>4, <1>6, <1>7, <1>8, CompletedFields

(* What an instruction that enters does to the map is what its retirement  *)
(* will do: the map is one to one and names the zero register nowhere.      *)
LEMMA EnteringSubstitutes ==
  ASSUME NEW h \in ROB_PTR, NEW o \in 0 .. ROB_SIZE - 1, NEW m, NEW m2,
         NEW old, NEW old2, NEW fr, NEW am, NEW e,
         Distinct(fr, am), Fits(m, h, o, old, fr, am),
         Entering(h, o, old, fr, m, old2, m2),
         e.tag = fr[Wrap(h + o)], e.tagOld = old2[Wrap(h + o)]
  PROVE  \A r \in NAMED_REG : m2[r] = Substitute(m, e)[r]
<1>1. \A r \in NAMED_REG : m[r] # PHYS_ZERO_REG
  <2> SUFFICES ASSUME NEW r \in NAMED_REG PROVE m[r] # PHYS_ZERO_REG
    OBVIOUS
  <2>1. Known(m[r], h, o, old, fr, am)
    BY DEF Fits
  <2>2. o \in Int /\ o <= o
    OBVIOUS
  <2> QED BY <2>1, <2>2, KnownIsOther
<1>2. \A q, r \in NAMED_REG : m[q] = m[r] => q = r
  BY DEF Fits
<1>3. \A r \in NAMED_REG : Substitute(m, e)[r] = IF m[r] = e.tagOld THEN e.tag ELSE m[r]
  BY DEF Substitute
<1>4. CASE e.tagOld = PHYS_ZERO_REG /\ \A q \in NAMED_REG : m2[q] = m[q]
  BY <1>1, <1>3, <1>4
<1>5. CASE \E r \in NAMED_REG : /\ e.tagOld = m[r] /\ m2[r] = e.tag
                                /\ \A q \in NAMED_REG \ {r} : m2[q] = m[q]
  BY <1>2, <1>3, <1>5
<1> QED BY <1>4, <1>5 DEF Entering

(* The entries behind the window after a cycle of dispatch. *)
LEMMA WindowGrows ==
  ASSUME TypeOK, RingInv, NEW isns \in Offers, NEW n \in 0 .. 2, n <= Len(isns),
         n <= fl_availableRegs, NEW cdb, CoreCycle(n, isns, cdb)
  PROVE  LET o == Occupancy - rob_nRetired
             s2 == Wrap(fl_head + 1)
         IN  /\ o \in 0 .. ROB_SIZE /\ Occupancy' = o + n /\ Occupancy + n <= ROB_SIZE
             /\ Moved(rob_nRetired, o, cdb)
             /\ n >= 1 => /\ Wrap(nextHead + o) = fl_head /\ o \in 0 .. ROB_SIZE - 1
                          /\ fl_head \in ROB_PTR /\ fl_head \notin Occupied
                          /\ free'[fl_head] = free[fl_head]
                          /\ Window'[o + 1].tag = free[fl_head]
                          /\ Window'[o + 1].tagOld = Olds'[fl_head]
             /\ n = 2 => /\ Wrap(nextHead + (o + 1)) = s2 /\ o + 1 \in 0 .. ROB_SIZE - 1
                         /\ s2 \in ROB_PTR /\ s2 \notin Occupied /\ s2 # fl_head
                         /\ free'[s2] = free[s2]
                         /\ Window'[o + 2].tag = free[s2]
                         /\ Window'[o + 2].tagOld = Olds'[s2]
<1> DEFINE o == Occupancy - rob_nRetired
           s2 == Wrap(fl_head + 1)
<1>0. CountsAgree
  BY DEF RingInv
<1>1. /\ Occupancy \in 0 .. ROB_SIZE /\ rob_nRetired \in 0 .. 2 /\ rob_nRetired <= Occupancy
      /\ head \in ROB_PTR /\ nextHead = Wrap(head + rob_nRetired) /\ nextHead \in ROB_PTR
      /\ head' = nextHead /\ Occupancy' = o + n /\ Occupancy + n <= ROB_SIZE
      /\ o \in 0 .. ROB_SIZE /\ o + rob_nRetired = Occupancy
  BY <1>0, Counts, CoreCounts, SizeAssumption
<1>2. Moved(rob_nRetired, o, cdb)
  <2>1. \A i \in Occupied : buffer'[i] = Completed(buffer[i], cdb)
    BY WindowAfter
  <2>2. Occupancy' \in Int /\ o <= Occupancy' /\ o + rob_nRetired <= Occupancy
    BY <1>1
  <2> HIDE DEF o
  <2> QED BY <1>0, <1>1, <2>1, <2>2, WindowMoves
<1>3. /\ n >= 1 => /\ Wrap(nextHead + o) = fl_head /\ o \in 0 .. ROB_SIZE - 1
                   /\ fl_head = Wrap(head + Occupancy) /\ Occupancy \in 0 .. ROB_SIZE - 1
      /\ n = 2 => /\ Wrap(nextHead + (o + 1)) = s2 /\ o + 1 \in 0 .. ROB_SIZE - 1
                  /\ s2 = Wrap(head + (Occupancy + 1)) /\ Occupancy + 1 \in 0 .. ROB_SIZE - 1
  <2>1. /\ n >= 1 => Wrap(nextHead + o) = fl_head /\ o \in 0 .. ROB_SIZE - 1
        /\ n = 2 => Wrap(nextHead + (o + 1)) = s2 /\ o + 1 \in 0 .. ROB_SIZE - 1
    BY <1>0, <1>1, EntrySlots, SizeAssumption
  <2> QED BY <2>1, WindowAfter
<1>4. /\ n >= 1 => fl_head \in ROB_PTR /\ Dist(head, fl_head) = Occupancy
      /\ n = 2 => s2 \in ROB_PTR /\ Dist(head, s2) = Occupancy + 1
  BY <1>1, <1>3, DistOf
<1>5. /\ n >= 1 => fl_head \notin Occupied /\ free'[fl_head] = free[fl_head]
      /\ n = 2 => s2 \notin Occupied /\ free'[s2] = free[s2] /\ s2 # fl_head
  <2>1. free' = nextFree(Retired, rob_nRetired)
    BY DEF CoreCycle, FLCycle
  <2>2. n >= 1 => free'[fl_head] = free[fl_head]
    BY <1>0, <1>1, <1>4, <2>1, FreeFrame
  <2>3. n = 2 => free'[s2] = free[s2]
    BY <1>0, <1>1, <1>4, <2>1, FreeFrame
  <2>4. n >= 1 => fl_head \notin Occupied
    BY <1>1, <1>4 DEF Occupied
  <2>5. n = 2 => s2 \notin Occupied /\ s2 # fl_head
    BY <1>1, <1>4 DEF Occupied
  <2> QED BY <2>2, <2>3, <2>4, <2>5
<1>6. n >= 1 => /\ Window'[o + 1].tag = buffer'[fl_head].tag
                /\ Window'[o + 1].tagOld = buffer'[fl_head].tagOld
  <2>1. n >= 1 => Wrap(head' + (o + 1) - 1) = fl_head /\ o + 1 \in 1 .. Occupancy'
    <3>1. head' + (o + 1) - 1 = head' + o
      BY <1>1 DEF ROB_PTR
    <3> QED BY <1>1, <1>3, <3>1
  <2> HIDE DEF o
  <2> QED BY <2>1, NextWindow
<1>7. n = 2 => /\ Window'[o + 2].tag = buffer'[s2].tag
               /\ Window'[o + 2].tagOld = buffer'[s2].tagOld
  <2>1. n = 2 => Wrap(head' + (o + 2) - 1) = s2 /\ o + 2 \in 1 .. Occupancy'
    <3>1. head' + (o + 2) - 1 = head' + (o + 1)
      BY <1>1 DEF ROB_PTR
    <3> QED BY <1>1, <1>3, <3>1
  <2> HIDE DEF o
  <2> QED BY <2>1, NextWindow
<1>8. /\ n >= 1 => buffer'[fl_head].tag = free[fl_head] /\ Olds'[fl_head] = buffer'[fl_head].tagOld
      /\ n = 2 => buffer'[s2].tag = free[s2] /\ Olds'[s2] = buffer'[s2].tagOld
  <2> DEFINE old == mt_dispatchTagOld(isns, fl_freeRegs)
  <2>1. /\ n >= 1 => buffer'[fl_head] = NewEntry(isns[1], free[fl_head], old[1])
        /\ n = 2 => buffer'[s2] = NewEntry(isns[2], free[s2], old[2])
    BY WindowAfter
  <2> HIDE DEF old
  <2>2. /\ n >= 1 => buffer'[fl_head].tag = free[fl_head]
        /\ n = 2 => buffer'[s2].tag = free[s2]
    BY <2>1 DEF NewEntry
  <2> QED BY <1>4, <2>2 DEF Olds
<1> QED BY <1>1, <1>2, <1>3, <1>4, <1>5, <1>6, <1>7, <1>8

-----------------------------------------------------------------------------
(* The replay of what is in flight leads to the map, and meets each        *)
(* checkpoint on the way.                                                   *)
Recalls(f) ==
  /\ Steps(f, at_map, Window, Occupancy)
  /\ Names(map) = f[Occupancy]
  /\ \A b \in bs_bmask : Names(bs_stack[b].map) = f[Age(b) + 1]

LEMMA SubstituteSame ==
  ASSUME NEW m, NEW d, NEW e, d.tag = e.tag, d.tagOld = e.tagOld
  PROVE  Substitute(m, d) = Substitute(m, e)
BY DEF Substitute

LEMMA ArchIs ==
  ASSUME TypeOK, CountsAgree, NEW f, Steps(f, at_map, Window, Occupancy),
         ATCycle(Retired, rob_nRetired)
  PROVE  at_map' = f[rob_nRetired]
<1>1. rob_nRetired \in 0 .. 2 /\ rob_nRetired <= Occupancy /\ Occupancy \in 0 .. ROB_SIZE
  BY Counts
<1>2. \A j \in 1 .. 2 : j <= Occupancy =>
        \A m : Substitute(m, Retired[j]) = Substitute(m, Window[j])
  <2> SUFFICES ASSUME NEW j \in 1 .. 2, j <= Occupancy, NEW m
               PROVE  Substitute(m, Retired[j]) = Substitute(m, Window[j])
    OBVIOUS
  <2>1. Window[j].tag = Retired[j].tag /\ Window[j].tagOld = Retired[j].tagOld
    BY <1>1, WindowEntries DEF Retired
  <2> QED BY <2>1, SubstituteSame
<1>3. f[0] = at_map
  BY DEF Steps
<1>4. rob_nRetired >= 1 => f[1] = Substitute(at_map, Retired[1])
  BY <1>1, <1>2, <1>3 DEF Steps
<1>5. rob_nRetired = 2 => f[2] = Substitute(Substitute(at_map, Retired[1]), Retired[2])
  BY <1>1, <1>2, <1>4 DEF Steps
<1> QED BY <1>1, <1>3, <1>4, <1>5 DEF ATCycle

LEMMA StepsMove ==
  ASSUME NEW r \in 0 .. 2, NEW o \in Nat, NEW cdb, NEW f, NEW g,
         Steps(f, at_map, Window, Occupancy), Moved(r, o, cdb),
         \A k \in 0 .. o : g[k] = f[k + r]
  PROVE  Steps(g, f[r], Window', o)
<1>1. g[0] = f[r]
  OBVIOUS
<1>2. ASSUME NEW k \in 1 .. o PROVE g[k] = Substitute(g[k - 1], Window'[k])
  <2>1. /\ k + r \in 1 .. Occupancy
        /\ Window'[k].tag = Window[k + r].tag
        /\ Window'[k].tagOld = Window[k + r].tagOld
    BY DEF Moved
  <2>2. f[k + r] = Substitute(f[(k + r) - 1], Window[k + r])
    BY <2>1 DEF Steps
  <2>3. g[k] = f[k + r] /\ g[k - 1] = f[(k + r) - 1]
    <3>1. k - 1 \in 0 .. o /\ (k - 1) + r = (k + r) - 1
      OBVIOUS
    <3> QED BY <3>1
  <2> QED BY <2>1, <2>2, <2>3, SubstituteSame
<1> QED BY <1>1, <1>2 DEF Steps

(* The youngest branch is the last instruction. *)
LEMMA NewestAge ==
  ASSUME TypeOK, RingInv, RingInv', TypeOK', NEW n, NEW isns, NEW cdb, NEW b \in BS_PTR,
         Occupancy' \in 1 .. ROB_SIZE,
         CoreCycle(n, isns, cdb), bs_stack'[b].rob_tail = Wrap(rob_tail + n)
  PROVE  Age(b)' = Occupancy' - 1
<1>1. rob_tail' = Wrap(head' + (Occupancy' - 1)) /\ head' \in ROB_PTR
  BY DEF RingInv, CountsAgree, TypeOK, ROB_PTR
<1>2. bs_stack'[b].rob_tail = rob_tail'
  BY DEF CoreCycle, ROBCycle
<1>3. Occupancy' - 1 \in 0 .. ROB_SIZE - 1
  <2>1. PICK x \in 1 .. ROB_SIZE : x = Occupancy'
    OBVIOUS
  <2>2. x - 1 \in 0 .. ROB_SIZE - 1
    BY SizeAssumption
  <2> QED BY <2>1, <2>2
<1>4. Dist(head', rob_tail') = Occupancy' - 1
  BY <1>1, <1>3, DistOf
<1> QED BY <1>2, <1>4 DEF Age

(* The maps between the instructions that enter, and what those replace.   *)
LEMMA CoreMaps ==
  ASSUME TypeOK, RingInv, NEW isns \in Offers, NEW n \in 0 .. 2, n <= Len(isns),
         n <= fl_availableRegs, NEW cdb, CoreCycle(n, isns, cdb)
  PROVE  LET o == Occupancy - rob_nRetired
             M == FirstMap(isns)
             N == Names(map')
         IN  /\ n = 0 => N = Names(map)
             /\ n = 1 => N = M
             /\ n >= 1 => /\ M = Substitute(Names(map), Window'[o + 1])
                          /\ Window'[o + 1].tagOld = PHYS_ZERO_REG
                               \/ \E q \in NAMED_REG : Window'[o + 1].tagOld = Names(map)[q]
             /\ n = 2 => /\ N = Substitute(M, Window'[o + 2])
                         /\ Window'[o + 2].tagOld = PHYS_ZERO_REG
                              \/ \E q \in NAMED_REG : Window'[o + 2].tagOld = M[q]
<1> DEFINE r == rob_nRetired
           o == Occupancy - r
           s2 == Wrap(fl_head + 1)
           M == FirstMap(isns)
           N == Names(map')
<1>0. /\ CountsAgree /\ TagsInRing
      /\ Distinct(free, at_map) /\ Chained(head, Occupancy, Olds, free, at_map)
      /\ Fits(Names(map), head, Occupancy, Olds, free, at_map)
  BY DEF RingInv, MapsFit
<1>1. nextHead \in ROB_PTR
  BY <1>0, Counts
<1>2. /\ n >= 1 => /\ Wrap(nextHead + o) = fl_head /\ o \in 0 .. ROB_SIZE - 1
                   /\ free'[fl_head] = free[fl_head]
                   /\ Window'[o + 1].tag = free[fl_head]
                   /\ Window'[o + 1].tagOld = Olds'[fl_head]
      /\ n = 2 => /\ Wrap(nextHead + (o + 1)) = s2 /\ o + 1 \in 0 .. ROB_SIZE - 1
                  /\ free'[s2] = free[s2]
                  /\ Window'[o + 2].tag = free[s2]
                  /\ Window'[o + 2].tagOld = Olds'[s2]
  BY WindowGrows
<1>3. /\ Distinct(free', at_map')
      /\ n = 0 => N = Names(map)
      /\ n >= 1 => /\ Entering(nextHead, o, Olds, free', Names(map), Olds', M)
                   /\ Fits(M, nextHead, o + 1, Olds', free', at_map')
      /\ n = 1 => N = M
      /\ n = 2 => Entering(nextHead, o + 1, Olds', free', M, Olds', N)
      /\ Fits(Names(map), nextHead, o, Olds', free', at_map')
  BY <1>0, CoreKeeps
<1>4. Entering(nextHead, o, Olds, free', Names(map), Olds', M) =>
        Entering(nextHead, o, Olds', free', Names(map), Olds', M)
  BY DEF Entering
<1> HIDE DEF M, N, s2, o
<1>5. n >= 1 => /\ M = Substitute(Names(map), Window'[o + 1])
                /\ Window'[o + 1].tagOld = PHYS_ZERO_REG
                     \/ \E q \in NAMED_REG : Window'[o + 1].tagOld = Names(map)[q]
  <2>1. n >= 1 => \A q \in NAMED_REG : M[q] = Substitute(Names(map), Window'[o + 1])[q]
    BY <1>1, <1>2, <1>3, <1>4, EnteringSubstitutes
  <2>2. n >= 1 => M = Substitute(Names(map), Window'[o + 1])
    BY <2>1 DEF M, FirstMap, Substitute
  <2>3. n >= 1 => \/ Window'[o + 1].tagOld = PHYS_ZERO_REG
                  \/ \E q \in NAMED_REG : Window'[o + 1].tagOld = Names(map)[q]
    BY <1>2, <1>3, <1>4 DEF Entering
  <2> QED BY <2>2, <2>3
<1>6. n = 2 => /\ N = Substitute(M, Window'[o + 2])
               /\ Window'[o + 2].tagOld = PHYS_ZERO_REG
                    \/ \E q \in NAMED_REG : Window'[o + 2].tagOld = M[q]
  <2>1. n = 2 => \A q \in NAMED_REG : N[q] = Substitute(M, Window'[o + 2])[q]
    BY <1>1, <1>2, <1>3, EnteringSubstitutes
  <2>2. n = 2 => N = Substitute(M, Window'[o + 2])
    BY <2>1 DEF N, Names, Substitute
  <2>3. n = 2 => \/ Window'[o + 2].tagOld = PHYS_ZERO_REG
                 \/ \E q \in NAMED_REG : Window'[o + 2].tagOld = M[q]
    BY <1>2, <1>3 DEF Entering
  <2> QED BY <2>2, <2>3
<1> QED BY <1>3, <1>5, <1>6 DEF M, N, o

LEMMA CoreRecalls ==
  ASSUME TypeOK, TypeOK', RingInv, RingInv', NEW f, Recalls(f),
         NEW isns \in Offers, NEW n \in 0 .. 2, n <= Len(isns),
         n <= fl_availableRegs, NEW R \in SUBSET bs_bmask, NEW cdb,
         CoreCycle(n, isns, cdb), StackCycle(n, isns, R, cdb)
  PROVE  \E g : Recalls(g)'
<1> DEFINE r == rob_nRetired
           o == Occupancy - r
           M == FirstMap(isns)
           N == Names(map')
<1>0. CountsAgree /\ CheckpointsOrdered /\ BranchesWait
  BY DEF RingInv
<1>1. /\ r \in 0 .. 2 /\ r <= Occupancy /\ Occupancy \in 0 .. ROB_SIZE
      /\ head' = nextHead
  BY <1>0, Counts, CoreCounts
<1>2. /\ o \in 0 .. ROB_SIZE /\ Occupancy' = o + n /\ Occupancy + n <= ROB_SIZE
      /\ Moved(r, o, cdb)
  BY WindowGrows
<1>3. /\ n = 0 => N = Names(map)
      /\ n = 1 => N = M
      /\ n >= 1 => M = Substitute(Names(map), Window'[o + 1])
      /\ n = 2 => N = Substitute(M, Window'[o + 2])
  BY CoreMaps
<1>5. at_map' = f[r]
  BY <1>0, ArchIs DEF Recalls, CoreCycle
<1> HIDE DEF M, N, o
<1> DEFINE g == [k \in 0 .. o + n |-> IF k <= o THEN f[k + r] ELSE IF k = o + 1 THEN M ELSE N]
<1>8. /\ \A k \in 0 .. o : g[k] = f[k + r]
      /\ n >= 1 => g[o + 1] = M
      /\ n = 2 => g[o + 2] = N
  BY <1>2
<1>9. g[o] = Names(map)
  <2>1. g[o] = f[o + r] /\ o + r = Occupancy
    BY <1>1, <1>2, <1>8 DEF o
  <2> QED BY <2>1 DEF Recalls
<1> HIDE DEF g
<1>10. Steps(g, f[r], Window', o)
  <2>1. o \in Nat /\ Steps(f, at_map, Window, Occupancy)
    BY <1>2, SizeAssumption DEF Recalls
  <2> HIDE DEF r
  <2> QED BY <1>1, <1>2, <1>8, <2>1, StepsMove
<1>11. Steps(g, at_map', Window', Occupancy')
  <2>1. g[0] = at_map'
    BY <1>5, <1>10 DEF Steps
  <2>2. ASSUME NEW k \in 1 .. o + n PROVE g[k] = Substitute(g[k - 1], Window'[k])
    <3>1. CASE k \in 1 .. o
      BY <1>10, <3>1 DEF Steps
    <3>2. CASE k = o + 1
      <4>1. n >= 1 /\ k - 1 = o
        BY <1>2, <3>2
      <4> QED BY <1>3, <1>8, <1>9, <3>2, <4>1
    <3>3. CASE k = o + 2
      <4>1. n = 2 /\ k - 1 = o + 1
        BY <1>2, <3>3
      <4> QED BY <1>3, <1>8, <3>3, <4>1
    <3> QED BY <1>2, <3>1, <3>2, <3>3
  <2> QED BY <1>2, <2>1, <2>2 DEF Steps
<1>12. Names(map') = g[Occupancy']
  BY <1>2, <1>3, <1>8, <1>9 DEF N
<1>13. ASSUME NEW b \in bs_bmask' PROVE Names(bs_stack'[b].map) = g[Age(b)' + 1]
  <2>p. PICK p : p = bs_ptr
    OBVIOUS
  <2>1. b \in bs_bmask \ R \/ (BranchDispatched(n, isns) /\ b = p)
    BY <2>p DEF StackCycle, Pushed
  <2>2. CASE b \in bs_bmask \ R
    <3>1. /\ bs_stack'[b].rob_tail = bs_stack[b].rob_tail
          /\ Names(bs_stack'[b].map) = Names(bs_stack[b].map)
      BY <2>2, MarkReadyNames DEF StackCycle
    <3>2. /\ Age(b)' = Age(b) - r /\ r <= Age(b) /\ Age(b) < Occupancy
          /\ Age(b) \in 0 .. ROB_SIZE - 1
      BY <1>0, <1>1, <2>2, <3>1, AgeAfter, BranchStays
    <3>3. Age(b)' + 1 \in 0 .. o /\ (Age(b)' + 1) + r = Age(b) + 1
      BY <1>1, <3>2 DEF o
    <3>4. g[Age(b)' + 1] = f[Age(b) + 1]
      BY <1>8, <3>3
    <3> QED BY <2>2, <3>1, <3>4 DEF Recalls
  <2>3. CASE BranchDispatched(n, isns) /\ b = p
    <3>1. /\ n >= 1 /\ b \in BS_PTR
          /\ bs_stack'[b].rob_tail = Wrap(rob_tail + n)
          /\ Names(bs_stack'[b].map) = Names(map')
      BY <2>p, <2>3, MarkReadyNames DEF StackCycle, BranchDispatched
    <3>2. Occupancy' \in 1 .. ROB_SIZE
      BY <1>1, <1>2, <3>1, SizeAssumption DEF o
    <3>3. Age(b)' = Occupancy' - 1
      BY <3>1, <3>2, NewestAge
    <3> QED BY <1>12, <3>1, <3>2, <3>3
  <2> QED BY <2>1, <2>2, <2>3
<1>14. PICK x : x = g
  OBVIOUS
<1>15. Recalls(x)'
  BY <1>11, <1>12, <1>13, <1>14 DEF Recalls
<1> QED BY <1>15

LEMMA WrongMoves ==
  ASSUME TypeOK, RingInv, NEW br \in bs_bmask, NEW cdb, Wrong(br, cdb)
  PROVE  LET o == Age(br) + 1 - rob_nRetired
         IN  /\ o \in 1 .. ROB_SIZE /\ Occupancy' = o /\ o + rob_nRetired <= Occupancy
             /\ head' = nextHead
             /\ Moved(rob_nRetired, o, cdb)
<1> DEFINE o == Age(br) + 1 - rob_nRetired
<1>0. CountsAgree /\ CheckpointsOrdered /\ BranchesWait
  BY DEF RingInv
<1>1. /\ head' = nextHead /\ Occupancy' = o
      /\ o \in 1 .. ROB_SIZE /\ o + rob_nRetired <= Occupancy
  BY <1>0, RecoverCounts, BranchStays, Counts, SizeAssumption DEF Wrong
<1>2. \A i \in Occupied : buffer'[i] = Completed(buffer[i], cdb)
  BY DEF Wrong, ROBRecover, Occupied
<1>3. o \in 0 .. ROB_SIZE /\ Occupancy' \in Int /\ o <= Occupancy'
  BY <1>1, SizeAssumption
<1> HIDE DEF o
<1>4. Moved(rob_nRetired, o, cdb)
  BY <1>0, <1>1, <1>2, <1>3, WindowMoves
<1> QED BY <1>1, <1>4 DEF o

LEMMA WrongRecalls ==
  ASSUME SafeInv, NEW f, Recalls(f), NEW br \in bs_bmask, NEW cdb, Wrong(br, cdb)
  PROVE  \E g : Recalls(g)'
<1> DEFINE r == rob_nRetired
           o == Age(br) + 1 - r
<1>0. /\ TypeOK /\ BranchOrder /\ RingInv /\ CountsAgree /\ CheckpointsOrdered /\ BranchesWait
  BY DEF SafeInv, RingInv
<1>1. /\ o \in 1 .. ROB_SIZE /\ Occupancy' = o /\ o + r <= Occupancy
      /\ head' = nextHead /\ Moved(r, o, cdb) /\ r \in 0 .. 2
      /\ Age(br) \in 0 .. ROB_SIZE - 1
  BY <1>0, WrongMoves, BranchStays, Counts
<1>2. at_map' = f[r]
  BY <1>0, ArchIs DEF Recalls, Wrong
<1>3. o \in Nat /\ o + r = Age(br) + 1
  BY <1>1, SizeAssumption
<1> HIDE DEF o
<1> DEFINE g == [k \in 0 .. o |-> f[k + r]]
<1>4. \A k \in 0 .. o : g[k] = f[k + r]
  OBVIOUS
<1> HIDE DEF g
<1>5. Steps(g, at_map', Window', Occupancy')
  <2>1. Steps(f, at_map, Window, Occupancy)
    BY DEF Recalls
  <2>2. Steps(g, f[r], Window', o)
    <3> HIDE DEF r
    <3> QED BY <1>1, <1>3, <1>4, <2>1, StepsMove
  <2> QED BY <1>1, <1>2, <2>2
<1>6. Names(map') = g[Occupancy']
  <2>1. Names(map') = Names(bs_stack[br].map)
    BY DEF Wrong, MTRecover, mt_nextMap, Writer, MarkReady, Names
  <2>2. g[o] = f[Age(br) + 1]
    BY <1>3, <1>4
  <2> QED BY <1>1, <2>1, <2>2 DEF Recalls
<1>7. /\ bs_bmask' = {c \in bs_bmask : Age(c) < Age(br)}
      /\ \A c \in bs_bmask' : /\ bs_stack'[c].map = MarkReady(bs_stack[c].map, cdb)
                              /\ bs_stack'[c].rob_tail = bs_stack[c].rob_tail
  BY <1>0, WrongStack DEF Wrong
<1>8. ASSUME NEW b \in bs_bmask' PROVE Names(bs_stack'[b].map) = g[Age(b)' + 1]
  <2>1. /\ b \in bs_bmask /\ Age(b) < Age(br)
        /\ bs_stack'[b].rob_tail = bs_stack[b].rob_tail
        /\ Names(bs_stack'[b].map) = Names(bs_stack[b].map)
    BY <1>7, MarkReadyNames
  <2>2. /\ Age(b)' = Age(b) - r /\ r <= Age(b) /\ Age(b) \in 0 .. ROB_SIZE - 1
    BY <1>0, <1>1, <2>1, AgeAfter, BranchStays
  <2>3. Age(b)' + 1 \in 0 .. o /\ (Age(b)' + 1) + r = Age(b) + 1
    BY <1>1, <1>3, <2>1, <2>2
  <2>4. g[Age(b)' + 1] = f[Age(b) + 1]
    BY <1>4, <2>3
  <2> QED BY <2>1, <2>4 DEF Recalls
<1>9. PICK x : x = g
  OBVIOUS
<1>10. Recalls(x)'
  BY <1>5, <1>6, <1>8, <1>9 DEF Recalls
<1> QED BY <1>10

LEMMA InitRecalls == Init => \E f : Recalls(f)
<1> SUFFICES ASSUME Init PROVE \E f : Recalls(f)
  OBVIOUS
<1>1. bs_bmask = {} /\ map = ResetMap /\ at_map = [r \in NAMED_REG |-> r]
  BY DEF Init, BSInit, MTInit, ATInit, bs_bmask, NoEntry
<1>2. Occupancy = 0
  BY SizeAssumption DEF Init, ROBInit, Occupancy
<1>3. Names(map) = at_map
  BY <1>1 DEF Names, ResetMap
<1> DEFINE f == [k \in 0 .. 0 |-> at_map]
<1>4. f[0] = at_map
  OBVIOUS
<1> HIDE DEF f
<1>5. Steps(f, at_map, Window, 0)
  BY <1>4 DEF Steps
<1> QED BY <1>1, <1>2, <1>3, <1>4, <1>5 DEF Recalls

ReplayInv == \E f : Recalls(f)

LEMMA ReplayStep ==
  SafeInv /\ SafeInv' /\ ReplayInv /\ [SafeNext]_vars => ReplayInv'
<1> SUFFICES ASSUME SafeInv, SafeInv', ReplayInv, [SafeNext]_vars
             PROVE  ReplayInv'
  OBVIOUS
<1>f. PICK f : Recalls(f)
  BY DEF ReplayInv
<1>0. TypeOK /\ TypeOK' /\ RingInv /\ RingInv'
  BY DEF SafeInv
<1>g. (\E g : Recalls(g)') => ReplayInv'
  BY DEF ReplayInv
<1>1. CASE DispatchCycle
  <2>1. PICK isns \in Offers, rs \in RSFree, cdb \in Broadcasts(Waiting({})) :
          Dispatch(isns, rs, cdb)
    BY <1>1 DEF DispatchCycle
  <2> DEFINE n == haz_nDispatched(isns, rs)
  <2>2. n \in 0 .. 2 /\ n <= Len(isns) /\ n <= fl_availableRegs
    BY <1>0, DispatchedType
  <2>3. CoreCycle(n, isns, cdb) /\ StackCycle(n, isns, {}, cdb)
    BY <1>0, <2>1, DispatchStack DEF Dispatch, CoreCycle
  <2> HIDE DEF n
  <2> QED BY <1>0, <1>f, <1>g, <2>2, <2>3, CoreRecalls
<1>2. ASSUME NEW b \in BS_PTR, CorrectCycle(b) PROVE ReplayInv'
  <2>0. b \in bs_bmask
    BY <1>2 DEF CorrectCycle, bs_bmask
  <2>1. PICK isns \in Offers, rs \in RSFree, cdb \in Broadcasts(Waiting({b})) :
          Correct(b, isns, rs, cdb)
    BY <1>2 DEF CorrectCycle
  <2> DEFINE n == haz_nDispatched(isns, rs)
  <2>2. n \in 0 .. 2 /\ n <= Len(isns) /\ n <= fl_availableRegs
    BY <1>0, DispatchedType
  <2>3. CoreCycle(n, isns, cdb) /\ StackCycle(n, isns, {b}, cdb)
    BY <1>0, <2>0, <2>1, CorrectStack DEF Correct, CoreCycle
  <2> HIDE DEF n
  <2> QED BY <1>0, <1>f, <1>g, <2>0, <2>2, <2>3, CoreRecalls
<1>3. ASSUME NEW b \in BS_PTR, WrongCycle(b) PROVE ReplayInv'
  <2>1. b \in bs_bmask
    BY <1>3 DEF WrongCycle, bs_bmask
  <2>2. PICK cdb : Wrong(b, cdb)
    BY <1>3 DEF WrongCycle
  <2> QED BY <1>f, <1>g, <2>1, <2>2, WrongRecalls
<1>4. CASE UNCHANGED vars
  <2>1. /\ at_map' = at_map /\ map' = map /\ bs_stack' = bs_stack /\ bs_bmask' = bs_bmask
        /\ Window' = Window /\ Occupancy' = Occupancy /\ \A b : Age(b)' = Age(b)
    BY <1>4 DEF vars, Window, Occupancy, RetireSlot, bs_bmask, Age
  <2>2. Recalls(f)'
    BY <1>f, <2>1 DEF Recalls
  <2> QED BY <1>g, <2>2
<1> QED BY <1>1, <1>2, <1>3, <1>4 DEF SafeNext

LEMMA RecallsPrecise ==
  ASSUME SafeInv, ReplayInv
  PROVE  PreciseState
<1>0. TypeOK /\ CountsAgree /\ CheckpointsOrdered /\ BranchesWait
  BY DEF SafeInv, RingInv
<1>1. PICK f : Recalls(f)
  BY DEF ReplayInv
<1>2. Occupancy \in Nat
  BY <1>0, Counts, SizeAssumption
<1>3. \A k \in 0 .. Occupancy : Replay[k] = f[k]
  BY <1>1, <1>2, ReplayIs DEF Recalls
<1>4. \A b \in bs_bmask : Age(b) < Occupancy /\ Age(b) + 1 \in 0 .. Occupancy
  BY <1>0, <1>2, BranchStays
<1> QED BY <1>1, <1>2, <1>3, <1>4 DEF Recalls, PreciseState

(* Precise state: retiring everything in flight would bring the             *)
(* architectural map to the speculative one, and retiring it up to a branch *)
(* would bring it to the map saved for that branch, whatever has retired,   *)
(* completed or been squashed since.                                        *)
THEOREM PreciseStateHolds == SafeSpec => []PreciseState
<1>1. SafeSpec => []ReplayInv
  BY InitRecalls, ReplayStep, RingHolds, PTL DEF SafeSpec, ReplayInv
<1>2. SafeInv /\ ReplayInv => PreciseState
  BY RecallsPrecise
<1> QED BY <1>1, <1>2, RingHolds, PTL

-----------------------------------------------------------------------------
(* Each cycle of the five components is a step of the in-order window. *)
LEMMA Parts ==
  ASSUME NEW S, NEW w \in Seq(S), NEW a \in Int, NEW b \in Int,
         1 <= a, a <= b + 1, b <= Len(w)
  PROVE  /\ SubSeq(w, a, b) \in Seq(S)
         /\ Len(SubSeq(w, a, b)) = b - a + 1
         /\ \A i \in 1 .. b - a + 1 : SubSeq(w, a, b)[i] = w[a + i - 1]
<1>1. \A i \in a .. b : w[i] \in S
  BY LenProperties
<1> QED BY <1>1, SubSeqProperties

LEMMA OldestLeave ==
  ASSUME TypeOK, CountsAgree, ATCycle(Retired, rob_nRetired)
  PROVE  /\ Abstract!Leaves(rob_nRetired)
         /\ at_map' = Abstract!After(at_map, SubSeq(Window, 1, rob_nRetired))
<1> DEFINE r == rob_nRetired
           w == SubSeq(Window, 1, r)
<1>1. /\ r \in 0 .. 2 /\ r <= Occupancy /\ Len(Window) = Occupancy /\ Window \in Seq(Entries)
      /\ r >= 1 => buffer[head].complete
      /\ r = 2 => buffer[Wrap(head + 1)].complete
      /\ head \in ROB_PTR
  BY Counts, WindowEntries
<1>2. \A j \in 1 .. Occupancy : /\ Window[j].tag = buffer[RetireSlot(j)].tag
                                /\ Window[j].tagOld = buffer[RetireSlot(j)].tagOld
                                /\ Window[j].complete = buffer[RetireSlot(j)].complete
  BY WindowEntries
<1>3. /\ RetireSlot(1) = head /\ RetireSlot(2) = Wrap(head + 1)
  BY <1>1, SizeAssumption DEF RetireSlot, Wrap, ROB_PTR
<1> HIDE DEF r
<1>4. Abstract!Leaves(r)
  <2>1. ASSUME NEW j \in 1 .. r PROVE Window[j].complete
    BY <1>1, <1>2, <1>3
  <2> QED BY <1>1, <2>1 DEF Abstract!Leaves
<1>5. Len(w) = r /\ \A i \in 1 .. r : w[i] = Window[i]
  <2>1. /\ Len(w) = r - 1 + 1 /\ \A i \in 1 .. r - 1 + 1 : w[i] = Window[1 + i - 1]
    BY <1>1, Parts
  <2> QED BY <1>1, <2>1
<1> HIDE DEF w
<1>6. \A j \in 1 .. r : \A m : Substitute(m, Retired[j]) = Substitute(m, w[j])
  <2> SUFFICES ASSUME NEW j \in 1 .. r, NEW m
               PROVE  Substitute(m, Retired[j]) = Substitute(m, w[j])
    OBVIOUS
  <2>1. w[j].tag = Retired[j].tag /\ w[j].tagOld = Retired[j].tagOld
    BY <1>1, <1>2, <1>5 DEF Retired
  <2> QED BY <2>1, SubstituteSame
<1>7. at_map' = Abstract!After(at_map, w)
  <2>1. /\ r = 0 => at_map' = at_map
        /\ r = 1 => at_map' = Substitute(at_map, Retired[1])
        /\ r = 2 => at_map' = Substitute(Substitute(at_map, Retired[1]), Retired[2])
    BY DEF ATCycle, r
  <2>2. /\ r = 0 => Abstract!After(at_map, w) = at_map
        /\ r = 1 => Abstract!After(at_map, w) = Substitute(at_map, w[1])
        /\ r = 2 => Abstract!After(at_map, w) = Substitute(Substitute(at_map, w[1]), w[2])
    BY <1>1, <1>5, AfterSmall
  <2>3. r >= 1 => \A m : Substitute(m, Retired[1]) = Substitute(m, w[1])
    BY <1>1, <1>6
  <2>4. r = 2 => \A m : Substitute(m, Retired[2]) = Substitute(m, w[2])
    BY <1>6
  <2>5. r = 0 \/ r = 1 \/ r = 2
    BY <1>1
  <2> QED BY <2>1, <2>2, <2>3, <2>4, <2>5
<1> QED BY <1>4, <1>7 DEF r, w

LEMMA FreeTag ==
  ASSUME TypeOK, RingInv, NEW i \in ROB_PTR, i \notin Occupied
  PROVE  free[i] \in Abstract!Free
<1>1. free[i] \in PHYS_REG
  BY DEF TypeOK, FL_PTR, ROB_PTR
<1>2. free[i] # PHYS_ZERO_REG /\ \A r \in NAMED_REG : at_map[r] # free[i]
  BY DEF RingInv, Distinct
<1>3. ASSUME NEW k \in 1 .. Len(Window) PROVE Window[k].tag # free[i]
  <2>1. /\ RetireSlot(k) \in Occupied /\ RetireSlot(k) \in ROB_PTR
        /\ Window[k].tag = buffer[RetireSlot(k)].tag
    BY WindowEntries DEF RingInv
  <2>2. Window[k].tag = free[RetireSlot(k)]
    BY <2>1 DEF RingInv, TagsInRing
  <2> QED BY <2>1, <2>2 DEF RingInv, Distinct
<1> QED BY <1>1, <1>2, <1>3 DEF Abstract!Free, Abstract!Used

WindowIsSeq == Window \in Seq(Entries) /\ Len(Window) = Occupancy

LEMMA WindowType == TypeOK /\ RingInv => WindowIsSeq
BY WindowEntries DEF RingInv, WindowIsSeq

LEMMA WindowTypeAfter ==
  ASSUME TypeOK', RingInv'
  PROVE  Window' \in Seq(Entries) /\ Len(Window') = Occupancy'
<1>1. WindowIsSeq'
  BY WindowType, PTL
<1> QED BY <1>1 DEF WindowIsSeq, Entries

LEMMA CoreEnters ==
  ASSUME TypeOK, TypeOK', RingInv, RingInv', NEW isns \in Offers, NEW n \in 0 .. 2,
         n <= Len(isns), n <= fl_availableRegs, NEW cdb, CoreCycle(n, isns, cdb)
  PROVE  LET o   == Occupancy - rob_nRetired
             new == SubSeq(Window', o + 1, o + n)
         IN  Abstract!Enters(new) /\ Names(map') = Abstract!After(Names(map), new)
<1> DEFINE o == Occupancy - rob_nRetired
           new == SubSeq(Window', o + 1, o + n)
           s2 == Wrap(fl_head + 1)
           M == FirstMap(isns)
           N == Names(map')
<1>1. /\ o \in 0 .. ROB_SIZE /\ Occupancy' = o + n
      /\ n >= 1 => /\ fl_head \in ROB_PTR /\ fl_head \notin Occupied
                   /\ Window'[o + 1].tag = free[fl_head]
      /\ n = 2 => /\ s2 \in ROB_PTR /\ s2 \notin Occupied /\ s2 # fl_head
                  /\ Window'[o + 2].tag = free[s2]
  BY WindowGrows
<1>2. /\ n = 0 => N = Names(map)
      /\ n = 1 => N = M
      /\ n >= 1 => /\ M = Substitute(Names(map), Window'[o + 1])
                   /\ Window'[o + 1].tagOld = PHYS_ZERO_REG
                        \/ \E q \in NAMED_REG : Window'[o + 1].tagOld = Names(map)[q]
      /\ n = 2 => /\ N = Substitute(M, Window'[o + 2])
                  /\ Window'[o + 2].tagOld = PHYS_ZERO_REG
                       \/ \E q \in NAMED_REG : Window'[o + 2].tagOld = M[q]
  BY CoreMaps
<1>3. Window' \in Seq(Entries) /\ Len(Window') = Occupancy'
  BY WindowTypeAfter
<1> HIDE DEF o, s2, M, N
<1>4. /\ new \in Seq(Entries) /\ Len(new) = n
      /\ n >= 1 => new[1] = Window'[o + 1]
      /\ n = 2 => new[2] = Window'[o + 2]
  <2>1. /\ 1 <= o + 1 /\ o + 1 <= (o + n) + 1 /\ o + n <= Len(Window') /\ o + n \in Int
        /\ (o + n) - (o + 1) + 1 = n /\ o + 1 \in Int
        /\ (o + 1) + 1 - 1 = o + 1 /\ (o + 1) + 2 - 1 = o + 2
    BY <1>1, <1>3, SizeAssumption
  <2>2. /\ new \in Seq(Entries) /\ Len(new) = (o + n) - (o + 1) + 1
        /\ \A i \in 1 .. (o + n) - (o + 1) + 1 : new[i] = Window'[(o + 1) + i - 1]
    BY <1>3, <2>1, Parts
  <2>3. n >= 1 => 1 \in 1 .. n
    OBVIOUS
  <2>4. n = 2 => 2 \in 1 .. n
    OBVIOUS
  <2> HIDE DEF new
  <2> QED BY <2>1, <2>2, <2>3, <2>4
<1>5. /\ SubSeq(new, 1, 0) = <<>>
      /\ n = 2 => Len(SubSeq(new, 1, 1)) = 1 /\ SubSeq(new, 1, 1)[1] = new[1]
  <2>1. n = 2 => /\ Len(SubSeq(new, 1, 1)) = 1 - 1 + 1
                 /\ \A i \in 1 .. 1 - 1 + 1 : SubSeq(new, 1, 1)[i] = new[1 + i - 1]
    <3> HIDE DEF new
    <3> QED BY <1>4, Parts
  <2>2. SubSeq(new, 1, 0) = <<>>
    BY SubSeqEmpty
  <2> HIDE DEF new
  <2> QED BY <2>1, <2>2
<1> HIDE DEF new
<1>6. /\ Abstract!After(Names(map), SubSeq(new, 1, 0)) = Names(map)
      /\ n = 2 => Abstract!After(Names(map), SubSeq(new, 1, 1)) = M
  <2>1. PICK u : u = SubSeq(new, 1, 0)
    OBVIOUS
  <2>2. Abstract!After(Names(map), u) = Names(map)
    <3>1. Len(u) = 0
      BY <1>5, <2>1
    <3> QED BY <3>1, AfterSmall
  <2>4. PICK v : v = SubSeq(new, 1, 1)
    OBVIOUS
  <2>5. n = 2 => Abstract!After(Names(map), v) = Substitute(Names(map), new[1])
    <3>1. n = 2 => Len(v) = 1 /\ v[1] = new[1]
      BY <1>5, <2>4
    <3>2. Len(v) = 1 => Abstract!After(Names(map), v) = Substitute(Names(map), v[1])
      BY AfterSmall
    <3> QED BY <3>1, <3>2
  <2> QED BY <1>2, <1>4, <2>1, <2>2, <2>4, <2>5
<1>7. N = Abstract!After(Names(map), new)
  <2>1. /\ n = 0 => Abstract!After(Names(map), new) = Names(map)
        /\ n = 1 => Abstract!After(Names(map), new) = Substitute(Names(map), new[1])
        /\ n = 2 => Abstract!After(Names(map), new)
                      = Substitute(Substitute(Names(map), new[1]), new[2])
    BY <1>4, AfterSmall
  <2>2. n = 0 \/ n = 1 \/ n = 2
    OBVIOUS
  <2> QED BY <1>2, <1>4, <2>1, <2>2
<1>8. /\ n >= 1 => new[1].tag \in Abstract!Free
      /\ n = 2 => new[2].tag \in Abstract!Free /\ new[1].tag # new[2].tag
  <2>1. n >= 1 => new[1].tag = free[fl_head] /\ free[fl_head] \in Abstract!Free
    BY <1>1, <1>4, FreeTag
  <2>2. n = 2 => new[2].tag = free[s2] /\ free[s2] \in Abstract!Free
    BY <1>1, <1>4, FreeTag
  <2>3. n = 2 => free[s2] # free[fl_head]
    BY <1>1 DEF RingInv, Distinct
  <2> QED BY <2>1, <2>2, <2>3
<1>9. Abstract!Enters(new)
  <2> SUFFICES ASSUME NEW k \in 1 .. n
               PROVE  /\ new[k].tag \in Abstract!Free
                      /\ \A j \in 1 .. k - 1 : new[j].tag # new[k].tag
                      /\ new[k].tagOld = PHYS_ZERO_REG
                           \/ \E r \in NAMED_REG :
                                new[k].tagOld
                                  = Abstract!After(Names(map), SubSeq(new, 1, k - 1))[r]
    BY <1>4 DEF Abstract!Enters
  <2>1. CASE k = 1
    BY <1>2, <1>4, <1>6, <1>8, <2>1
  <2>2. CASE k = 2
    BY <1>2, <1>4, <1>6, <1>8, <2>2
  <2> QED BY <2>1, <2>2
<1> QED BY <1>7, <1>9 DEF N, new, o

LEMMA CoreImplements ==
  ASSUME TypeOK, TypeOK', RingInv, RingInv', NEW isns \in Offers, NEW n \in 0 .. 2,
         n <= Len(isns), n <= fl_availableRegs, NEW cdb, CoreCycle(n, isns, cdb)
  PROVE  Abstract!Cycle
<1> DEFINE r == rob_nRetired
           o == Occupancy - r
           left == SubSeq(Window, r + 1, Len(Window))
           kept == SubSeq(Window', 1, Len(left))
           new == SubSeq(Window', Len(left) + 1, Len(Window'))
<1>0. CountsAgree
  BY DEF RingInv
<1>1. /\ r \in 0 .. 2 /\ r <= Occupancy /\ Occupancy \in 0 .. ROB_SIZE
      /\ Len(Window) = Occupancy /\ Window \in Seq(Entries)
      /\ Len(Window') = Occupancy' /\ Window' \in Seq(Entries)
  BY <1>0, Counts, WindowEntries, WindowTypeAfter
<1>2. /\ o \in 0 .. ROB_SIZE /\ Occupancy' = o + n /\ Occupancy + n <= ROB_SIZE
      /\ Moved(r, o, cdb)
  BY WindowGrows
<1>3. /\ Abstract!Enters(SubSeq(Window', o + 1, o + n))
      /\ Names(map') = Abstract!After(Names(map), SubSeq(Window', o + 1, o + n))
  BY CoreEnters
<1>4. /\ Abstract!Leaves(r)
      /\ at_map' = Abstract!After(at_map, SubSeq(Window, 1, r))
  BY <1>0, OldestLeave DEF CoreCycle
<1>5. o + r = Occupancy /\ o <= Occupancy
  BY <1>1
<1> HIDE DEF r, o
<1>6. Len(left) = o /\ \A i \in 1 .. o : left[i] = Window[i + r]
  <2>1. /\ 1 <= r + 1 /\ r + 1 <= Len(Window) + 1 /\ Len(Window) - (r + 1) + 1 = o
        /\ r + 1 \in Int /\ Len(Window) \in Int
        /\ \A i \in 1 .. o : (r + 1) + i - 1 = i + r
    BY <1>1, <1>2, <1>5
  <2>2. /\ Len(left) = Len(Window) - (r + 1) + 1
        /\ \A i \in 1 .. Len(Window) - (r + 1) + 1 : left[i] = Window[(r + 1) + i - 1]
    BY <1>1, <2>1, Parts
  <2> HIDE DEF left
  <2> QED BY <2>1, <2>2
<1>7. Len(kept) = o /\ \A i \in 1 .. o : kept[i] = Window'[i]
  <2>1. /\ 1 <= o + 1 /\ o <= Len(Window') /\ o - 1 + 1 = o /\ o \in Int
        /\ \A i \in 1 .. o : 1 + i - 1 = i
    BY <1>1, <1>2
  <2>2. /\ Len(SubSeq(Window', 1, o)) = o - 1 + 1
        /\ \A i \in 1 .. o - 1 + 1 : SubSeq(Window', 1, o)[i] = Window'[1 + i - 1]
    BY <1>1, <2>1, Parts
  <2>3. kept = SubSeq(Window', 1, o)
    BY <1>6
  <2> HIDE DEF kept
  <2> QED BY <2>1, <2>2, <2>3
<1>8. new = SubSeq(Window', o + 1, o + n)
  BY <1>1, <1>2, <1>6
<1> HIDE DEF left, kept, new
<1>9. Abstract!Progressed(left, kept)
  <2> SUFFICES ASSUME NEW k \in 1 .. o
               PROVE  /\ kept[k].tag = left[k].tag
                      /\ kept[k].tagOld = left[k].tagOld
                      /\ left[k].complete => kept[k].complete
    BY <1>6, <1>7 DEF Abstract!Progressed
  <2>1. left[k] = Window[k + r] /\ kept[k] = Window'[k]
    BY <1>6, <1>7
  <2> QED BY <1>2, <2>1 DEF Moved
<1>10. Abstract!Enters(new) /\ Names(map') = Abstract!After(Names(map), new)
  BY <1>3, <1>8
<1>11. Len(Window') \in Len(left) .. Len(left) + 2 /\ Len(Window') <= ROB_SIZE
  <2>1. Len(Window') = o + n /\ o + n \in o .. o + 2 /\ o + n <= ROB_SIZE
    BY <1>1, <1>2, <1>5, SizeAssumption
  <2> QED BY <1>6, <2>1
<1>12. Abstract!Dispatches(left, Window')
  BY <1>9, <1>10, <1>11 DEF Abstract!Dispatches, kept, new
<1> QED BY <1>1, <1>4, <1>12 DEF Abstract!Cycle, left

LEMMA WrongImplements ==
  ASSUME SafeInv, SafeInv', NEW f, Recalls(f), NEW br \in bs_bmask, NEW cdb, Wrong(br, cdb),
         NEW g, Recalls(g)'
  PROVE  Abstract!Cycle
<1> DEFINE r == rob_nRetired
           o == Age(br) + 1 - r
           left == SubSeq(Window, r + 1, Len(Window))
           kept == SubSeq(left, 1, Len(Window'))
<1>0. TypeOK /\ TypeOK' /\ RingInv /\ RingInv' /\ CountsAgree
  BY DEF SafeInv, RingInv
<1>1. /\ r \in 0 .. 2 /\ r <= Occupancy /\ Occupancy \in 0 .. ROB_SIZE
      /\ Len(Window) = Occupancy /\ Window \in Seq(Entries)
      /\ Len(Window') = Occupancy' /\ Window' \in Seq(Entries)
  BY <1>0, Counts, WindowEntries, WindowTypeAfter
<1>2. /\ o \in 1 .. ROB_SIZE /\ Occupancy' = o /\ o + r <= Occupancy
      /\ Moved(r, o, cdb)
  BY <1>0, WrongMoves
<1>3. /\ Abstract!Leaves(r)
      /\ at_map' = Abstract!After(at_map, SubSeq(Window, 1, r))
  BY <1>0, OldestLeave DEF Wrong
<1>4. Names(map') = Abstract!After(at_map', Window')
  <2>1. Steps(g, at_map', Window', Occupancy') /\ Names(map') = g[Occupancy']
    BY DEF Recalls
  <2>2. Len(Window') = Occupancy' /\ Occupancy' \in Nat
    BY <1>1, <1>2, SizeAssumption
  <2> QED BY <2>1, <2>2, AfterIs
<1> HIDE DEF r, o
<1>5. /\ Len(left) = Occupancy - r /\ left \in Seq(Entries)
      /\ \A i \in 1 .. Occupancy - r : left[i] = Window[i + r]
  <2>1. /\ 1 <= r + 1 /\ r + 1 <= Len(Window) + 1 /\ Len(Window) - (r + 1) + 1 = Occupancy - r
        /\ r + 1 \in Int /\ Len(Window) \in Int
        /\ \A i \in 1 .. Occupancy - r : (r + 1) + i - 1 = i + r
    BY <1>1
  <2>2. /\ Len(left) = Len(Window) - (r + 1) + 1 /\ left \in Seq(Entries)
        /\ \A i \in 1 .. Len(Window) - (r + 1) + 1 : left[i] = Window[(r + 1) + i - 1]
    BY <1>1, <2>1, Parts
  <2> HIDE DEF left
  <2> QED BY <2>1, <2>2
<1> HIDE DEF left
<1>6. Len(Window') = o /\ o \in 1 .. Len(left)
  BY <1>1, <1>2, <1>5
<1>7. Len(kept) = o /\ \A i \in 1 .. o : kept[i] = Window[i + r]
  <2>1. /\ 1 <= o + 1 /\ o <= Len(left) /\ o - 1 + 1 = o /\ o \in Int
        /\ \A i \in 1 .. o : 1 + i - 1 = i /\ i \in 1 .. Occupancy - r
    BY <1>1, <1>2, <1>5, <1>6
  <2>2. /\ Len(SubSeq(left, 1, o)) = o - 1 + 1
        /\ \A i \in 1 .. o - 1 + 1 : SubSeq(left, 1, o)[i] = left[1 + i - 1]
    BY <1>5, <2>1, Parts
  <2>3. kept = SubSeq(left, 1, o)
    BY <1>6
  <2> HIDE DEF kept
  <2> QED BY <1>5, <2>1, <2>2, <2>3
<1> HIDE DEF kept
<1>8. Abstract!Progressed(kept, Window')
  <2> SUFFICES ASSUME NEW k \in 1 .. o
               PROVE  /\ Window'[k].tag = kept[k].tag
                      /\ Window'[k].tagOld = kept[k].tagOld
                      /\ kept[k].complete => Window'[k].complete
    BY <1>6, <1>7 DEF Abstract!Progressed
  <2> QED BY <1>2, <1>7 DEF Moved
<1>9. Abstract!Squashes(left, Window')
  BY <1>4, <1>6, <1>8 DEF Abstract!Squashes, kept
<1> QED BY <1>1, <1>3, <1>9 DEF Abstract!Cycle, left

LEMMA InitImplements == Init => Abstract!AbstractInit
<1> SUFFICES ASSUME Init PROVE Abstract!AbstractInit
  OBVIOUS
<1>1. map = ResetMap /\ at_map = [r \in NAMED_REG |-> r]
  BY DEF Init, MTInit, ATInit
<1>2. Occupancy = 0
  BY SizeAssumption DEF Init, ROBInit, Occupancy
<1>3. Names(map) = at_map
  BY <1>1 DEF Names, ResetMap
<1>4. Window = <<>>
  <2>1. Window \in Seq(Entries) /\ Len(Window) = 0
    <3>1. TypeOK /\ RingInv
      BY InitType, InitRing
    <3> QED BY <1>2, <3>1, WindowType DEF WindowIsSeq
  <2> QED BY <2>1, EmptySeq
<1> QED BY <1>1, <1>3, <1>4 DEF Abstract!AbstractInit

LEMMA CycleImplements ==
  SafeInv /\ SafeInv' /\ ReplayInv /\ ReplayInv' /\ [SafeNext]_vars
    => [Abstract!Cycle]_Abstract!abstract_vars
<1> SUFFICES ASSUME SafeInv, SafeInv', ReplayInv, ReplayInv', [SafeNext]_vars
             PROVE  Abstract!Cycle \/ UNCHANGED Abstract!abstract_vars
  OBVIOUS
<1>0. TypeOK /\ TypeOK' /\ RingInv /\ RingInv'
  BY DEF SafeInv
<1>f. PICK f : Recalls(f)
  BY DEF ReplayInv
<1>g. PICK g : Recalls(g)'
  BY DEF ReplayInv
<1>1. CASE DispatchCycle
  <2>1. PICK isns \in Offers, rs \in RSFree, cdb \in Broadcasts(Waiting({})) :
          Dispatch(isns, rs, cdb)
    BY <1>1 DEF DispatchCycle
  <2> DEFINE n == haz_nDispatched(isns, rs)
  <2>2. n \in 0 .. 2 /\ n <= Len(isns) /\ n <= fl_availableRegs
    BY <1>0, DispatchedType
  <2>3. CoreCycle(n, isns, cdb)
    BY <2>1 DEF Dispatch, CoreCycle
  <2> HIDE DEF n
  <2> QED BY <1>0, <2>2, <2>3, CoreImplements
<1>2. ASSUME NEW b \in BS_PTR, CorrectCycle(b) PROVE Abstract!Cycle
  <2>1. PICK isns \in Offers, rs \in RSFree, cdb \in Broadcasts(Waiting({b})) :
          Correct(b, isns, rs, cdb)
    BY <1>2 DEF CorrectCycle
  <2> DEFINE n == haz_nDispatched(isns, rs)
  <2>2. n \in 0 .. 2 /\ n <= Len(isns) /\ n <= fl_availableRegs
    BY <1>0, DispatchedType
  <2>3. CoreCycle(n, isns, cdb)
    BY <2>1 DEF Correct, CoreCycle
  <2> HIDE DEF n
  <2> QED BY <1>0, <2>2, <2>3, CoreImplements
<1>3. ASSUME NEW b \in BS_PTR, WrongCycle(b) PROVE Abstract!Cycle
  <2>1. b \in bs_bmask
    BY <1>3 DEF WrongCycle, bs_bmask
  <2>2. PICK cdb : Wrong(b, cdb)
    BY <1>3 DEF WrongCycle
  <2> QED BY <1>f, <1>g, <2>1, <2>2, WrongImplements
<1>4. CASE UNCHANGED vars
  <2>1. Window' = Window /\ at_map' = at_map /\ Names(map') = Names(map)
    BY <1>4 DEF vars, Window, Occupancy, RetireSlot
  <2> QED BY <2>1 DEF Abstract!abstract_vars, Names
<1> QED BY <1>1, <1>2, <1>3, <1>4 DEF SafeNext

(* Renaming implements the in-order window: whatever the rings, their       *)
(* counters and the checkpoints do in a cycle, the instructions in flight   *)
(* stay a sequence in program order that instructions enter at the end with *)
(* a register nobody uses, leave from the front once complete, and are cut  *)
(* down to a prefix by a misprediction, with the map that belongs to it.    *)
THEOREM RenameImplementsInOrder == SafeSpec => ImplementsInOrder
<1>1. SafeSpec => []ReplayInv
  BY InitRecalls, ReplayStep, RingHolds, PTL DEF SafeSpec, ReplayInv
<1> QED BY <1>1, InitImplements, CycleImplements, RingHolds, PTL
        DEF SafeSpec, ImplementsInOrder, Abstract!AbstractSpec
=============================================================================
