CONSTANTS
  ROB_SIZE = 3
  ARCH_REGS = 2
  BS_SIZE = 2
  Insns <- Kinds
  RSFree = {2}
SPECIFICATION SafeSpec
INVARIANTS
  TypeOK
  CountsAgree
  RegistersPartitioned
  PreciseState
  ReadyBitsExact
  CheckpointsOrdered
  BranchOrder
PROPERTY
  SquashesTheYounger
