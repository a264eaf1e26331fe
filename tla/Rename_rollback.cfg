CONSTANTS
  ROB_SIZE = 3
  ARCH_REGS = 2
  BS_SIZE = 1
  Insns <- Less
  RSFree = {2}
SPECIFICATION Spec
PROPERTY FreeListNotFullAfterRollback
