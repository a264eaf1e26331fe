CONSTANTS
  ROB_SIZE = 3
  ARCH_REGS = 3
  BS_SIZE = 1
  Insns <- Two
  RSFree = {2}
SPECIFICATION SafeSpec
PROPERTY
  ImplementsInOrder
