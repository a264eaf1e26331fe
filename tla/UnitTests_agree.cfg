\* A test is over when it has failed, and that of the bus after its last line.
CHECK_DEADLOCK FALSE
CONSTANTS
  ROB_SIZE = 3
  ARCH_REGS = 3
  BS_SIZE = 1
  IB_SIZE = 4
  RS_SIZE = 3
  FUBS = 8
  NoEntry <- MCNoEntry
  UnitsOf <- MCUnitsOf
  FreeRegs = {0, 1, 2, 3}
  TagOlds <- MCTagOlds
  Fetched <- MCFetched
  Dispatches <- MCDispatches
  Busies <- MCBusies
  Tags = {1, 2}
SPECIFICATION Spec
INVARIANTS RenameSimsAgree IssueTestsPass
