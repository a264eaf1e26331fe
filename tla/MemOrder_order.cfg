CONSTANTS
  SQ_SIZE = 4
  ADDR = {0, 1}
  WINDOW = 3
  BRANCHES = 1
SPECIFICATION SafeSpec
INVARIANTS
  TypeOK
  QueueHoldsProgramOrder
  CheckpointsKeepTheOlder
  LoadsWaitForOlder
  LoadSeesYoungestOlder
PROPERTY
  ImplementsFifo
