CONSTANTS
  TAG <- Tags
  PHYS_ZERO_REG = 0
  BRANCH <- Checkpoint
  RS_SIZE = 3
  UnitsOf <- Units3
  FUBS = 3
  WINDOW = 3
SPECIFICATION SafeSpec
INVARIANTS
  EachInOnePlace
  OperandsExact
  OneLoadIssued
