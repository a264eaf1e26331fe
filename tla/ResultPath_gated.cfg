CONSTANTS
  PHYS_ZERO_REG = PHYS_ZERO_REG
  TAG = {t1, t2, t3, t4, t5}
  BRANCH = {b1, b2, b3}
  WINDOW = 8
  GATED = TRUE
SYMMETRY Interchangeable
SPECIFICATION Spec
INVARIANTS
  TypeOK
  EachResultOnce
  MasksExact
  NothingBehindAGap
