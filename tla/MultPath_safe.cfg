CONSTANTS
  PHYS_ZERO_REG = PHYS_ZERO_REG
  TAG = {t1, t2, t3, t4}
  BRANCH = {b1, b2}
  WINDOW = 5
  STAGES = 3
SYMMETRY Interchangeable
SPECIFICATION MultSafeSpec
INVARIANTS
  EachProductOnce
  ProductMasksExact
  FullMeansCopied
