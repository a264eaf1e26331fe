CONSTANTS
  CODE <- Program
  NoEntry <- Cleared
  IB_SIZE = 3
  BHT_SIZE = 2
  BTB_SIZE = 4
  BRANCHES = 2
  WINDOW = 3
SPECIFICATION FairSafeSpec
INVARIANTS
  OnePath
  OfferFits
PROPERTY
  GoesOn
