CONSTANTS
  LINE = {0, 1, 3}
  LOADED = {0}
  STORED = {0}
  FETCHED = {1, 3}
  DEST = {1, 2}
  BRANCH = {1}
  NUM_TAGS = 5
  LATENCY = 4
  RESOLVED = 4
  CACHE_LINES = 2
  WINDOW = 2
SPECIFICATION FairSafeSpec
INVARIANTS
  CacheCoherent
  MissesExact
PROPERTY
  FetchServed
