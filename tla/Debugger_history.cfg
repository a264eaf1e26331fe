\* A ring of three slots that wraps, with two registers in a record.
\* Both processes end when the user quits.
CHECK_DEADLOCK FALSE
CONSTANTS
  NUM_HISTORY = 3
  NUM_REGS = 2
  MAX_EDGES = 5
SPECIFICATION SafeSpec
INVARIANTS TypeOK HistoryIsTheLast SeesARecord
PROPERTIES RunComesBack QuitEndsBoth
