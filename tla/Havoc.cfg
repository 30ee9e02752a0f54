SPECIFICATION FairSpec
CONSTANTS
  Queues <- MCQueues
  MaxPaths = 3
  TokenLengths = {3}
  AutoLengths = {5}
  Cycles = {1, 3}
  Averages = {1, 11}
  Depths = {0, 30}
  Handicaps = {0, 5}
  MAX_FILE = 8
  HAVOC_BLK_SMALL = 1
  HAVOC_BLK_MEDIUM = 2
  HAVOC_BLK_LARGE = 3
  HAVOC_BLK_XL = 4
  HAVOC_CYCLES = 1
  HAVOC_CYCLES_INIT = 2
  HAVOC_MIN = 1
  HAVOC_MAX_MULT = 2
  HAVOC_STACK_POW2 = 1
  SPLICE_CYCLES = 2
  SPLICE_HAVOC = 1
INVARIANTS NothingWild SplicedWithAnother
PROPERTY EntryEnds
CHECK_DEADLOCK FALSE
