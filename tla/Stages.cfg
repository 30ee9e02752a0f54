SPECIFICATION Spec
CONSTANTS
  Inputs <- MCInputs
  Extras <- MCExtras
  AutoTokens <- MCAutoTokens
  NoArith = {TRUE, FALSE}
  ARITH_MAX = 35
  EFF_BLOCK = 1
  EFF_MIN_LEN = 2
  EFF_MAX_PERC = 70
  MAX_DET_EXTRAS = 2
  USE_AUTO_EXTRAS = 2
  MAX_FILE = 6
INVARIANTS SkipsAreKnown EffectorsCover BufRestored
CHECK_DEADLOCK FALSE
