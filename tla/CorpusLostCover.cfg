SPECIFICATION Spec
CONSTANTS
  MAP_SIZE = 2
  MaxPaths = 3
  Factors = {1}
  MaxCount = 1
  Seeds = 1
  CAL_CYCLES = 2
  CAL_CYCLES_LONG = 3
  CAL_CHANCES = 2
  FewPaths = 1
  AFL_IMPORT_FIRST = FALSE
  Natures <- MCStable
INVARIANT CoverSeen
CHECK_DEADLOCK FALSE
