SPECIFICATION FairSpec
CONSTANTS
  MAP_SIZE = 2
  MaxPaths = 2
  Factors = {1, 2}
  MaxCount = 2
  Seeds = 1
  CAL_CYCLES = 2
  CAL_CYCLES_LONG = 3
  CAL_CHANCES = 2
  FewPaths = 1
  AFL_IMPORT_FIRST = TRUE
  Natures <- MCNatures
INVARIANTS CalibratedCompete StatsExact CoverSteady
PROPERTIES KeepsRating FavoredFuzzed
CHECK_DEADLOCK FALSE
