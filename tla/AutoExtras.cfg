SPECIFICATION Spec
CONSTANTS
  Byte = {"a", "A", "b", "c"}
  Dictionaries <- MCDictionaries
  OldFiles <- MCOldFiles
  Inputs <- MCInputs
  Lower <- MCLower
  Builtin <- MCBuiltin
  MaxEntries = 2
  MIN_AUTO_EXTRA = 2
  MAX_AUTO_EXTRA = 3
  USE_AUTO_EXTRAS = 2
  MAX_AUTO_EXTRAS = 4
  MAX_DICT_FILE = 3
INVARIANTS TokensAreRuns NoDuplicates SavedSurvive
PROPERTY MostUsedStay
CHECK_DEADLOCK FALSE
