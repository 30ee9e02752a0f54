SPECIFICATION Spec
CONSTANTS
  Zero = 0
  Symbols = {0, 1, 2}
  Inputs <- MCInputs
  Targets = {"pair", "text", "more", "deep", "flaky"}
  Stable = {"pair", "text", "more", "deep"}
  Result <- MCResult
  NoTrace = 0
  TMIN_SET_STEPS = 2
  TMIN_SET_MIN_SIZE = 2
  TRIM_START_STEPS = 2
INVARIANTS OutputWorks OneMinimal
PROPERTY MinimizeEnds
CHECK_DEADLOCK FALSE
