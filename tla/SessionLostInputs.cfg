SPECIFICATION Spec
CONSTANTS
  Inputs = {"a", "b"}
  Seeds = {"a"}
  Crashes = {"x"}
  MaxCases = 2
INVARIANT InputsSurvive
CHECK_DEADLOCK FALSE
