SPECIFICATION Spec
CONSTANTS
  Inputs = {"a", "b"}
  Seeds = {"a"}
  Crashes = {"x"}
  MaxCases = 2
INVARIANTS InputsSurviveKills AbortsJustified MarksTrue CrashesKept
PROPERTY AtRiskKept
CHECK_DEADLOCK FALSE
