SPECIFICATION Spec
CONSTANTS
  MAP_SIZE = 2
  MaxPaths = 3
  Factors = {1, 2}
  Stable = TRUE
INVARIANTS RefCounts BestRated FavoredCover PendingFavoredExact
CHECK_DEADLOCK FALSE
