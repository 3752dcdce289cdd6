SPECIFICATION Spec
CONSTANTS
  size = 2
  Schedules <- JustOne
  InPlace = TRUE
  Fresh = FALSE
  MaxN = 2
  MaxStarts = 2
INVARIANT SavedIsLoaded
