SPECIFICATION Spec
CONSTANTS
  size = 2
  Schedules <- TwoAndTurns
  InPlace = TRUE
  Fresh = TRUE
  MaxN = 4
  MaxStarts = 3
INVARIANTS TypeOK RestartsFromNewest RestartsOneSimulation LoadsAfterCleanStop FewDirectories
