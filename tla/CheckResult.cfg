SPECIFICATION FairSpec
CONSTANTS
  size = 3
  Results <- ThreeResults
  MaxRounds = 2
INVARIANTS OneInFlight Inv
PROPERTIES AgreesOnMaximum CallsReturn
