CONSTANTS
  Handles = {"x", "y", "z"}
  Samples <- MCSamples
  Numbers = {5}
  Starts <- MCStarts
  TooManyLevels = 1
  Cells <- MCCells
  MaxCalls = 3
SPECIFICATION Spec
INVARIANT HeightBounded
PROPERTY ImplementsValues
