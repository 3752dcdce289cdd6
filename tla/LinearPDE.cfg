CONSTANTS
  Nodes <- MCNodes
  Masks <- MCMasks
  Values <- MCValues
  Lumping <- MCLumping
  Uses <- SoundUses
  MaxStatus = 1
  MaxSet = 2
  MaxLift = 2
SPECIFICATION Spec
INVARIANTS SolutionCurrent SystemCurrent
