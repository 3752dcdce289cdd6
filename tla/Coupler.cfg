CONSTANTS
  Size = 3
  Meshes <- MCMeshes
  Parts <- MCParts
  Orders <- MCOrders
  Rounds = 2
  TagLimit = 7
SPECIFICATION Spec
INVARIANTS LabelsAgree SeesOwnersValue MappingsAccepted
