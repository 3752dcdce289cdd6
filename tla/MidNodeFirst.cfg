CONSTANTS
  Size = 3
  Meshes <- MidNodeMeshes
  Parts <- MCParts
  Orders <- MCOrders
  Rounds = 1
  TagLimit = 7
SPECIFICATION Spec
INVARIANT MappingsAccepted
