\* Two calls, each of the optimizer or the mutator, on scenes of up to three
\* nodes; at most three new nodes and one new mesh in a call.
CONSTANTS
  IdSpace = 16
  MaxNodes = 7
  MaxVertices = 9
  MaxIndices = 20
  MaxNewNodes = 3
  MaxNewMeshes = 1
  MaxNewKeys = 1
  MaxCalls = 2
  Printed <- MCPrinted
  Sources <- MCSources
  PassLists <- MCPassLists
  Recipes <- MCRecipes
SPECIFICATION Spec
INVARIANTS OptimizingKeepsMeaning DefaultPassesSettle FailsOnlyForCause
\* The calls come to an end.
CHECK_DEADLOCK FALSE
