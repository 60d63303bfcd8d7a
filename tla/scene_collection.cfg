\* Three keys and the empty one; every choice of stored scenes.
CONSTANTS
  IdSpace = 16
  MaxNodes = 4
  MaxVertices = 6
  MaxIndices = 6
  Keys = {0, 1, 2, 3}
  Library <- MCLibrary
SPECIFICATION Spec
INVARIANTS MergeKeepsEveryScene ValidScenesMerge
