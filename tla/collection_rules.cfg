\* A scene with two animations of one id is offered to the collection.
CONSTANTS
  IdSpace = 16
  MaxNodes = 4
  MaxVertices = 6
  MaxIndices = 6
  Keys = {0, 1}
  Library <- MCLibraryWithTwins
SPECIFICATION Spec
INVARIANT StoredScenesMeetFormatRules
