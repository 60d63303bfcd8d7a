\* Two or three objects beyond the root, every way to name a parent.
CONSTANTS
  IdSpace = 16
  MaxNodes = 3
  MaxVertices = 5
  MaxIndices = 5
  MaxIds = 4
  Shapes <- MCShapes
  Entries <- MCEntries
SPECIFICATION Spec
INVARIANTS IdsFresh ChildrenMirrorParents RejectsOnlyMistakes
PROPERTY BuildIsIdempotent
