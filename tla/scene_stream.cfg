\* Bytes of two bits: a 32-bit count goes up to 255, an id up to 65535.
CONSTANTS
  IdSpace = 65536
  MaxNodes = 2
  MaxVertices = 4
  MaxIndices = 4
  ByteBase = 4
  MaxStringBytes = 2
  FloatOne = 16
  FloatHalfTurn = 60
  FloatInfinity = 120
  Deltas = {1, 3}
  Scenes <- MCScenes
SPECIFICATION Spec
INVARIANTS FieldsInOrder WholeFilesOnly AcceptedRewrites ReadersAgree
