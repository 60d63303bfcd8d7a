\* Two floats print alike; two digests for three different signatures.
CONSTANTS
  IdSpace = 16
  MaxNodes = 4
  MaxVertices = 8
  MaxIndices = 8
  Grain = 2
  Texts <- MCTexts
  LargeTexture = 8
  Scenes <- MCScenes
  Bases <- MCBases
  IndexedScenes <- MCIndexedScenes
  Names = {1, 2, 3}
  Digests = {1, 2}
  Precision = 3
  Epsilon = 2
  MovingScenes <- MCMovingScenes
  Steps = {0, 1, 2, 3}
SPECIFICATION Spec
INVARIANTS SignaturesExact DifferencesExact IndexGroupsDuplicates ReferenceWalksAgree FramesShowKeys
PROPERTY BakingEnds
