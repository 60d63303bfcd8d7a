\* Offsets of four bits; two floats print alike; two meshes of 24 and 26 vertices have too many.
CONSTANTS
  IdSpace = 16
  MaxNodes = 4
  MaxVertices = 8
  MaxIndices = 8
  Grain = 2
  Numbers <- MCNumbers
  Letters <- MCLetters
  TextScenes <- MCTextScenes
  Indexes <- MCIndexes
  IndexSpace = 50
  VersionSpace = 4
  Meshes <- MCMeshes
  Solids <- MCSolids
  MeshScenes <- MCMeshScenes
  ObjFiles <- MCObjFiles
  MaxParts = 2
  MaxEdited = 9
SPECIFICATION Spec
INVARIANTS TextReadsBack LinesCommute ManifestReadsBack AcceptedRangesDisjoint FacesAsNamed
PROPERTY ToolsKeepSurface
