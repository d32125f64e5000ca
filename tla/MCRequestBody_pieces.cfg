SPECIFICATION Spec

CONSTANTS
  Original <- ThreeChunks
  Limits = {1, 2, 4}
  MaxObjects = 3
  MaxWrites = 0

INVARIANTS
  NextSeesOriginal
