SPECIFICATION Spec

CONSTANTS
  N = 1
  MaxWrites = 1
  CloseMayFail = FALSE

INVARIANTS
  FirstWriteAfterNextOverwrites
