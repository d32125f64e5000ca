SPECIFICATION Spec

CONSTANTS
  N = 2
  MaxWrites = 1
  CloseMayFail = FALSE

INVARIANTS
  BufferedIsWithheld
