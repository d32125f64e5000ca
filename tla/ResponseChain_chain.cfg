SPECIFICATION Spec

CONSTANTS
  N = 2
  MaxWrites = 2
  CloseMayFail = TRUE

INVARIANTS
  TypeOK
  Withheld
  ReadsWhatNextWrote
  Delivered
  FirstWriteOverwrites
PROPERTIES
  RequestFailureIs500
  ImplementsHeld
