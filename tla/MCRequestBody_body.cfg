SPECIFICATION Spec

CONSTANTS
  Original <- ThreeChunks
  Limits = {1, 2, 4}
  MaxObjects = 5
  MaxWrites = 2

INVARIANTS
  TypeOK
  UntouchedOrWholeIsSeen
  WrittenIsSeen
  RestIsRead
