SPECIFICATION Spec

CONSTANTS
  Protocols = {"HTTP/1.1", "HTTP/2.0"}
  MaxMissing = 2

INVARIANTS
  TypeOK
  ConformingHostPasses
  PassingHostConforms
  ObjectionsAreReported
