SPECIFICATION Spec

CONSTANTS
  Name = {"Host", "host", "Te", "te"}
  TrailerName = {"te"}
  Canonical <- HostAndTe
  Lower <- HostAndTeLower
  Value = {"v"}
  MaxValues = 2

INVARIANTS
  TypeOK
  NamesAgreeWithValues
  LastWordOnHeaders
PROPERTIES
  HeadersEditedAsDocumented
