SPECIFICATION Spec

CONSTANTS
  Name = {"Host", "host", "Te", "te"}
  TrailerName = {"Host", "host", "Te", "te"}
  Canonical <- HostAndTe
  Lower <- HostAndTeLower
  Value = {"v", "w"}
  MaxValues = 2

PROPERTIES
  AddKeepsTheOthers
