SPECIFICATION Spec

CONSTANTS
  Request = {r1, r2, r3}
  MaxInstances = 4
  Feature = {"BufferResponse"}
  StartFeatures = {"BufferResponse"}
  Results <- WellFormedResults
  Bodies = {}
  StartMayFail = FALSE
  GuestMayExit = FALSE
  HostMayClose = FALSE
  FairRequests = {}

SYMMETRY RequestSymmetry
INVARIANTS
  TypeOK
  Exclusive
  Pinned
  RuntimeSurvives
  UsableGuests
