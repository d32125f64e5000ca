SPECIFICATION Spec

CONSTANTS
  Request = {r1, r2}
  MaxInstances = 3
  Feature = {"BufferRequest", "BufferResponse"}
  StartFeatures = {"BufferRequest"}
  Results <- WellFormedResults
  Bodies = {"requestReader", "requestWriter", "responseWriter"}
  StartMayFail = TRUE
  GuestMayExit = TRUE
  HostMayClose = TRUE
  FairRequests = {r1}

INVARIANTS
  Released
  RequestBodyHandedOver
PROPERTIES
  FeaturesStable
  Terminates
  ImplementsLease
