SPECIFICATION Spec

CONSTANTS
  Request = {r1, r2}
  MaxInstances = 3
  Feature = {"BufferResponse"}
  StartFeatures = {}
  Results <- SkipWithContext
  Bodies = {"responseWriter"}
  StartMayFail = FALSE
  GuestMayExit = FALSE
  HostMayClose = FALSE
  FairRequests = {}

INVARIANTS
  Released
