CONSTANTS
  a1 = a1
  a2 = a2
  b1 = b1
  b2 = b2
  WorkspaceOf <- MCWorkspaceOf
  Candidates <- FourJobs
  Blocking <- AllBlocking
  HeavySlots = 1
SPECIFICATION OrderFairSpec
PROPERTIES EveryJobServed
