CONSTANTS
  g1 = g1
  g2 = g2
  h1 = h1
  c1 = c1
  None = None
  Target <- MCTarget
  Callers = {c1}
  Demands <- ThreeDemands
  Slots = 2
  DemandMayFail = {}
  PullRequests = {1, 2, 3}
  Pollers = {"q1"}
  ManualCalls = {TRUE, FALSE}
  MaxPages = 3
  MaxClock = 1
  MaxHubEvents = 3
  MaxFailures = 1
  NoCursor = NoCursor
  NoRecord = NoRecord
  Promoters = {"a", "b", "c"}
  Unset = Unset
  TargetOf <- MCTargetOf
  Verified = {"a", "b", "c"}
  MayCrash = {"a"}
  MayStall = {"b"}
SPECIFICATION FairSpec
INVARIANTS RunningExecuted  NoMergeSkipped
PROPERTIES MergesRecorded LockFreed
CHECK_DEADLOCK FALSE
