CONSTANTS
  a = a
  b = b
  c = c
  p1 = p1
  p2 = p2
  NoOwner = NoOwner
  GlobalCost = 16
  WorkspaceCost = 16
  SessionCost = 16
  ClassCost <- MCClassCost
  HeavyClasses <- MCHeavyClasses
  MaxHeavy = 1
  MaxExtraHeavy = 1
  MaxOperations = 8
  ElevatedPercent = 50
  CriticalPercent = 0
  Ops <- ThreeOps
  Owners <- TwoOwners
  Request <- ThreeRequests
  MaxQueued = 2
  MaxQueuedPerWorkspace = 1
  StoreMayFail = TRUE
  MaxAttempts <- MCMaxAttempts
  MaxPromotions = 2
  Candidates = {"a1", "a2", "b1", "b2", "c1"}
  WorkspaceOf <- MCWorkspaceOf
  Blocking = {"a1", "a2", "b1"}
  HeavySlots = 2
  Jobs = {"a", "b", "c"}
  NoJob = NoJob
  DrainSlots = 2
  Ports = {"shell", "pre-edit"}
  StackLimit = 3
  Demands = {g1, g2, g3}
  Target <- OneTarget
  Callers = {"c1"}
  None = None
  Slots = 2
  DemandMayFail = {"promote", "settle", "start"}
SPECIFICATION AllSpec
INVARIANTS TypeOK OneExecutorPerAttempt LineBounded OrderIsFair NestedDrainsSafe DemandTracked WakeArmed
PROPERTIES SettleFenced OwnerNotDisplaced LineImplemented BacklogTakesTurns NoWakeLost
SYMMETRY DemandSymmetry
CHECK_DEADLOCK FALSE
