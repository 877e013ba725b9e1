CONSTANTS
  a = a
  b = b
  c = c
  p1 = p1
  p2 = p2
  NoOwner = NoOwner
  GlobalCost = 16
  WorkspaceCost = 16
  SessionCost = 16
  ClassCost <- MCClassCost
  HeavyClasses <- MCHeavyClasses
  MaxHeavy = 1
  MaxExtraHeavy = 1
  MaxOperations = 8
  ElevatedPercent = 50
  CriticalPercent = 0
  Ops <- OneOp
  Owners <- TwoOwners
  Request <- OneRequest
  MaxQueued = 2
  MaxQueuedPerWorkspace = 2
  StoreMayFail = FALSE
  MaxAttempts <- OneAttempt
  MaxPromotions = 0
SPECIFICATION Spec
PROPERTIES LiveOwnerKept
CHECK_DEADLOCK FALSE
