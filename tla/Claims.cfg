CONSTANTS
  NoRow = NoRow
  s1 = s1
  s2 = s2
  c1 = c1
  NoSession = NoSession
  Sessions <- TwoSessions
  Calls <- OneCall
  LeaseLengths <- TwoLengths
  CallLeaseSeconds = 1
  Grace = 1
  Kinds <- WorkerAndRival
  FirstDelay = 1
  Interval = 2
  EarlyTolerance = 0
  MaxTime = 1
  MaxGeneration = 2
  MaxSeq = 2
  MaxRevision = 2
  Troubles = {"create_uncertain", "cancel_failed"}
  Runners = {"r1", "r2"}
  ProcessOf <- TwoProcesses
  MayDie = {"r2"}
  AttemptIds = {1, 2, 3, 4, 5}
  Heads = {"h1", "h2"}
  FirstHead = "h1"
  Bases = {1, 2}
  FirstBase = 1
  LocalGates = {"test"}
  CheckGates = {"ci"}
  PassesOn <- FirstHeadFails
  MaxMoves = 2
  MaxReceipts = 1
SPECIFICATION BothSpec
INVARIANTS TypeOK ReceiptsTrackLease CancelStopsWorker CallsInsideLease OneRunPerHead MergedWasVerified
PROPERTIES LiveWorkerKept OnlyAbandonedReconciled ClosedForGood
CHECK_DEADLOCK FALSE
