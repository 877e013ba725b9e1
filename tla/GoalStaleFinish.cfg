CONSTANTS
  s1 = s1
  s2 = s2
  c1 = c1
  NoSession = NoSession
  Sessions <- TwoSessions
  Calls <- OneCall
  LeaseLengths <- TwoLengths
  CallLeaseSeconds = 1
  Grace = 1
  Kinds <- FinisherAndRival
  FirstDelay = 1
  Interval = 2
  EarlyTolerance = 0
  MaxTime = 1
  MaxGeneration = 2
  MaxSeq = 2
  MaxRevision = 2
  Troubles = {"create_uncertain", "cancel_failed"}
SPECIFICATION Spec
PROPERTIES StaleFinishHarmless
CHECK_DEADLOCK FALSE
