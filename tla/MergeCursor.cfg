CONSTANTS
  PullRequests = {1, 2}
  NoCursor = NoCursor
  NoRecord = NoRecord
  Pollers <- OnePoller
  ManualCalls = {}
  MaxPages = 3
  MaxClock = 1
  MaxHubEvents = 5
  MaxFailures = 0
SPECIFICATION ReconFairSpec
PROPERTIES CursorNotStalled
CHECK_DEADLOCK FALSE
