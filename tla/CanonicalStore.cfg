CONSTANTS
  Passes = {"x", "y"}
  NoPass = NoPass
  Ttl = 2
  MaxClock = 2
  MayDie = {"x"}
  Manifests = {"m0", "m1", "m2"}
  NoManifest = NoManifest
  Blobs = {"b0", "b1", "b2"}
  Content <- MCContent
  Goals = {"g1"}
  Writers = {"w1"}
  KindsOfPass <- MCKindsOfPass
  Orphans = {"m2"}
  Subject = "m1"
  Advances <- MCAdvances
  Grace = 1
  FirstRef = "m0"
  FirstManifests = {"m0", "m1"}
  Promoters = {"a", "b", "c"}
  Unset = Unset
  TargetOf <- MCTarget
  Verified = {"a", "c"}
  MayCrash = {"a"}
  MayStall = {"c"}
SPECIFICATION BothSpec
INVARIANTS TypeOK ExclusivePass PinnedKept
PROPERTIES SteadyRootsKept RegisterImplemented
CHECK_DEADLOCK FALSE
