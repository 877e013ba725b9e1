CONSTANTS
  Passes = {"x"}
  NoPass = NoPass
  Ttl = 2
  MaxClock = 2
  MayDie = {}
  Manifests = {"m0", "m1", "m2"}
  NoManifest = NoManifest
  Blobs = {"b0", "b1", "b2"}
  Content <- MCContent
  Goals = {"g1"}
  Writers = {"w1"}
  KindsOfPass <- PruneOnly
  Orphans = {}
  Subject = "m1"
  Advances <- MCAdvances
  Grace = 1
  FirstRef = "m0"
  FirstManifests = {"m0", "m1"}
SPECIFICATION Spec
INVARIANTS RefFindsManifest
CHECK_DEADLOCK FALSE
