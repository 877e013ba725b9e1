CONSTANTS
  a = a
  b = b
  c = c
  NoJob = NoJob
  Jobs <- MCJobs
  DrainSlots = 2
  Ports = {"shell"}
  StackLimit = 3
SPECIFICATION DrainSpec
SYMMETRY JobSymmetry
INVARIANTS DroppedOnce

CHECK_DEADLOCK FALSE
