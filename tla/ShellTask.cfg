CONSTANTS
  MaxEvents = 1
  ReadLimit = 2
SPECIFICATION TaskFairSpec
INVARIANTS TaskTypeOK SlotCoversCommand
PROPERTIES EndedNeverLaunched ParkedEnds SlotReturns
CHECK_DEADLOCK FALSE
