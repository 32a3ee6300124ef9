SPECIFICATION ReplaySpec
CONSTANTS
  MaxHeight = 3
  MaxEvents = 1
  Validity = {TRUE}
  MaxFaults = 0
  MaxRebuilds = 1
INVARIANTS
  CheckpointCovers
CHECK_DEADLOCK FALSE
