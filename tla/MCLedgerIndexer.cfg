SPECIFICATION FairSpec
CONSTANTS
  MaxHeight = 3
  MaxEvents = 2
  Validity <- MCAnyEvent
  MaxFaults = 3
  MaxRebuilds = 0
INVARIANTS
  CheckpointCovers
PROPERTIES
  ImplementsIndex
  EveryEventIndexed
CHECK_DEADLOCK FALSE
