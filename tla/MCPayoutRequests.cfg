SPECIFICATION Spec
CONSTANTS
  Calls = {c1, c2, c3, c4}
  Keys = {k1, k2, k3}
  Bodies = {b1, b2}
  Capacity = 2
  MaxFaults = 3
  None = None
SYMMETRY MCSymmetry
INVARIANTS
  OneCallPerKey
  AnswersMatchBook
  ReservationsMatch
PROPERTIES
  ImplementsIntake
  OnlyFaultsStrand
CHECK_DEADLOCK FALSE
