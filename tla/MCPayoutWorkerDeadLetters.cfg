SPECIFICATION Spec
CONSTANTS
  w1 = w1
  w2 = w2
  t1 = t1
  t2 = t2
  o1 = o1
  o2 = o2
  Workers = {w1, w2}
  Ticks = {t1, t2}
  Operators = {o1, o2}
  ProcessOf <- MCProcessOf
  Disbursements = {d1}
  Outcomes = {"SETTLED"}
  MaxAttempts = 1
  BatchSize = 1
  MaxFaults = 2
  None = None
SYMMETRY MCProcesses
INVARIANTS
  DeadLettersReviewable
CHECK_DEADLOCK FALSE
