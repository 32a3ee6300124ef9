SPECIFICATION Spec
CONSTANTS
  w1 = w1
  w2 = w2
  t1 = t1
  t2 = t2
  o1 = o1
  o2 = o2
  Workers = {w1, w2}
  Ticks = {t1, t2}
  Operators = {o1}
  ProcessOf <- MCProcessOf
  Disbursements = {d1, d2}
  Outcomes = {"SETTLED", "UNKNOWN"}
  MaxAttempts = 2
  BatchSize = 2
  MaxFaults = 1
  None = None
SYMMETRY MCPayouts
INVARIANTS
  BalancesMatch
CHECK_DEADLOCK FALSE
