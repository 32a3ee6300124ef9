SPECIFICATION Spec
CONSTANTS
  Calls = {c1, c2, c3, c4}
  Tokens = {t1, t2, t3}
  Staff = {officer}
  Phones = {phone}
  Limit = 2
  MaxAttempts = 2
  MaxCodes = 2
  MaxFaults = 1
  None = None
SYMMETRY MCSymmetry
INVARIANTS
  LogoutIsFinal
  SpentCodesStayDead
  PassedWithinLimit
CHECK_DEADLOCK FALSE
