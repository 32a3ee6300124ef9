SPECIFICATION Spec
CONSTANTS
  Calls = {c1, c2}
  Tokens = {t1, t2}
  Staff = {officer}
  Phones = {phone}
  Limit = 2
  MaxAttempts = 2
  MaxCodes = 1
  MaxFaults = 1
  None = None
INVARIANTS
  RefreshAnswered
CHECK_DEADLOCK FALSE
