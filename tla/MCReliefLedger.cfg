SPECIFICATION Spec
CONSTANTS
  MaxPaise = 3
  Identities <- MCIdentities
  Disasters = {flood}
  Schemes = {housing}
  Sources = {f1, f2}
  Allocations = {a1, a2}
  Beneficiaries = {b1}
  Disbursements = {p1, p2}
  Keys = {k1, k2}
  Absent = Absent
SYMMETRY MCSymmetry
INVARIANTS
  TypeOK
  NoOversubscription
  TotalsMatchAssets
  OneDisbursementPerKey
  Traceable
PROPERTIES
  EventsReplayBalances
  ImplementsLifecycle
CHECK_DEADLOCK FALSE
