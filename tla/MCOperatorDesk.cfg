SPECIFICATION Spec
CONSTANTS
  g1 = g1
  g2 = g2
  n1 = n1
  p1 = p1
  p2 = p2
  p3 = p3
  here = here
  there = there
  s0 = s0
  a0 = a0
  d0 = d0
  b1 = b1
  b2 = b2
  Calls = {c1, c2}
  Users = {g1, g2, n1}
  OrgOf <- MCOrgOf
  DistrictOf <- MCDistrictOf
  People = {p1, p2, p3}
  PhoneOf <- MCPhoneOf
  Places = {here, there}
  Batches = {b1, b2}
  SourceAmount = 4
  AllocationAmount = 2
  Seeds <- MCSeeds
  BatchSeeds <- MCBatchSeeds
  Mode = "fabric"
  PoolSize = 1
  MaxFaults = 1
  None = None
INVARIANTS
  ApprovedByAnother
  RowsFollowLedger
  BooksPartByFaults
  BothBalancesMatch
  PanelOffersEligible
  NobodyWaitsForEveryone
PROPERTIES
  RowsLiveOnce
SYMMETRY MCSymmetry
CHECK_DEADLOCK FALSE
