SPECIFICATION Spec
CONSTANTS
  s1 = s1
  a1 = a1
  a2 = a2
  kamrup = kamrup
  metro = metro
  baksa = baksa
  p1 = p1
  p2 = p2
  p3 = p3
  f1 = f1
  f2 = f2
  Sources = {s1}
  SourceAmount = 4
  Allocations = {a1, a2}
  AllocationAmount = 2
  SourceOf <- MCSourceOf
  DistrictOf <- MCDistrictOf
  Payouts = {p1, p2, p3}
  AllocationOf <- MCAllocationOf
  PersonOf <- MCPersonOf
  Cohort = 2
  PageSize = 2
  MaxEvents = 4
  Features = {kamrup, metro, baksa}
  NameOf <- MCNameOf
  Loads = {1, 2}
  None = None
  Failure = Failure
SYMMETRY MCSymmetry
INVARIANTS
  SmallGroupsHidden
  SelectionIsVisible
  PublicMoneyNarrows
  PartsOfOneLoad
  NoFalseAlarm
  PagingMissesNothing
CHECK_DEADLOCK FALSE
