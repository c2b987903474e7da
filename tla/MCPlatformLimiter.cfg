SPECIFICATION FairSpec
CONSTANTS
  i1 = i1
  p1 = p1
  p2 = p2
  d1 = d1
  d2 = d2
  d3 = d3
  Users = {d1, d2, d3}
  Workers = {i1, p1}
  Interactive = {i1, d3}
  MaxTaskSizes = {2, 3}
  MaxConnSizes = {1, 2}
  MaxApplies = 1
  MaxRounds = 2
CHECK_DEADLOCK FALSE
INVARIANTS
  Accounting
  TaskReserveKept
PROPERTY
  ServedUnlessReloaded
