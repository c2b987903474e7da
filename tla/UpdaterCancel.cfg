SPECIFICATION FairSpec
CONSTANTS
  Admins = {a1}
  MaxVersion = 2
  MaxRuns = 1
  MaxFaults = 0
CHECK_DEADLOCK FALSE
PROPERTY
  CancelledIsNotInstalled
