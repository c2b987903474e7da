SPECIFICATION Spec
CONSTANTS
  Fetchers = {f1, f2}
  Streamers = {s1}
  None = None
  MaxTries = 2
  MaxBreaks = 0
CHECK_DEADLOCK FALSE
INVARIANTS
  RetriesAfterTakeover
