SPECIFICATION Spec
CONSTANTS
  NChunks = 2
  MaxVersion = 1
  HasETag = TRUE
  Files <- MCPlainFile
  Ceiling = 2
  MaxAttempts = 2
  MaxFailures = 0
  MaxCancels = 1
  MaxRestarts = 0
  MaxEvictions = 0
  MaxClears = 0
  MaxDisturbances = 2
INVARIANT
  CachedIsWhole
