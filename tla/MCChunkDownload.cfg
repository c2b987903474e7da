SPECIFICATION FairSpec
CONSTANTS
  NChunks = 2
  MaxVersion = 2
  HasETag = TRUE
  Files <- MCFiles
  Ceiling = 2
  MaxAttempts = 2
  MaxFailures = 2
  MaxCancels = 1
  MaxRestarts = 1
  MaxEvictions = 1
  MaxClears = 1
  MaxDisturbances = 2
INVARIANT
  CachedMatchesDigest
PROPERTIES
  ResumedIsWhole
  DownloadEnds
