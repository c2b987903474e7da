SPECIFICATION TransfersSpec
CONSTANTS
  Fetchers = {f1, f2}
  Streamers = {s1, s2}
  None = None
  MaxTries = 2
  MaxBreaks = 1
  Length = 3
  Publications = 3
  MaxResume = 4
CHECK_DEADLOCK FALSE
INVARIANTS
  InteractiveKeepsContext
  StreamTypeOK
  ClientGetsOneFile
  CachedIsGenuine
  CachedIsWhatWasSent
PROPERTIES
  EveryRequestEnds
  ImplementsSingleFlight
  EveryStreamEnds
