SPECIFICATION QueuesSpec
CONSTANTS
  d1 = d1
  b1 = b1
  b2 = b2
  k1 = k1
  k2 = k2
  Keys = {k1, k2}
  Downloads = {d1}
  Bytes = {b1, b2}
  KeyOf <- MCKeyOf
  SizeOf <- MCSizeOf
  None = None
  Admins = {a1, a2}
  Quotas = {2, 4}
  MaxDisturbances = 2
  i1 = i1
  i2 = i2
  i3 = i3
  u1 = u1
  u2 = u2
  Items = {i1, i2, i3}
  Urls = {u1, u2}
  UrlOf <- MCUrlOf
  Nobody = Nobody
  Loop = Loop
  MaxAttempts = 2
  FileInitial = 1
  FileCeiling = 2
  MaxTroubles = 2
CHECK_DEADLOCK FALSE
INVARIANTS
  LeasesMatch
  WithinQuota
  ClearedIsEmpty
  CachedIsWhole
  PrefetchAccounting
PROPERTIES
  FreshSurvives
  EveryItemEnds
