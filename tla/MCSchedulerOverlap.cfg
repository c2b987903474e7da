SPECIFICATION FairSpec
CONSTANTS
  t1 = t1
  t2 = t2
  t3 = t3
  u1 = u1
  u2 = u2
  pypi = pypi
  npm = npm
  a1 = a1
  Tasks = {t1}
  Urls = {u1, u2}
  UrlOf <- MCUrlOf
  Platforms = {pypi, npm}
  PlatformOf <- MCPlatformOf
  Admins = {a1, a2}
  Modes = {"pause"}
  ErrorTaskMaxN = 1
  MaxOps = 2
  MaxFiring = 1
PROPERTY
  SwitchedOnLifts
