SPECIFICATION BudgetSpec
CONSTANTS
  t1 = t1
  t2 = t2
  t3 = t3
  u1 = u1
  u2 = u2
  pypi = pypi
  npm = npm
  a1 = a1
  Tasks = {t1, t3}
  Urls = {u1, u2}
  UrlOf <- MCUrlOf
  Platforms = {pypi, npm}
  PlatformOf <- MCPlatformOf
  Admins = {a1, a2}
  Modes = {"pause", "continue"}
  ErrorTaskMaxN = 1
  MaxOps = 2
  MaxFiring = 1
INVARIANTS
  TypeOK
  P0Accounting
  PausedWhileInteractive
PROPERTIES
  FinishedIsFinal
  PauseIsLifted
