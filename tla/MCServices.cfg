SPECIFICATION Spec
CONSTANTS
  Actors = {a1, a2}
  MaxVersion = 2
  MaxRuns = 2
  MaxFaults = 1
  Workers = {w1, w2}
  Slots = 1
  Blocks = 1
  MaxPauses = 1
  MaxCancels = 1
  MaxRealm = 2
  MaxCfg = 2
  MaxMute = 1
  Unset = Unset
  MaxPuts = 2
  Callers = {c1}
  Roots = {1, 2}
  MaxChanges = 1
  None = None
  MaxParentDepth = 3
  MaxBOMImports = 4
  Worlds <- PypiWorlds
  Registries <- NpmRegistries
  Projects <- MavenProjects
  Refs <- MavenRefs
CHECK_DEADLOCK FALSE
INVARIANTS InstalledIsGenuine SettledWhenIdle SlotsAreLeases RefusedOnlyIfDisturbed AppliedIsStored CatalogIsWhole
  SelectedIsHighest ClosureIsPrefetched NearestVersionIsPrefetched
PROPERTY ServicesEnd
