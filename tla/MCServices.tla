----------------------------- MODULE MCServices -----------------------------
(* The small services that do not meet in memory, checked in one run: the  *)
(* initial state chooses the one that runs, the others stay where they     *)
(* begin.  What a service does is its module's, unchanged.  With them, the *)
(* resolvers of PyPI, Maven and npm expand the worlds of MCWorlds.         *)
EXTENDS Naturals, FiniteSets, MCWorlds

CONSTANTS Actors,       \* administrators, downloads, requests or refreshes
          Workers, Callers, Roots, Unset,
          MaxVersion, MaxRuns, Slots, Blocks, MaxPauses, MaxCancels, MaxRealm, MaxCfg,
          MaxMute, MaxPuts, MaxChanges, MaxFaults, MaxParentDepth, MaxBOMImports,
          Worlds, Registries, Projects, Refs    \* what the resolvers expand: see MCWorlds

VARIABLES
  part,
  lock, phase, handle, run, done, pc, verdict, rel, cancel, running, path, new, self, newest,
  paused, used, dl, worker, pauses, cancels,
  src, req, realm, cfg, mute, disturbed,
  memory, row, comp, armed, stuck, put, puts, mixed, unsaved,
  names, at, refreshing, refresh, caller, tmp, file, root, changes, overlapped,
  world, item, pypiQueue, pypiSeen, files, pypiResult, taken,
  repo, mavenQueue, mavenSeen, urls, cached, mavenResult, latest,
  registry, npmItem, npmQueue, npmSeen, tarballs, packuments, npmResult, npmTaken,
  faults    \* counted by whichever service runs

update == <<lock, phase, handle, run, done, pc, verdict, rel, cancel, running, path, new, self,
            newest>>
lease == <<paused, used, dl, worker, pauses, cancels>>
token == <<src, req, realm, cfg, mute, disturbed>>
config == <<memory, row, comp, armed, stuck, put, puts, mixed, unsaved>>
catalog == <<names, at, refreshing, refresh, caller, tmp, file, root, changes, overlapped>>
pypi == <<world, item, pypiQueue, pypiSeen, files, pypiResult, taken>>
maven == <<repo, mavenQueue, mavenSeen, urls, cached, mavenResult, latest>>
npm == <<registry, npmItem, npmQueue, npmSeen, tarballs, packuments, npmResult, npmTaken>>
vars == <<part, update, lease, token, config, catalog, pypi, maven, npm, faults>>

(* Requests that carry the bandwidth, the cache's size, a proxy, or the    *)
(* scheduler's settings, with values that are replaced by defaults; and a  *)
(* database of an old release, with a platform's limit                     *)
NoSection == [rate |-> Unset, quota |-> Unset, proxy |-> Unset, sched |-> Unset]
Bodies ==
  {[NoSection EXCEPT !.rate = 0, !.quota = 2],
   [NoSection EXCEPT !.quota = 0, !.proxy = 1],
   [NoSection EXCEPT !.sched = [mode |-> TRUE, resume |-> FALSE]],
   [NoSection EXCEPT !.sched = [mode |-> FALSE, resume |-> Unset]]}
Stored ==
  {[rate |-> 0, quota |-> 0, proxy |-> 0, mode |-> FALSE, resume |-> Unset, legacy |-> 3]}

U == INSTANCE Updater WITH Admins <- Actors
L == INSTANCE PrefetchLease WITH Downloads <- Actors
T == INSTANCE TokenSource WITH Requests <- Actors
C == INSTANCE ConfigApply WITH Admins <- Actors
G == INSTANCE Catalog WITH Refreshes <- Actors
P == INSTANCE PypiPrefetch WITH Implausible <- {"win32"}, root <- item, queue <- pypiQueue,
                                seen <- pypiSeen, urls <- files, result <- pypiResult
M == INSTANCE MavenPrefetch WITH queue <- mavenQueue, seen <- mavenSeen, result <- mavenResult
J == INSTANCE NpmPrefetch WITH root <- npmItem, queue <- npmQueue, seen <- npmSeen, urls <- tarballs,
                               cached <- packuments, result <- npmResult, taken <- npmTaken

(* The worlds are made of what they should be made of *)
ASSUME WorldConstants == P!WorldConstants /\ J!RegistryConstants /\ M!ProjectConstants

Init ==
  /\ part \in {"update", "lease", "token", "config", "catalog", "pypi", "maven", "npm"}
  /\ U!Init /\ T!Init /\ C!Init /\ G!Init /\ L!Init
  /\ part # "lease" => ~paused
  /\ part # "config" => memory = C!applyDefaults(C!defaultRuntime)
  /\ IF part = "pypi" THEN P!Init
     ELSE /\ world = None /\ item = None /\ pypiQueue = None /\ pypiSeen = None
          /\ files = None /\ pypiResult = None /\ taken = None
  /\ IF part = "maven" THEN M!Init
     ELSE /\ repo = None /\ mavenQueue = None /\ mavenSeen = None /\ urls = None
          /\ cached = None /\ mavenResult = None /\ latest = None
  /\ IF part = "npm" THEN J!Init
     ELSE /\ registry = None /\ npmItem = None /\ npmQueue = None /\ npmSeen = None
          /\ tarballs = None /\ packuments = None /\ npmResult = None /\ npmTaken = None

Only(p, Step) ==
  /\ part = p /\ Step
  /\ UNCHANGED part
  /\ p # "update" => UNCHANGED update
  /\ p # "lease" => UNCHANGED lease
  /\ p # "token" => UNCHANGED token
  /\ p # "config" => UNCHANGED config
  /\ p # "catalog" => UNCHANGED catalog
  /\ p # "pypi" => UNCHANGED pypi
  /\ p # "maven" => UNCHANGED maven
  /\ p # "npm" => UNCHANGED npm
  /\ p \in {"lease", "token", "pypi", "maven", "npm"} => UNCHANGED faults

Next ==
  \/ Only("update", U!Next)
  \/ Only("lease", L!Next)
  \/ Only("token", T!Next)
  \/ Only("config", C!Next)
  \/ Only("catalog", G!Next)
  \/ Only("pypi", P!Next)
  \/ Only("maven", M!Next)
  \/ Only("npm", J!Next)

(* The fairness of the modules: `part` never changes, so that one          *)
(* condition on the steps of several services is theirs together.  (For    *)
(* the resolvers of PyPI and Maven, TLC would take hours to evaluate it.)  *)
(* An expansion of npm goes on unless a body goes silent, which is a step. *)
Fairness ==
  /\ WF_vars(Only("update", U!Apply) \/ Only("catalog", \E c \in Callers : G!CallerStep(c)))
  /\ WF_vars(Only("update", U!RestartSelf) \/ Only("catalog", \E c \in Callers : G!Tick(c)))
  /\ \A a \in Actors :
       WF_vars(\/ Only("update", U!CancelStep(a)) \/ Only("config", C!Step(a))
               \/ Only("lease", L!DownloadStep(a)) \/ Only("token", T!Step(a))
               \/ Only("catalog", G!RefreshStep(a)))
  /\ \A x \in Actors \X Workers : WF_vars(Only("lease", L!WorkerStep(x)))
  /\ WF_vars(Only("npm", J!Next))

Spec == Init /\ [][Next]_vars /\ Fairness

-----------------------------------------------------------------------------
(* Each part's invariant, with its type invariant *)

(* update: nothing unverified is ever at the executable's path *)
InstalledIsGenuine == U!TypeOK /\ U!InstalledIsGenuine
(* update: the lock, the handle and the progress agree *)
SettledWhenIdle == U!SettledWhenIdle
(* lease: slots in use are slots held, none leaks *)
SlotsAreLeases == L!TypeOK /\ L!SlotsAreLeases
(* token: one renewal is enough *)
RefusedOnlyIfDisturbed == T!TypeOK /\ T!RefusedOnlyIfDisturbed
(* config: what was answered is stored and in force *)
AppliedIsStored == C!TypeOK /\ C!AppliedIsStored
(* catalog: never a part or a mixture unless two refreshes wrote at once *)
CatalogIsWhole == G!TypeOK /\ G!CatalogIsWhole
(* pypi, npm: the version of a requirement *)
SelectedIsHighest ==
  /\ part = "pypi" => P!SelectedIsHighest
  /\ part = "npm" => J!SelectedIsHighest
(* pypi, npm: the packages and files of an expansion *)
ClosureIsPrefetched ==
  /\ part = "pypi" => P!TypeOK /\ P!ClosureIsPrefetched
  /\ part = "npm" => J!TypeOK /\ J!ClosureIsPrefetched
(* maven: the versions, POMs and files of an expansion *)
NearestVersionIsPrefetched == part = "maven" => M!TypeOK /\ M!NearestVersionIsPrefetched

(* What has begun ends: updates and restarts, prefetches between pauses,   *)
(* slots given back during one, configuration requests, expansions of npm  *)
(* packages in circles, but for those that wait for ever for a body; and   *)
(* the catalog comes to follow its upstream.                               *)
ServicesEnd ==
  /\ U!UpdateEnds
  /\ L!PausedGivesBack
  /\ part = "lease" => L!PrefetchEnds
  /\ C!PutEnds
  /\ part = "catalog" => G!CatalogFollows
  /\ part = "npm" => <>(npmResult # "running")
=============================================================================
