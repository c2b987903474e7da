# MirrorHub in TLA+

MirrorHub is a caching mirror for package registries (PyPI, npm, Maven, Go
modules, Docker, Hugging Face) written in Go. Clients talk to one HTTP server;
what they ask for is answered from a cache on disk or fetched from the upstream
and cached on the way. This directory holds TLA+ models of the parts of it that
are concurrent or that must survive failures, the TLC configurations that check
them on small instances, and TLAPS proofs of the properties that matter most.

Paths below are relative to `src/backend/internal/` unless they begin with `src/`.

## 1. The system

### Components

| component | state it keeps | operations | correct means |
|---|---|---|---|
| scheduler (`scheduler/scheduler.go`) | the table of tasks, the counts of interactive downloads in progress (P0, in all and per platform), the idle timer, the cancel function of each task | Begin, MarkPreparing/Waiting/Running/Hit, End, BindCancel, Cancel, CancelMatching, Purge, ClearFinished, SetResumeIdle | counters equal the tasks they count; prefetch is paused while an interactive download runs and resumed afterwards; a finished task stays finished |
| rate limiter (`ratelimit/ratelimit.go`) | per platform: numbers of task slots and connections, the connection semaphore (a channel), the pause flag, token buckets | AcquireTask/ReleaseTask, AcquireConn/ReleaseConn, ApplyConfig, SetPrefetchPaused, WaitN | limits hold, slots are neither lost nor invented, interactive requests keep their share |
| ranged download (`downloader/download.go`, `chunk.go`, `serial.go`) | a temporary file of the full length, the marks of finished ranges in the metadata database, workers, the first error | probe, resume, range workers, fallback to one connection, verify, Put, wipe | what is cached is whole and genuine, and every download ends |
| sharing of transfers (`downloader/downloader.go`, `serve.go`) | the map of transfers in flight, a wait record with a channel per leader | GetOrDownload (background), ServePackage (interactive), taking over from a background leader | one transfer per file at a time, nobody waits for a leader that has gone, interactive requests are not cancelled by others |
| interactive stream (`downloader/stream.go`) | offset, running hash, temporary file, the ETag of the first answer | connect, copy to hash, client and file, resume, verify, Put | the client gets each byte once and of one version; only genuine files are cached |
| host governor (`downloader/hostgov.go`) | per upstream host: limits on files and connections, moved by observed success and failure | TryBeginPrefetch, EndPrefetch, Observe... | slots given back; the limit recovers |
| cache (`cache/cache.go`) | files, a bbolt database of entries and of range marks, write leases, the quota | Put, PutBytes, Get/Open/ReadAll and their stale variants, RenewTTL, Delete, Clear, eviction, purge of temporary files | entries have complete files, the quota holds, Clear neither loses nor is overtaken by writers |
| prefetch service (`prefetch/*.go`) | the queues manual, waiting and delayed, the cancel functions by URL | Enqueue, the drains, startOneAttempt, Cancel, Purge | every item is worked off once, slots are returned, a purge stops what it should |
| proxy (`proxy/*.go`) | revalidations in progress per index | handle, handleIndex, handleMetadata, handlePackage | what is served is what the upstream published |
| prefetch lease (`downloader/lease.go`, `limit_reader.go`) | per background download: whether it holds its task slot, who acquires it | ensureHeld, release, waitPrefetchGate, Read | slots are given back during a pause, taken once after it, never leaked |
| configuration (`config/config.go`, `putConfig` of `api/api.go`) | the configuration in memory, its row in the database, copies in the components | Open, Update, putConfig | what was answered is stored and in force everywhere |
| updates and restart (`update/update.go`, `reexec/reexec.go`) | the lock, phase and cancel function of an update, the executable, its backup, the downloaded file | Apply, Cancel, postRestart, RestartSelf | only a verified executable is ever in place; cancellation and replacement exclude each other |
| registry tokens (`handlers/docker/token.go`, `platform/docker/capabilities.go`) | realm and table of tokens, replaced with the configuration | Bearer, ApplyChallenge, InjectUpstreamAuth, InvalidateUpstreamAuth | one renewal is enough |
| package catalogue (`api/catalog.go`) | names in memory, their upstream and age, a file, the flag of a refresh | search, ticker, refresh, save, load | searches see one upstream's whole list, and finally the current upstream's |
| resolution of packages (`handlers/pypi/*`, `platform/pypi/prefetch.go`, `handlers/maven/pom_resolve.go`, `platform/maven/prefetch.go`, `handlers/npm/packagejson.go`, `platform/npm/prefetch.go`) | the queue and the visited set of one expansion | ExpandPrefetchItem, SelectFiles, FilterArtifacts, EvalMarker, ResolvePomDependencies, selectVersion | what is prefetched is what an installation will ask for |
| management API otherwise, authentication, traffic (`api`, `auth`, `store`, `traffic`) | sessions, counters | HTTP handlers | changes reach the components |
| platforms and other handlers (`platform/*`, `handlers/*`) | none | matching paths, rewriting indexes, parsing lock files | pure functions |
| front end, deployment (`src/frontend`, `src/deploy`) | - | - | not modelled |

### How they interact

A request enters `proxy.handle`, which asks the platforms for a match, begins a
task in the scheduler and hands the request to one of three handlers. Packages go
to `Engine.ServePackage`, which looks into the cache, then into the map of
transfers in flight; a leader takes a task slot and a connection from the
platform's limiter, holds a write lease of the cache, streams, and puts the file.
A prefetch goes the other way round: the prefetch service takes a file slot from
the governor of the host, begins a task of lower priority, and calls
`Engine.GetOrDownload`, which downloads in ranges. While an interactive download
counted in P0 runs, the scheduler sets the pause flag of every limiter, at which
prefetches wait; after the last one an idle timer lifts it. An administrator can
cancel and purge tasks, clear the cache, and change limits and the quota at any time:
these calls reach into scheduler, prefetch service, limiters and cache without a
lock common to them.

### Where it is hard

- Most state is behind one mutex each, but operations are made of several critical
  sections: what was checked in one may be stale in the next (`AcquireConn`,
  `CancelMatching`, `Purge`, `Clear`, `Begin` followed by `BindCancel`).
- Channels are replaced while in use (`ApplyConfig`), and closed by leaders for followers.
- Files and database are changed by separate steps and survive crashes separately.
- The upstream fails, stalls, repeats whole answers and publishes new content
  between two requests of one download.
- Three liveness duties: the pause is lifted, waiters are woken, queues are drained.
- An update replaces the program that runs it, and an administrator may change his mind,
  or the machine may stop, between any two steps of it.
- Dependencies run in circles, versions are spelled in many ways, and any index, metadata
  or POM on the way may fail.

`PROJECT.json` lists these hazards one by one, at the lines where they bite, with the
properties that would catch them.

## 2. Modules

| module | models | proved in |
|---|---|---|
| `Scheduler` | scheduler.go with its callers in `proxy.handle` and the management API | `SchedulerProofs` |
| `PlatformLimiter` | task slots and the connection semaphore of one platform | `SlotsProofs` |
| `ChunkDownload` | one background download of one file, attempt after attempt | `DownloadProofs` |
| `SingleFlight` | abstract: what those who ask for one file are promised | |
| `Inflight` | `getOrDownload` and `ServePackage`; implements `SingleFlight` | `InflightProofs` |
| `StreamDownload` | one interactive download | `DownloadProofs` |
| `CacheStore` | writers, quota, Clear and crashes of the cache | `CacheStoreProofs` |
| `PrefetchService` | queues, runs and file slots of the prefetch service | `SlotsProofs` |
| `IndexRevalidation` | requests for one index: hit, shared revalidation, fallback, `PutBytes` | `IndexRevalidationProofs` |
| `PrefetchLease` | task slots of paused prefetches: lease, gate, workers that share a lease | `ServicesProofs` |
| `Updater` | online update, its cancellation, manual restart, crash, what is on disk | `ServicesProofs` |
| `TokenSource` | requests to a registry that share realm and tokens | `ServicesProofs` |
| `ConfigApply` | configuration requests, the database row, what the components were told | `ServicesProofs` |
| `Catalog` | searches, refreshes and the file of the package catalogue | `ServicesProofs` |
| `PypiSelect` | versions, constraints, the platform filter of wheels: operators only | `ResolverProofs` |
| `PypiPrefetch` | expansion of a requirement; EXTENDS `PypiSelect` | `ResolverProofs` |
| `MavenPrefetch` | expansion of a coordinate: parents, BOMs, properties | `ResolverProofs` |
| `NpmPrefetch` | expansion of a package and a range of its versions | `ResolverProofs` |

`MC<Module>.tla` and the `.cfg` files are the small instances. `MCTransfers` checks `Inflight` and
`StreamDownload` in one run, `MCQueues` the cache and the prefetch service: the initial state chooses which one of the two goes on,
the other stays where it begins, and each has the fairness of its own module. `MCServices` holds
`PrefetchLease` and what follows it in the table: each is an INSTANCE with variables of its own,
the initial state chooses which one runs, and `faults`, a bound, is the only variable they have in
common. They do not meet in the program's memory either. `MCWorlds` has the package indexes and
repositories for the resolvers. Every definition that stands for code is mapped to its lines in
`PROJECT.json`.

### How state and actions correspond to the code

One action is one critical section, or one step outside any lock at which other
goroutines can be scheduled. A program counter per goroutine (`owner` in
`Scheduler`, `worker` in `PlatformLimiter` and `ChunkDownload`, `req` in `Inflight`,
`writer` in `CacheStore`, `run` in `PrefetchService`, `req` and `reval` in
`IndexRevalidation`, `pc` in `StreamDownload` and `Updater`, `worker` and `dl` in `PrefetchLease`,
`req` in `TokenSource`, `put` in `ConfigApply`, `refresh` and `caller` in `Catalog`) says
between which of them it is. The resolvers are sequential: one action is one round of the
loop in `ExpandPrefetchItem`, with the outcomes of the calls it makes. Calls into another component are one step with that
component's possible outcomes; the composition is by contract:

- `ChunkDownload` and `StreamDownload` assume that one request at a time downloads
  a file: `Inflight` shows it.
- `Inflight` takes the transfer as one step that ends in success, failure or
  cancellation: the download modules show that it ends and what is cached.
- `CacheStore` assumes that downloads of one key do not overlap (`Inflight`), and
  makes no such assumption about `PutBytes`.
- `PlatformLimiter` leaves the pause flag to `Scheduler`, whose `paused` it is, and so does
  `PrefetchLease`, which adds to it the gate of the task; its `used` is the limiter's count.
- `ConfigApply` has the pauses and the idle timer as steps of the environment: `Scheduler`
  shows when they happen. What a component does with a setting is the component's module.
- `PrefetchService` takes the expansion of an item as one step; `PypiPrefetch`,
  `MavenPrefetch` and `NpmPrefetch` say what it computes.
- `PrefetchService` takes the download as one step and shows that the governor's
  slots are balanced whatever its end.
- `IndexRevalidation` takes the cache at the grain its overlapping `PutBytes` need (open,
  write, move, commit, remove) and everything else that happens to the entry (eviction, Clear)
  as its disappearance, which `CacheStore` models.

`SingleFlight` is the abstract specification of the sharing: requests that arrive,
lead, transfer, are answered or refused. The refinement mapping of `Inflight`
derives the phase of a request from its program counter, `stored` from the wait
records and `broken` from the history of failures.

### Data

Versions of an upstream file are numbers, bytes are pairs of version and position
(or sets of versions per range), a digest is "the content of version 1". File sizes
in the cache are small numbers. Time is not modelled: a timer that is armed may
fire at any moment, an entry may expire, a stalled connection may be closed. An executable is
its version's number, or `Bad`. A package version is the parts its spelling has (epoch, release,
labels); the words that the platform filter looks for are a set; a POM is a record; the text
of an npm pre-release is its place in the order of bytes.

## 3. Runs

| run | question | bounds, and why they are enough |
|---|---|---|
| `scheduler` | Do counters, pause, list and outcomes stay right in every interleaving, and is every pause lifted, unless two configuration requests overlap? | Two tasks of two platforms meet in all counters, with one management request of every kind; or one task, two administrators and two requests of any kind between them (`BudgetSpec`: tasks begun and requests made are at most three); one fired timer at a time; the list of errors bounded by one, so that pruning happens. |
| `scheduler_cancel` | Does a cancel reach the goroutine? It does not, see section 6. | two tasks, one administrator with one request |
| `scheduler_overlap` | And if two configuration requests overlap? Then not, see section 6. | one task, two administrators with one request each |
| `limiter` | Are limits kept and slots balanced? | Three users and two workers on pools of one to three, where the reserve formulas change; one new configuration at any moment. |
| `chunk_download` | Is what is cached genuine and whole, and does every download end? | Two ranges and two versions (a mixture needs two), two attempts per range, one each of cancel, restart, eviction and clear, two failures (of a range, of Put before or after the move, of clearing the marks), at most two disturbances together: every pair of causes. One file has a digest, is redirected and may come without a length; the other has none and its length is known beforehand. |
| `chunk_cancel` | Is what is cached whole even after a cancel? It is not, see section 6. | one cancel |
| `transfers` | Does the sharing implement `SingleFlight`, and does everybody get an answer? Does the client get one file, and the cache what the client got? | Sharing: Two background and two interactive requests, two turns, one break: a follower and a takeover on each side. Streaming: Three blocks (one before, at and after a break), three versions, four connections; all sixteen-odd kinds of request; the check of the file may be unable to read it. |
| `inflight_takeover` | Does a follower try again whose leader was cancelled by an interactive request? It does not, see section 6. | Two background requests and an interactive one, no failures. |
| `queues` | Do leases, quota, commit and Clear agree? Are slots balanced and items worked off once? | Cache: A download and two `PutBytes` of one key, quotas that hold one or two of the files, two Clears, two disturbances (crash, new quota, failure, Clear). Prefetch: Three items of two URLs, one to two slots, two attempts, two disturbances (a failure, an expansion whose upstream falls silent, a cancellation, a new limit); purges at any moment, again and again. |
| `index` | Is what is shared as confirmed current, does a copy save the request, what can an overlap of writers leave behind? | A client, a HEAD and another client or a prefetch; two versions; one failure (of the upstream, of opening, writing or committing a file), silent body, deletion or empty answer; with and without ETags. Two writers are the least that overlap and mix, and a third request meets what they leave. |
| `services` | Is only a verified executable ever in place, and do phase, lock and cancel function agree? Are leases and slots the same? Is one renewal of a token enough? Is what was answered stored and in force? Is the catalogue whole? Do the resolvers choose the right versions and miss nothing? Does what begins end? | Two administrators, downloads, requests or refreshes; two updates in a row (a late Cancel of the first meets the second), one crash or loss; two workers per download on one slot, one pause, one cancel; two realms, two configurations, one refusal without a realm; two configuration requests and one failure or restart; two upstreams. 9000 worlds for the resolvers: every pair of fifteen spellings of versions, alone and with each of three others, against eight sets of constraints, every platform's wheel in both modes, three packages in a circle under every pair of eight markers; repositories whose parents, BOMs and libraries name each other, any POM failing at any moment; npm packages with three of ten versions, pre-releases among them, against 27 ranges and tags, and packages in a circle whose dependencies are queued in any order, any body failing or falling silent; for PyPI, a requirement that cannot be parsed among the dependencies. |
| `update_cancel` | Is a cancelled update never installed? It may be, see section 6. | one administrator, two updates |

The type invariant and the accounting of a module are conjuncts of one property where they
need each other. The number of actors is small throughout, but every pair of actions that touch the
same state can be interleaved in each run, and every action of every module fires.

### Fairness

Weak fairness of a goroutine's own steps stands for the Go scheduler: a goroutine that can
go on does. Steps of the environment (clients that leave, administrators, crashes,
new versions, expiry) have none. Timers that are armed fire (`Scheduler`: `PauseIsLifted`),
and the loops of the prefetch service tick.

How long an upstream may keep somebody waiting depends on who waits:

- Downloads are watched: streams, ranges and bodies of one connection are closed when they have been
  silent for ten seconds, the transport limits the wait for a header, an update and a refresh of
  the catalogue have time limits of their own. There an answer or an error always comes, and
  the steps of `ChunkDownload`, `StreamDownload`, `Updater` and `Catalog` are fair.
- Indexes and metadata are not (`ProxyBytes`, `downloader/proxy_fetch.go:70-91`): the client has
  no time limit, nothing watches the body, and the context is the root's or none at all.
  A body that halts for ever is therefore a step of the models, into a place called "silent"
  that nothing leads out of, and what is claimed of eventual ends
  excepts whom it keeps: the request and the followers of its revalidation (`EveryIndexRequestEnds`),
  the item that is being expanded and, if the service's loop expands it, all that needs the loop
  (`EveryItemEnds`), the expansion of a package (`ServicesEnd`, npm). What is left of these claims is that
  nobody else is kept: a revalidation that ended otherwise wakes everybody, a drain goes on to the next item.

In `services` the steps of one update
or restart, of one Cancel, of one download and each of its workers, of one registry or
configuration request and of one refresh are weakly fair; pauses, cancellations, new releases,
changes of the upstream and crashes are not. The ticker of the catalogue is: it is a loop of the
program. `PausedGivesBack` and `PrefetchEnds` are about behaviours in which the pause at last
stays on or off, since a flag that changes for ever starves everybody.

The resolvers need no fairness for their safety. The expansion of an npm item is weakly fair, and
`ServicesEnd` says that it ends unless a body falls silent. That the other two end, with the same exception, is seen from their actions: each
adds a package to the finite set of those seen, or shortens the queue, and a dependency of something
seen is dropped. TLC would take hours over the ENABLED of their nested loops.

### What deserves a second look in the properties

- `PausedWhileInteractive`: the timer's callback has read the configuration before it gets
  the lock; only its second look at the counters saves the pause.
- `PauseIsLifted` holds whichever call released the last interactive task, under the
  two premises that `resume_on_idle` stays on at the end and that no two configuration requests
  overlap. Without the second it is false, as `scheduler_overlap` shows.
- `ServedUnlessReloaded` and the part of the limiter's `Accounting` about the channel are restricted to the time before a new
  configuration, because a swapped channel loses or invents tokens.
- `ResumedIsWhole` names all the causes of a hole: the attempt was cancelled, the mark
  of the range had outlived the temporary file (after a restart, a redirect, a Put that failed after the
  move, or a ClearChunks whose failure is ignored), or the one connection was at its end and nobody
  knew the length. Without a digest nobody notices. `CachedMatchesDigest` has no such premise.
- `CachedIsWhole` of `CacheStore` leaves out keys with overlapping `PutBytes`, whose
  temporary file they share.
- `KeptIsOneAnswer` (with its parts `EmptyIsBeingWritten`, `TornHasACause` and `TagIsOfBody`) and
  `ConfirmedIsCurrent` say what `PutBytes` of one index at the same time can do. As long as all put the same body,
  an index may be empty while somebody is about to write it, and nothing else happens. When two
  different bodies are put at once, what is kept for good may be one of them under the tag of the other,
  or the shorter one followed by the tail of the longer (`Torn`), since both write into one file from its
  beginning; a write that fails leaves a part, and a commit whose metadata cannot be written leaves the old tag. These
  are outside of the properties, and section 6 lists them. A later conditional request may then confirm the
  wrong body as current until the upstream changes again. An empty answer of the upstream is kept as any other.
- `CopySaves` is about requests that have had a readable copy all the time since they arrived.
- `CachedIsGenuine` covers a digest that becomes known during the transfer (`hex`,
  compared with the file then) and one known before (compared with the running hash). It says where a
  digest must be. A digest of the form `algorithm-base64`, or one that has become known since the start, is checked by
  reading the file again; if it cannot be read, all but Docker's files are cached "without digest", unchecked.
- `PrefetchAccounting`: slots are those of the runs that have one, an item is deferred
  once, and of one URL one run is at work. Purges take their steps in between.
- `InstalledIsGenuine` is about what a crash at any moment leaves: the file at the path is
  always a verified one, not older than what ran. `SettledWhenIdle` is what a late Cancel could break: it
  reports into a phase that is already another update's, or nobody's.
- `RefusedOnlyIfDisturbed` allows a second refusal only for what happened while the request
  was on its way; what others left behind before never costs it its answer.
- `AppliedIsStored` has two premises in its second half, no overlapping requests and no failed
  write since the start: with either of them the components can disagree with the file.
- `CatalogIsWhole` leaves out two refreshes that write at once (a deferred function clears the flag
  that another refresh has set): then the file can be a mixture.
- `SelectedIsHighest` compares the code's order with PEP 440's sort keys, written down
  independently; `ClosureIsPrefetched` compares markers with PEP 508's meaning in each target
  environment; `NearestVersionIsPrefetched` compares the merged table with what the
  nearest POM that manages a dependency says, of dependencies whose artifact, type and classifier
  are unique in their POM. Each excludes what section 6 lists.

## 4. Proofs

TLAPS proves, for every value of the constants:

- `SchedulerProofs`: `TypeOK`, `P0Accounting`, `CountedIsRunning`,
  `PausedWhileInteractive`, `FinishedIsFinal`. Together (`SchedulerInv`) the first four are inductive: the pause is
  lifted only when the counters say so, which is right because of `P0Accounting`, and
  no counted task is lost to a later mark because of `CountedIsRunning`. `SettleAccounts` is the heart:
  releasing the counted tasks of a set subtracts exactly as many as there are, globally and per
  platform, which rests on the lemmas about cardinalities (`MinusIsDifference`, `CountedFinite`).
  `FinishedIsFinal`, an action property, needs `EndedByOwner`: a task is done or failed only once its
  owner has ended it, so that an End finds a status it may replace, or a cancellation, which it keeps.
- `DownloadProofs`, the interactive download: `StreamTypeOK`, `ResumesWhereItStopped`, `ClientGetsOneFile`,
  `CachedIsGenuine`, `CachedIsWhatWasSent`. The invariant (`StreamInv`) is the types with `InStep`, `InPlace` and
  `ReadyToPut`: client and file are in step until the file is handed over, and the running hash is
  theirs or spoilt for good (a block that was hashed but not delivered is hashed again);
  the body that is being read continues at the offset and is of the version of the first ETag; what
  comes to Put has passed the checks, or comes without a digest. `CachedIsGenuine` needs `InStep`, because the running
  hash is compared while the file is cached.
- `DownloadProofs`, the background download: `CachedMatchesDigest`, `ResumedIsWhole`. What has passed Verify stays as it is until
  Put moves it, because no goroutine is left (`Working`, `Matching`). Without a digest nothing is compared, and what
  is cached is whole because of `Resuming`: from the opening of the file to Put every range is in it, still to be launched,
  being fetched, or the attempt has an error (`Served`). A range that is not fetched again is in the file, because marks
  speak of the temporary file that is there unless they have outlived it (`MarksTell`): `stale` holds the marks whose file
  has been moved, lost or replaced without them, by a restart, a redirect, a Put that fails after the move, or a
  failing ClearChunks. A cancellation breaks `Served` without an error, a stale mark leaves out a range that is not there
  (section 6), and a body of unstated length may end anywhere: these are the three exceptions of `ResumedIsWhole`.
- `ServicesProofs`: what `MCServices` checks of its five services, for the specification that the
  run checks. A service's invariant is kept by its own steps, and by those of the others because
  they leave its variables alone; only the count of failures is shared (`FaultsCounted`, `FaultsBounded`).
  - `InstalledIsGenuine`, `SettledWhenIdle`: `GenuineInv` adds to `InstalledIsGenuine` that the
    chosen release is newer than what runs from its choice to the rename, and that from the
    comparison on path.new is that release: a crash in between starts what was there before.
    `SettledInv` adds that what the deferred functions report has settled before the lock is free,
    which a late Cancel can only have done already. The types need `GenuineInv`, because a
    process can only be started from a path that is not `Bad`.
  - `SlotsAreLeases`: the count of slots is the sum of three cardinalities (held
    leases, downloads and workers that have just taken a slot); `Balanced` says that the sum
    follows if each set changes by the element the counter changes by. That it does needs `InOrder`: the
    worker that acquires is the only one of its download, and the lease is not held meanwhile, so
    that no second slot disappears into a lease that has one.
  - `RefusedOnlyIfDisturbed`: the second try of a request that nothing has disturbed works with a
    source of its own, of the realm of today (`Renewed`): every step of another request that could
    change it, and a token service that fails for the second try, leaves a mark in `disturbed`.
  - `AppliedIsStored`: `InForce` says what the request on its way still owes. Every component works
    with the setting in memory unless the request carries that section and has not come to it yet,
    and a pause without a timer is one that the request will lift. `applyDefaults` makes a
    configuration of whatever was stored or sent (`DefaultsFill`), and a configuration is its own
    row (`RowOf`), so that a restart finds what was answered.
  - `CatalogIsWhole`: `OneWriter` says how much of the list the one refresh that writes has
    put into the temporary file, so that what is renamed is whole; `ReadWhole` that a search which has
    read the file, and will set it, has all of a list.

- `SlotsProofs`: `Accounting` and `TaskReserveKept` of `PlatformLimiter`, `PrefetchAccounting` of `PrefetchService`. Every
  step changes the place of one user, one worker or one run, so each set that is counted differs from itself in that one at most
  (`DiffersInOne`). `TurnLeft` and `FirstChannel` complete the limiter's invariant: a worker that asks
  has a turn left, and knows no other channel before the first `ApplyConfig`. The prefetch service's needs
  `Attempts`: a run is at work for the attempt of its item and those to come are off, so that a start never meets the
  goroutine of an earlier one; and `Owners`: unless somebody cancels, the function registered for a URL is that
  of its run until the run removes it, so a second run of the URL finds it and ends.
- `InflightProofs`: `InteractiveKeepsContext`, and `ImplementsSingleFlight` step by step.
  `FlightInv` says who is in the map of transfers (`LeaderIsInMap`), that a record is written by
  its owner and closed last (`RecordsInOrder`), and that every failure has a reason. The hard part is the last way to
  be refused: an interactive request that has used up its turns has followed as many different background leaders
  (`TurnsLost`), since each was over when it began to follow the next.
- `CacheStoreProofs`: `LeasesMatch`, `WithinQuota`, `ClearedIsEmpty`, `CachedIsWhole`,
  `FreshSurvives`. What the entries take is the cardinality of a set (`Units`), and LastAccess a relation, which makes
  `WithinQuota` first-order: if the order is strict (`OrderStrict`), a finite set of entries has an oldest
  one, by the library's theorem on minimal elements, and evictLocked, which keeps what fits, ends with one entry at
  least. `ClearedIsEmpty` needs `OneClear`: between Clear's wait and its end no writer holds a lease.
  `CachedIsWhole` needs `FilesWhole`: of a key that is written by one writer at a time, every file is
  complete but the one being written.
- `IndexRevalidationProofs`: `KeptIsOneAnswer`, `ConfirmedIsCurrent`, `CopySaves`. The four hazards of
  sharing one temporary name are four parts of `IndexInv`: a file has one name, the copy's, the temporary one or that
  next to the copy (`OneName`); a file that may be read is empty only while it is about to be written,
  unless the upstream sent nothing or a write failed (`NothingEmpty`); as long as one body is put at a time and every write
  succeeds, all files that are being put contain it, none is a mixture, and tags go with bodies (`OneBody`); what a revalidation finds is not older than its beginning (`Results`), and whoever
  waits follows one that has begun (`Leaders`). `ConfirmedIsCurrent` needs `OneBody`, because a
  304 confirms the tag of the request and not its body, and excepts requests that have read a copy while
  it was being written (`met.torn`). `CopySaves` needs `HasRead`: who counts has read the copy, or will find it.

- `ResolverProofs`: `ClosureIsPrefetched` and `SelectedIsHighest`, of PyPI and npm, and `NearestVersionIsPrefetched`,
  of Maven, for every index, registry and repository that the parameters admit, circles and failures included.
  - `ClosureIsPrefetched`: `PypiInv` and `NpmInv` say that whatever the metadata of something taken needs has been
    taken, was refused (`Implausible`), or waits. PyPI's queue goes by depth, as breadth first search does
    (`NearestFirst`), so that a project that is met twice is taken at its least depth. Every requirement in
    it but the first could be parsed (`QueueIsReadable`): the code drops others without a word, and `ClosureIsPrefetched`
    speaks of those that can (section 6). That markers mean what PEP 508 says (`AtomMeans`, `MarkerMeans`) makes
    the dependencies the code keeps those that are needed.
  - `SelectedIsHighest`: the code compares components, kinds of labels and numbers one after the other,
    releases as if they ended in zeros; PEP 440's keys drop the zeros and compare lexicographically, with a prefix first. `AtOrder` shows
    that the former is an order on spellings, `TrimmedOrder` and `KeysOrder` that it is the latter, `PepOrder` puts
    them together, and `EqualIsSame` shows that `==` is neither before nor after. What a spelling is read into is a version
    (`ParseIsVersion`), and the loop over the versions that match ends with one that none is above (`BestOfAll`). For npm, a finite set
    with a strict order has a highest element (`HighestExists`) and `CHOOSE` finds it.
  - `NearestVersionIsPrefetched`: the code reads the POMs of a chain from far to near into one table, whose later
    entries replace the earlier ones, and spends one budget of imports on all of them. `Nearest` asks each POM by itself,
    with a table of its own. As long as some budget is left, the two read the same entries in lock-step (`EntryInStep`),
    so that a POM leaves behind its own entries over the table of those farther away (`LayerIsOver`); one layer after
    the other, the table then tells what the nearest says that manages a dependency (`Tells`, `ManagedTells`).
    `MavenInv` keeps what the last POM was resolved to, the POMs that could be had then, and that what it asks for
    waits or was seen. The theorem found a premise: two dependencies of one POM that have the same artifact, type and classifier are two
    coordinates, of which only one leaves out its version, so that the property speaks of those that are unique.
  - `EverythingIsEntered`: BOMs may import each other in circles. What is left to read, were every import still to
    come that of the longest POM, gets less with each entry (`EntryLeavesLess`), so that applyDependencyManagement
    returns, with nothing left unread, within `Entered` steps. The recursion of the code is this list of entries in the model.
  - The loops of the code are folds of the community modules, and Maven's, whose tables are built of tables, recursive
    functions (`EntriesUnfold`, `ManagedUnfolds`). What a fold does is proved without induction on a formula:
    a fold is unfolded into its results after each round (`LoopExists`, `LoopResult`),
    and what holds of them is a set of numbers without a least one missing (`Induct`, from the
    library's theorem on well-founded relations).

Assumptions are the named ASSUMEs of the modules (finite sets, positive limits), which TLC
evaluates in the runs. `WorldConstants` of `MCServices` says what indexes and registries are made of: lists are sequences,
a version that can be read has natural numbers in it, of any size, a project that is required has a
page (an empty one, if nobody knows it), a package has finitely many versions and clauses have known operators, a repository
has finitely many POMs, their lists are sequences and every property has a name; in `ServicesProofs`, where the services share their constants, what each needs is a
hypothesis of its theorem (`UpdaterConstants`, `LeaseConstants`, `LeaseBoundConstants`,
`TokenConstants`, `ConfigConstants`, `CatalogConstants`): the bounds are numbers, actors that are
counted are finitely many, `Unset` is no setting, the first upstream is one. `SlotsProofs` is about two
specifications: it extends `PlatformLimiter`, and `MCPrefetchService` for the instance of `PrefetchService` there.
Before they were proved, the inductive invariants were checked with TLC on the instances of the runs.

Only model-checked: the liveness properties, since liveness and ENABLED are beyond the prover. Every
safety invariant and action property of the runs is a theorem.

## 5. Plan

Modelled are the parts with state that several goroutines share, the parts that must survive
failures, and the three resolvers that compute a closure. What is left, in this order:

1. Composition: `PrefetchLease` with `PlatformLimiter`, so that a new configuration meets slots
   that are given back and taken again; `ConfigApply` with `Scheduler`'s timer.
2. Pure functions as operators: `parseSingleRange`, the classification of errors
   (`downloader/errors.go`), the order in which platforms match a path, the lock files of npm and Python.

## 6. Where code and comments disagree

Five runs are expected to end in a violation of what a comment of the code says:

- `scheduler_cancel`: a cancel between `Begin` and `BindCancel` marks the task cancelled and
  aborts nothing (`proxy/proxy.go:125`).
- `chunk_cancel`: a cancelled job leaves its loop without an error and the file with holes is
  cached if no digest is known (`downloader/download.go:351`).
- `inflight_takeover`: a prefetch that waits for another one, which an interactive request cancels, returns the
  other's error (`downloader/downloader.go:257`), although the comment at 266 says that it tries again itself.
- `scheduler_overlap`: of two overlapping configuration requests that switch `resume_on_idle` on and off, neither arms the timer
  (`api/api.go:255`); the flag stays on and the prefetch stays paused until another interactive download ends.
- `update_cancel`: Cancel takes the cancel function under its lock and calls it after the unlock;
  `commitReplace` in between goes on, and an administrator who was told that the update is
  cancelled finds it installed (`update/update.go:151`).

Seen with TLC while a premise of a property was dropped, without a run of its own:

- A worker that has loaded the limiter's old channel sends or drains there after `ApplyConfig`
  has swapped it; with a pool of one the lost token blocks everybody
  (`ratelimit/ratelimit.go:223`; premise of `ServedUnlessReloaded`).
- A prefetch that starts between its slot and its registration escapes a purge
  (`prefetch/prefetch.go:301`).
- Two `PutBytes` of one index with different bodies may leave a mixture of them, or one body under the tag of the other,
  for good (`cache/cache.go:829`).

Modelled as the code has it, and excepted from what is claimed:

- cache.Put may fail after the temporary file has been moved away; the marks of its ranges stay
  (`downloader/download.go:414-416`; `cache/cache.go:878` warns of this), a later attempt finds a new file and leaves the marked ranges out,
  and without a digest the holes are cached. `ResumedIsWhole` calls such marks `stale`.
- A dependency that is written `name (>=1)`, as `handlers/pypi/markers.go:42` has it, cannot be parsed and
  is dropped (`platform/pypi/prefetch.go:113-115`); what it needs is not prefetched. `ClosureIsPrefetched` calls the others `readable`.
- An empty answer is cached as an index, and once it has expired it is never revalidated: the index is refused until
  the copy is evicted (`proxy/proxy_index.go:144` and 186).
- A body of an index or of metadata that halts for ever keeps its request, all the followers of its
  revalidation, or the prefetch service's loop for ever (`downloader/proxy_fetch.go:70-91`).
- A stream whose file cannot be read for its check is cached without a digest (`downloader/stream.go:337-345`).
- A body without a length that ends early is cached as if it were whole (`downloader/serial.go:262-266`).

What the resolvers do otherwise than the standards they follow, as their modules model it:

- PyPI: the dev release of a post release comes before the pre-releases; `~=` looks neither at
  the epoch nor at missing zeros; what follows a `+` is not compared; `==1.4.*` means `==1.4`; pre-releases are chosen like any other;
  of a version that is spelled in two ways, or with a local part, only one spelling's files are
  taken; a wheel with a build number is read as that number's version.
- The platform filter looks for words anywhere in the name: a package called "...win..." gets no
  Linux wheels; abi3 wheels of an older Python are dropped in portable mode.
- Markers: one with an `or` is judged by its first comparison alone, although
  `handlers/pypi/markers.go:51` wants to keep what it does not support; any mention of an extra is false.
- Maven: a later entry of one table replaces an earlier one, where Maven keeps the first; a BOM's
  own parents are not read; imports of far POMs spend the budget of the nearer ones.
- npm: `^0.2.0` accepts any `0.y` from there on; `~1` means `~1.0`; the highest match is taken,
  though npm prefers the `latest` version if it is in the range; a hyphen range, `1.2.x` and a comparison
  with a space in it (`>= 1.2`) match nothing; a dependency with an empty range is dropped, though npm reads
  it as any version; a package is looked up once, for the range of whoever comes first,
  where npm installs several versions; pre-releases are compared byte by byte.

## 7. Not modelled

Bandwidth shaping, statistics, logs and HTTP headers: numbers for display, or timing, on which no
property rests. HTML and JSON rewriting, lock files, compose and Gradle files, the reading of XML:
string processing without state, each a function of one text. Listing,
search and probing in the management API only read. Sessions and settings are single statements of
a database. `deleteLocked` ignores a file that cannot be removed (`cache/cache.go:1156-1161`), and so do the removals of temporary
files: the entry is gone then and the file stays behind, uncounted; the models
remove it. Go modules and Hugging Face expand an item into the files of one version, Docker
into one list of manifests and its images, without a closure. On Windows the replacement of the executable takes other steps, for which no
release is built. A loss of power between a rename and the disk's own writing is not modelled:
the updater syncs the new file, but not its directory, and the cache syncs none of its files;
what then remains is the file system's choice. The
`components` of `PROJECT.json` give the reason for each.
