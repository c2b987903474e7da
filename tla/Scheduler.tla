------------------------------ MODULE Scheduler ------------------------------
(***************************************************************************)
(* The task scheduler of mirrorhub (internal/scheduler/scheduler.go): the  *)
(* registry of download tasks, the count of running interactive downloads  *)
(* (P0), the global pause of prefetching while one runs, the idle timer    *)
(* that lifts the pause, and the administrator's cancel, purge and clear.  *)
(*                                                                         *)
(* A task is driven by one goroutine, its owner: an HTTP request of        *)
(* proxy.handle or a prefetch goroutine.  One action is one critical       *)
(* section of s.mu, resumeMu or cancelMu, so that the gaps between the     *)
(* critical sections of one call are where other goroutines step in.       *)
(*                                                                         *)
(* Left out: labels, progress counters, metrics and log lines; the display *)
(* order of the list (s.order holds the same ids as s.tasks); clock values *)
(* (an expired entry is any finished entry, see PruneChoices).             *)
(***************************************************************************)
EXTENDS Naturals, FiniteSets

CONSTANTS
  Tasks,          \* task ids; an id is handed out once (nextID)
  Urls,           \* the URLs tasks are about
  UrlOf,          \* a task id is its URL followed by a sequence number
  Platforms,      \* the platforms of the limiter registry (all created at start)
  PlatformOf,     \* the platform a URL resolves to
  Admins,         \* concurrent requests of the management API
  Modes,          \* values scheduler.prefetch.on_interactive may take
  ErrorTaskMaxN,  \* errorTaskMaxN, 200 in the code
  MaxOps,         \* bound on the number of management requests
  MaxFiring       \* bound on the fired, not yet finished, resume callbacks

ASSUME SchedulerConstants ==
  /\ IsFiniteSet(Tasks)
  /\ UrlOf \in [Tasks -> Urls]
  /\ PlatformOf \in [Urls -> Platforms]
  /\ Modes \subseteq {"pause", "continue"}
  /\ ErrorTaskMaxN \in Nat
  /\ MaxOps \in Nat
  /\ MaxFiring \in Nat

VARIABLES
  task,          \* s.tasks: the record of every id, NoTask when not in the map
  p0Active,      \* s.p0Active
  p0ByPlatform,  \* s.p0ByPlatform
  paused,        \* PrefetchPaused of each platform's limiter
  cfg,           \* the scheduler section of the configuration, read by cfgFn
  timer,         \* s.resumeTimer: "off" or "armed"
  firing,        \* callbacks of fired timers that have read cfg and await s.mu
  bound,         \* ids in s.cancels
  aborted,       \* ids whose context has been cancelled
  owner,         \* where each task's own goroutine is
  admin,         \* what each management request still has to do
  ops            \* management requests so far (bound only)

vars == <<task, p0Active, p0ByPlatform, paused, cfg, timer, firing, bound,
          aborted, owner, admin, ops>>
p0vars == <<p0Active, p0ByPlatform>>

Active == {"queued", "preparing", "waiting", "running"}
Markable == {"queued", "preparing", "waiting"}
Finished == {"done", "cancelled", "error"}

\* wantP0, countsActive as in TaskInfo; held is history: the pause mode was
\* "pause" when the task was counted.
TaskRec == [status : Active \cup Finished \cup {"absent"},
            prio   : {"P0", "P1", "P2"},
            want   : BOOLEAN,
            counts : BOOLEAN,
            held   : BOOLEAN]

NoTask == [status |-> "absent", prio |-> "P2", want |-> FALSE,
           counts |-> FALSE, held |-> FALSE]

Plat(t) == PlatformOf[UrlOf[t]]
CountedIn(ts) == {t \in Tasks : ts[t].counts}
CountedOn(ts, p) == {t \in CountedIn(ts) : Plat(t) = p}
FinishedIn(ts) == {t \in Tasks : ts[t].status \in Finished}
ErrorsIn(ts) == {t \in Tasks : ts[t].status = "error"}

IdleAdmin == [pc |-> "idle", ids |-> {}, arm |-> FALSE]

Init ==
  /\ task = [t \in Tasks |-> NoTask]
  /\ p0Active = 0
  /\ p0ByPlatform = [p \in Platforms |-> 0]
  /\ paused = [p \in Platforms |-> FALSE]
  /\ cfg \in [mode : Modes, resumeOnIdle : BOOLEAN]
  /\ timer = "off"
  /\ firing = 0
  /\ bound = {}
  /\ aborted = {}
  /\ owner = [t \in Tasks |-> "none"]
  /\ admin = [a \in Admins |-> IdleAdmin]
  /\ ops = 0

-----------------------------------------------------------------------------
(* Counting interactive downloads *)

Minus(n, k) == IF n > k THEN n - k ELSE 0

(* Mutant: every freed or removed task is subtracted, counted or not *)
SettleIgnoringFlag(ts, freed, gone) ==
  /\ task' = [t \in Tasks |->
                IF t \in gone THEN NoTask
                ELSE IF t \in freed THEN [ts[t] EXCEPT !.counts = FALSE]
                ELSE ts[t]]
  /\ p0Active' = p0Active - Cardinality(freed \cup gone)
  /\ p0ByPlatform' = [p \in Platforms |->
        p0ByPlatform[p] - Cardinality({t \in freed \cup gone : Plat(t) = p})]

(* releaseActiveLocked for every task of `freed`, then removal of `gone`   *)
(* from the map (a removed task is released first).  Both counters are     *)
(* floored at zero; a platform at zero is deleted from the map.            *)
Settle(ts, freed, gone) ==
  LET released(p) == {t \in CountedOn(ts, p) : t \in freed \cup gone}
  IN /\ task' = [t \in Tasks |->
                   IF t \in gone THEN NoTask
                   ELSE IF t \in freed THEN [ts[t] EXCEPT !.counts = FALSE]
                   ELSE ts[t]]
     /\ p0Active' = Minus(p0Active,
                          Cardinality(CountedIn(ts) \cap (freed \cup gone)))
     /\ p0ByPlatform' = [p \in Platforms |->
                           Minus(p0ByPlatform[p], Cardinality(released(p)))]

(* pruneFinishedLocked: finished entries past their TTL go, and the oldest *)
(* errors beyond errorTaskMaxN.  Ages are abstracted: any finished entry   *)
(* may have expired, but at most ErrorTaskMaxN errors stay.                *)
PruneChoices(ts) ==
  {gone \in SUBSET FinishedIn(ts) :
     Cardinality(ErrorsIn(ts) \ gone) <= ErrorTaskMaxN}

-----------------------------------------------------------------------------
(* The pause and the idle timer *)

ArmResume == timer' = IF cfg.resumeOnIdle THEN "armed" ELSE timer

(* pausePrefetchLocked: every limiter is paused, active P2 become P1 *)
PausePrefetch(ts) ==
  IF cfg.mode = "pause"
  THEN /\ paused' = [p \in Platforms |-> TRUE]
       /\ task' = [t \in Tasks |->
                     IF ts[t].status \in Active /\ ts[t].prio = "P2"
                     THEN [ts[t] EXCEPT !.prio = "P1"] ELSE ts[t]]
  ELSE /\ task' = ts
       /\ UNCHANGED paused

(* The timer fires; its callback first reads the configuration *)
TimerFire ==
  /\ timer = "armed"
  /\ firing < MaxFiring
  /\ timer' = "off"
  /\ firing' = IF cfg.resumeOnIdle THEN firing + 1 ELSE firing
  /\ UNCHANGED <<task, p0vars, paused, cfg, bound, aborted, owner, admin, ops>>

(* Mutant: the callback does not look at p0Active again *)
ApplyResumeUnchecked ==
  /\ firing > 0
  /\ firing' = firing - 1
  /\ paused' = [p \in Platforms |-> FALSE]
  /\ UNCHANGED <<task, p0vars, cfg, timer, bound, aborted, owner, admin, ops>>

(* The callback under s.mu: lift the pause only if no P0 is counted *)
ApplyPrefetchResumeIdle ==
  /\ firing > 0
  /\ firing' = firing - 1
  /\ paused' = IF p0Active = 0 THEN [p \in Platforms |-> FALSE] ELSE paused
  /\ UNCHANGED <<task, p0vars, cfg, timer, bound, aborted, owner, admin, ops>>

-----------------------------------------------------------------------------
(* The owner of a task *)

(* Begin.  Callers register an interactive artifact download (holds P0), an *)
(* interactive index or metadata request (does not), or a prefetch.         *)
Begin(t) ==
  /\ owner[t] = "none"
  /\ task[t] = NoTask       \* a new id is not in the map
  /\ \E prio \in {"P0", "P2"}, holdInteractive \in BOOLEAN :
       task' = [task EXCEPT ![t] =
                  [status |-> "queued", prio |-> prio,
                   want |-> holdInteractive /\ prio = "P0",
                   counts |-> FALSE, held |-> FALSE]]
  /\ owner' = [owner EXCEPT ![t] = "begun"]
  /\ UNCHANGED <<p0vars, paused, cfg, timer, firing, bound, aborted, admin, ops>>

BindCancel(t) ==
  /\ owner[t] = "begun"
  /\ bound' = bound \cup {t}
  /\ owner' = [owner EXCEPT ![t] = "live"]
  /\ UNCHANGED <<task, p0vars, paused, cfg, timer, firing, aborted, admin, ops>>

SetStatus(t, from, to) ==
  /\ owner[t] = "live"
  /\ task[t].status \in from
  /\ task' = [task EXCEPT ![t].status = to]
  /\ UNCHANGED <<p0vars, paused, cfg, timer, firing, bound, aborted, owner,
                 admin, ops>>

MarkPreparing(t) == SetStatus(t, {"queued"}, "preparing")
MarkWaiting(t) == SetStatus(t, {"queued", "preparing"}, "waiting")
MarkHit(t) == SetStatus(t, Markable, "running")

MayP0(t) == task[t].want /\ ~task[t].counts /\ task[t].status \in Markable

(* MarkRunning, first lock of s.mu: would this call count a P0? *)
PeekMayP0(t) ==
  /\ owner[t] = "live"
  /\ MayP0(t)
  /\ owner' = [owner EXCEPT ![t] = "peeked"]
  /\ UNCHANGED <<task, p0vars, paused, cfg, timer, firing, bound, aborted,
                 admin, ops>>

(* MarkRunning, under resumeMu: cancelResumeTimer *)
CancelResumeTimer(t) ==
  /\ owner[t] = "peeked"
  /\ timer' = IF cfg.mode = "pause" THEN "off" ELSE timer
  /\ owner' = [owner EXCEPT ![t] = "marking"]
  /\ UNCHANGED <<task, p0vars, paused, cfg, firing, bound, aborted, admin, ops>>

(* MarkRunning, second lock of s.mu: the status is checked again; the task *)
(* becomes running and, if it wants to, counts as a P0 and pauses prefetch *)
MarkRunning(t) ==
  /\ owner[t] = "marking" \/ (owner[t] = "live" /\ ~MayP0(t))
  /\ task[t].status \in Markable
  /\ owner' = [owner EXCEPT ![t] = "live"]
  /\ LET counted == task[t].want /\ ~task[t].counts
         ts == [task EXCEPT ![t].status = "running",
                            ![t].counts = @ \/ counted,
                            ![t].held = IF counted THEN cfg.mode = "pause" ELSE @]
     IN IF counted
        THEN /\ p0Active' = p0Active + 1
             /\ p0ByPlatform' = [p0ByPlatform EXCEPT ![Plat(t)] = @ + 1]
             /\ PausePrefetch(ts)
        ELSE /\ task' = ts
             /\ UNCHANGED <<p0vars, paused>>
  /\ UNCHANGED <<cfg, timer, firing, bound, aborted, admin, ops>>

(* MarkRunning, second lock, for a task cancelled or removed meanwhile *)
MarkRunningTooLate(t) ==
  /\ owner[t] = "marking"
  /\ task[t].status \notin Markable
  /\ owner' = [owner EXCEPT ![t] = "live"]
  /\ UNCHANGED <<task, p0vars, paused, cfg, timer, firing, bound, aborted,
                 admin, ops>>

(* Mutant: the outcome of a late End replaces the cancellation *)
EndOverwriting(t) ==
  /\ owner[t] = "live"
  /\ owner' = [owner EXCEPT ![t] = "ended"]
  /\ \E outcome \in Finished :
       LET known == task[t].status # "absent"
           ts == IF known THEN [task EXCEPT ![t].status = outcome] ELSE task
       IN \E gone \in PruneChoices(ts) :
            Settle(ts, IF known THEN {t} ELSE {}, gone)
  /\ UNCHANGED <<paused, cfg, timer, firing, bound, aborted, admin, ops>>

(* End under s.mu.  A cancelled task keeps its status; a purged one is not *)
(* found; either way finished entries are pruned.                          *)
End(t) ==
  /\ owner[t] = "live"
  /\ owner' = [owner EXCEPT ![t] = "ended"]
  /\ \E outcome \in Finished :
       LET known == task[t].status # "absent"
           ts == IF known /\ task[t].status # "cancelled"
                 THEN [task EXCEPT ![t].status = outcome] ELSE task
       IN \E gone \in PruneChoices(ts) :
            Settle(ts, IF known THEN {t} ELSE {}, gone)
  /\ UNCHANGED <<paused, cfg, timer, firing, bound, aborted, admin, ops>>

(* Mutant: the End of a cancelled task returns before it arms the timer *)
EndResumeUnlessCancelled(t) ==
  /\ owner[t] = "ended"
  /\ IF task[t].status = "cancelled" THEN UNCHANGED timer ELSE ArmResume
  /\ owner' = [owner EXCEPT ![t] = "unbinding"]
  /\ UNCHANGED <<task, p0vars, paused, cfg, firing, bound, aborted, admin, ops>>

(* End, after s.mu: resumePrefetchIfIdle *)
EndResume(t) ==
  /\ owner[t] = "ended"
  /\ ArmResume
  /\ owner' = [owner EXCEPT ![t] = "unbinding"]
  /\ UNCHANGED <<task, p0vars, paused, cfg, firing, bound, aborted, admin, ops>>

UnbindCancel(t) ==
  /\ owner[t] = "unbinding"
  /\ bound' = bound \ {t}
  /\ owner' = [owner EXCEPT ![t] = "gone"]
  /\ UNCHANGED <<task, p0vars, paused, cfg, timer, firing, aborted, admin, ops>>

-----------------------------------------------------------------------------
(* The management API *)

(* The locked part of a cancel, clear or purge: the tasks of `ids` become  *)
(* cancelled and are released, those of `gone` leave the map, and the      *)
(* request goes on to abort the contexts of `ids` and, if `arm`, to arm    *)
(* the idle timer.                                                         *)
CancelLocked(a, ids, gone, arm) ==
  LET ts == [t \in Tasks |-> IF t \in ids
                             THEN [task[t] EXCEPT !.status = "cancelled"]
                             ELSE task[t]]
  IN /\ admin[a] = IdleAdmin
     /\ ops < MaxOps
     /\ ops' = ops + 1
     /\ Settle(ts, ids, gone)
     /\ admin' = [admin EXCEPT ![a] =
                    IF ids = {} /\ ~arm THEN IdleAdmin
                    ELSE [pc |-> "abort", ids |-> ids, arm |-> arm]]
     /\ UNCHANGED <<paused, cfg, timer, firing, bound, aborted, owner>>

IsPrefetchCancellable(t) == task[t].prio \in {"P1", "P2"}

(* The active tasks a filter matches; a filter names a set of platforms    *)
(* (one, or all of them) and whether only prefetch tasks are meant         *)
Matching(plats, prefetchOnly) ==
  {t \in Tasks : /\ task[t].status \in Active
                 /\ Plat(t) \in plats
                 /\ prefetchOnly => IsPrefetchCancellable(t)}

PlatformFilters == {Platforms} \cup {{p} : p \in Platforms}

(* cancelTask for a task id: CancelPrefetch, CancelTask *)
CancelTask(a, t, prefetchOnly) ==
  LET ids == {t} \cap Matching(Platforms, prefetchOnly)
  IN CancelLocked(a, ids, {}, ids # {})

(* cancelTask for a URL: every matching task of that URL *)
CancelUrl(a, u, prefetchOnly) ==
  LET ids == {t \in Matching(Platforms, prefetchOnly) : UrlOf[t] = u}
  IN CancelLocked(a, ids, {}, ids # {})

(* CancelMatching; the updater calls it with resume = FALSE *)
CancelMatching(a, plats, prefetchOnly, resume) ==
  LET ids == Matching(plats, prefetchOnly)
  IN CancelLocked(a, ids, {}, resume /\ ids # {})

(* clearCache: CancelAllActive(false), clear, then ResumePrefetchIfIdle *)
CancelForClearCache(a) ==
  CancelLocked(a, Matching(Platforms, FALSE), {}, TRUE)

(* purgeMatching: cancel and forget under one lock; finished tasks of the  *)
(* platform go too, and others may be pruned in passing                    *)
PurgeMatching(a, plats, prefetchOnly) ==
  LET ids == Matching(plats, prefetchOnly)
      cleared == ids \cup {t \in FinishedIn(task) : Plat(t) \in plats}
  IN \E pruned \in PruneChoices(task) :
       CancelLocked(a, ids, cleared \cup pruned, cleared # {})

(* clearFinishedMatchingLocked *)
ClearFinishedMatching(a, plats) ==
  LET cleared == {t \in FinishedIn(task) : Plat(t) \in plats}
  IN \E pruned \in PruneChoices(task) :
       CancelLocked(a, {}, cleared \cup pruned, FALSE)

(* List prunes expired entries under s.mu *)
List ==
  /\ \E gone \in PruneChoices(task) : Settle(task, {}, gone)
  /\ UNCHANGED <<paused, cfg, timer, firing, bound, aborted, owner, admin, ops>>

(* abortBound: the context is cancelled if it is bound at this moment *)
AbortBound(a, t) ==
  /\ admin[a].pc = "abort"
  /\ t \in admin[a].ids
  /\ aborted' = aborted \cup (bound \cap {t})
  /\ bound' = bound \ {t}
  /\ admin' = [admin EXCEPT ![a].ids = @ \ {t}]
  /\ UNCHANGED <<task, p0vars, paused, cfg, timer, firing, owner, ops>>

AdminResume(a) ==
  /\ admin[a].pc = "abort"
  /\ admin[a].ids = {}
  /\ IF admin[a].arm THEN ArmResume ELSE UNCHANGED timer
  /\ admin' = [admin EXCEPT ![a] = IdleAdmin]
  /\ UNCHANGED <<task, p0vars, paused, cfg, firing, bound, aborted, owner, ops>>

(* putConfig reads the previous ResumeOnIdle before it updates the         *)
(* configuration: "was" remembers it in between                            *)
PutConfigRead(a) ==
  /\ admin[a] = IdleAdmin
  /\ ops < MaxOps
  /\ ops' = ops + 1
  /\ admin' = [admin EXCEPT ![a] = [pc |-> "put", ids |-> {},
                                    arm |-> ~cfg.resumeOnIdle]]
  /\ UNCHANGED <<task, p0vars, paused, cfg, timer, firing, bound, aborted, owner>>

(* cfg.Update, then ResumePrefetchIfIdle is due if the flag was switched on *)
PutConfigUpdate(a, c) ==
  /\ admin[a].pc = "put"
  /\ cfg' = c
  /\ admin' = [admin EXCEPT ![a] =
                 IF admin[a].arm /\ c.resumeOnIdle
                 THEN [@ EXCEPT !.pc = "abort"] ELSE IdleAdmin]
  /\ UNCHANGED <<task, p0vars, paused, timer, firing, bound, aborted, owner, ops>>

-----------------------------------------------------------------------------
OwnerStep(t) ==
  \/ BindCancel(t)
  \/ CancelResumeTimer(t)
  \/ MarkRunningTooLate(t)
  \/ End(t)
  \/ EndResume(t)
  \/ UnbindCancel(t)

OwnerMark(t) ==
  \/ MarkPreparing(t)
  \/ MarkWaiting(t)
  \/ MarkHit(t)
  \/ PeekMayP0(t)
  \/ MarkRunning(t)

AdminRequest(a) ==
  \/ \E t \in Tasks, only \in BOOLEAN : CancelTask(a, t, only)
  \/ \E u \in Urls, only \in BOOLEAN : CancelUrl(a, u, only)
  \/ \E ps \in PlatformFilters, only, resume \in BOOLEAN :
       CancelMatching(a, ps, only, resume)
  \/ CancelForClearCache(a)
  \/ \E ps \in PlatformFilters, only \in BOOLEAN : PurgeMatching(a, ps, only)
  \/ \E ps \in PlatformFilters : ClearFinishedMatching(a, ps)
  \/ PutConfigRead(a)

AdminStep(a) ==
  \/ \E t \in Tasks : AbortBound(a, t)
  \/ AdminResume(a)
  \/ \E c \in [mode : Modes, resumeOnIdle : BOOLEAN] : PutConfigUpdate(a, c)

Terminated ==
  /\ \A t \in Tasks : owner[t] = "gone"
  /\ timer = "off" /\ firing = 0
  /\ UNCHANGED vars

Next ==
  \/ \E t \in Tasks : Begin(t) \/ OwnerStep(t) \/ OwnerMark(t)
  \/ \E a \in Admins : AdminRequest(a) \/ AdminStep(a)
  \/ TimerFire
  \/ ApplyPrefetchResumeIdle
  \/ List
  \/ Terminated

Spec == Init /\ [][Next]_vars

(* A request or a prefetch that began runs to its end (downloads have time *)
(* limits and contexts), timers fire, callbacks get s.mu, and a management *)
(* request that began finishes.  Nobody has to begin anything.             *)
Fairness ==
  /\ \A t \in Tasks : WF_vars(OwnerStep(t) \/ MarkRunning(t))
  /\ \A a \in Admins : WF_vars(AdminStep(a))
  /\ WF_vars(TimerFire)
  /\ WF_vars(ApplyPrefetchResumeIdle)

FairSpec == Spec /\ Fairness

-----------------------------------------------------------------------------
(* Properties *)

TypeOK ==
  /\ task \in [Tasks -> TaskRec]
  /\ p0Active \in Nat
  /\ p0ByPlatform \in [Platforms -> Nat]
  /\ paused \in [Platforms -> BOOLEAN]
  /\ cfg \in [mode : Modes, resumeOnIdle : BOOLEAN]
  /\ timer \in {"off", "armed"}
  /\ firing \in 0..MaxFiring
  /\ bound \subseteq Tasks
  /\ aborted \subseteq Tasks
  /\ owner \in [Tasks -> {"none", "begun", "live", "peeked", "marking",
                          "ended", "unbinding", "gone"}]
  /\ admin \in [Admins -> [pc : {"idle", "abort", "put"},
                           ids : SUBSET Tasks, arm : BOOLEAN]]
  /\ ops \in 0..MaxOps

(* The global and the per-platform P0 counters equal the number of tasks   *)
(* that carry countsActive, whatever mix of End, cancel, purge and prune   *)
(* released them: neither a double release nor a leak.                     *)
P0Accounting ==
  /\ p0Active = Cardinality(CountedIn(task))
  /\ \A p \in Platforms : p0ByPlatform[p] = Cardinality(CountedOn(task, p))

(* Only a running task that asked for it is counted: a cancelled, finished *)
(* or removed task can never keep prefetching paused.                      *)
CountedIsRunning ==
  \A t \in Tasks : task[t].counts => task[t].status = "running" /\ task[t].want

(* While an interactive download counted in pause mode runs, every         *)
(* platform's prefetch is paused, even if the idle timer fires at the same *)
(* moment.                                                                 *)
PausedWhileInteractive ==
  (\E t \in Tasks : task[t].counts /\ task[t].held)
     => \A p \in Platforms : paused[p]

(* A finished task is never revived or given another outcome: the late End *)
(* or MarkRunning of a task an administrator cancelled changes nothing,    *)
(* except that the entry may leave the list.                               *)
FinishedIsFinal ==
  [][\A t \in Tasks : task[t].status \in Finished =>
       task'[t].status \in {task[t].status, "absent"}]_vars

(* Switching resume_on_idle on arms the idle timer (a comment of           *)
(* putConfig): if the flag ends up on, every pause is eventually lifted    *)
(* once the interactive downloads are over.  The code compares with a flag *)
(* it has read before another request changed it.                          *)
SwitchedOnLifts ==
  <>[]cfg.resumeOnIdle =>
     ((\E p \in Platforms : paused[p]) ~> (\A p \in Platforms : ~paused[p]))

(* Prefetch is not forgotten: if the flag ends up on, and no putConfig     *)
(* read it while another was between reading and updating, every pause is  *)
(* lifted, whichever call released the last of the interactive downloads.  *)
PutsOverlap == Cardinality({a \in Admins : admin[a].pc = "put"}) > 1

PauseIsLifted == []~PutsOverlap => SwitchedOnLifts

(* A management request that cancels a task stops its owner: no live owner  *)
(* of a cancelled task is left with a context nobody has cancelled or is    *)
(* about to cancel.                                                         *)
CancelReachesOwner ==
  \A t \in Tasks :
    owner[t] = "live" /\ task[t].status = "cancelled"
      => t \in aborted \/ \E a \in Admins : t \in admin[a].ids

=============================================================================
