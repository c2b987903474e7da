--------------------------- MODULE SchedulerProofs ---------------------------
(***************************************************************************)
(* Proofs about Scheduler for every number of tasks, platforms and         *)
(* management requests.  The counters are sums of set cardinalities, so    *)
(* the lemmas first say what Settle and MarkRunning do to the set of       *)
(* counted tasks.                                                          *)
(***************************************************************************)
EXTENDS Scheduler, FiniteSetTheorems, TLAPS

(* The counters agree with the tasks of ts that carry countsActive *)
Agrees(ts, n, byPlat) ==
  /\ n = Cardinality(CountedIn(ts))
  /\ \A p \in Platforms : byPlat[p] = Cardinality(CountedOn(ts, p))

(* Counted tasks form a finite set, whatever the task records are. *)
LEMMA CountedFinite ==
  ASSUME NEW ts
  PROVE  /\ IsFiniteSet(CountedIn(ts))
         /\ Cardinality(CountedIn(ts)) \in Nat
         /\ \A p \in Platforms : /\ IsFiniteSet(CountedOn(ts, p))
                                 /\ Cardinality(CountedOn(ts, p)) \in Nat
<1>1. CountedIn(ts) \in SUBSET Tasks
  BY DEF CountedIn
<1>2. IsFiniteSet(CountedIn(ts)) /\ Cardinality(CountedIn(ts)) \in Nat
  BY <1>1, FS_Subset, FS_CardinalityType, SchedulerConstants
<1>3. ASSUME NEW p \in Platforms
      PROVE  IsFiniteSet(CountedOn(ts, p)) /\ Cardinality(CountedOn(ts, p)) \in Nat
  <2>1. CountedOn(ts, p) \in SUBSET CountedIn(ts)
    BY DEF CountedOn
  <2> QED BY <2>1, <1>2, FS_Subset, FS_CardinalityType
<1> QED BY <1>2, <1>3

(* Removing the part of a finite set that lies in X lowers its cardinality *)
(* by exactly the size of that part, so the floor at zero never bites.     *)
LEMMA MinusIsDifference ==
  ASSUME NEW S, IsFiniteSet(S), NEW X
  PROVE  Minus(Cardinality(S), Cardinality(S \cap X)) = Cardinality(S \ X)
<1>1. /\ Cardinality(S) \in Nat
      /\ Cardinality(S \cap X) \in Nat
      /\ Cardinality(S \cap X) <= Cardinality(S)
  BY FS_Intersection, FS_CardinalityType
<1>2. Cardinality(S \ X) = Cardinality(S) - Cardinality(S \cap X)
  BY FS_Difference
<1> QED BY <1>1, <1>2 DEF Minus

(* Settle releases each task at most once: counters that agreed with the   *)
(* records before agree with them after, and a task still counted was      *)
(* neither released nor removed.                                           *)
LEMMA SettleAccounts ==
  ASSUME NEW ts \in [Tasks -> TaskRec], NEW freed \in SUBSET Tasks,
         NEW gone \in SUBSET Tasks,
         Agrees(ts, p0Active, p0ByPlatform),
         Settle(ts, freed, gone)
  PROVE  /\ task' \in [Tasks -> TaskRec]
         /\ p0Active' \in Nat
         /\ p0ByPlatform' \in [Platforms -> Nat]
         /\ Agrees(task', p0Active', p0ByPlatform')
         /\ \A t \in Tasks : task'[t].counts =>
              t \notin freed /\ t \notin gone /\ task'[t] = ts[t]
<1> DEFINE X == freed \cup gone
<1>1. NoTask \in TaskRec
  BY DEF NoTask, TaskRec, Active, Finished
<1>2. task' = [t \in Tasks |->
                 IF t \in gone THEN NoTask
                 ELSE IF t \in freed THEN [ts[t] EXCEPT !.counts = FALSE]
                 ELSE ts[t]]
  BY DEF Settle
<1>3. ASSUME NEW t \in Tasks
      PROVE  /\ task'[t] \in TaskRec
             /\ t \in gone => task'[t] = NoTask
             /\ t \notin gone /\ t \in freed =>
                  task'[t] = [ts[t] EXCEPT !.counts = FALSE]
             /\ t \notin X => task'[t] = ts[t]
  <2>1. ts[t] \in TaskRec
    OBVIOUS
  <2>2. [ts[t] EXCEPT !.counts = FALSE] \in TaskRec
    BY <2>1 DEF TaskRec
  <2> QED BY <1>1, <1>2, <2>1, <2>2
<1>4. task' \in [Tasks -> TaskRec]
  BY <1>2, <1>3
<1>5. \A t \in Tasks : task'[t].counts <=> (ts[t].counts /\ t \notin X)
  <2> TAKE t \in Tasks
  <2>1. CASE t \in gone
    <3>1. task'[t] = NoTask
      BY <2>1, <1>3
    <3>2. ~NoTask.counts
      BY DEF NoTask
    <3> QED BY <3>1, <3>2, <2>1
  <2>2. CASE t \notin gone /\ t \in freed
    <3>1. task'[t] = [ts[t] EXCEPT !.counts = FALSE]
      BY <2>2, <1>3
    <3>2. ts[t] \in TaskRec
      OBVIOUS
    <3> QED BY <3>1, <3>2, <2>2 DEF TaskRec
  <2>3. CASE t \notin X
    BY <2>3, <1>3
  <2> QED BY <2>1, <2>2, <2>3
<1>6. CountedIn(task') = CountedIn(ts) \ X
  BY <1>5 DEF CountedIn
<1>7. p0Active' = Cardinality(CountedIn(task'))
  <2>1. p0Active' = Minus(Cardinality(CountedIn(ts)),
                          Cardinality(CountedIn(ts) \cap X))
    BY DEF Settle, Agrees
  <2> QED BY <2>1, <1>6, CountedFinite, MinusIsDifference
<1>8. ASSUME NEW p \in Platforms
      PROVE  p0ByPlatform'[p] = Cardinality(CountedOn(task', p))
  <2>1. CountedOn(task', p) = CountedOn(ts, p) \ X
    BY <1>6 DEF CountedOn
  <2>2. {t \in CountedOn(ts, p) : t \in freed \cup gone} = CountedOn(ts, p) \cap X
    OBVIOUS
  <2>3. p0ByPlatform'[p] = Minus(Cardinality(CountedOn(ts, p)),
                                 Cardinality(CountedOn(ts, p) \cap X))
    BY <2>2 DEF Settle, Agrees
  <2> QED BY <2>1, <2>3, CountedFinite, MinusIsDifference
<1>9. p0Active' \in Nat /\ p0ByPlatform' \in [Platforms -> Nat]
  <2>1. p0ByPlatform' = [p \in Platforms |-> p0ByPlatform'[p]]
    BY DEF Settle
  <2>2. \A p \in Platforms : p0ByPlatform'[p] \in Nat
    BY <1>8, CountedFinite
  <2> QED BY <1>7, <2>1, <2>2, CountedFinite
<1> QED BY <1>3, <1>4, <1>5, <1>7, <1>8, <1>9 DEF Agrees

-----------------------------------------------------------------------------
(* The inductive invariant: the counters agree with the records, only      *)
(* running tasks are counted, and a count taken in pause mode keeps every   *)
(* platform paused.  The last needs the first: the idle timer lifts the     *)
(* pause when p0Active is zero, which means something only because zero     *)
(* says that no task is counted.                                            *)
SchedulerInv ==
  TypeOK /\ P0Accounting /\ CountedIsRunning /\ PausedWhileInteractive

(* Every critical section that ends in Settle (End, cancel, purge, clear,   *)
(* List) keeps the invariant: the records it changes are among those it     *)
(* releases.                                                                *)
LEMMA ReleaseKeepsInv ==
  ASSUME SchedulerInv,
         NEW ts \in [Tasks -> TaskRec], NEW freed \in SUBSET Tasks,
         NEW gone \in SUBSET Tasks,
         \A t \in Tasks : ts[t].counts = task[t].counts,
         \A t \in Tasks : t \notin freed /\ t \notin gone => ts[t] = task[t],
         Settle(ts, freed, gone), UNCHANGED paused
  PROVE  /\ task' \in [Tasks -> TaskRec]
         /\ p0Active' \in Nat
         /\ p0ByPlatform' \in [Platforms -> Nat]
         /\ P0Accounting'
         /\ CountedIsRunning'
         /\ PausedWhileInteractive'
<1>1. CountedIn(ts) = CountedIn(task)
  BY DEF CountedIn
<1>2. \A p \in Platforms : CountedOn(ts, p) = CountedOn(task, p)
  BY <1>1 DEF CountedOn
<1>3. Agrees(ts, p0Active, p0ByPlatform)
  BY <1>1, <1>2 DEF Agrees, SchedulerInv, P0Accounting
<1>4. /\ task' \in [Tasks -> TaskRec]
      /\ p0Active' \in Nat
      /\ p0ByPlatform' \in [Platforms -> Nat]
      /\ Agrees(task', p0Active', p0ByPlatform')
      /\ \A t \in Tasks : task'[t].counts =>
           t \notin freed /\ t \notin gone /\ task'[t] = ts[t]
  BY <1>3, SettleAccounts
<1>5. P0Accounting'
  BY <1>4 DEF Agrees, P0Accounting
<1>6. \A t \in Tasks : task'[t].counts => task'[t] = task[t]
  BY <1>4
<1>7. CountedIsRunning'
  BY <1>6 DEF SchedulerInv, CountedIsRunning
<1>8. PausedWhileInteractive'
  BY <1>6 DEF SchedulerInv, PausedWhileInteractive
<1> QED BY <1>4, <1>5, <1>7, <1>8

(* A step that leaves the task records, the counters and the limiters       *)
(* alone keeps the three safety parts.                                      *)
LEMMA FrameKeepsInv ==
  ASSUME SchedulerInv, UNCHANGED <<task, p0vars, paused>>
  PROVE  P0Accounting' /\ CountedIsRunning' /\ PausedWhileInteractive'
BY DEF SchedulerInv, p0vars, P0Accounting, CountedIsRunning,
       PausedWhileInteractive, CountedIn, CountedOn

(* Begin and the Mark operations change one task that is not counted, into  *)
(* one that is not counted.                                                 *)
LEMMA UncountedChange ==
  ASSUME SchedulerInv, NEW t \in Tasks, NEW r \in TaskRec,
         ~task[t].counts, ~r.counts,
         task' = [task EXCEPT ![t] = r],
         UNCHANGED <<p0vars, paused>>
  PROVE  /\ task' \in [Tasks -> TaskRec]
         /\ P0Accounting'
         /\ CountedIsRunning'
         /\ PausedWhileInteractive'
<1>1. task \in [Tasks -> TaskRec]
  BY DEF SchedulerInv, TypeOK
<1>2. \A u \in Tasks : u # t => task'[u] = task[u]
  BY <1>1
<1>3. task'[t] = r
  BY <1>1
<1>4. \A u \in Tasks : task'[u].counts <=> task[u].counts
  BY <1>2, <1>3
<1>5. CountedIn(task') = CountedIn(task)
  BY <1>4 DEF CountedIn
<1>6. \A p \in Platforms : CountedOn(task', p) = CountedOn(task, p)
  BY <1>5 DEF CountedOn
<1>7. P0Accounting'
  BY <1>5, <1>6 DEF SchedulerInv, P0Accounting, p0vars
<1>8. \A u \in Tasks : task'[u].counts => task'[u] = task[u]
  BY <1>2, <1>3
<1>9. CountedIsRunning' /\ PausedWhileInteractive'
  BY <1>8 DEF SchedulerInv, CountedIsRunning, PausedWhileInteractive
<1> QED BY <1>1, <1>7, <1>9

(* MarkRunning of a task that wants to count: the counters go up by one     *)
(* with the set of counted tasks, and in pause mode every limiter is        *)
(* paused in the same critical section.                                     *)
LEMMA CountingKeepsInv ==
  ASSUME SchedulerInv, NEW t \in Tasks, MarkRunning(t),
         task[t].want, ~task[t].counts
  PROVE  /\ task' \in [Tasks -> TaskRec]
         /\ p0Active' \in Nat
         /\ p0ByPlatform' \in [Platforms -> Nat]
         /\ paused' \in [Platforms -> BOOLEAN]
         /\ P0Accounting'
         /\ CountedIsRunning'
         /\ PausedWhileInteractive'
<1> DEFINE ts == [task EXCEPT ![t].status = "running",
                              ![t].counts = @ \/ (task[t].want /\ ~task[t].counts),
                              ![t].held = IF task[t].want /\ ~task[t].counts
                                          THEN cfg.mode = "pause" ELSE @]
<1>1. /\ task \in [Tasks -> TaskRec]
      /\ p0Active \in Nat
      /\ p0ByPlatform \in [Platforms -> Nat]
      /\ paused \in [Platforms -> BOOLEAN]
  BY DEF SchedulerInv, TypeOK
<1>2. /\ p0Active' = p0Active + 1
      /\ p0ByPlatform' = [p0ByPlatform EXCEPT ![Plat(t)] = @ + 1]
      /\ PausePrefetch(ts)
  BY DEF MarkRunning
<1> DEFINE rec == [task[t] EXCEPT !.status = "running",
                                  !.counts = task[t].counts \/ (task[t].want /\ ~task[t].counts),
                                  !.held = IF task[t].want /\ ~task[t].counts
                                           THEN cfg.mode = "pause" ELSE task[t].held]
<1>3. ts = [task EXCEPT ![t] = rec]
  BY <1>1
<1>4. task[t] \in TaskRec
  BY <1>1
<1>5. /\ rec \in TaskRec
      /\ rec.status = "running"
      /\ rec.want = task[t].want
      /\ rec.counts = TRUE
      /\ rec.held = (cfg.mode = "pause")
  BY <1>4 DEF TaskRec, Active, Finished
<1> HIDE DEF rec
<1>6. ts[t] = rec /\ \A u \in Tasks : u # t => ts[u] = task[u]
  BY <1>1, <1>3
<1>7. ts \in [Tasks -> TaskRec]
  BY <1>1, <1>3, <1>5
<1> HIDE DEF ts
(* relabelling P2 to P1 leaves the other fields of every record alone *)
<1>8. /\ task' \in [Tasks -> TaskRec]
      /\ paused' \in [Platforms -> BOOLEAN]
      /\ \A u \in Tasks : /\ task'[u].counts = ts[u].counts
                           /\ task'[u].status = ts[u].status
                           /\ task'[u].want = ts[u].want
                           /\ task'[u].held = ts[u].held
  <2>1. CASE cfg.mode = "pause"
    <3>1. \A u \in Tasks : ts[u] \in TaskRec
      BY <1>7
    <3>2. \A u \in Tasks :
            LET v == [ts[u] EXCEPT !.prio = "P1"]
            IN /\ v \in TaskRec
               /\ v.counts = ts[u].counts
               /\ v.status = ts[u].status
               /\ v.want = ts[u].want
               /\ v.held = ts[u].held
      BY <3>1 DEF TaskRec
    <3>3. task' = [u \in Tasks |->
                     IF ts[u].status \in Active /\ ts[u].prio = "P2"
                     THEN [ts[u] EXCEPT !.prio = "P1"] ELSE ts[u]]
      BY <1>2, <2>1 DEF PausePrefetch
    <3>4. paused' \in [Platforms -> BOOLEAN]
      BY <1>2, <2>1 DEF PausePrefetch
    <3> QED BY <3>1, <3>2, <3>3, <3>4
  <2>2. CASE cfg.mode # "pause"
    BY <1>1, <1>2, <1>7, <2>2 DEF PausePrefetch
  <2> QED BY <2>1, <2>2
<1>9. CountedIn(task') = CountedIn(task) \cup {t}
  BY <1>5, <1>6, <1>8 DEF CountedIn
<1>10. t \notin CountedIn(task)
  BY DEF CountedIn
<1>11. Plat(t) \in Platforms
  BY SchedulerConstants DEF Plat
<1>12. p0Active' = Cardinality(CountedIn(task'))
  BY <1>2, <1>9, <1>10, CountedFinite, FS_AddElement DEF SchedulerInv, P0Accounting
<1>13. ASSUME NEW p \in Platforms
       PROVE  p0ByPlatform'[p] = Cardinality(CountedOn(task', p))
  <2>0. p0ByPlatform[p] = Cardinality(CountedOn(task, p))
    BY DEF SchedulerInv, P0Accounting
  <2>1. CASE p = Plat(t)
    <3>1. CountedOn(task', p) = CountedOn(task, p) \cup {t}
      BY <1>9, <2>1 DEF CountedOn
    <3>2. t \notin CountedOn(task, p)
      BY <1>10 DEF CountedOn
    <3>3. Cardinality(CountedOn(task', p)) = Cardinality(CountedOn(task, p)) + 1
      BY <3>1, <3>2, CountedFinite, FS_AddElement
    <3>4. p0ByPlatform'[p] = p0ByPlatform[p] + 1
      BY <2>1, <1>1, <1>2, <1>11
    <3> QED BY <2>0, <3>3, <3>4
  <2>2. CASE p # Plat(t)
    <3>1. CountedOn(task', p) = CountedOn(task, p)
      BY <1>9, <2>2 DEF CountedOn
    <3> QED BY <2>0, <2>2, <3>1, <1>1, <1>2
  <2> QED BY <2>1, <2>2
<1>14. P0Accounting'
  BY <1>12, <1>13 DEF P0Accounting
<1>15. CountedIsRunning'
  <2> SUFFICES ASSUME NEW u \in Tasks, task'[u].counts
               PROVE  task'[u].status = "running" /\ task'[u].want
    BY DEF CountedIsRunning
  <2>1. CASE u = t
    BY <2>1, <1>5, <1>6, <1>8
  <2>2. CASE u # t
    <3>1. task[u].counts
      BY <2>2, <1>6, <1>8
    <3>2. task[u].status = "running" /\ task[u].want
      BY <3>1 DEF SchedulerInv, CountedIsRunning
    <3> QED BY <2>2, <3>2, <1>6, <1>8
  <2> QED BY <2>1, <2>2
<1>16. PausedWhileInteractive'
  <2>1. CASE cfg.mode = "pause"
    BY <1>2, <2>1 DEF PausePrefetch, PausedWhileInteractive
  <2>2. CASE cfg.mode # "pause"
    <3>1. paused' = paused
      BY <1>2, <2>2 DEF PausePrefetch
    <3>2. \A u \in Tasks : task'[u].counts /\ task'[u].held /\ u # t =>
                           task[u].counts /\ task[u].held
      BY <1>6, <1>8
    <3> SUFFICES ASSUME NEW u \in Tasks, task'[u].counts, task'[u].held
                 PROVE  \A p \in Platforms : paused[p]
      BY <3>1 DEF PausedWhileInteractive
    <3>3. CASE u # t
      BY <3>2, <3>3 DEF SchedulerInv, PausedWhileInteractive
    <3>4. CASE u = t
      BY <2>2, <3>4, <1>5, <1>6, <1>8
    <3> QED BY <3>3, <3>4
  <2> QED BY <2>1, <2>2
<1>17. p0Active' \in Nat /\ p0ByPlatform' \in [Platforms -> Nat]
  <2>1. p0Active' \in Nat
    BY <1>1, <1>2
  <2>2. p0ByPlatform[Plat(t)] + 1 \in Nat
    BY <1>1, <1>11
  <2> QED BY <1>1, <1>2, <2>1, <2>2
<1> QED BY <1>8, <1>14, <1>15, <1>16, <1>17

(* End, split into the case of a task still in the map and a purged one *)
LEMMA EndKeepsInv ==
  ASSUME SchedulerInv, NEW t \in Tasks, End(t)
  PROVE  SchedulerInv'
<1>1. task \in [Tasks -> TaskRec]
  BY DEF SchedulerInv, TypeOK
<1>2. PICK outcome \in Finished :
        LET known == task[t].status # "absent"
            ts == IF known /\ task[t].status # "cancelled"
                  THEN [task EXCEPT ![t].status = outcome] ELSE task
        IN \E gone \in PruneChoices(ts) :
             Settle(ts, IF known THEN {t} ELSE {}, gone)
  BY DEF End
<1> DEFINE known == task[t].status # "absent"
           ts == IF known /\ task[t].status # "cancelled"
                 THEN [task EXCEPT ![t].status = outcome] ELSE task
           freed == IF known THEN {t} ELSE {}
<1>3. PICK gone \in PruneChoices(ts) : Settle(ts, freed, gone)
  BY <1>2
<1>4. gone \in SUBSET Tasks /\ freed \in SUBSET Tasks
  BY DEF PruneChoices, FinishedIn
<1>5. /\ ts \in [Tasks -> TaskRec]
      /\ \A u \in Tasks : ts[u].counts = task[u].counts
      /\ \A u \in Tasks : u \notin freed => ts[u] = task[u]
  <2>1. [task[t] EXCEPT !.status = outcome] \in TaskRec
        /\ [task[t] EXCEPT !.status = outcome].counts = task[t].counts
    BY <1>1 DEF TaskRec, Finished
  <2> QED BY <1>1, <2>1
<1>6. UNCHANGED paused
  BY DEF End
<1> HIDE DEF ts, freed, known
<1>7. /\ task' \in [Tasks -> TaskRec]
      /\ p0Active' \in Nat
      /\ p0ByPlatform' \in [Platforms -> Nat]
      /\ P0Accounting' /\ CountedIsRunning' /\ PausedWhileInteractive'
  BY <1>3, <1>4, <1>5, <1>6, ReleaseKeepsInv
<1>8. TypeOK'
  BY <1>7 DEF SchedulerInv, TypeOK, End
<1> QED BY <1>7, <1>8 DEF SchedulerInv

(* The locked part of every cancel, clear and purge *)
LEMMA CancelLockedKeepsInv ==
  ASSUME SchedulerInv, NEW a \in Admins, NEW ids \in SUBSET Tasks,
         NEW gone \in SUBSET Tasks, NEW arm \in BOOLEAN,
         CancelLocked(a, ids, gone, arm)
  PROVE  SchedulerInv'
<1>1. task \in [Tasks -> TaskRec]
  BY DEF SchedulerInv, TypeOK
<1> DEFINE ts == [t \in Tasks |-> IF t \in ids
                                  THEN [task[t] EXCEPT !.status = "cancelled"]
                                  ELSE task[t]]
<1>2. /\ ts \in [Tasks -> TaskRec]
      /\ \A u \in Tasks : ts[u].counts = task[u].counts
      /\ \A u \in Tasks : u \notin ids => ts[u] = task[u]
  <2>1. \A u \in Tasks :
          /\ [task[u] EXCEPT !.status = "cancelled"] \in TaskRec
          /\ [task[u] EXCEPT !.status = "cancelled"].counts = task[u].counts
    BY <1>1 DEF TaskRec, Finished
  <2> QED BY <1>1, <2>1
<1>3. Settle(ts, ids, gone) /\ UNCHANGED paused
  BY DEF CancelLocked
<1> HIDE DEF ts
<1>4. /\ task' \in [Tasks -> TaskRec]
      /\ p0Active' \in Nat
      /\ p0ByPlatform' \in [Platforms -> Nat]
      /\ P0Accounting' /\ CountedIsRunning' /\ PausedWhileInteractive'
  BY <1>2, <1>3, ReleaseKeepsInv
<1>5. ops' \in 0..MaxOps
  BY SchedulerConstants DEF CancelLocked, SchedulerInv, TypeOK
<1>6. admin' \in [Admins -> [pc : {"idle", "abort", "put"},
                             ids : SUBSET Tasks, arm : BOOLEAN]]
  BY DEF CancelLocked, SchedulerInv, TypeOK, IdleAdmin
<1>7. TypeOK'
  BY <1>4, <1>5, <1>6 DEF SchedulerInv, TypeOK, CancelLocked
<1> QED BY <1>4, <1>7 DEF SchedulerInv

(* Each management request cancels and forgets subsets of the tasks *)
LEMMA AdminRequestKeepsInv ==
  ASSUME SchedulerInv, NEW a \in Admins, AdminRequest(a)
  PROVE  SchedulerInv'
<1>0. \A ps, only : Matching(ps, only) \in SUBSET Tasks
  BY DEF Matching
<1>1. ASSUME NEW t \in Tasks, NEW only \in BOOLEAN, CancelTask(a, t, only)
      PROVE  SchedulerInv'
  BY <1>0, <1>1, CancelLockedKeepsInv DEF CancelTask
<1>2. ASSUME NEW u \in Urls, NEW only \in BOOLEAN, CancelUrl(a, u, only)
      PROVE  SchedulerInv'
  BY <1>0, <1>2, CancelLockedKeepsInv DEF CancelUrl
<1>3. ASSUME NEW ps \in PlatformFilters, NEW only \in BOOLEAN,
             NEW resume \in BOOLEAN, CancelMatching(a, ps, only, resume)
      PROVE  SchedulerInv'
  BY <1>0, <1>3, CancelLockedKeepsInv DEF CancelMatching
<1>4. CASE CancelForClearCache(a)
  BY <1>0, <1>4, CancelLockedKeepsInv DEF CancelForClearCache
<1>5. ASSUME NEW ps \in PlatformFilters, NEW only \in BOOLEAN,
             PurgeMatching(a, ps, only)
      PROVE  SchedulerInv'
  <2> DEFINE ids == Matching(ps, only)
             cleared == ids \cup {t \in FinishedIn(task) : Plat(t) \in ps}
  <2>1. PICK pruned \in PruneChoices(task) :
          CancelLocked(a, ids, cleared \cup pruned, cleared # {})
    BY <1>5 DEF PurgeMatching
  <2>2. cleared \cup pruned \in SUBSET Tasks
    BY <1>0 DEF PruneChoices, FinishedIn
  <2> HIDE DEF cleared
  <2> QED BY <1>0, <2>1, <2>2, CancelLockedKeepsInv
<1>6. ASSUME NEW ps \in PlatformFilters, ClearFinishedMatching(a, ps)
      PROVE  SchedulerInv'
  <2> DEFINE cleared == {t \in FinishedIn(task) : Plat(t) \in ps}
  <2>1. PICK pruned \in PruneChoices(task) :
          CancelLocked(a, {}, cleared \cup pruned, FALSE)
    BY <1>6 DEF ClearFinishedMatching
  <2>2. cleared \cup pruned \in SUBSET Tasks
    BY DEF PruneChoices, FinishedIn
  <2> HIDE DEF cleared
  <2> QED BY <2>1, <2>2, CancelLockedKeepsInv
<1>7. CASE PutConfigRead(a)
  <2>1. UNCHANGED <<task, p0vars, paused>>
    BY <1>7 DEF PutConfigRead
  <2>2. ops' \in 0..MaxOps
    BY <1>7, SchedulerConstants DEF PutConfigRead, SchedulerInv, TypeOK
  <2>3. TypeOK'
    BY <1>7, <2>1, <2>2 DEF PutConfigRead, SchedulerInv, TypeOK, p0vars
  <2> QED BY <2>1, <2>3, FrameKeepsInv DEF SchedulerInv
<1> QED BY <1>1, <1>2, <1>3, <1>4, <1>5, <1>6, <1>7 DEF AdminRequest

(* The remaining steps of a task's owner *)
LEMMA OwnerKeepsInv ==
  ASSUME SchedulerInv, NEW t \in Tasks,
         Begin(t) \/ OwnerStep(t) \/ OwnerMark(t)
  PROVE  SchedulerInv'
<1>1. /\ task \in [Tasks -> TaskRec]
      /\ task[t] \in TaskRec
  BY DEF SchedulerInv, TypeOK
<1>2. task[t].counts => task[t].status = "running"
  BY DEF SchedulerInv, CountedIsRunning
<1>3. CASE Begin(t) /\ ~task[t].counts
  <2>1. PICK prio \in {"P0", "P2"}, holdInteractive \in BOOLEAN :
          task' = [task EXCEPT ![t] =
                     [status |-> "queued", prio |-> prio,
                      want |-> holdInteractive /\ prio = "P0",
                      counts |-> FALSE, held |-> FALSE]]
    BY <1>3 DEF Begin
  <2> DEFINE r == [status |-> "queued", prio |-> prio,
                   want |-> holdInteractive /\ prio = "P0",
                   counts |-> FALSE, held |-> FALSE]
  <2>2. r \in TaskRec /\ ~r.counts
    BY DEF TaskRec, Active
  <2>3. UNCHANGED <<p0vars, paused>>
    BY <1>3 DEF Begin
  <2> HIDE DEF r
  <2>4. /\ task' \in [Tasks -> TaskRec]
        /\ P0Accounting' /\ CountedIsRunning' /\ PausedWhileInteractive'
    BY <1>3, <2>1, <2>2, <2>3, UncountedChange DEF r
  <2>5. TypeOK'
    BY <1>3, <2>3, <2>4 DEF Begin, SchedulerInv, TypeOK, p0vars
  <2> QED BY <2>4, <2>5 DEF SchedulerInv
<1>4. ASSUME NEW from, from \subseteq Markable,
             NEW to \in Active, SetStatus(t, from, to)
      PROVE  SchedulerInv'
  <2> DEFINE r == [task[t] EXCEPT !.status = to]
  <2>1. /\ r \in TaskRec
        /\ r.counts = task[t].counts
    BY <1>1 DEF TaskRec
  <2>2. ~task[t].counts
    BY <1>2, <1>4 DEF SetStatus, Markable
  <2>3. task' = [task EXCEPT ![t] = r] /\ UNCHANGED <<p0vars, paused>>
    BY <1>1, <1>4 DEF SetStatus
  <2> HIDE DEF r
  <2>4. /\ task' \in [Tasks -> TaskRec]
        /\ P0Accounting' /\ CountedIsRunning' /\ PausedWhileInteractive'
    BY <2>1, <2>2, <2>3, UncountedChange
  <2>5. TypeOK'
    BY <1>4, <2>3, <2>4 DEF SetStatus, SchedulerInv, TypeOK, p0vars
  <2> QED BY <2>4, <2>5 DEF SchedulerInv
<1>5. CASE MarkPreparing(t) \/ MarkWaiting(t) \/ MarkHit(t)
  BY <1>4, <1>5 DEF MarkPreparing, MarkWaiting, MarkHit, Markable, Active
<1>6. CASE MarkRunning(t)
  <2>1. ~task[t].counts
    BY <1>2, <1>6 DEF MarkRunning, Markable
  <2>2. CASE task[t].want
    <3>1. /\ task' \in [Tasks -> TaskRec]
          /\ p0Active' \in Nat
          /\ p0ByPlatform' \in [Platforms -> Nat]
          /\ paused' \in [Platforms -> BOOLEAN]
          /\ P0Accounting' /\ CountedIsRunning' /\ PausedWhileInteractive'
      BY <1>6, <2>1, <2>2, CountingKeepsInv
    <3>2. TypeOK'
      BY <1>6, <3>1 DEF MarkRunning, SchedulerInv, TypeOK
    <3> QED BY <3>1, <3>2 DEF SchedulerInv
  <2>3. CASE ~task[t].want
    <3> DEFINE r == [task[t] EXCEPT !.status = "running",
                                    !.counts = @ \/ FALSE,
                                    !.held = @]
    <3>1. task' = [task EXCEPT ![t] = r] /\ UNCHANGED <<p0vars, paused>>
      BY <1>1, <1>6, <2>3 DEF MarkRunning
    <3>2. r \in TaskRec /\ ~r.counts
      BY <1>1, <2>1 DEF TaskRec, Active
    <3> HIDE DEF r
    <3>3. /\ task' \in [Tasks -> TaskRec]
          /\ P0Accounting' /\ CountedIsRunning' /\ PausedWhileInteractive'
      BY <2>1, <3>1, <3>2, UncountedChange
    <3>4. TypeOK'
      BY <1>6, <3>1, <3>3 DEF MarkRunning, SchedulerInv, TypeOK, p0vars
    <3> QED BY <3>3, <3>4 DEF SchedulerInv
  <2> QED BY <2>2, <2>3
<1>7. CASE End(t)
  BY <1>7, EndKeepsInv
<1>8. CASE \/ BindCancel(t) \/ PeekMayP0(t) \/ CancelResumeTimer(t)
           \/ MarkRunningTooLate(t) \/ EndResume(t) \/ UnbindCancel(t)
  <2>1. UNCHANGED <<task, p0vars, paused>>
    BY <1>8 DEF BindCancel, PeekMayP0, CancelResumeTimer, MarkRunningTooLate,
                EndResume, UnbindCancel
  <2>2. TypeOK'
    BY <1>8, <2>1 DEF BindCancel, PeekMayP0, CancelResumeTimer,
                MarkRunningTooLate, EndResume, UnbindCancel, ArmResume,
                SchedulerInv, TypeOK, p0vars
  <2> QED BY <2>1, <2>2, FrameKeepsInv DEF SchedulerInv
<1>9. Begin(t) => ~task[t].counts
  <2>1. ~NoTask.counts
    BY DEF NoTask
  <2> QED BY <2>1 DEF Begin
<1> QED BY <1>3, <1>5, <1>6, <1>7, <1>8, <1>9 DEF OwnerStep, OwnerMark

(* The invariant holds as the scheduler starts. *)
LEMMA InitInv ==
  Init => SchedulerInv
<1> SUFFICES ASSUME Init PROVE SchedulerInv
  OBVIOUS
<1>1. NoTask \in TaskRec /\ ~NoTask.counts
  BY DEF NoTask, TaskRec, Active, Finished
<1>2. TypeOK
  BY <1>1, SchedulerConstants DEF Init, TypeOK, IdleAdmin
<1>3. \A t \in Tasks : ~task[t].counts
  BY <1>1 DEF Init
<1>4. CountedIn(task) = {} /\ \A p \in Platforms : CountedOn(task, p) = {}
  BY <1>3 DEF CountedIn, CountedOn
<1>5. P0Accounting
  BY <1>4, FS_EmptySet DEF Init, P0Accounting
<1>6. CountedIsRunning /\ PausedWhileInteractive
  BY <1>3 DEF CountedIsRunning, PausedWhileInteractive
<1> QED BY <1>2, <1>5, <1>6 DEF SchedulerInv

(* The idle timer: the callback lifts the pause only when the counter, and *)
(* so the set of counted tasks, is empty.                                   *)
LEMMA ApplyKeepsInv ==
  ASSUME SchedulerInv, ApplyPrefetchResumeIdle
  PROVE  SchedulerInv'
<1>1. UNCHANGED <<task, p0vars>>
  BY DEF ApplyPrefetchResumeIdle
<1>2. P0Accounting' /\ CountedIsRunning'
  BY <1>1 DEF SchedulerInv, p0vars, P0Accounting, CountedIsRunning,
              CountedIn, CountedOn
<1>3. PausedWhileInteractive'
  <2>1. CASE p0Active = 0
    <3>1. CountedIn(task) = {}
      BY <2>1, CountedFinite, FS_EmptySet DEF SchedulerInv, P0Accounting
    <3>2. \A t \in Tasks : ~task'[t].counts
      BY <1>1, <3>1 DEF CountedIn
    <3> QED BY <3>2 DEF PausedWhileInteractive
  <2>2. CASE p0Active # 0
    <3>1. paused' = paused
      BY <2>2 DEF ApplyPrefetchResumeIdle
    <3> QED BY <1>1, <3>1 DEF SchedulerInv, PausedWhileInteractive
  <2> QED BY <2>1, <2>2
<1>4. TypeOK'
  <2>1. firing' \in 0..MaxFiring
    BY SchedulerConstants DEF ApplyPrefetchResumeIdle, SchedulerInv, TypeOK
  <2>2. paused' \in [Platforms -> BOOLEAN]
    BY DEF ApplyPrefetchResumeIdle, SchedulerInv, TypeOK
  <2> QED BY <2>1, <2>2 DEF ApplyPrefetchResumeIdle, SchedulerInv, TypeOK, p0vars
<1> QED BY <1>2, <1>3, <1>4 DEF SchedulerInv

(* Every step of the scheduler keeps the invariant. *)
LEMMA NextKeepsInv ==
  SchedulerInv /\ [Next]_vars => SchedulerInv'
<1> SUFFICES ASSUME SchedulerInv, [Next]_vars PROVE SchedulerInv'
  OBVIOUS
<1>1. ASSUME NEW t \in Tasks, Begin(t) \/ OwnerStep(t) \/ OwnerMark(t)
      PROVE  SchedulerInv'
  BY <1>1, OwnerKeepsInv
<1>2. ASSUME NEW a \in Admins, AdminRequest(a)
      PROVE  SchedulerInv'
  BY <1>2, AdminRequestKeepsInv
<1>3. ASSUME NEW a \in Admins, AdminStep(a)
      PROVE  SchedulerInv'
  <2>1. UNCHANGED <<task, p0vars, paused>>
    BY <1>3 DEF AdminStep, AbortBound, AdminResume, PutConfigUpdate
  <2>2. ASSUME NEW t \in Tasks, AbortBound(a, t)
        PROVE  TypeOK'
    BY <2>2 DEF AbortBound, SchedulerInv, TypeOK, p0vars
  <2>3. ASSUME AdminResume(a) PROVE TypeOK'
    <3>1. timer' \in {"off", "armed"}
      BY <2>3 DEF AdminResume, ArmResume, SchedulerInv, TypeOK
    <3>2. admin' \in [Admins -> [pc : {"idle", "abort", "put"},
                                 ids : SUBSET Tasks, arm : BOOLEAN]]
      <4>1. IdleAdmin \in
              [pc : {"idle", "abort", "put"}, ids : SUBSET Tasks, arm : BOOLEAN]
        BY DEF IdleAdmin
      <4>2. admin' = [admin EXCEPT ![a] = IdleAdmin]
        BY <2>3 DEF AdminResume
      <4>3. admin \in [Admins -> [pc : {"idle", "abort", "put"},
                                  ids : SUBSET Tasks, arm : BOOLEAN]]
        BY DEF SchedulerInv, TypeOK
      <4> QED BY <4>1, <4>2, <4>3
    <3>3. UNCHANGED <<task, p0vars, paused, cfg, firing, bound, aborted, owner, ops>>
      BY <2>3 DEF AdminResume
    <3> QED BY <3>1, <3>2, <3>3 DEF SchedulerInv, TypeOK, p0vars
  <2>4. ASSUME NEW c \in [mode : Modes, resumeOnIdle : BOOLEAN],
               PutConfigUpdate(a, c)
        PROVE  TypeOK'
    <3>1. admin' \in [Admins -> [pc : {"idle", "abort", "put"},
                                 ids : SUBSET Tasks, arm : BOOLEAN]]
      <4>1. [admin[a] EXCEPT !.pc = "abort"] \in
              [pc : {"idle", "abort", "put"}, ids : SUBSET Tasks, arm : BOOLEAN]
        BY DEF SchedulerInv, TypeOK
      <4>2. IdleAdmin \in
              [pc : {"idle", "abort", "put"}, ids : SUBSET Tasks, arm : BOOLEAN]
        BY DEF IdleAdmin
      <4>3. admin' = [admin EXCEPT ![a] =
                        IF admin[a].arm /\ c.resumeOnIdle
                        THEN [admin[a] EXCEPT !.pc = "abort"] ELSE IdleAdmin]
        BY <2>4 DEF PutConfigUpdate, SchedulerInv, TypeOK
      <4> QED BY <4>1, <4>2, <4>3 DEF SchedulerInv, TypeOK
    <3>2. cfg' \in [mode : Modes, resumeOnIdle : BOOLEAN]
      BY <2>4 DEF PutConfigUpdate
    <3>3. UNCHANGED <<task, p0vars, paused, timer, firing, bound, aborted,
                      owner, ops>>
      BY <2>4 DEF PutConfigUpdate
    <3> QED BY <3>1, <3>2, <3>3 DEF SchedulerInv, TypeOK, p0vars
  <2>5. TypeOK'
    BY <1>3, <2>2, <2>3, <2>4 DEF AdminStep
  <2> QED BY <2>1, <2>5, FrameKeepsInv DEF SchedulerInv
<1>4. CASE TimerFire
  <2>1. UNCHANGED <<task, p0vars, paused>>
    BY <1>4 DEF TimerFire
  <2>2. firing' \in 0..MaxFiring
    BY <1>4, SchedulerConstants DEF TimerFire, SchedulerInv, TypeOK
  <2>3. TypeOK'
    BY <1>4, <2>2 DEF TimerFire, SchedulerInv, TypeOK, p0vars
  <2> QED BY <2>1, <2>3, FrameKeepsInv DEF SchedulerInv
<1>5. CASE ApplyPrefetchResumeIdle
  BY <1>5, ApplyKeepsInv
<1>6. CASE List
  <2>1. PICK gone \in PruneChoices(task) : Settle(task, {}, gone)
    BY <1>6 DEF List
  <2>2. gone \in SUBSET Tasks /\ {} \in SUBSET Tasks
    BY DEF PruneChoices, FinishedIn
  <2>3. UNCHANGED paused
    BY <1>6 DEF List
  <2>4. task \in [Tasks -> TaskRec]
    BY DEF SchedulerInv, TypeOK
  <2>5. /\ task' \in [Tasks -> TaskRec]
        /\ p0Active' \in Nat
        /\ p0ByPlatform' \in [Platforms -> Nat]
        /\ P0Accounting' /\ CountedIsRunning' /\ PausedWhileInteractive'
    BY <2>1, <2>2, <2>3, <2>4, ReleaseKeepsInv
  <2>6. TypeOK'
    BY <1>6, <2>5 DEF List, SchedulerInv, TypeOK
  <2> QED BY <2>5, <2>6 DEF SchedulerInv
<1>7. CASE UNCHANGED vars
  BY <1>7 DEF vars, p0vars, SchedulerInv, TypeOK, P0Accounting,
              CountedIsRunning, PausedWhileInteractive, CountedIn, CountedOn
<1> QED BY <1>1, <1>2, <1>3, <1>4, <1>5, <1>6, <1>7 DEF Next, Terminated

(* The state of the scheduler stays well typed in every behaviour. *)
THEOREM SchedulerTypeCorrect == Spec => []TypeOK
<1>1. SchedulerInv => TypeOK
  BY DEF SchedulerInv
<1> QED BY InitInv, NextKeepsInv, <1>1, PTL DEF Spec

(* p0Active and p0ByPlatform always equal the number of counted tasks:     *)
(* releaseActiveLocked neither leaks nor double-counts, for any number of   *)
(* tasks and any interleaving of End with cancel, purge, clear and prune.   *)
THEOREM P0AccountingHolds == Spec => []P0Accounting
<1>1. SchedulerInv => P0Accounting
  BY DEF SchedulerInv
<1> QED BY InitInv, NextKeepsInv, <1>1, PTL DEF Spec

(* No cancelled, finished or forgotten task holds a P0 count. *)
THEOREM CountedIsRunningHolds == Spec => []CountedIsRunning
<1>1. SchedulerInv => CountedIsRunning
  BY DEF SchedulerInv
<1> QED BY InitInv, NextKeepsInv, <1>1, PTL DEF Spec

(* While an interactive download counted in pause mode runs, prefetching is *)
(* paused on every platform, whatever the idle timer does.                  *)
THEOREM PausedWhileInteractiveHolds == Spec => []PausedWhileInteractive
<1>1. SchedulerInv => PausedWhileInteractive
  BY DEF SchedulerInv
<1> QED BY InitInv, NextKeepsInv, <1>1, PTL DEF Spec

-----------------------------------------------------------------------------
(* What is finished stays finished *)

(* A task is done or failed only once its owner has ended it. *)
Over == {"ended", "unbinding", "gone"}
EndedByOwner == \A t \in Tasks : task[t].status \in {"done", "error"} => owner[t] \in Over

FinalInv == TypeOK /\ EndedByOwner

StepIsFinal ==
  \A t \in Tasks :
    task[t].status \in Finished => task'[t].status \in {task[t].status, "absent"}

(* A step that finishes no task but by cancelling it while it is active    *)
LEMMA CancelsOrKeeps ==
  ASSUME FinalInv,
         \A t \in Tasks :
           \/ task'[t].status \in {task[t].status, "absent"}
           \/ task[t].status \notin Finished /\ task'[t].status \notin {"done", "error"},
         \A t \in Tasks : owner[t] \in Over => owner'[t] \in Over
  PROVE  EndedByOwner' /\ StepIsFinal
BY DEF FinalInv, EndedByOwner, StepIsFinal, Finished

(* Releasing tasks keeps their status, and those that go are absent. *)
LEMMA SettleStatus ==
  ASSUME NEW ts \in [Tasks -> TaskRec], NEW freed, NEW gone, Settle(ts, freed, gone)
  PROVE  \A t \in Tasks : task'[t].status = IF t \in gone THEN "absent" ELSE ts[t].status
BY DEF Settle, NoTask, TaskRec

LEMMA PauseStatus ==
  ASSUME NEW ts \in [Tasks -> TaskRec], PausePrefetch(ts)
  PROVE  \A t \in Tasks : task'[t].status = ts[t].status
BY DEF PausePrefetch, TaskRec

(* Only active tasks are cancelled. *)
LEMMA CancelLockedIsFinal ==
  ASSUME FinalInv, NEW a \in Admins, NEW ids, NEW gone, NEW arm,
         CancelLocked(a, ids, gone, arm), \A t \in ids : task[t].status \in Active
  PROVE  EndedByOwner' /\ StepIsFinal
<1> DEFINE ts == [t \in Tasks |-> IF t \in ids
                                  THEN [task[t] EXCEPT !.status = "cancelled"]
                                  ELSE task[t]]
<1>1. Settle(ts, ids, gone) /\ UNCHANGED owner
  BY DEF CancelLocked
<1>2. /\ ts \in [Tasks -> TaskRec]
      /\ \A t \in Tasks : ts[t].status = IF t \in ids THEN "cancelled" ELSE task[t].status
  <2>1. \A t \in Tasks : /\ task[t] \in TaskRec
                         /\ [task[t] EXCEPT !.status = "cancelled"] \in TaskRec
                         /\ [task[t] EXCEPT !.status = "cancelled"].status = "cancelled"
    BY DEF FinalInv, TypeOK, TaskRec, Finished
  <2> HIDE DEF TaskRec
  <2> QED BY <2>1
<1> HIDE DEF ts
<1>3. \A t \in Tasks :
        task'[t].status = IF t \in gone THEN "absent" ELSE ts[t].status
  BY <1>1, <1>2, SettleStatus
<1> QED BY <1>1, <1>2, <1>3, CancelsOrKeeps DEF Active, Finished

LEMMA AdminRequestIsFinal ==
  ASSUME FinalInv, NEW a \in Admins, AdminRequest(a) PROVE EndedByOwner' /\ StepIsFinal
<1>1. \A ps, only : \A t \in Matching(ps, only) : task[t].status \in Active
  BY DEF Matching
<1>2. ASSUME NEW t \in Tasks, NEW only \in BOOLEAN, CancelTask(a, t, only)
      PROVE  EndedByOwner' /\ StepIsFinal
  BY <1>1, <1>2, CancelLockedIsFinal DEF CancelTask
<1>3. ASSUME NEW u \in Urls, NEW only \in BOOLEAN, CancelUrl(a, u, only)
      PROVE  EndedByOwner' /\ StepIsFinal
  BY <1>1, <1>3, CancelLockedIsFinal DEF CancelUrl
<1>4. ASSUME NEW ps \in PlatformFilters, NEW only \in BOOLEAN, NEW resume \in BOOLEAN,
             CancelMatching(a, ps, only, resume)
      PROVE  EndedByOwner' /\ StepIsFinal
  BY <1>1, <1>4, CancelLockedIsFinal DEF CancelMatching
<1>5. CASE CancelForClearCache(a)
  BY <1>1, <1>5, CancelLockedIsFinal DEF CancelForClearCache
<1>6. ASSUME NEW ps \in PlatformFilters, NEW only \in BOOLEAN, PurgeMatching(a, ps, only)
      PROVE  EndedByOwner' /\ StepIsFinal
  BY <1>1, <1>6, CancelLockedIsFinal DEF PurgeMatching
<1>7. ASSUME NEW ps \in PlatformFilters, ClearFinishedMatching(a, ps)
      PROVE  EndedByOwner' /\ StepIsFinal
  <2>1. PICK gone : CancelLocked(a, {}, gone, FALSE)
    BY <1>7 DEF ClearFinishedMatching
  <2> DEFINE ids == {}
  <2>2. CancelLocked(a, ids, gone, FALSE)
    BY <2>1
  <2>3. \A t \in ids : task[t].status \in Active
    OBVIOUS
  <2> HIDE DEF ids
  <2> QED BY <2>2, <2>3, CancelLockedIsFinal
<1>8. CASE PutConfigRead(a)
  BY <1>8, CancelsOrKeeps DEF PutConfigRead
<1> QED BY <1>2, <1>3, <1>4, <1>5, <1>6, <1>7, <1>8 DEF AdminRequest

(* The outcome of an End meets a task that is active, cancelled or gone:   *)
(* a task done or failed has ended before, and nobody ends it twice.       *)
LEMMA EndIsFinal ==
  ASSUME FinalInv, NEW t \in Tasks, End(t) PROVE EndedByOwner' /\ StepIsFinal
<1> DEFINE known == task[t].status # "absent"
           Records(outcome) == IF known /\ task[t].status # "cancelled"
                               THEN [task EXCEPT ![t].status = outcome] ELSE task
           freed == IF known THEN {t} ELSE {}
<1>1. PICK outcome \in Finished :
        \E gone \in PruneChoices(Records(outcome)) : Settle(Records(outcome), freed, gone)
  BY DEF End
<1> DEFINE ts == Records(outcome)
<1>2. PICK gone : Settle(ts, freed, gone)
  BY <1>1
<1>3. owner[t] = "live" /\ owner' = [owner EXCEPT ![t] = "ended"]
  BY DEF End
<1>4. /\ ts \in [Tasks -> TaskRec]
      /\ \A u \in Tasks : u # t => ts[u].status = task[u].status
      /\ ts[t].status = IF known /\ task[t].status # "cancelled"
                        THEN outcome ELSE task[t].status
  <2>1. task \in [Tasks -> TaskRec]
    BY DEF FinalInv, TypeOK
  <2>2. /\ [task[t] EXCEPT !.status = outcome] \in TaskRec
        /\ [task[t] EXCEPT !.status = outcome].status = outcome
    BY <2>1 DEF TaskRec
  <2> HIDE DEF TaskRec
  <2> QED BY <2>1, <2>2
<1> HIDE DEF ts, freed
<1>5. \A u \in Tasks : task'[u].status = IF u \in gone THEN "absent" ELSE ts[u].status
  BY <1>2, <1>4, SettleStatus
<1>6. task[t].status \notin {"done", "error"}
  BY <1>3 DEF FinalInv, EndedByOwner, Over
<1>7. owner'[t] = "ended" /\ \A u \in Tasks : u # t => owner'[u] = owner[u]
  BY <1>3 DEF FinalInv, TypeOK
<1>8. EndedByOwner'
  BY <1>4, <1>5, <1>7 DEF FinalInv, EndedByOwner, Over
<1>9. StepIsFinal
  BY <1>4, <1>5, <1>6 DEF StepIsFinal, Finished
<1> QED BY <1>8, <1>9

LEMMA MarkRunningIsFinal ==
  ASSUME FinalInv, NEW t \in Tasks, MarkRunning(t) PROVE EndedByOwner' /\ StepIsFinal
<1> DEFINE counted == task[t].want /\ ~task[t].counts
           ts == [task EXCEPT ![t].status = "running",
                              ![t].counts = @ \/ counted,
                              ![t].held = IF counted THEN cfg.mode = "pause" ELSE @]
<1>1. /\ task[t].status \in Markable /\ owner[t] \in {"live", "marking"}
      /\ owner' = [owner EXCEPT ![t] = "live"]
      /\ task' = ts \/ PausePrefetch(ts)
  BY DEF MarkRunning
<1>2. /\ ts \in [Tasks -> TaskRec] /\ ts[t].status = "running"
      /\ \A u \in Tasks : u # t => ts[u] = task[u]
  <2> DEFINE now == counted \/ task[t].counts
             held == IF counted THEN cfg.mode = "pause" ELSE task[t].held
             r == [task[t] EXCEPT !.status = "running", !.counts = now, !.held = held]
  <2>1. task \in [Tasks -> TaskRec]
    BY DEF FinalInv, TypeOK
  <2>2. now \in BOOLEAN /\ held \in BOOLEAN
    BY <2>1, Zenon DEF TaskRec
  <2>3. ts = [task EXCEPT ![t] = r]
    BY <2>1 DEF TaskRec
  <2> HIDE DEF now, held
  <2>4. r \in TaskRec /\ r.status = "running"
    BY <2>1, <2>2 DEF TaskRec, Active
  <2> HIDE DEF r, TaskRec, ts
  <2> QED BY <2>1, <2>3, <2>4
<1> HIDE DEF ts
<1>3. \A u \in Tasks : task'[u].status = ts[u].status
  BY <1>1, <1>2, PauseStatus
<1>4. \A u \in Tasks : owner[u] \in Over => owner'[u] \in Over
  BY <1>1 DEF FinalInv, TypeOK, Over
<1> QED BY <1>1, <1>2, <1>3, <1>4, CancelsOrKeeps DEF Markable, Finished

LEMMA OwnerIsFinal ==
  ASSUME FinalInv, NEW t \in Tasks, Begin(t) \/ OwnerStep(t) \/ OwnerMark(t)
  PROVE  EndedByOwner' /\ StepIsFinal
<1>1. task \in [Tasks -> TaskRec] /\ NoTask.status = "absent"
  BY DEF FinalInv, TypeOK, NoTask
<1>2. ASSUME NEW to, owner[t] \notin Over \/ to \in Over, owner' = [owner EXCEPT ![t] = to]
      PROVE  \A u \in Tasks : owner[u] \in Over => owner'[u] \in Over
  BY <1>2 DEF FinalInv, TypeOK
<1>3. CASE Begin(t)
  <2>1. PICK r : task' = [task EXCEPT ![t] = r] /\ r.status = "queued"
    <3>1. PICK prio \in {"P0", "P2"}, holdInteractive \in BOOLEAN :
            task' = [task EXCEPT ![t] =
                       [status |-> "queued", prio |-> prio,
                        want |-> holdInteractive /\ prio = "P0",
                        counts |-> FALSE, held |-> FALSE]]
      BY <1>3 DEF Begin
    <3> DEFINE r == [status |-> "queued", prio |-> prio,
                     want |-> holdInteractive /\ prio = "P0",
                     counts |-> FALSE, held |-> FALSE]
    <3>2. r.status = "queued"
      OBVIOUS
    <3>3. task' = [task EXCEPT ![t] = r]
      BY <3>1
    <3> HIDE DEF r
    <3> QED BY <3>2, <3>3
  <2>2. \A u \in Tasks : owner[u] \in Over => owner'[u] \in Over
    BY <1>2, <1>3 DEF Begin, Over
  <2>3. \A u \in Tasks : task'[u].status = IF u = t THEN "queued" ELSE task[u].status
    BY <1>1, <2>1
  <2> QED BY <1>1, <1>3, <2>2, <2>3, CancelsOrKeeps DEF Begin, Finished
<1>4. ASSUME NEW from \in SUBSET Markable, NEW to \in {"preparing", "waiting", "running"},
             SetStatus(t, from, to)
      PROVE  EndedByOwner' /\ StepIsFinal
  <2>1. \A u \in Tasks : task'[u].status = IF u = t THEN to ELSE task[u].status
    BY <1>1, <1>4 DEF SetStatus, TaskRec
  <2> QED BY <1>4, <2>1, CancelsOrKeeps DEF SetStatus, Markable, Finished
<1>5. CASE MarkPreparing(t) \/ MarkWaiting(t) \/ MarkHit(t)
  BY <1>4, <1>5 DEF MarkPreparing, MarkWaiting, MarkHit, Markable
<1>6. CASE \/ BindCancel(t) \/ PeekMayP0(t) \/ CancelResumeTimer(t) \/ MarkRunningTooLate(t)
           \/ EndResume(t) \/ UnbindCancel(t)
  <2>1. UNCHANGED task
    BY <1>6 DEF BindCancel, PeekMayP0, CancelResumeTimer, MarkRunningTooLate, EndResume,
                UnbindCancel
  <2>2. \A u \in Tasks : owner[u] \in Over => owner'[u] \in Over
    BY <1>2, <1>6 DEF BindCancel, PeekMayP0, CancelResumeTimer, MarkRunningTooLate, EndResume,
                      UnbindCancel, Over
  <2> QED BY <2>1, <2>2, CancelsOrKeeps
<1> QED BY <1>3, <1>5, <1>6, EndIsFinal, MarkRunningIsFinal DEF OwnerStep, OwnerMark

LEMMA NextIsFinal ==
  ASSUME FinalInv, [Next]_vars PROVE EndedByOwner' /\ StepIsFinal
<1>1. ASSUME NEW t \in Tasks, Begin(t) \/ OwnerStep(t) \/ OwnerMark(t)
      PROVE  EndedByOwner' /\ StepIsFinal
  BY <1>1, OwnerIsFinal
<1>2. ASSUME NEW a \in Admins, AdminRequest(a) PROVE EndedByOwner' /\ StepIsFinal
  BY <1>2, AdminRequestIsFinal
<1>3. ASSUME NEW a \in Admins, AdminStep(a) PROVE EndedByOwner' /\ StepIsFinal
  BY <1>3, CancelsOrKeeps DEF AdminStep, AbortBound, AdminResume, PutConfigUpdate
<1>4. CASE TimerFire \/ ApplyPrefetchResumeIdle
  BY <1>4, CancelsOrKeeps DEF TimerFire, ApplyPrefetchResumeIdle
<1>5. CASE List
  <2>1. PICK gone : Settle(task, {}, gone)
    BY <1>5 DEF List
  <2>2. \A t \in Tasks : task'[t].status \in {task[t].status, "absent"}
    BY <2>1, SettleStatus DEF FinalInv, TypeOK
  <2> QED BY <1>5, <2>2, CancelsOrKeeps DEF List
<1>6. CASE UNCHANGED vars
  BY <1>6, CancelsOrKeeps DEF vars
<1> QED BY <1>1, <1>2, <1>3, <1>4, <1>5, <1>6 DEF Next, Terminated

(* The status of a finished task never changes again until it is           *)
(* forgotten: neither a late End nor a late MarkRunning of its owner, nor  *)
(* a management request, replaces done, failed or cancelled.               *)
THEOREM FinishedIsFinalHolds == Spec => FinishedIsFinal
<1>1. Init => EndedByOwner
  BY DEF Init, EndedByOwner, NoTask
<1>2. TypeOK /\ EndedByOwner /\ [Next]_vars => EndedByOwner'
  BY NextIsFinal DEF FinalInv
<1>3. Spec => []EndedByOwner
  BY <1>1, <1>2, SchedulerTypeCorrect, PTL DEF Spec
<1>4. TypeOK /\ EndedByOwner /\ [Next]_vars => [StepIsFinal]_vars
  BY NextIsFinal DEF FinalInv
<1>5. Spec => [][StepIsFinal]_vars
  BY <1>3, <1>4, SchedulerTypeCorrect, PTL DEF Spec
<1> QED BY <1>5, PTL DEF FinishedIsFinal, StepIsFinal
=============================================================================
