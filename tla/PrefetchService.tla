---------------------------- MODULE PrefetchService ----------------------------
(***************************************************************************)
(* The prefetch service (internal/prefetch: prefetch.go, start.go,         *)
(* delayed.go) with the file slots of its upstream host (hostgov.go).      *)
(*                                                                         *)
(* An item is one submitted URL.  It passes through the queue `manual`,    *)
(* the list of those who wait for a file slot, and the list of those to be *)
(* retried later; every queue is behind s.mu, the file slots behind the    *)
(* governor's lock, and nothing holds both.  A queue is drained by the     *)
(* service's loop, or by a goroutine of a submission or of a run that      *)
(* ends: a drain empties the queue into a copy of its own and then works   *)
(* it off.  Those of `manual` are expanded there one after another         *)
(* (handlers), which asks an upstream.  A start gets a slot, registers the *)
(* cancel function of its URL in s.cancel, and runs the download in a      *)
(* goroutine: a run is the pair of an item and the attempt.  The           *)
(* scheduler's entry of the task (module Scheduler) and the download       *)
(* itself (Inflight, ChunkDownload) are one step each, if any.  One host   *)
(* and one platform: others have queues' entries and slots of their own.   *)
(***************************************************************************)
EXTENDS Naturals, FiniteSets

CONSTANTS
  Items, Urls, UrlOf,
  None, Loop,    \* no drain, no run; the service's loop
  MaxAttempts,   \* len(delayedBackoff), 5 in the code
  FileInitial, FileCeiling,  \* govFileInitial and govFileCeiling: 2 and 4
  MaxDisturbances \* bound on failures, silent answers, cancellations and limit
                 \* changes together

(* What the constants are; assumed where they get their values *)
PrefetchConstants ==
  /\ IsFiniteSet(Items)
  /\ UrlOf \in [Items -> Urls]
  /\ MaxAttempts \in Nat \ {0}
  /\ FileInitial \in Nat \ {0} /\ FileCeiling \in Nat /\ FileInitial <= FileCeiling
  /\ MaxDisturbances \in Nat
  /\ None \notin Items \X Nat /\ {None, Loop} \cap Items = {} /\ None # Loop

Runs == Items \X (0..(MaxAttempts - 1))

VARIABLES
  item,           \* where each item is, and its attempt
  drainer,        \* whose drain has it in its copy to be expanded, or None
  run,            \* where the goroutine of each run is
  registered,     \* s.cancel: the run whose cancel function a URL has, or None
  cancelled,      \* runs whose context is cancelled
  slots,          \* inflightPrefetch of the host
  fileEffective,  \* fileEffective of the host
  purge,          \* the purge: its step
  used            \* bounds

vars == <<item, drainer, run, registered, cancelled, slots, fileEffective, purge, used>>

Url(r) == UrlOf[r[1]]
At(places) == {i \in Items : item[i].at \in places}
RunsAt(pcs) == {r \in Runs : run[r] \in pcs}
Current(i) == <<i, item[i].attempt>>
Copy(d) == {i \in Items : drainer[i] = d}

Init ==
  /\ item = [i \in Items |-> [at |-> "new", attempt |-> 0]]
  /\ drainer = [i \in Items |-> None]
  /\ run = [r \in Runs |-> "off"]
  /\ registered = [u \in Urls |-> None]
  /\ cancelled = {}
  /\ slots = 0
  /\ fileEffective = FileInitial
  /\ purge = "idle"
  /\ used = [failures |-> 0, halts |-> 0, aborts |-> 0, adjusts |-> 0]

Spend(kind) ==
  /\ used.failures + used.halts + used.aborts + used.adjusts < MaxDisturbances
  /\ used' = [used EXCEPT ![kind] = @ + 1]
Moved(is, place) ==
  [i \in Items |-> IF i \in is THEN [item[i] EXCEPT !.at = place] ELSE item[i]]
Goto(r, from, to) ==
  /\ run[r] = from
  /\ run' = [run EXCEPT ![r] = to]

-----------------------------------------------------------------------------
(* The queues *)

EnqueuePlatform(i) ==
  /\ item[i].at = "new"
  /\ item' = Moved({i}, "manual")
  /\ UNCHANGED <<drainer, run, registered, cancelled, slots, fileEffective, purge, used>>

(* The copy of a drain of `manual` is of the loop or of a goroutine that a *)
(* submission has started (whether that has drained already is left open)  *)
drainManual(d) ==
  /\ At({"manual"}) # {} /\ Copy(d) = {}
  /\ d \in {Loop} \cup (Items \ At({"new"}))
  /\ item' = Moved(At({"manual"}), "expanding")
  /\ drainer' = [i \in Items |-> IF item[i].at = "manual" THEN d ELSE drainer[i]]
  /\ UNCHANGED <<run, registered, cancelled, slots, fileEffective, purge, used>>

Drain(place, ready) ==
  /\ ready # {} /\ ready \subseteq At({place})
  /\ item' = Moved(ready, "taken")
  /\ UNCHANGED <<drainer, run, registered, cancelled, slots, fileEffective, purge, used>>

(* The loop ticks when it has nothing more to expand *)
LoopIsFree == Copy(Loop) = {}

(* By the loop or, as in the queue, by a goroutine of a run that has ended *)
drainWaiting ==
  /\ LoopIsFree \/ RunsAt({"gone"}) # {}
  /\ Drain("waiting", At({"waiting"}))

drainDelayed(ready) == LoopIsFree /\ Drain("delayed", ready)

(* One item of a copy after another, and then it leaves the copy *)
Turn(i) ==
  /\ item[i].at = "expanding"
  /\ \A j \in Copy(drainer[i]) : item[j].at # "silent"
Leaves(i) == drainer' = [drainer EXCEPT ![i] = None]

expandItem(i) ==
  /\ Turn(i)
  /\ item' = Moved({i}, "taken")
  /\ Leaves(i)
  /\ UNCHANGED <<run, registered, cancelled, slots, fileEffective, purge, used>>

(* Nothing limits the wait for the body of an answer, and the context is   *)
(* the service's own: a body that halts keeps the drain for ever.          *)
expandHalts(i) ==
  /\ Turn(i) /\ Spend("halts")
  /\ item' = Moved({i}, "silent")
  /\ UNCHANGED <<drainer, run, registered, cancelled, slots, fileEffective, purge>>

(* An item that cannot be resolved is listed as failed *)
failResolve(i) ==
  /\ Turn(i) /\ Spend("failures")
  /\ item' = Moved({i}, "ended")
  /\ Leaves(i)
  /\ UNCHANGED <<run, registered, cancelled, slots, fileEffective, purge>>

-----------------------------------------------------------------------------
(* startOneAttempt *)

(* Mutant: the host's last slot is never given away *)
TryBeginSparingOne(i) ==
  /\ item[i].at = "taken"
  /\ IF slots + 1 < fileEffective
     THEN /\ slots' = slots + 1
          /\ item' = Moved({i}, "started")
          /\ run' = [run EXCEPT ![Current(i)] = "admitted"]
     ELSE /\ item' = Moved({i}, "full")
          /\ UNCHANGED <<run, slots>>
  /\ UNCHANGED <<drainer, registered, cancelled, fileEffective, purge, used>>

TryBeginPrefetch(i) ==
  /\ item[i].at = "taken"
  /\ IF slots < fileEffective
     THEN /\ slots' = slots + 1
          /\ item' = Moved({i}, "started")
          /\ run' = [run EXCEPT ![Current(i)] = "admitted"]
     ELSE /\ item' = Moved({i}, "full")
          /\ UNCHANGED <<run, slots>>
  /\ UNCHANGED <<drainer, registered, cancelled, fileEffective, purge, used>>

(* One URL waits once, be it for a slot or for its retry *)
enqueueWaiting(i) ==
  /\ item[i].at = "full"
  /\ LET twin == \E j \in At({"waiting", "delayed"}) : UrlOf[j] = UrlOf[i]
     IN item' = Moved({i}, IF twin THEN "merged" ELSE "waiting")
  /\ UNCHANGED <<drainer, run, registered, cancelled, slots, fileEffective, purge, used>>

(* Mutant: s.cancel is overwritten *)
RegisterAlways(r) ==
  /\ Goto(r, "admitted", "running")
  /\ registered' = [registered EXCEPT ![Url(r)] = r]
  /\ UNCHANGED <<item, drainer, cancelled, slots, fileEffective, purge, used>>

(* A URL that is being prefetched is not prefetched again *)
Register(r) ==
  /\ IF registered[Url(r)] = None
     THEN /\ Goto(r, "admitted", "running")
          /\ registered' = [registered EXCEPT ![Url(r)] = r]
          /\ UNCHANGED item
     ELSE /\ Goto(r, "admitted", "duplicate")
          /\ item' = Moved({r[1]}, "merged")
          /\ UNCHANGED registered
  /\ UNCHANGED <<drainer, cancelled, slots, fileEffective, purge, used>>

EndDuplicate(r) ==
  /\ Goto(r, "duplicate", "gone")
  /\ slots' = slots - 1
  /\ UNCHANGED <<item, drainer, registered, cancelled, fileEffective, purge, used>>

-----------------------------------------------------------------------------
(* The goroutine *)

MayRetry(r) == r[2] + 1 < MaxAttempts

(* The download ends.  A failure is retried later if it is recoverable,    *)
(* attempts are left and the context is not cancelled at this moment.      *)
FinishRun(r) ==
  \/ /\ Goto(r, "running", "ending")
     /\ item' = Moved({r[1]}, "ended")
     /\ \/ UNCHANGED used
        \/ Spend("failures")
     /\ UNCHANGED <<drainer, registered, cancelled, slots, fileEffective, purge>>
  \/ /\ Goto(r, "running", "retrying")
     /\ MayRetry(r) /\ r \notin cancelled
     /\ Spend("failures")
     /\ UNCHANGED <<item, drainer, registered, cancelled, slots, fileEffective, purge>>

(* The retry takes the place of a waiting start of the same URL *)
Later(i, place) ==
  [Moved({j \in At({"waiting"}) : UrlOf[j] = UrlOf[i]}, "merged") EXCEPT
     ![i] = [at |-> place, attempt |-> IF place = "delayed" THEN @.attempt + 1
                                       ELSE @.attempt]]

(* The retry takes the place of a waiting start of the same URL and merges *)
(* with another retry.                                                     *)
enqueueDelayed(r) ==
  /\ Goto(r, "retrying", "ending")
  /\ LET twin == \E j \in At({"delayed"}) : UrlOf[j] = Url(r)
     IN item' = Later(r[1], IF twin THEN "merged" ELSE "delayed")
  /\ UNCHANGED <<drainer, registered, cancelled, slots, fileEffective, purge, used>>

(* The deferred function gives the slot back, then removes what is         *)
(* registered for the URL and cancels its own context                      *)
EndPrefetch(r) ==
  /\ Goto(r, "ending", "unregister")
  /\ slots' = IF slots > 0 THEN slots - 1 ELSE 0
  /\ UNCHANGED <<item, drainer, registered, cancelled, fileEffective, purge, used>>

Unregister(r) ==
  /\ Goto(r, "unregister", "gone")
  /\ registered' = [registered EXCEPT ![Url(r)] = None]
  /\ cancelled' = cancelled \cup {r}
  /\ UNCHANGED <<item, drainer, slots, fileEffective, purge, used>>

-----------------------------------------------------------------------------
(* Management requests *)

\* Those of `rs` the scheduler aborts: their task is bound (module Scheduler)
Aborted(rs) == SUBSET (rs \cap RunsAt({"running"}))
OfUrl(u) == {r \in Runs : Url(r) = u}

Cancel(u) ==
  /\ Spend("aborts")
  /\ \E rs \in Aborted(OfUrl(u)) :
       cancelled' = cancelled \cup rs \cup ({registered[u]} \ {None})
  /\ registered' = [registered EXCEPT ![u] = None]
  /\ UNCHANGED <<item, drainer, run, slots, fileEffective, purge>>

(* Purge, PurgeAll and CancelMatching: the scheduler, the registered       *)
(* downloads, the queue and the two lists, in this order                   *)
BeginPurge ==
  /\ purge = "idle"
  /\ Spend("aborts")
  /\ \E rs \in Aborted(Runs) : cancelled' = cancelled \cup rs
  /\ purge' = "abort"
  /\ UNCHANGED <<item, drainer, run, registered, slots, fileEffective>>

abortDownloadsMatching ==
  /\ purge = "abort"
  /\ cancelled' = cancelled \cup ({registered[u] : u \in Urls} \ {None})
  /\ registered' = [u \in Urls |-> None]
  /\ purge' = "manual"
  /\ UNCHANGED <<item, drainer, run, slots, fileEffective, used>>

PurgeQueue(from, places, to) ==
  /\ purge = from
  /\ item' = Moved(At(places), "purged")
  /\ purge' = to
  /\ UNCHANGED <<drainer, run, registered, cancelled, slots, fileEffective, used>>

clearManualMatching == PurgeQueue("manual", {"manual"}, "deferred")
clearDeferredMatching == PurgeQueue("deferred", {"delayed", "waiting"}, "idle")

-----------------------------------------------------------------------------
(* The governor's limit of files at once: down by half when the host       *)
(* stalls or answers 429, up by one after a series of successes            *)
ObserveHost ==
  /\ Spend("adjusts")
  /\ \/ fileEffective' = IF fileEffective \div 2 < 1 THEN 1 ELSE fileEffective \div 2
     \/ fileEffective < FileCeiling /\ fileEffective' = fileEffective + 1
  /\ UNCHANGED <<item, drainer, run, registered, cancelled, slots, purge>>

Tick ==
  \/ \E d \in Items \cup {Loop} : drainManual(d)
  \/ drainWaiting
  \/ \E ready \in SUBSET At({"delayed"}) : drainDelayed(ready)
ItemStep(i) ==
  expandItem(i) \/ expandHalts(i) \/ failResolve(i) \/ TryBeginPrefetch(i) \/
  enqueueWaiting(i)
RunStep(r) ==
  \/ Register(r) \/ EndDuplicate(r) \/ FinishRun(r) \/ enqueueDelayed(r)
  \/ EndPrefetch(r) \/ Unregister(r)
PurgeStep == abortDownloadsMatching \/ clearManualMatching \/ clearDeferredMatching

Next ==
  \/ \E i \in Items : EnqueuePlatform(i) \/ ItemStep(i)
  \/ \E r \in Runs : RunStep(r)
  \/ \E u \in Urls : Cancel(u)
  \/ Tick \/ BeginPurge \/ PurgeStep \/ ObserveHost

Spec == Init /\ [][Next]_vars

(* Goroutines and requests go on, downloads are watched and end, and the   *)
(* loop ticks when it is free, until every retry is due.  A submission's   *)
(* goroutine drains after the submission is queued.  Nothing frees a drain *)
(* whose expansion is silent.                                              *)
FairSpec ==
  /\ Spec
  /\ \A i \in Items : WF_vars(item[i].at = "manual" /\ drainManual(i))
  /\ WF_vars(LoopIsFree /\ drainWaiting) /\ WF_vars(drainDelayed(At({"delayed"})))
  /\ \A i \in Items : WF_vars(ItemStep(i))
  /\ \A r \in Runs : WF_vars(RunStep(r))
  /\ WF_vars(PurgeStep)

-----------------------------------------------------------------------------
(* Properties *)

TypeOK ==
  /\ item \in [Items -> [at : {"new", "manual", "expanding", "silent", "taken", "full",
                               "waiting", "delayed", "started", "merged", "purged",
                               "ended"},
                         attempt : 0..(MaxAttempts - 1)]]
  /\ drainer \in [Items -> Items \cup {Loop, None}]
  /\ run \in [Runs -> {"off", "admitted", "duplicate", "running", "retrying",
                       "ending", "unregister", "gone"}]
  /\ registered \in [Urls -> Runs \cup {None}]
  /\ cancelled \subseteq Runs
  /\ slots \in Nat
  /\ fileEffective \in 1..FileCeiling
  /\ purge \in {"idle", "abort", "manual", "deferred"}

(* The host's count of files in flight is the number of runs between       *)
(* getting a slot and giving it back, whichever of the ways out they took: *)
(* a leaked slot would stop prefetching from the host for ever.            *)
SlotAccounting ==
  slots = Cardinality(RunsAt({"admitted", "duplicate", "running", "retrying", "ending"}))

(* One URL is put off at most once, be it for a slot or for a retry.       *)
DeferredOnce ==
  \A i, j \in At({"waiting", "delayed"}) : UrlOf[i] = UrlOf[j] => i = j

(* Unless somebody cancels, one URL is downloaded by one run at a time.    *)
OneRunPerUrl ==
  used.aborts = 0 =>
    \A r, s \in RunsAt({"running", "retrying"}) : Url(r) = Url(s) => r = s

(* Together, through duplicates, retries, cancellations and purges.        *)
PrefetchAccounting == TypeOK /\ SlotAccounting /\ DeferredOnce /\ OneRunPerUrl

(* Items that a silent expansion keeps: it and what else is in the copy of *)
(* its drain and, if that is the loop, all that are put off.               *)
Stuck(i) ==
  \E j \in At({"silent"}) :
    \/ drainer[j] = drainer[i]
    \/ drainer[j] = Loop /\ item[i].at \in {"waiting", "delayed"}

(* Every submitted item is worked off: again and again there is a time when *)
(* each has ended, was merged with one of the same URL, was purged, or is   *)
(* stuck behind an upstream that has gone silent in an expansion.           *)
EveryItemEnds ==
  []<>(\A i \in Items : item[i].at \in {"new", "ended", "merged", "purged"} \/ Stuck(i))
=============================================================================
