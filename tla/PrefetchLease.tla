--------------------------- MODULE PrefetchLease ---------------------------
(* downloader/lease.go and the gate inside limitReader.Read: prefetches    *)
(* that share the task slots of a platform.  The workers of one download   *)
(* share its lease; a worker that sees the pause gives the download's slot *)
(* back, and takes one again afterwards, for all of them.                  *)
(*                                                                         *)
(* `paused` is PrefetchPaused, the gate of the task (prefetchAllow) or     *)
(* both; module Scheduler moves it.  Connections are PlatformLimiter's.    *)
EXTENDS Naturals, FiniteSets

CONSTANTS Downloads, Workers,   \* prefetches, and the workers each of them has
          Slots,                \* task slots of the platform
          Blocks,               \* reads a worker needs
          MaxPauses, MaxCancels \* bounds on pauses and cancellations

VARIABLES
  paused,
  used,        \* activeTasks
  dl,          \* per download: [pc, held, acquiring, cancelled]
  worker,      \* per download and worker: [pc, from, left]
  pauses, cancels

vars == <<paused, used, dl, worker, pauses, cancels>>

(* A worker that waits on acquireWait holds the channel of one acquisition: *)
(* closing it moves all who wait on it back to the top of ensureHeld.       *)
Acquiring == {"slotGate", "slot", "recheck", "acquired", "slotFailed"}
WorkerPc == {"off", "gate", "read", "blocked", "poll", "ensure", "await", "end"} \cup Acquiring
AllWorkers == Downloads \X Workers

Init ==
  /\ paused \in BOOLEAN
  /\ used = 0
  /\ dl = [d \in Downloads |->
             [pc |-> "slotGate", held |-> FALSE, acquiring |-> FALSE, cancelled |-> FALSE]]
  /\ worker = [x \in AllWorkers |-> [pc |-> "off", from |-> "gate", left |-> Blocks]]
  /\ pauses = 0 /\ cancels = 0

Move(x, p) == worker' = [worker EXCEPT ![x].pc = p]

-----------------------------------------------------------------------------
(* acquireTaskSlot, first by the download itself, later by its workers,    *)
(* as a step for `d` from `at` to `to`.  The pause is looked at again once *)
(* the slot is taken.                                                      *)
WaitNotPaused(at, d, to) ==
  /\ at = "slotGate"
  /\ IF dl[d].cancelled THEN to = "slotFailed" ELSE ~paused /\ to = "slot"
  /\ UNCHANGED used

(* A free slot is taken even when the context has ended meanwhile *)
AcquireTask(at, d, to) ==
  /\ at = "slot"
  /\ IF used < Slots THEN to = "recheck" /\ used' = used + 1
     ELSE dl[d].cancelled /\ to = "slotFailed" /\ UNCHANGED used

Recheck(at, to) ==
  /\ at = "recheck"
  /\ IF paused THEN to = "slotGate" /\ used' = used - 1
     ELSE to = "acquired" /\ UNCHANGED used

AcquireTaskSlot(at, d, to) ==
  WaitNotPaused(at, d, to) \/ AcquireTask(at, d, to) \/ Recheck(at, to)

(* Download: take a slot, then start the workers with a lease that holds it *)
StartDownload(d) ==
  /\ \E to \in Acquiring :
       AcquireTaskSlot(dl[d].pc, d, to) /\ dl' = [dl EXCEPT ![d].pc = to]
  /\ UNCHANGED <<paused, worker, pauses, cancels>>

RunWorkers(d) ==
  /\ dl[d].pc = "acquired"
  /\ dl' = [dl EXCEPT ![d].pc = "running", ![d].held = TRUE]
  /\ worker' = [x \in AllWorkers |-> IF x[1] = d THEN [worker[x] EXCEPT !.pc = "gate"]
                                     ELSE worker[x]]
  /\ UNCHANGED <<paused, used, pauses, cancels>>

(* prefetchLease.release, under l.mu *)
ReleaseUnheld(d) ==        \* mutant: whether it is held or not
  used' = used - 1 /\ dl' = [dl EXCEPT ![d].held = FALSE]

Release(d) ==
  IF dl[d].held
  THEN used' = used - 1 /\ dl' = [dl EXCEPT ![d].held = FALSE]
  ELSE UNCHANGED <<used, dl>>

(* The deferred close, once all workers have returned *)
CloseLease(d) ==
  /\ \/ dl[d].pc = "running" /\ \A w \in Workers : worker[<<d, w>>].pc = "end"
     \/ dl[d].pc = "slotFailed"
  /\ used' = IF dl[d].held THEN used - 1 ELSE used
  /\ dl' = [dl EXCEPT ![d].pc = "over", ![d].held = FALSE]
  /\ UNCHANGED <<paused, worker, pauses, cancels>>

-----------------------------------------------------------------------------
(* waitPrefetchGate, before a request *)
PassGate(x) ==
  /\ worker[x].pc = "gate"
  /\ worker' = [worker EXCEPT ![x].pc = IF paused THEN "blocked" ELSE "read",
                              ![x].from = "gate"]
  /\ UNCHANGED <<paused, used, dl, pauses, cancels>>

(* limitReader.Read: the same gate, then some bytes or the end of the body *)
Read(x) ==
  /\ worker[x].pc = "read"
  /\ worker' = [worker EXCEPT
       ![x].pc = IF paused THEN "blocked"
                 ELSE IF dl[x[1]].cancelled \/ worker[x].left = 1 THEN "end" ELSE "read",
       ![x].from = "read",
       ![x].left = IF paused THEN @ ELSE @ - 1]
  /\ UNCHANGED <<paused, used, dl, pauses, cancels>>

(* The pause was seen; it may be over when the lease is given back *)
GiveBack(x) ==
  /\ worker[x].pc = "blocked"
  /\ Release(x[1])
  /\ Move(x, "poll")
  /\ UNCHANGED <<paused, pauses, cancels>>

Poll(x) ==
  /\ worker[x].pc = "poll"
  /\ \/ dl[x[1]].cancelled /\ Move(x, "end")
     \/ Move(x, IF paused THEN "blocked" ELSE "ensure")
  /\ UNCHANGED <<paused, used, dl, pauses, cancels>>

(* After the gate the request is made; inside a body the worker connects anew *)
Resumed(x) == IF worker[x].from = "gate" THEN "read" ELSE "gate"

(* ensureHeld, under l.mu: held, wait for the one who acquires, or acquire *)
EnsureHeld(x) ==
  LET d == x[1]
  IN /\ worker[x].pc = "ensure"
     /\ IF dl[d].held THEN Move(x, Resumed(x)) /\ UNCHANGED dl
        ELSE IF dl[d].acquiring THEN Move(x, "await") /\ UNCHANGED dl
        ELSE Move(x, "slotGate") /\ dl' = [dl EXCEPT ![d].acquiring = TRUE]
     /\ UNCHANGED <<paused, used, pauses, cancels>>

AwaitCancelled(x) ==
  /\ worker[x].pc = "await" /\ dl[x[1]].cancelled
  /\ Move(x, "end")
  /\ UNCHANGED <<paused, used, dl, pauses, cancels>>

AcquireAgain(x) ==
  /\ \E to \in Acquiring : AcquireTaskSlot(worker[x].pc, x[1], to) /\ Move(x, to)
  /\ UNCHANGED <<paused, dl, pauses, cancels>>

(* The end of an acquisition, under l.mu; the channel is closed *)
Woken(d) == {x \in AllWorkers : x[1] = d /\ worker[x].pc = "await"}

Acquired(x) ==
  LET d == x[1]
      ok == worker[x].pc = "acquired"
  IN /\ worker[x].pc \in {"acquired", "slotFailed"}
     /\ dl' = [dl EXCEPT ![d].acquiring = FALSE, ![d].held = @ \/ ok]
     /\ worker' = [y \in AllWorkers |->
                     IF y = x THEN [worker[y] EXCEPT !.pc = IF ok THEN Resumed(x) ELSE "end"]
                     ELSE IF y \in Woken(d) THEN [worker[y] EXCEPT !.pc = "ensure"]
                     ELSE worker[y]]
     /\ UNCHANGED <<paused, used, pauses, cancels>>

-----------------------------------------------------------------------------
(* Environment: the scheduler, and those who cancel *)
Pause ==
  /\ ~paused /\ pauses < MaxPauses
  /\ paused' = TRUE /\ pauses' = pauses + 1
  /\ UNCHANGED <<used, dl, worker, cancels>>

Resume ==
  /\ paused /\ paused' = FALSE
  /\ UNCHANGED <<used, dl, worker, pauses, cancels>>

CancelDownload(d) ==
  /\ ~dl[d].cancelled /\ cancels < MaxCancels
  /\ dl' = [dl EXCEPT ![d].cancelled = TRUE]
  /\ cancels' = cancels + 1
  /\ UNCHANGED <<paused, used, worker, pauses>>

DownloadStep(d) == StartDownload(d) \/ RunWorkers(d) \/ CloseLease(d)
WorkerStep(x) ==
  \/ PassGate(x) \/ Read(x) \/ GiveBack(x) \/ Poll(x)
  \/ EnsureHeld(x) \/ AwaitCancelled(x) \/ AcquireAgain(x) \/ Acquired(x)

Next ==
  \/ \E d \in Downloads : DownloadStep(d) \/ CancelDownload(d)
  \/ \E x \in AllWorkers : WorkerStep(x)
  \/ Pause \/ Resume

Spec == Init /\ [][Next]_vars

(* Goroutines run, bodies deliver or end (the stall watchdog), polls tick *)
Fairness ==
  /\ \A d \in Downloads : WF_vars(DownloadStep(d))
  /\ \A x \in AllWorkers : WF_vars(WorkerStep(x))

-----------------------------------------------------------------------------
(* Properties *)

TypeOK ==
  /\ paused \in BOOLEAN /\ used \in Nat
  /\ dl \in [Downloads -> [pc : {"running", "over"} \cup Acquiring, held : BOOLEAN,
                           acquiring : BOOLEAN, cancelled : BOOLEAN]]
  /\ worker \in [AllWorkers -> [pc : WorkerPc, from : {"gate", "read"}, left : 0..Blocks]]
  /\ pauses \in 0..MaxPauses /\ cancels \in 0..MaxCancels

Taken == {"recheck", "acquired"}

(* The slots in use are those the leases hold and those somebody has just  *)
(* taken: none leaks and none is given back twice, in whatever order the   *)
(* workers of a download see the pause, give the slot back and acquire it. *)
(* At most one of them acquires, nobody waits for an acquisition that is   *)
(* over, and a download that has ended leaves nothing behind.              *)
SlotsAreLeases ==
  /\ used <= Slots
  /\ used = Cardinality({d \in Downloads : dl[d].held})
            + Cardinality({d \in Downloads : dl[d].pc \in Taken})
            + Cardinality({x \in AllWorkers : worker[x].pc \in Taken})
  /\ \A d \in Downloads :
       LET acquirers == {w \in Workers : worker[<<d, w>>].pc \in Acquiring}
       IN /\ Cardinality(acquirers) = IF dl[d].acquiring THEN 1 ELSE 0
          /\ Woken(d) # {} => dl[d].acquiring
          /\ dl[d].held => ~dl[d].acquiring
          /\ dl[d].pc = "over" => ~dl[d].held /\ ~dl[d].acquiring

(* While the pause lasts prefetches give all their slots back, so that     *)
(* interactive downloads do not starve; while it is lifted every prefetch  *)
(* gets through its reads and ends.                                        *)
PausedGivesBack == <>[]paused => <>[](used = 0)
PrefetchEnds == <>[]~paused => <>(\A d \in Downloads : dl[d].pc = "over")
=============================================================================
