----------------------------- MODULE MCScheduler -----------------------------
(* Small instances of Scheduler: tasks t1 and t2 share a URL, t3 is of     *)
(* another URL and platform.                                                *)
EXTENDS Scheduler, TLC

CONSTANTS t1, t2, t3, u1, u2, pypi, npm, a1

MCUrlOf == [t \in Tasks |-> IF t = t3 THEN u2 ELSE u1]
MCPlatformOf == [u \in Urls |-> IF u = u1 THEN pypi ELSE npm]

\* Tasks of one URL are interchangeable (safety runs only).
TaskSymmetry == Permutations({t1, t2})

(* Two tasks and one management request, or one task and two requests, of   *)
(* which a1 makes the first.                                                *)
Begun == {t \in Tasks : owner[t] # "none"}
Affordable == Cardinality(Begun) + ops < 3

(* All that the budget admits has happened.                                 *)
Exhausted ==
  /\ ~Affordable /\ \A t \in Begun : owner[t] = "gone"
  /\ timer = "off" /\ firing = 0 /\ \A a \in Admins : admin[a] = IdleAdmin
  /\ UNCHANGED vars

BudgetNext ==
  \/ \E t \in Tasks : (Affordable /\ Begin(t)) \/ OwnerStep(t) \/ OwnerMark(t)
  \/ \E a \in Admins :
       (Affordable /\ (ops = 0 => a = a1) /\ AdminRequest(a)) \/ AdminStep(a)
  \/ TimerFire \/ ApplyPrefetchResumeIdle \/ List \/ Terminated \/ Exhausted

BudgetSpec == Init /\ [][BudgetNext]_vars /\ Fairness
=============================================================================
