------------------------------- MODULE MCQueues -------------------------------
(* What Clear and Purge go through step by step while others go on: the      *)
(* writers of the cache (MCCacheStore) and the queues and runs of the        *)
(* prefetch service (MCPrefetchService), checked in one run.  The initial    *)
(* state chooses the one that runs; the other stays where it begins.         *)
EXTENDS MCCacheStore, MCPrefetchService

VARIABLE turn

prefetch == <<item, drainer, run, registered, cancelled, slots, fileEffective, purge, spent>>
all == <<turn, vars, prefetch>>

QueuesInit ==
  /\ turn \in {"cache", "prefetch"}
  /\ Init /\ P!Init
  /\ turn # "cache" => quota = CHOOSE q \in Quotas : TRUE

OnCache(A) == turn = "cache" /\ A /\ UNCHANGED <<turn, prefetch>>
OnPrefetch(A) == turn = "prefetch" /\ A /\ UNCHANGED <<turn, vars>>

QueuesNext == OnCache(Next) \/ OnPrefetch(P!Next)

(* The fairness of the prefetch service: `turn` never changes.  The          *)
(* properties of the cache need none.                                        *)
QueuesSpec ==
  /\ QueuesInit /\ [][QueuesNext]_all
  /\ \A i \in Items :
       WF_all(OnPrefetch(item[i].at = "manual" /\ P!drainManual(i)))
  /\ WF_all(OnPrefetch(P!LoopIsFree /\ P!drainWaiting))
  /\ WF_all(OnPrefetch(P!drainDelayed(P!At({"delayed"}))))
  /\ \A i \in Items : WF_all(OnPrefetch(P!ItemStep(i)))
  /\ \A r \in P!Runs : WF_all(OnPrefetch(P!RunStep(r)))
  /\ WF_all(OnPrefetch(P!PurgeStep))
=============================================================================
