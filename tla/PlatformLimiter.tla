--------------------------- MODULE PlatformLimiter ---------------------------
(***************************************************************************)
(* One platform's limiter (internal/ratelimit/ratelimit.go): the task      *)
(* slots, taken and given back under p.mu, and the connections, which are  *)
(* not: AcquireConn checks activeConns under p.mu, sends to the semaphore  *)
(* channel outside it and counts under it again; ReleaseConn drains the    *)
(* channel first and uncounts later; ApplyConfig replaces the channel.     *)
(*                                                                         *)
(* A user is a download that holds a task slot, a worker a goroutine that  *)
(* holds a connection (a stream, a serial download or one chunk).  p.connSem*)
(* is read without the lock, so a worker may go on with the channel it     *)
(* read before ApplyConfig swapped it: channels are numbered by generation.*)
(* The waits of 5 ms between two attempts are stuttering.  Bandwidth,      *)
(* wait samples and prefetchPaused (module Scheduler) are left out.        *)
(***************************************************************************)
EXTENDS Integers, FiniteSets

CONSTANTS
  Users,         \* downloads that take task slots
  Workers,       \* goroutines that take connections
  Interactive,   \* the users and workers of interactive downloads
  MaxTaskSizes,  \* values of rate_limit.max_concurrent
  MaxConnSizes,  \* values of rate_limit.max_connections
  MaxApplies,    \* bound on the configuration updates
  MaxRounds      \* bound on the connections a worker takes in turn

ASSUME LimiterConstants ==
  /\ IsFiniteSet(Users) /\ IsFiniteSet(Workers)
  /\ MaxTaskSizes \subseteq Nat \ {0}
  /\ MaxConnSizes \subseteq Nat \ {0}
  /\ MaxApplies \in Nat /\ MaxRounds \in Nat

VARIABLES
  maxTask,      \* p.cfg.MaxConcurrent
  maxConn,      \* capacity of each generation of the channel
  sem,          \* tokens in each generation of the channel
  gen,          \* the generation p.connSem points to
  taskReserve,  \* p.taskReserve: on_interactive is "continue"
  activeTasks, activeBoost, activeConns,
  user,         \* what each user holds: "none", "normal" or "boost"
  worker        \* each worker's step, the channel it loaded, rounds so far

vars == <<maxTask, maxConn, sem, gen, taskReserve, activeTasks, activeBoost,
          activeConns, user, worker>>
taskVars == <<activeTasks, activeBoost, user>>
connVars == <<sem, activeConns, worker>>
cfgVars == <<maxTask, maxConn, gen, taskReserve>>

AtLeast(n, low) == IF n < low THEN low ELSE n
AtMost(n, high) == IF n > high THEN high ELSE n

boostSlotsFor(max) == AtMost(AtLeast(max \div 5, 2), max)

(* Half of a small pool, never less than one: the reserve of connReservedFor *)
(* (a tenth, at least 8) and interactiveReserveFor (a tenth, at least 2)     *)
Reserve(max, least) ==
  LET r == AtLeast(max \div 10, least)
  IN IF r >= max THEN AtLeast(max \div 2, 1) ELSE r

connReservedFor(max) == Reserve(max, 8)
interactiveReserveFor(max) == Reserve(max, 2)

Generations == 0..MaxApplies

Init ==
  /\ maxTask \in MaxTaskSizes
  /\ \E c \in MaxConnSizes : maxConn = [g \in Generations |-> IF g = 0 THEN c ELSE 1]
  /\ sem = [g \in Generations |-> 0]
  /\ gen = 0
  /\ taskReserve \in BOOLEAN
  /\ activeTasks = 0 /\ activeBoost = 0 /\ activeConns = 0
  /\ user = [u \in Users |-> "none"]
  /\ worker = [w \in Workers |-> [pc |-> "idle", chan |-> 0, rounds |-> 0]]

-----------------------------------------------------------------------------
(* Task slots *)

(* Mutant: the reserve is not subtracted *)
TaskLimitWithoutReserve(interactive) == maxTask

(* The slots a normal (not boosted) download may fill *)
TaskLimit(interactive) ==
  IF ~interactive /\ taskReserve
  THEN AtLeast(maxTask - interactiveReserveFor(maxTask), 1)
  ELSE maxTask

AcquireTask(u, boost) ==
  /\ user[u] = "none"
  /\ IF boost
     THEN /\ activeBoost < boostSlotsFor(maxTask)
          /\ activeBoost' = activeBoost + 1
     ELSE /\ AtLeast(activeTasks - activeBoost, 0) < TaskLimit(u \in Interactive)
          /\ UNCHANGED activeBoost
  /\ activeTasks' = activeTasks + 1
  /\ user' = [user EXCEPT ![u] = IF boost THEN "boost" ELSE "normal"]
  /\ UNCHANGED <<cfgVars, connVars>>

(* Mutant: a boosted download gives back a normal slot *)
ReleaseTaskForgetsBoost(u) ==
  /\ user[u] # "none"
  /\ activeTasks' = AtLeast(activeTasks - 1, 0)
  /\ user' = [user EXCEPT ![u] = "none"]
  /\ UNCHANGED <<cfgVars, connVars, activeBoost>>

ReleaseTask(u) ==
  /\ user[u] # "none"
  /\ activeTasks' = AtLeast(activeTasks - 1, 0)
  /\ activeBoost' = IF user[u] = "boost" THEN AtLeast(activeBoost - 1, 0)
                    ELSE activeBoost
  /\ user' = [user EXCEPT ![u] = "none"]
  /\ UNCHANGED <<cfgVars, connVars>>

-----------------------------------------------------------------------------
(* Connections *)

ConnLimit(interactive) ==
  IF interactive THEN maxConn[gen]
  ELSE AtLeast(maxConn[gen] - connReservedFor(maxConn[gen]), 1)

Step(w, from, to) ==
  /\ worker[w].pc = from
  /\ worker' = [worker EXCEPT ![w].pc = to]

(* AcquireConn under p.mu: is there room below the limit of this class? *)
CheckConn(w) ==
  /\ worker[w].rounds < MaxRounds
  /\ activeConns < ConnLimit(w \in Interactive)
  /\ Step(w, "idle", "checked")
  /\ UNCHANGED <<cfgVars, taskVars, sem, activeConns>>

(* The channel operand of a select is read without the lock *)
Load(w, from, to) ==
  /\ worker[w].pc = from
  /\ worker' = [worker EXCEPT ![w].pc = to, ![w].chan = gen]
  /\ UNCHANGED <<cfgVars, taskVars, sem, activeConns>>

LoadForSend(w) == Load(w, "checked", "sending")

(* The send of the select, or its default: back to the loop *)
SendToken(w) ==
  LET c == worker[w].chan
  IN /\ IF sem[c] < maxConn[c]
        THEN /\ Step(w, "sending", "sent")
             /\ sem' = [sem EXCEPT ![c] = @ + 1]
        ELSE /\ Step(w, "sending", "idle")
             /\ UNCHANGED sem
     /\ UNCHANGED <<cfgVars, taskVars, activeConns>>

CountConn(w) ==
  /\ Step(w, "sent", "holding")
  /\ activeConns' = activeConns + 1
  /\ UNCHANGED <<cfgVars, taskVars, sem>>

LoadForDrain(w) == Load(w, "holding", "draining")

(* Mutant: the token is not taken out *)
DrainNothing(w) ==
  /\ Step(w, "draining", "drained")
  /\ UNCHANGED <<cfgVars, taskVars, sem, activeConns>>

(* ReleaseConn: a token leaves the channel, if there is one *)
DrainToken(w) ==
  LET c == worker[w].chan
  IN /\ Step(w, "draining", "drained")
     /\ sem' = [sem EXCEPT ![c] = AtLeast(@ - 1, 0)]
     /\ UNCHANGED <<cfgVars, taskVars, activeConns>>

(* ReleaseConn, then under p.mu *)
UncountConn(w) ==
  /\ worker[w].pc = "drained"
  /\ worker' = [worker EXCEPT ![w] = [pc |-> "idle", chan |-> 0,
                                      rounds |-> worker[w].rounds + 1]]
  /\ activeConns' = AtLeast(activeConns - 1, 0)
  /\ UNCHANGED <<cfgVars, taskVars, sem>>

-----------------------------------------------------------------------------
(* Configuration *)

(* ApplyConfig: resizeSem fills a new channel with the counted connections *)
ApplyConfig(tasks, conns) ==
  /\ gen < MaxApplies
  /\ gen' = gen + 1
  /\ maxTask' = tasks
  /\ maxConn' = [maxConn EXCEPT ![gen + 1] = conns]
  /\ sem' = [sem EXCEPT ![gen + 1] = AtMost(activeConns, conns)]
  /\ UNCHANGED <<taskReserve, taskVars, activeConns, worker>>

(* SetInteractiveTaskReserve follows every configuration update *)
SetInteractiveTaskReserve(enable) ==
  /\ gen > 0
  /\ taskReserve' = enable
  /\ UNCHANGED <<maxTask, maxConn, gen, taskVars, connVars>>

WorkerStep(w) ==
  \/ CheckConn(w) \/ LoadForSend(w) \/ SendToken(w) \/ CountConn(w)
  \/ LoadForDrain(w) \/ DrainToken(w) \/ UncountConn(w)

Next ==
  \/ \E u \in Users : ReleaseTask(u) \/ \E boost \in BOOLEAN : AcquireTask(u, boost)
  \/ \E w \in Workers : WorkerStep(w)
  \/ \E tasks \in MaxTaskSizes, conns \in MaxConnSizes : ApplyConfig(tasks, conns)
  \/ \E enable \in BOOLEAN : SetInteractiveTaskReserve(enable)

Spec == Init /\ [][Next]_vars

(* Every goroutine runs on: it polls for a connection, uses it for a       *)
(* bounded time and gives it back; downloads give their task slots back.   *)
FairSpec == /\ Spec
            /\ \A w \in Workers : WF_vars(WorkerStep(w))
            /\ \A u \in Users : WF_vars(ReleaseTask(u))

-----------------------------------------------------------------------------
(* Properties *)

TypeOK ==
  /\ maxTask \in MaxTaskSizes
  /\ maxConn \in [Generations -> Nat \ {0}]
  /\ sem \in [Generations -> Nat]
  /\ gen \in Generations
  /\ taskReserve \in BOOLEAN
  /\ activeTasks \in Nat /\ activeBoost \in Nat /\ activeConns \in Nat
  /\ user \in [Users -> {"none", "normal", "boost"}]
  /\ worker \in [Workers -> [pc : {"idle", "checked", "sending", "sent",
                                   "holding", "draining", "drained"},
                             chan : Generations, rounds : 0..MaxRounds]]

UsersWith(kinds) == {u \in Users : user[u] \in kinds}
WorkersAt(pcs) == {w \in Workers : worker[w].pc \in pcs}
Connected == WorkersAt({"sent", "holding", "draining"})

(* activeTasks and activeBoost are the downloads that hold a slot, so the   *)
(* pools never shrink for good after a mix of boosted and normal downloads. *)
TaskAccounting ==
  /\ activeTasks = Cardinality(UsersWith({"normal", "boost"}))
  /\ activeBoost = Cardinality(UsersWith({"boost"}))

(* In continue mode without configuration changes, prefetch never fills     *)
(* the normal slots kept for interactive downloads.                         *)
TaskReserveKept ==
  gen = 0 /\ taskReserve =>
    Cardinality(UsersWith({"normal"}) \ Interactive)
      <= AtLeast(maxTask - interactiveReserveFor(maxTask), 1)

(* Without a configuration update, every token belongs to a connection in   *)
(* use and every counted connection to a worker that counted it.            *)
ConnAccounting ==
  /\ gen = 0 => sem[0] = Cardinality(Connected)
  /\ activeConns = Cardinality(WorkersAt({"holding", "draining", "drained"}))

(* Both together: whatever is acquired and released in whichever order,     *)
(* what is counted is what is in use.                                       *)
Accounting == TypeOK /\ TaskAccounting /\ ConnAccounting

(* Every worker that asks for a connection gets all its turns: no slot is    *)
(* lost, so nobody polls forever while every connection is free.             *)
EveryWorkerServed == <>(\A w \in Workers : worker[w].rounds = MaxRounds)

(* The same as long as the configuration is not updated.                    *)
ServedUnlessReloaded == [](gen = 0) => EveryWorkerServed

=============================================================================
