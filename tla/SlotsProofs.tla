----------------------------- MODULE SlotsProofs -----------------------------
(***************************************************************************)
(* Proofs that what is counted is what is in use: the limiter's counters   *)
(* of tasks and connections (PlatformLimiter), for every number of         *)
(* downloads, every pool size and every history of configuration updates,  *)
(* and the host's count of prefetched files (PrefetchService, second half  *)
(* of this module), for every number of items, URLs and attempts.  A step  *)
(* changes the place of one user, worker or run, so every set that is      *)
(* counted differs in that one at most.                                    *)
(***************************************************************************)
EXTENDS PlatformLimiter, MCPrefetchService, FiniteSetTheorems, TLAPS

(* A worker that asks for a connection has a turn left, and it knows no    *)
(* other channel than the first before the first update.                   *)
TurnLeft ==
  \A w \in Workers : worker[w].pc # "idle" => worker[w].rounds < MaxRounds
FirstChannel == gen = 0 => \A w \in Workers : worker[w].chan = 0

LimiterInv == Accounting /\ TurnLeft /\ FirstChannel

-----------------------------------------------------------------------------
One(condition) == IF condition THEN 1 ELSE 0

(* Sets that differ in one element at most differ by it in cardinality.    *)
LEMMA DiffersInOne ==
  ASSUME NEW S, NEW T, NEW e, IsFiniteSet(S), S \ {e} = T \ {e}
  PROVE  /\ Cardinality(S) \in Nat /\ Cardinality(T) \in Nat
         /\ Cardinality(T) = Cardinality(S) + One(e \in T) - One(e \in S)
<1>1. Cardinality(S) \in Nat
  BY FS_CardinalityType
<1>2. CASE (e \in S) <=> (e \in T)
  <2>1. S = T
    BY <1>2
  <2> QED BY <1>1, <1>2, <2>1 DEF One
<1>3. CASE e \notin S /\ e \in T
  <2>1. T = S \cup {e}
    BY <1>3
  <2>2. Cardinality(T) = Cardinality(S) + 1
    BY <1>3, <2>1, FS_AddElement
  <2> QED BY <1>1, <1>3, <2>2 DEF One
<1>4. CASE e \in S /\ e \notin T
  <2>1. T = S \ {e}
    BY <1>4
  <2>2. IsFiniteSet(T) /\ Cardinality(T) = Cardinality(S) - 1
    BY <1>4, <2>1, FS_RemoveElement
  <2>3. Cardinality(T) \in Nat
    BY <2>2, FS_CardinalityType
  <2> QED BY <1>1, <1>4, <2>2, <2>3 DEF One
<1> QED BY <1>2, <1>3, <1>4

(* What is counted is finite. *)
LEMMA CountedFinite ==
  ASSUME NEW kinds
  PROVE  /\ IsFiniteSet(UsersWith(kinds)) /\ Cardinality(UsersWith(kinds)) \in Nat
         /\ IsFiniteSet(WorkersAt(kinds)) /\ Cardinality(WorkersAt(kinds)) \in Nat
<1>1. UsersWith(kinds) \subseteq Users /\ WorkersAt(kinds) \subseteq Workers
  BY DEF UsersWith, WorkersAt
<1>2. IsFiniteSet(UsersWith(kinds)) /\ IsFiniteSet(WorkersAt(kinds))
  BY <1>1, LimiterConstants, FS_Subset
<1> QED BY <1>2, FS_CardinalityType

(* One user takes a slot or gives it back. *)
LEMMA UserMoves ==
  ASSUME NEW u \in Users, NEW kinds, NEW to,
         \A v \in Users : user'[v] = IF v = u THEN to ELSE user[v]
  PROVE  /\ Cardinality(UsersWith(kinds)') \in Nat
         /\ Cardinality(UsersWith(kinds)')
              = Cardinality(UsersWith(kinds)) + One(to \in kinds) - One(user[u] \in kinds)
<1>1. UsersWith(kinds) \ {u} = UsersWith(kinds)' \ {u}
  BY DEF UsersWith
<1>2. (u \in UsersWith(kinds) <=> user[u] \in kinds)
      /\ (u \in UsersWith(kinds)' <=> to \in kinds)
  BY DEF UsersWith
<1>3. Cardinality(UsersWith(kinds)') \in Nat
      /\ Cardinality(UsersWith(kinds)')
           = Cardinality(UsersWith(kinds)) + One(u \in UsersWith(kinds)')
               - One(u \in UsersWith(kinds))
  BY <1>1, CountedFinite, DiffersInOne
<1> QED BY <1>2, <1>3 DEF One

(* One worker goes to its next step. *)
LEMMA WorkerMoves ==
  ASSUME NEW w \in Workers, NEW pcs, NEW to,
         \A v \in Workers : worker'[v].pc = IF v = w THEN to ELSE worker[v].pc
  PROVE  /\ Cardinality(WorkersAt(pcs)') \in Nat
         /\ Cardinality(WorkersAt(pcs)')
              = Cardinality(WorkersAt(pcs)) + One(to \in pcs) - One(worker[w].pc \in pcs)
<1>1. WorkersAt(pcs) \ {w} = WorkersAt(pcs)' \ {w}
  BY DEF WorkersAt
<1>2. (w \in WorkersAt(pcs) <=> worker[w].pc \in pcs)
      /\ (w \in WorkersAt(pcs)' <=> to \in pcs)
  BY DEF WorkersAt
<1>3. Cardinality(WorkersAt(pcs)') \in Nat
      /\ Cardinality(WorkersAt(pcs)')
           = Cardinality(WorkersAt(pcs)) + One(w \in WorkersAt(pcs)')
               - One(w \in WorkersAt(pcs))
  BY <1>1, CountedFinite, DiffersInOne
<1> QED BY <1>2, <1>3 DEF One

-----------------------------------------------------------------------------
(* The pools begin empty. *)
LEMMA InitLimiter == Init => LimiterInv
<1> SUFFICES ASSUME Init PROVE LimiterInv
  OBVIOUS
<1> USE LimiterConstants DEF Init
<1>0. 0 \in Generations
  BY DEF Generations
<1>1. PICK c \in MaxConnSizes : maxConn = [g \in Generations |-> IF g = 0 THEN c ELSE 1]
  OBVIOUS
<1>2. TypeOK
  BY <1>0, <1>1 DEF TypeOK
<1>3. /\ UsersWith({"normal", "boost"}) = {} /\ UsersWith({"boost"}) = {}
      /\ Connected = {} /\ WorkersAt({"holding", "draining", "drained"}) = {}
  BY DEF UsersWith, WorkersAt, Connected
<1>4. Cardinality({}) = 0
  BY FS_EmptySet
<1>5. TaskAccounting /\ ConnAccounting
  BY <1>0, <1>3, <1>4 DEF TaskAccounting, ConnAccounting
<1>6. TurnLeft /\ FirstChannel
  BY DEF TurnLeft, FirstChannel
<1> QED BY <1>2, <1>5, <1>6 DEF LimiterInv, Accounting

-----------------------------------------------------------------------------
(* Task slots: the two counters follow the user that moves. *)
LEMMA TaskStepKeeps ==
  ASSUME LimiterInv, NEW u \in Users,
         ReleaseTask(u) \/ \E boost \in BOOLEAN : AcquireTask(u, boost)
  PROVE  LimiterInv'
<1> USE DEF LimiterInv, Accounting
<1>1. UNCHANGED cfgVars /\ UNCHANGED connVars
  BY DEF ReleaseTask, AcquireTask
<1>2. PICK to \in {"none", "normal", "boost"} :
         /\ user' = [user EXCEPT ![u] = to]
         /\ \/ /\ user[u] = "none" /\ to \in {"normal", "boost"}
               /\ activeTasks' = activeTasks + 1
               /\ activeBoost' = activeBoost + One(to = "boost")
            \/ /\ user[u] # "none" /\ to = "none"
               /\ activeTasks' = AtLeast(activeTasks - 1, 0)
               /\ activeBoost' = AtLeast(activeBoost - One(user[u] = "boost"), 0)
  <2>1. CASE ReleaseTask(u)
    BY <2>1 DEF ReleaseTask, One, AtLeast, TypeOK
  <2>2. CASE AcquireTask(u, TRUE)
    BY <2>2 DEF AcquireTask, One
  <2>3. CASE AcquireTask(u, FALSE)
    BY <2>3 DEF AcquireTask, One, TypeOK
  <2> QED BY <2>1, <2>2, <2>3
<1>3. \A v \in Users : user'[v] = IF v = u THEN to ELSE user[v]
  BY <1>2 DEF TypeOK
<1>4. DEFINE holds == UsersWith({"normal", "boost"})
             boosts == UsersWith({"boost"})
<1>5. /\ Cardinality(holds') = Cardinality(holds) + One(to \in {"normal", "boost"})
                                 - One(user[u] \in {"normal", "boost"})
      /\ Cardinality(boosts') = Cardinality(boosts) + One(to \in {"boost"})
                                 - One(user[u] \in {"boost"})
      /\ Cardinality(holds') \in Nat /\ Cardinality(boosts') \in Nat
  BY <1>3, UserMoves
<1>6. Cardinality(holds) \in Nat /\ Cardinality(boosts) \in Nat
  BY CountedFinite
<1>7. activeTasks' = Cardinality(holds') /\ activeBoost' = Cardinality(boosts')
  <2> HIDE DEF holds, boosts
  <2>1. activeTasks = Cardinality(holds) /\ activeBoost = Cardinality(boosts)
    BY DEF TaskAccounting, holds, boosts
  <2>2. user[u] \in {"none", "normal", "boost"}
    BY DEF TypeOK
  <2> QED BY <1>2, <1>5, <1>6, <2>1, <2>2 DEF One, AtLeast
<1>8. TaskAccounting'
  BY <1>7 DEF TaskAccounting
<1>9. TypeOK'
  BY <1>1, <1>2, <1>5, <1>7 DEF TypeOK, cfgVars, connVars
<1>10. ConnAccounting' /\ TurnLeft' /\ FirstChannel'
  BY <1>1 DEF ConnAccounting, Connected, WorkersAt, TurnLeft, FirstChannel, cfgVars, connVars
<1> QED BY <1>8, <1>9, <1>10

-----------------------------------------------------------------------------
(* Connections: whichever channel a worker has loaded, the one that is     *)
(* counted before the first update changes with the workers that hold a    *)
(* token of it.                                                            *)
LEMMA WorkerStepKeeps ==
  ASSUME LimiterInv, NEW w \in Workers, WorkerStep(w)
  PROVE  LimiterInv'
<1> USE DEF LimiterInv, Accounting
<1> DEFINE Pcs == {"idle", "checked", "sending", "sent", "holding", "draining", "drained"}
           Counted == {"holding", "draining", "drained"}
           WithToken == {"sent", "holding", "draining"}
<1>1. UNCHANGED <<cfgVars, taskVars>>
  BY DEF WorkerStep, CheckConn, LoadForSend, LoadForDrain, Load, SendToken, CountConn,
         DrainToken, UncountConn
<1>2. worker[w].chan \in Generations /\ worker[w].rounds \in 0..MaxRounds
      /\ worker[w].pc \in Pcs
  BY DEF TypeOK
<1>3. PICK to \in Pcs :
         /\ \A v \in Workers : worker'[v].pc = IF v = w THEN to ELSE worker[v].pc
         /\ worker' \in [Workers -> [pc : Pcs, chan : Generations, rounds : 0..MaxRounds]]
         /\ FirstChannel'
         /\ TurnLeft'
         /\ sem' \in [Generations -> Nat]
         /\ gen = 0 => sem'[0] = AtLeast(sem[0] + One(to \in WithToken)
                                          - One(worker[w].pc \in WithToken), 0)
         /\ activeConns' = AtLeast(activeConns + One(to \in Counted)
                                    - One(worker[w].pc \in Counted), 0)
  <2> USE <1>1, <1>2 DEF TypeOK, cfgVars, FirstChannel, TurnLeft, One, AtLeast, Step
  <2>0. 0 \in Generations /\ (gen = 0 => worker[w].chan = 0)
    BY LimiterConstants DEF Generations
  <2>1. CASE CheckConn(w)
    BY <2>1 DEF CheckConn
  <2>2. CASE LoadForSend(w)
    <3>1. /\ worker[w].pc = "checked" /\ UNCHANGED <<sem, activeConns>>
          /\ worker' = [worker EXCEPT ![w].pc = "sending", ![w].chan = gen]
      BY <2>2 DEF LoadForSend, Load
    <3>2. \A v \in Workers :
             worker'[v] = IF v = w THEN [worker[w] EXCEPT !.pc = "sending", !.chan = gen]
                          ELSE worker[v]
      BY <3>1
    <3>3. worker' \in [Workers -> [pc : Pcs, chan : Generations, rounds : 0..MaxRounds]]
      BY ZenonT(30), <3>1
    <3>4. \A v \in Workers : worker'[v].pc = IF v = w THEN "sending" ELSE worker[v].pc
      BY <3>2
    <3>5. FirstChannel' /\ TurnLeft'
      BY <3>1, <3>2
    <3> QED BY <2>0, <3>1, <3>3, <3>4, <3>5
  <2>3. CASE SendToken(w)
    BY <2>0, <2>3 DEF SendToken
  <2>4. CASE CountConn(w)
    BY <2>4 DEF CountConn
  <2>5. CASE LoadForDrain(w)
    <3>1. /\ worker[w].pc = "holding" /\ UNCHANGED <<sem, activeConns>>
          /\ worker' = [worker EXCEPT ![w].pc = "draining", ![w].chan = gen]
      BY <2>5 DEF LoadForDrain, Load
    <3>2. \A v \in Workers :
             worker'[v] = IF v = w THEN [worker[w] EXCEPT !.pc = "draining", !.chan = gen]
                          ELSE worker[v]
      BY <3>1
    <3>3. worker' \in [Workers -> [pc : Pcs, chan : Generations, rounds : 0..MaxRounds]]
      BY ZenonT(30), <3>1
    <3>4. \A v \in Workers : worker'[v].pc = IF v = w THEN "draining" ELSE worker[v].pc
      BY <3>2
    <3>5. FirstChannel' /\ TurnLeft'
      BY <3>1, <3>2
    <3> QED BY <2>0, <3>1, <3>3, <3>4, <3>5
  <2>6. CASE DrainToken(w)
    BY <2>0, <2>6 DEF DrainToken
  <2>7. CASE UncountConn(w)
    <3>1. /\ worker[w].pc = "drained" /\ sem' = sem
          /\ activeConns' = AtLeast(activeConns - 1, 0)
          /\ worker' = [worker EXCEPT ![w] = [pc |-> "idle", chan |-> 0,
                                              rounds |-> worker[w].rounds + 1]]
      BY <2>7 DEF UncountConn
    <3>2. worker[w].rounds + 1 \in 0..MaxRounds
      BY <3>1, LimiterConstants
    <3>3. worker' \in [Workers -> [pc : Pcs, chan : Generations, rounds : 0..MaxRounds]]
      BY <2>0, <3>1, <3>2
    <3>4. /\ \A v \in Workers : worker'[v].pc = IF v = w THEN "idle" ELSE worker[v].pc
          /\ FirstChannel' /\ TurnLeft'
      BY <3>1
    <3> QED BY <2>0, <3>1, <3>3, <3>4
  <2> QED BY <2>1, <2>2, <2>3, <2>4, <2>5, <2>6, <2>7 DEF WorkerStep
<1>4. /\ Cardinality(WorkersAt(WithToken)')
           = Cardinality(WorkersAt(WithToken)) + One(to \in WithToken)
               - One(worker[w].pc \in WithToken)
      /\ Cardinality(WorkersAt(Counted)')
           = Cardinality(WorkersAt(Counted)) + One(to \in Counted)
               - One(worker[w].pc \in Counted)
      /\ Cardinality(WorkersAt(WithToken)') \in Nat /\ Cardinality(WorkersAt(Counted)') \in Nat
  BY <1>3, WorkerMoves
<1>5. ConnAccounting'
  <2>1. activeConns = Cardinality(WorkersAt(Counted))
        /\ (gen = 0 => sem[0] = Cardinality(WorkersAt(WithToken)))
    BY DEF ConnAccounting, Connected
  <2>2. gen' = gen
    BY <1>1 DEF cfgVars
  <2>3. activeConns' = Cardinality(WorkersAt(Counted)')
    BY <1>3, <1>4, <2>1 DEF AtLeast
  <2>4. gen = 0 => sem'[0] = Cardinality(WorkersAt(WithToken)')
    BY <1>3, <1>4, <2>1 DEF AtLeast
  <2> QED BY <2>2, <2>3, <2>4 DEF ConnAccounting, Connected
<1>6. activeConns' \in Nat
  BY <1>3, <1>4, <1>5 DEF ConnAccounting
<1>7. TypeOK'
  BY <1>1, <1>3, <1>6 DEF TypeOK, cfgVars, taskVars
<1>8. TaskAccounting'
  BY <1>1 DEF TaskAccounting, UsersWith, taskVars
<1> QED BY <1>3, <1>5, <1>7, <1>8

(* A configuration update begins a channel of its own, of which nothing is *)
(* claimed.                                                                *)
LEMMA ConfigStepKeeps ==
  ASSUME LimiterInv,
         \/ \E tasks \in MaxTaskSizes, conns \in MaxConnSizes : ApplyConfig(tasks, conns)
         \/ \E enable \in BOOLEAN : SetInteractiveTaskReserve(enable)
  PROVE  LimiterInv'
<1> USE DEF LimiterInv, Accounting
<1>1. UNCHANGED <<taskVars, activeConns, worker>> /\ gen' > 0
  BY DEF ApplyConfig, SetInteractiveTaskReserve, TypeOK, Generations, connVars
<1>2. TypeOK'
  <2>1. CASE \E enable \in BOOLEAN : SetInteractiveTaskReserve(enable)
    BY <2>1 DEF SetInteractiveTaskReserve, TypeOK, taskVars, connVars
  <2>2. ASSUME NEW tasks \in MaxTaskSizes, NEW conns \in MaxConnSizes,
               ApplyConfig(tasks, conns)
        PROVE  TypeOK'
    <3>1. conns \in Nat \ {0} /\ AtMost(activeConns, conns) \in Nat
      BY LimiterConstants DEF TypeOK, AtMost
    <3>2. gen' \in Generations
      BY <2>2, LimiterConstants DEF ApplyConfig, TypeOK, Generations
    <3> QED BY <2>2, <3>1, <3>2 DEF ApplyConfig, TypeOK, taskVars
  <2> QED BY <2>1, <2>2
<1>3. TaskAccounting'
  BY <1>1 DEF TaskAccounting, UsersWith, taskVars
<1>4. ConnAccounting' /\ TurnLeft' /\ FirstChannel'
  BY <1>1 DEF ConnAccounting, WorkersAt, TurnLeft, FirstChannel
<1> QED BY <1>2, <1>3, <1>4

-----------------------------------------------------------------------------
(* The invariant of the limiter holds in every behaviour. *)
LEMMA LimiterInvHolds == Spec => []LimiterInv
<1>1. LimiterInv /\ [Next]_vars => LimiterInv'
  <2> SUFFICES ASSUME LimiterInv, [Next]_vars PROVE LimiterInv'
    OBVIOUS
  <2>1. ASSUME NEW u \in Users,
               ReleaseTask(u) \/ \E boost \in BOOLEAN : AcquireTask(u, boost)
        PROVE  LimiterInv'
    BY <2>1, TaskStepKeeps
  <2>2. ASSUME NEW w \in Workers, WorkerStep(w) PROVE LimiterInv'
    BY <2>2, WorkerStepKeeps
  <2>3. CASE \/ \E tasks \in MaxTaskSizes, conns \in MaxConnSizes : ApplyConfig(tasks, conns)
             \/ \E enable \in BOOLEAN : SetInteractiveTaskReserve(enable)
    BY <2>3, ConfigStepKeeps
  <2>4. CASE UNCHANGED vars
    BY <2>4 DEF vars, LimiterInv, Accounting, TypeOK, TaskAccounting, ConnAccounting, UsersWith,
                Connected, WorkersAt, TurnLeft, FirstChannel
  <2> QED BY <2>1, <2>2, <2>3, <2>4 DEF Next
<1> QED BY <1>1, InitLimiter, PTL DEF Spec

(* Whatever is acquired and released in whichever order, the counters of   *)
(* tasks, boosted tasks and connections are what is in use, and the        *)
(* semaphore is full only of tokens in use until it is replaced.           *)
THEOREM CountersAreUse == Spec => []Accounting
BY LimiterInvHolds, PTL DEF LimiterInv

-----------------------------------------------------------------------------
(* Normal slots are those that are not boosted. *)
LEMMA NormalIsTheRest ==
  ASSUME Accounting
  PROVE  Cardinality(UsersWith({"normal"})) = activeTasks - activeBoost
<1> DEFINE holds == UsersWith({"normal", "boost"})
           boosts == UsersWith({"boost"})
<1>1. UsersWith({"normal"}) = holds \ boosts /\ holds \cap boosts = boosts
  BY DEF UsersWith
<1>2. IsFiniteSet(holds)
  BY CountedFinite
<1>3. Cardinality(holds \ boosts) = Cardinality(holds) - Cardinality(holds \cap boosts)
  BY <1>2, FS_Difference
<1> QED BY <1>1, <1>3 DEF Accounting, TaskAccounting

(* A prefetch takes a normal slot only below the limit that leaves the     *)
(* reserve free; whoever else moves adds no such prefetch.                 *)
LEMMA ReserveStep ==
  ASSUME Accounting, TaskReserveKept, [Next]_vars
  PROVE  TaskReserveKept'
<1> DEFINE background == UsersWith({"normal"}) \ Interactive
<1>1. IsFiniteSet(UsersWith({"normal"})) /\ IsFiniteSet(background)
      /\ Cardinality(background) <= Cardinality(UsersWith({"normal"}))
      /\ Cardinality(background) \in Nat /\ Cardinality(UsersWith({"normal"})) \in Nat
  <2>1. IsFiniteSet(UsersWith({"normal"}))
    BY CountedFinite
  <2> QED BY <2>1, FS_Subset, FS_CardinalityType
<1>2. ASSUME background' \subseteq background, UNCHANGED cfgVars
      PROVE  TaskReserveKept'
  <2>1. Cardinality(background') <= Cardinality(background)
    BY <1>1, <1>2, FS_Subset
  <2>2. Cardinality(background') \in Nat
    BY <1>1, <1>2, FS_Subset, FS_CardinalityType
  <2>3. maxTask \in Nat
    BY LimiterConstants DEF Accounting, TypeOK
  <2> DEFINE kept == AtLeast(maxTask - interactiveReserveFor(maxTask), 1)
  <2>4. kept \in Int
    BY <2>3 DEF AtLeast, interactiveReserveFor, Reserve
  <2>5. kept' = kept /\ gen' = gen /\ taskReserve' = taskReserve
    BY <1>2 DEF cfgVars
  <2>6. gen = 0 /\ taskReserve => Cardinality(background) <= kept
    BY DEF TaskReserveKept
  <2> HIDE DEF kept, background
  <2>7. gen = 0 /\ taskReserve => Cardinality(background') <= kept
    BY <1>1, <2>1, <2>2, <2>4, <2>6
  <2> QED BY <2>5, <2>7 DEF TaskReserveKept, kept, background
<1>3. ASSUME NEW u \in Users, AcquireTask(u, FALSE), u \notin Interactive
      PROVE  TaskReserveKept'
  <2>1. SUFFICES ASSUME gen = 0, taskReserve
                 PROVE  Cardinality(background')
                          <= AtLeast(maxTask - interactiveReserveFor(maxTask), 1)
    BY <1>3 DEF TaskReserveKept, AcquireTask, cfgVars
  <2>2. background' = background \cup {u} /\ u \notin background
    BY <1>3 DEF AcquireTask, UsersWith, Accounting, TypeOK
  <2>3. Cardinality(background') = Cardinality(background) + 1
    BY <1>1, <2>2, FS_AddElement
  <2>4. AtLeast(activeTasks - activeBoost, 0)
          < AtLeast(maxTask - interactiveReserveFor(maxTask), 1)
    BY <1>3, <2>1 DEF AcquireTask, TaskLimit
  <2>5. maxTask \in Nat
    BY LimiterConstants DEF Accounting, TypeOK
  <2>6. AtLeast(maxTask - interactiveReserveFor(maxTask), 1) \in Int
    BY <2>5 DEF AtLeast, interactiveReserveFor, Reserve
  <2> QED BY <1>1, <2>3, <2>4, <2>6, NormalIsTheRest DEF AtLeast
<1>4. ASSUME NEW u \in Users,
             ReleaseTask(u) \/ AcquireTask(u, TRUE)
               \/ (AcquireTask(u, FALSE) /\ u \in Interactive)
      PROVE  TaskReserveKept'
  <2>1. background' \subseteq background
    BY <1>4 DEF ReleaseTask, AcquireTask, UsersWith, Accounting, TypeOK
  <2> QED BY <1>2, <1>4, <2>1 DEF ReleaseTask, AcquireTask
<1>5. ASSUME NEW w \in Workers, WorkerStep(w)
      PROVE  TaskReserveKept'
  <2>1. UNCHANGED <<cfgVars, taskVars>>
    BY <1>5 DEF WorkerStep, CheckConn, LoadForSend, LoadForDrain, Load, SendToken, CountConn,
                DrainToken, UncountConn
  <2> QED BY <1>2, <2>1 DEF taskVars, UsersWith
<1>6. CASE \/ \E tasks \in MaxTaskSizes, conns \in MaxConnSizes : ApplyConfig(tasks, conns)
           \/ \E enable \in BOOLEAN : SetInteractiveTaskReserve(enable)
  <2>1. gen' > 0
    BY <1>6 DEF ApplyConfig, SetInteractiveTaskReserve, Accounting, TypeOK, Generations
  <2> QED BY <2>1 DEF TaskReserveKept
<1>7. CASE UNCHANGED vars
  BY <1>2, <1>7 DEF vars, cfgVars, UsersWith
<1> QED BY <1>3, <1>4, <1>5, <1>6, <1>7 DEF Next

(* In continue mode, as long as the configuration stays, prefetch leaves   *)
(* the reserve of normal slots to interactive downloads, for every size of *)
(* the pool and every order of acquiring and releasing.                    *)
THEOREM ReserveIsKept == Spec => []TaskReserveKept
<1>1. Init => TaskReserveKept
  <2> SUFFICES ASSUME Init PROVE TaskReserveKept
    OBVIOUS
  <2>1. UsersWith({"normal"}) \ Interactive = {}
    BY DEF Init, UsersWith
  <2>2. Cardinality({}) = 0 /\ maxTask \in Nat
    BY FS_EmptySet, LimiterConstants DEF Init
  <2>3. /\ AtLeast(maxTask - interactiveReserveFor(maxTask), 1) \in Int
        /\ AtLeast(maxTask - interactiveReserveFor(maxTask), 1) >= 1
    BY <2>2 DEF AtLeast, interactiveReserveFor, Reserve
  <2> QED BY <2>1, <2>2, <2>3 DEF TaskReserveKept
<1> QED BY <1>1, CountersAreUse, ReserveStep, PTL DEF Spec

-----------------------------------------------------------------------------
(* The prefetch service and the file slots of its host *)

(* What PrefetchService assumes of its constants *)
PrefetchFacts ==
  /\ IsFiniteSet(Items) /\ UrlOf \in [Items -> Urls]
  /\ MaxAttempts \in Nat \ {0}
  /\ FileInitial \in Nat \ {0} /\ FileCeiling \in Nat /\ FileInitial <= FileCeiling
  /\ MaxTroubles \in Nat /\ Nobody \notin Items \X Nat
  /\ {Nobody, Loop} \cap Items = {} /\ Nobody # Loop

Tries == 0..(MaxAttempts - 1)
ItemRec ==
  [at : {"new", "manual", "expanding", "silent", "taken", "full", "waiting", "delayed",
         "started", "merged", "purged", "ended"}, attempt : Tries]
Queued == {"new", "manual", "expanding", "silent", "taken", "full", "waiting", "delayed"}
Steps ==
  {"off", "admitted", "duplicate", "running", "retrying", "ending", "unregister", "gone"}
AtWork == {"admitted", "running", "retrying"}
Holding == {"admitted", "duplicate", "running", "retrying", "ending"}
Registered == {"running", "retrying", "ending", "unregister"}

PrefetchTypes ==
  /\ item \in [Items -> ItemRec] /\ run \in [P!Runs -> Steps]
  /\ registered \in [Urls -> P!Runs \cup {Nobody}] /\ cancelled \subseteq P!Runs
  /\ slots \in Nat /\ fileEffective \in 1..FileCeiling
  /\ purge \in {"idle", "abort", "manual", "deferred"}
  /\ spent \in [failures : Nat, halts : Nat, aborts : Nat, adjusts : Nat]

(* A run is at work for its item's attempt; those to come are off, so that *)
(* a start finds the goroutine of its attempt not begun.                   *)
Attempts ==
  \A r \in P!Runs :
    /\ run[r] \in AtWork => item[r[1]].at = "started" /\ item[r[1]].attempt = r[2]
    /\ r[2] > item[r[1]].attempt => run[r] = "off"
    /\ r[2] = item[r[1]].attempt /\ item[r[1]].at \in Queued => run[r] = "off"
    /\ run[r] = "retrying" => r[2] + 1 \in Tries

Holders == {r \in P!Runs : run[r] \in Holding}
HoldersCounted == slots = Cardinality(Holders)

(* Unless somebody cancels, a URL's cancel function is its run's until the *)
(* run removes it.                                                         *)
Owners ==
  spent.aborts = 0 =>
    /\ purge = "idle"
    /\ \A r \in P!Runs : run[r] \in Registered => registered[P!Url(r)] = r

PrefetchInv ==
  PrefetchTypes /\ Attempts /\ HoldersCounted /\ P!DeferredOnce /\ Owners

-----------------------------------------------------------------------------
(* A run is an item and an attempt. *)
LEMMA RunPair ==
  ASSUME PrefetchFacts
  PROVE  /\ \A r \in P!Runs : /\ r[1] \in Items /\ r[2] \in Tries /\ r = <<r[1], r[2]>>
                              /\ r \in Items \X Nat /\ P!Url(r) \in Urls
                              /\ P!Url(r) = UrlOf[r[1]] /\ r # Nobody
         /\ \A i \in Items, a \in Tries : /\ <<i, a>> \in P!Runs
                                          /\ <<i, a>>[1] = i /\ <<i, a>>[2] = a
<1>1. P!Runs = Items \X Tries /\ \A r : P!Url(r) = UrlOf[r[1]]
  BY DEF P!Runs, P!Url, Tries
<1>2. Tries \subseteq Nat
  BY DEF PrefetchFacts, Tries
<1>3. \A i \in Items : UrlOf[i] \in Urls
  BY DEF PrefetchFacts
<1>4. Nobody \notin Items \X Nat
  BY DEF PrefetchFacts
<1> HIDE DEF Tries
<1>5. \A r \in Items \X Tries :
        r[1] \in Items /\ r[2] \in Tries /\ r = <<r[1], r[2]>> /\ r \in Items \X Nat
  <2> SUFFICES ASSUME NEW r \in Items \X Tries
               PROVE  /\ r[1] \in Items /\ r[2] \in Tries
                      /\ r = <<r[1], r[2]>> /\ r \in Items \X Nat
    OBVIOUS
  <2>1. PICK i \in Items, a \in Tries : r = <<i, a>>
    OBVIOUS
  <2>2. r[1] = i /\ r[2] = a /\ a \in Nat
    BY <1>2, <2>1
  <2>3. <<i, a>> \in Items \X Nat
    BY <2>2
  <2> QED BY <2>1, <2>2, <2>3
<1>6. \A i \in Items, a \in Tries : <<i, a>> \in Items \X Tries
  OBVIOUS
<1> QED BY <1>1, <1>3, <1>4, <1>5, <1>6

LEMMA RunsFinite == ASSUME PrefetchFacts PROVE IsFiniteSet(P!Runs)
<1>1. IsFiniteSet(0..(MaxAttempts - 1))
  BY FS_Interval DEF PrefetchFacts
<1> QED BY <1>1, FS_Product DEF P!Runs, PrefetchFacts

LEMMA HoldersFinite ==
  ASSUME PrefetchFacts PROVE IsFiniteSet(Holders) /\ Cardinality(Holders) \in Nat
BY RunsFinite, FS_Subset, FS_CardinalityType DEF Holders

(* One run goes to its next step. *)
LEMMA RunGoes ==
  ASSUME PrefetchFacts, PrefetchTypes, NEW r \in P!Runs, NEW to \in Steps,
         run' = [run EXCEPT ![r] = to]
  PROVE  /\ run' \in [P!Runs -> Steps] /\ run'[r] = to
         /\ \A s \in P!Runs : s # r => run'[s] = run[s]
         /\ Cardinality(Holders') \in Nat
         /\ Cardinality(Holders')
              = Cardinality(Holders) + One(to \in Holding) - One(run[r] \in Holding)
<1>1. /\ run' \in [P!Runs -> Steps] /\ run'[r] = to
      /\ \A s \in P!Runs : s # r => run'[s] = run[s]
  BY DEF PrefetchTypes
<1>2. Holders \ {r} = Holders' \ {r}
  BY <1>1 DEF Holders
<1>3. (r \in Holders <=> run[r] \in Holding) /\ (r \in Holders' <=> to \in Holding)
  BY <1>1 DEF Holders
<1>4. /\ Cardinality(Holders') \in Nat
      /\ Cardinality(Holders')
           = Cardinality(Holders) + One(r \in Holders') - One(r \in Holders)
  BY <1>2, HoldersFinite, DiffersInOne
<1> QED BY <1>1, <1>3, <1>4 DEF One

(* Items go to another place. *)
LEMMA MovedDoes ==
  ASSUME PrefetchTypes, NEW is \in SUBSET Items,
         NEW place \in {"new", "manual", "expanding", "silent", "taken", "full", "waiting",
                        "delayed", "started", "merged", "purged", "ended"}
  PROVE  /\ P!Moved(is, place) \in [Items -> ItemRec]
         /\ \A i \in Items :
              /\ P!Moved(is, place)[i].at = IF i \in is THEN place ELSE item[i].at
              /\ P!Moved(is, place)[i].attempt = item[i].attempt
<1>1. \A i \in Items : item[i] \in ItemRec
  BY DEF PrefetchTypes
<1>2. \A i \in Items : /\ [item[i] EXCEPT !.at = place] \in ItemRec
                       /\ [item[i] EXCEPT !.at = place].at = place
                       /\ [item[i] EXCEPT !.at = place].attempt = item[i].attempt
  BY <1>1 DEF ItemRec
<1> HIDE DEF ItemRec
<1> QED BY <1>1, <1>2 DEF P!Moved

LEMMA SpendCounts ==
  ASSUME PrefetchTypes, NEW kind \in {"failures", "halts", "aborts", "adjusts"}, P!Spend(kind)
  PROVE  /\ spent' \in [failures : Nat, halts : Nat, aborts : Nat, adjusts : Nat]
         /\ spent'.aborts = IF kind = "aborts" THEN spent.aborts + 1 ELSE spent.aborts
         /\ spent.aborts \in Nat
BY DEF P!Spend, PrefetchTypes

LEMMA InitPrefetch == ASSUME PrefetchFacts, P!Init PROVE PrefetchInv
<1>1. /\ item = [i \in Items |-> [at |-> "new", attempt |-> 0]]
      /\ run = [r \in P!Runs |-> "off"] /\ registered = [u \in Urls |-> Nobody]
      /\ cancelled = {} /\ slots = 0 /\ fileEffective = FileInitial /\ purge = "idle"
      /\ spent = [failures |-> 0, halts |-> 0, aborts |-> 0, adjusts |-> 0]
  BY DEF P!Init
<1>2. 0 \in Tries /\ fileEffective \in 1..FileCeiling
  BY <1>1 DEF PrefetchFacts, Tries
<1>3. [at |-> "new", attempt |-> 0] \in ItemRec
  BY <1>2 DEF ItemRec
<1>4. PrefetchTypes
  BY <1>1, <1>2, <1>3 DEF PrefetchTypes, Steps
<1>5. Attempts
  BY <1>1, RunPair DEF Attempts, AtWork
<1>6. HoldersCounted
  <2>1. Holders = {}
    BY <1>1 DEF Holders, Holding
  <2> QED BY <1>1, <2>1, FS_EmptySet DEF HoldersCounted
<1>7. P!DeferredOnce
  BY <1>1 DEF P!DeferredOnce, P!At
<1>8. Owners
  BY <1>1 DEF Owners, Registered
<1> QED BY <1>4, <1>5, <1>6, <1>7, <1>8 DEF PrefetchInv

-----------------------------------------------------------------------------
(* Items in the queues *)

(* Items that are not started go on, or out. *)
LEMMA ItemsMove ==
  ASSUME PrefetchFacts, PrefetchInv, NEW is \in SUBSET P!At(Queued),
         NEW place \in {"manual", "expanding", "silent", "taken", "full", "waiting",
                        "merged", "purged", "ended"},
         item' = P!Moved(is, place),
         place = "waiting" =>
           \E i \in Items : /\ is = {i}
                            /\ \A j \in P!At({"waiting", "delayed"}) : UrlOf[j] # UrlOf[i],
         UNCHANGED <<run, registered, cancelled, slots, fileEffective>>,
         purge' \in {"idle", "abort", "manual", "deferred"},
         spent' \in [failures : Nat, halts : Nat, aborts : Nat, adjusts : Nat],
         spent'.aborts = 0 => spent.aborts = 0 /\ purge' = "idle"
  PROVE  PrefetchInv'
<1>1. /\ item' \in [Items -> ItemRec]
      /\ \A i \in Items : /\ item'[i].at = IF i \in is THEN place ELSE item[i].at
                          /\ item'[i].attempt = item[i].attempt
  <2>1. is \in SUBSET Items
    BY DEF P!At
  <2> QED BY <2>1, MovedDoes DEF PrefetchInv
<1>2. \A i \in is : item[i].at \in Queued
  BY DEF P!At
<1>3. PrefetchTypes'
  BY <1>1 DEF PrefetchInv, PrefetchTypes
<1>4. Attempts'
  BY <1>1, <1>2, RunPair DEF PrefetchInv, Attempts, Queued
<1>5. HoldersCounted'
  BY DEF PrefetchInv, HoldersCounted, Holders
<1>6. P!DeferredOnce'
  <2>1. CASE place = "waiting"
    <3>1. PICK i \in Items :
            is = {i} /\ \A j \in P!At({"waiting", "delayed"}) : UrlOf[j] # UrlOf[i]
      BY <2>1
    <3>2. \A j \in P!At({"waiting", "delayed"})' : j = i \/ j \in P!At({"waiting", "delayed"})
      BY <1>1, <3>1 DEF P!At
    <3> QED BY <3>1, <3>2 DEF PrefetchInv, P!DeferredOnce
  <2>2. CASE place # "waiting"
    <3>1. P!At({"waiting", "delayed"})' \subseteq P!At({"waiting", "delayed"})
      BY <1>1, <2>2 DEF P!At
    <3> QED BY <3>1 DEF PrefetchInv, P!DeferredOnce
  <2> QED BY <2>1, <2>2
<1>7. Owners'
  BY DEF PrefetchInv, Owners, P!Url
<1> QED BY <1>3, <1>4, <1>5, <1>6, <1>7 DEF PrefetchInv

LEMMA ItemStays ==
  ASSUME PrefetchInv, UNCHANGED <<spent, purge>>
  PROVE  /\ purge' \in {"idle", "abort", "manual", "deferred"}
         /\ spent' \in [failures : Nat, halts : Nat, aborts : Nat, adjusts : Nat]
         /\ spent'.aborts = 0 => spent.aborts = 0 /\ purge' = "idle"
BY DEF PrefetchInv, PrefetchTypes, Owners

LEMMA EnqueueKeeps ==
  ASSUME PrefetchFacts, PrefetchInv, NEW i \in Items, P!EnqueuePlatform(i) PROVE PrefetchInv'
<1>1. /\ item' = P!Moved({i}, "manual") /\ {i} \in SUBSET P!At(Queued)
      /\ UNCHANGED <<run, registered, cancelled, slots, fileEffective, purge, spent>>
  BY DEF P!EnqueuePlatform, P!At, Queued
<1> QED BY <1>1, ItemStays, ItemsMove

LEMMA DrainKeeps ==
  ASSUME PrefetchFacts, PrefetchInv, P!Tick PROVE PrefetchInv'
<1>1. PICK place \in {"expanding", "taken"}, ready \in SUBSET P!At(Queued) :
        /\ item' = P!Moved(ready, place)
        /\ UNCHANGED <<run, registered, cancelled, slots, fileEffective, purge, spent>>
  <2>1. CASE \E d \in Items \cup {Loop} : P!drainManual(d)
    <3>1. P!At({"manual"}) \in SUBSET P!At(Queued)
      BY DEF P!At, Queued
    <3> QED BY <2>1, <3>1 DEF P!drainManual
  <2>2. CASE \E place \in {"waiting", "delayed"}, ready \in SUBSET Items :
               P!Drain(place, ready)
    <3>1. PICK place \in {"waiting", "delayed"}, ready \in SUBSET Items :
            P!Drain(place, ready)
      BY <2>2
    <3>2. ready \in SUBSET P!At(Queued)
      BY <3>1 DEF P!Drain, P!At, Queued
    <3> QED BY <3>1, <3>2 DEF P!Drain
  <2>3. ASSUME P!drainWaiting \/ \E ready \in SUBSET P!At({"delayed"}) : P!drainDelayed(ready)
        PROVE  \E place \in {"waiting", "delayed"}, ready \in SUBSET Items :
                 P!Drain(place, ready)
    BY <2>3 DEF P!drainWaiting, P!drainDelayed, P!At
  <2> QED BY <2>1, <2>2, <2>3 DEF P!Tick
<1> QED BY <1>1, ItemStays, ItemsMove

LEMMA ExpandKeeps ==
  ASSUME PrefetchFacts, PrefetchInv, NEW i \in Items, P!expandItem(i) \/ P!expandHalts(i)
  PROVE  PrefetchInv'
<1>1. {i} \in SUBSET P!At(Queued)
  BY DEF P!expandItem, P!expandHalts, P!Turn, P!At, Queued
<1>2. CASE P!expandItem(i)
  <2>1. /\ item' = P!Moved({i}, "taken")
        /\ UNCHANGED <<run, registered, cancelled, slots, fileEffective, purge, spent>>
    BY <1>2 DEF P!expandItem
  <2> QED BY <1>1, <2>1, ItemStays, ItemsMove
<1>3. CASE P!expandHalts(i)
  <2>1. /\ item' = P!Moved({i}, "silent") /\ P!Spend("halts")
        /\ UNCHANGED <<run, registered, cancelled, slots, fileEffective, purge>>
    BY <1>3 DEF P!expandHalts
  <2>2. /\ spent' \in [failures : Nat, halts : Nat, aborts : Nat, adjusts : Nat]
        /\ spent'.aborts = spent.aborts
    BY <2>1, SpendCounts DEF PrefetchInv
  <2>3. /\ purge' \in {"idle", "abort", "manual", "deferred"}
        /\ spent'.aborts = 0 => spent.aborts = 0 /\ purge' = "idle"
    BY <2>1, <2>2 DEF PrefetchInv, PrefetchTypes, Owners
  <2> QED BY <1>1, <2>1, <2>2, <2>3, ItemsMove
<1> QED BY <1>2, <1>3

LEMMA failResolveKeeps ==
  ASSUME PrefetchFacts, PrefetchInv, NEW i \in Items, P!failResolve(i) PROVE PrefetchInv'
<1>1. /\ item' = P!Moved({i}, "ended") /\ {i} \in SUBSET P!At(Queued) /\ P!Spend("failures")
      /\ UNCHANGED <<run, registered, cancelled, slots, fileEffective, purge>>
  BY DEF P!failResolve, P!Turn, P!At, Queued
<1>2. /\ spent' \in [failures : Nat, halts : Nat, aborts : Nat, adjusts : Nat]
      /\ spent'.aborts = spent.aborts
  BY <1>1, SpendCounts DEF PrefetchInv
<1>3. /\ purge' \in {"idle", "abort", "manual", "deferred"}
      /\ spent'.aborts = 0 => spent.aborts = 0 /\ purge' = "idle"
  BY <1>1, <1>2 DEF PrefetchInv, PrefetchTypes, Owners
<1> QED BY <1>1, <1>2, <1>3, ItemsMove

LEMMA enqueueWaitingKeeps ==
  ASSUME PrefetchFacts, PrefetchInv, NEW i \in Items, P!enqueueWaiting(i) PROVE PrefetchInv'
<1> DEFINE twin == \E j \in P!At({"waiting", "delayed"}) : UrlOf[j] = UrlOf[i]
           place == IF twin THEN "merged" ELSE "waiting"
<1>1. /\ item' = P!Moved({i}, place) /\ {i} \in SUBSET P!At(Queued)
      /\ UNCHANGED <<run, registered, cancelled, slots, fileEffective, purge, spent>>
  BY DEF P!enqueueWaiting, P!At, Queued
<1>2. /\ place \in {"merged", "waiting"}
      /\ place = "waiting" => \A j \in P!At({"waiting", "delayed"}) : UrlOf[j] # UrlOf[i]
  OBVIOUS
<1> HIDE DEF place
<1> QED BY <1>1, <1>2, ItemStays, ItemsMove

(* A purge: by then somebody has cancelled. *)
LEMMA PurgeQueueKeeps ==
  ASSUME PrefetchFacts, PrefetchInv, P!clearManualMatching \/ P!clearDeferredMatching
  PROVE  PrefetchInv'
<1>1. PICK places \in SUBSET Queued, to \in {"deferred", "idle"} :
        /\ item' = P!Moved(P!At(places), "purged") /\ purge' = to /\ purge # "idle"
        /\ UNCHANGED <<run, registered, cancelled, slots, fileEffective, spent>>
  <2>1. {"manual"} \in SUBSET Queued /\ {"delayed", "waiting"} \in SUBSET Queued
    BY DEF Queued
  <2>2. CASE P!clearManualMatching
    <3>1. /\ item' = P!Moved(P!At({"manual"}), "purged") /\ purge' = "deferred"
          /\ purge # "idle"
          /\ UNCHANGED <<run, registered, cancelled, slots, fileEffective, spent>>
      BY <2>2 DEF P!clearManualMatching, P!PurgeQueue
    <3> QED BY <2>1, <3>1
  <2>3. CASE P!clearDeferredMatching
    <3>1. /\ item' = P!Moved(P!At({"delayed", "waiting"}), "purged") /\ purge' = "idle"
          /\ purge # "idle"
          /\ UNCHANGED <<run, registered, cancelled, slots, fileEffective, spent>>
      BY <2>3 DEF P!clearDeferredMatching, P!PurgeQueue
    <3> QED BY <2>1, <3>1
  <2> QED BY <2>2, <2>3
<1>2. P!At(places) \in SUBSET P!At(Queued)
  BY DEF P!At
<1>3. /\ spent' \in [failures : Nat, halts : Nat, aborts : Nat, adjusts : Nat] /\ spent'.aborts # 0
  BY <1>1 DEF PrefetchInv, PrefetchTypes, Owners
<1> QED BY <1>1, <1>2, <1>3, ItemsMove

-----------------------------------------------------------------------------
(* Starts *)

LEMMA TryBeginKeeps ==
  ASSUME PrefetchFacts, PrefetchInv, NEW i \in Items, P!TryBeginPrefetch(i) PROVE PrefetchInv'
<1>1. /\ item[i].at = "taken"
      /\ UNCHANGED <<registered, cancelled, fileEffective, purge, spent>>
  BY DEF P!TryBeginPrefetch
<1>2. CASE item' = P!Moved({i}, "full") /\ UNCHANGED <<run, slots>>
  <2>1. {i} \in SUBSET P!At(Queued)
    BY <1>1 DEF P!At, Queued
  <2> QED BY <1>1, <1>2, <2>1, ItemStays, ItemsMove
<1>3. CASE /\ slots' = slots + 1 /\ item' = P!Moved({i}, "started")
           /\ run' = [run EXCEPT ![P!Current(i)] = "admitted"]
  <2> DEFINE r == P!Current(i)
  <2>1. r \in P!Runs /\ r[1] = i /\ r[2] = item[i].attempt
    <3>1. item[i].attempt \in Tries
      BY DEF PrefetchInv, PrefetchTypes, ItemRec
    <3> QED BY <3>1, RunPair DEF P!Current
  <2>2. \A s \in P!Runs : s[1] = i /\ s[2] = item[i].attempt => s = r
    BY RunPair DEF P!Current
  <2>3. run' = [run EXCEPT ![r] = "admitted"]
    BY <1>3
  <2> HIDE DEF r
  <2>4. run[r] = "off"
    BY <1>1, <2>1 DEF PrefetchInv, Attempts, Queued
  <2>5. /\ run' \in [P!Runs -> Steps] /\ run'[r] = "admitted"
        /\ \A s \in P!Runs : s # r => run'[s] = run[s]
        /\ Cardinality(Holders')
             = Cardinality(Holders) + One("admitted" \in Holding) - One("off" \in Holding)
    BY <2>1, <2>3, <2>4, RunGoes DEF PrefetchInv, Steps
  <2>6. /\ item' \in [Items -> ItemRec]
        /\ \A j \in Items : /\ item'[j].at = IF j = i THEN "started" ELSE item[j].at
                            /\ item'[j].attempt = item[j].attempt
    <3>1. {i} \in SUBSET Items /\ PrefetchTypes
      BY DEF PrefetchInv
    <3>2. /\ P!Moved({i}, "started") \in [Items -> ItemRec]
          /\ \A j \in Items :
               /\ P!Moved({i}, "started")[j].at = IF j \in {i} THEN "started" ELSE item[j].at
               /\ P!Moved({i}, "started")[j].attempt = item[j].attempt
      BY <3>1, MovedDoes
    <3> QED BY <1>3, <3>2
  <2>7. PrefetchTypes'
    <3>1. slots' \in Nat
      BY <1>3 DEF PrefetchInv, PrefetchTypes
    <3>2. run' \in [P!Runs -> Steps] /\ item' \in [Items -> ItemRec]
      BY <2>5, <2>6
    <3> HIDE DEF ItemRec
    <3> QED BY <1>1, <3>1, <3>2 DEF PrefetchInv, PrefetchTypes
  <2>8. Attempts'
    BY <2>1, <2>2, <2>5, <2>6, RunPair DEF PrefetchInv, Attempts, Queued, AtWork
  <2>9. HoldersCounted'
    BY <1>3, <2>5, HoldersFinite DEF PrefetchInv, HoldersCounted, One, Holding
  <2>10. P!DeferredOnce'
    <3>1. P!At({"waiting", "delayed"})' \subseteq P!At({"waiting", "delayed"})
      BY <2>6 DEF P!At
    <3> QED BY <3>1 DEF PrefetchInv, P!DeferredOnce
  <2>11. Owners'
    BY <1>1, <2>5 DEF PrefetchInv, Owners, P!Url, Registered
  <2> QED BY <2>7, <2>8, <2>9, <2>10, <2>11 DEF PrefetchInv
<1> QED BY <1>2, <1>3 DEF P!TryBeginPrefetch

(* A run goes on without leaving a queue behind it: what is left to see is *)
(* its slot, and whom the URL's cancel function belongs to.                *)
LEMMA RunKeeps ==
  ASSUME PrefetchFacts, PrefetchInv, NEW r \in P!Runs, NEW to \in Steps,
         run[r] \notin {"off", "gone"}, to \notin {"off", "admitted"},
         run' = [run EXCEPT ![r] = to],
         to = "retrying" => r[2] + 1 \in Tries,
         \/ UNCHANGED item /\ (to \in AtWork => run[r] \in AtWork)
         \/ item' = P!Moved({r[1]}, "merged") /\ run[r] \in AtWork /\ to \notin AtWork
         \/ item' = P!Moved({r[1]}, "ended") /\ run[r] \in AtWork /\ to \notin AtWork,
         slots' = slots + One(to \in Holding) - One(run[r] \in Holding),
         cancelled' \subseteq P!Runs, UNCHANGED <<fileEffective, purge>>,
         registered' \in [Urls -> P!Runs \cup {Nobody}],
         spent' \in [failures : Nat, halts : Nat, aborts : Nat, adjusts : Nat],
         spent'.aborts = spent.aborts,
         spent.aborts = 0 =>
           /\ \A s \in P!Runs : /\ s # r /\ run[s] \in Registered
                                => registered'[P!Url(s)] = registered[P!Url(s)]
           /\ to \in Registered => registered'[P!Url(r)] = r
  PROVE  PrefetchInv'
<1>1. /\ run' \in [P!Runs -> Steps] /\ run'[r] = to
      /\ \A s \in P!Runs : s # r => run'[s] = run[s]
      /\ Cardinality(Holders') \in Nat
      /\ Cardinality(Holders')
           = Cardinality(Holders) + One(to \in Holding) - One(run[r] \in Holding)
  BY RunGoes DEF PrefetchInv
<1>2. r[1] \in Items
  BY RunPair
<1>3. PICK place \in {"started", "merged", "ended"} :
        /\ item' \in [Items -> ItemRec]
        /\ \A j \in Items : /\ item'[j].at = IF j = r[1] /\ place # "started" THEN place
                                             ELSE item[j].at
                            /\ item'[j].attempt = item[j].attempt
        /\ place # "started" => run[r] \in AtWork /\ to \notin AtWork
        /\ place = "started" /\ to \in AtWork => run[r] \in AtWork
  <2>1. {r[1]} \in SUBSET Items
    BY <1>2
  <2>2. CASE UNCHANGED item /\ (to \in AtWork => run[r] \in AtWork)
    <3>1. item' \in [Items -> ItemRec]
      BY <2>2 DEF PrefetchInv, PrefetchTypes
    <3> QED BY <2>2, <3>1
  <2>3. ASSUME NEW place \in {"merged", "ended"}, item' = P!Moved({r[1]}, place)
        PROVE  /\ item' \in [Items -> ItemRec]
               /\ \A j \in Items : /\ item'[j].at = IF j = r[1] THEN place ELSE item[j].at
                                   /\ item'[j].attempt = item[j].attempt
    BY <2>1, <2>3, MovedDoes DEF PrefetchInv
  <2> QED BY <2>2, <2>3
<1>4. PrefetchTypes'
  <2>1. slots' \in Nat
    BY <1>1 DEF PrefetchInv, HoldersCounted
  <2> QED BY <1>1, <1>3, <2>1 DEF PrefetchInv, PrefetchTypes
<1>5. Attempts'
  <2>1. ASSUME NEW s \in P!Runs
        PROVE  /\ run'[s] \in AtWork => item'[s[1]].at = "started" /\ item'[s[1]].attempt = s[2]
               /\ s[2] > item'[s[1]].attempt => run'[s] = "off"
               /\ s[2] = item'[s[1]].attempt /\ item'[s[1]].at \in Queued => run'[s] = "off"
               /\ run'[s] = "retrying" => s[2] + 1 \in Tries
    <3>1. /\ run[s] \in AtWork => item[s[1]].at = "started" /\ item[s[1]].attempt = s[2]
          /\ s[2] > item[s[1]].attempt => run[s] = "off"
          /\ s[2] = item[s[1]].attempt /\ item[s[1]].at \in Queued => run[s] = "off"
          /\ run[s] = "retrying" => s[2] + 1 \in Tries
      BY DEF PrefetchInv, Attempts
    <3>2. run[r] \in AtWork => item[r[1]].at = "started" /\ item[r[1]].attempt = r[2]
      BY DEF PrefetchInv, Attempts
    <3>3. s[1] \in Items /\ (s[1] = r[1] /\ s[2] = r[2] => s = r)
      BY RunPair
    <3>4. /\ item'[s[1]].attempt = item[s[1]].attempt
          /\ item'[s[1]].at = IF s[1] = r[1] /\ place # "started" THEN place ELSE item[s[1]].at
      BY <1>3, <3>3
    <3>5. CASE s = r
      BY <1>1, <1>3, <3>1, <3>4, <3>5 DEF Queued
    <3>6. CASE s # r
      <4>1. run'[s] = run[s]
        BY <1>1, <3>6
      <4> QED BY <1>3, <3>1, <3>2, <3>3, <3>4, <3>6, <4>1 DEF Queued
    <3> QED BY <3>5, <3>6
  <2> QED BY <2>1 DEF Attempts
<1>6. HoldersCounted'
  BY <1>1 DEF PrefetchInv, HoldersCounted
<1>7. P!DeferredOnce'
  <2>1. P!At({"waiting", "delayed"})' \subseteq P!At({"waiting", "delayed"})
    BY <1>3 DEF P!At
  <2> QED BY <2>1 DEF PrefetchInv, P!DeferredOnce
<1>8. Owners'
  BY <1>1 DEF PrefetchInv, Owners, P!Url
<1> QED BY <1>4, <1>5, <1>6, <1>7, <1>8 DEF PrefetchInv

-----------------------------------------------------------------------------
(* The goroutine *)

(* A step that is not counted among the cancellations *)
LEMMA RunStays ==
  ASSUME PrefetchInv, UNCHANGED spent \/ P!Spend("failures")
  PROVE  /\ spent' \in [failures : Nat, halts : Nat, aborts : Nat, adjusts : Nat]
         /\ spent'.aborts = spent.aborts
BY SpendCounts DEF PrefetchInv, PrefetchTypes

LEMMA RegisterKeeps ==
  ASSUME PrefetchFacts, PrefetchInv, NEW r \in P!Runs, P!Register(r) PROVE PrefetchInv'
<1>1. run[r] = "admitted" /\ UNCHANGED <<cancelled, slots, fileEffective, purge, spent>>
  BY DEF P!Register, P!Goto
<1>2. /\ spent' \in [failures : Nat, halts : Nat, aborts : Nat, adjusts : Nat]
      /\ spent'.aborts = spent.aborts
      /\ cancelled' \subseteq P!Runs /\ slots \in Nat
      /\ registered \in [Urls -> P!Runs \cup {Nobody}]
  BY <1>1, RunStays DEF PrefetchInv, PrefetchTypes
<1>3. P!Url(r) \in Urls /\ \A s \in P!Runs : s # Nobody
  BY RunPair
<1>4. CASE /\ registered[P!Url(r)] = Nobody /\ run' = [run EXCEPT ![r] = "running"]
           /\ registered' = [registered EXCEPT ![P!Url(r)] = r] /\ UNCHANGED item
  <2>1. registered' \in [Urls -> P!Runs \cup {Nobody}] /\ registered'[P!Url(r)] = r
    BY <1>2, <1>3, <1>4
  <2>2. ASSUME spent.aborts = 0, NEW s \in P!Runs, run[s] \in Registered
        PROVE  registered'[P!Url(s)] = registered[P!Url(s)]
    <3>1. registered[P!Url(s)] = s /\ s # Nobody
      BY <1>3, <2>2 DEF PrefetchInv, Owners
    <3>2. P!Url(s) # P!Url(r)
      BY <1>4, <3>1
    <3>3. P!Url(s) \in Urls
      BY RunPair
    <3> QED BY <1>2, <1>4, <3>2, <3>3
  <2>3. slots' = slots + One("running" \in Holding) - One(run[r] \in Holding)
    BY <1>1, <1>2 DEF One, Holding
  <2> QED BY <1>1, <1>2, <1>4, <2>1, <2>2, <2>3, RunKeeps DEF Steps, AtWork
<1>5. CASE /\ run' = [run EXCEPT ![r] = "duplicate"] /\ item' = P!Moved({r[1]}, "merged")
           /\ UNCHANGED registered
  <2>1. slots' = slots + One("duplicate" \in Holding) - One(run[r] \in Holding)
    BY <1>1, <1>2 DEF One, Holding
  <2>2. "duplicate" \notin Registered
    BY DEF Registered
  <2> QED BY <1>1, <1>2, <1>5, <2>1, <2>2, RunKeeps DEF Steps, AtWork
<1> QED BY <1>4, <1>5 DEF P!Register, P!Goto

(* The slot is given back: there is one to give. *)
LEMMA HolderHasSlot ==
  ASSUME PrefetchFacts, PrefetchInv, NEW r \in P!Runs, run[r] \in Holding
  PROVE  slots \in Nat /\ slots > 0
<1>1. r \in Holders
  BY DEF Holders
<1>2. Holders # {} /\ IsFiniteSet(Holders) /\ Cardinality(Holders) \in Nat
  BY <1>1, HoldersFinite
<1>3. Cardinality(Holders) # 0
  BY <1>2, FS_EmptySet
<1> QED BY <1>2, <1>3 DEF PrefetchInv, HoldersCounted

LEMMA EndDuplicateKeeps ==
  ASSUME PrefetchFacts, PrefetchInv, NEW r \in P!Runs, P!EndDuplicate(r) PROVE PrefetchInv'
<1>1. /\ run[r] = "duplicate" /\ run' = [run EXCEPT ![r] = "gone"] /\ slots' = slots - 1
      /\ UNCHANGED <<item, registered, cancelled, fileEffective, purge, spent>>
  BY DEF P!EndDuplicate, P!Goto
<1>2. /\ spent' \in [failures : Nat, halts : Nat, aborts : Nat, adjusts : Nat]
      /\ spent'.aborts = spent.aborts
      /\ cancelled' \subseteq P!Runs /\ registered' \in [Urls -> P!Runs \cup {Nobody}]
  BY <1>1, RunStays DEF PrefetchInv, PrefetchTypes
<1>3. slots' = slots + One("gone" \in Holding) - One(run[r] \in Holding)
  BY <1>1, HolderHasSlot DEF One, Holding
<1>4. "gone" \in Steps /\ "gone" \notin AtWork /\ "gone" \notin Registered
  BY DEF Steps, AtWork, Registered
<1> QED BY <1>1, <1>2, <1>3, <1>4, RunKeeps

LEMMA FinishRunKeeps ==
  ASSUME PrefetchFacts, PrefetchInv, NEW r \in P!Runs, P!FinishRun(r) PROVE PrefetchInv'
<1>1. /\ run[r] = "running" /\ UNCHANGED <<registered, cancelled, slots, fileEffective, purge>>
      /\ UNCHANGED spent \/ P!Spend("failures")
  BY DEF P!FinishRun, P!Goto
<1>2. /\ spent' \in [failures : Nat, halts : Nat, aborts : Nat, adjusts : Nat]
      /\ spent'.aborts = spent.aborts
      /\ cancelled' \subseteq P!Runs /\ registered' \in [Urls -> P!Runs \cup {Nobody}]
      /\ slots \in Nat
  BY <1>1, RunStays DEF PrefetchInv, PrefetchTypes
<1>3. spent.aborts = 0 => registered'[P!Url(r)] = r
  BY <1>1 DEF PrefetchInv, Owners, Registered
<1>4. CASE run' = [run EXCEPT ![r] = "ending"] /\ item' = P!Moved({r[1]}, "ended")
  <2>1. slots' = slots + One("ending" \in Holding) - One(run[r] \in Holding)
    BY <1>1, <1>2 DEF One, Holding
  <2> QED BY <1>1, <1>2, <1>3, <1>4, <2>1, RunKeeps DEF Steps, AtWork
<1>5. CASE run' = [run EXCEPT ![r] = "retrying"] /\ UNCHANGED item /\ P!MayRetry(r)
  <2>1. slots' = slots + One("retrying" \in Holding) - One(run[r] \in Holding)
    BY <1>1, <1>2 DEF One, Holding
  <2>2. r[2] + 1 \in Tries
    BY <1>5, RunPair DEF P!MayRetry, Tries, PrefetchFacts
  <2> QED BY <1>1, <1>2, <1>3, <1>5, <2>1, <2>2, RunKeeps DEF Steps, AtWork
<1> QED BY <1>4, <1>5 DEF P!FinishRun, P!Goto

(* A retry: the next attempt of the item is off, and no other item of its  *)
(* URL is put off any more.                                                *)
LEMMA enqueueDelayedKeeps ==
  ASSUME PrefetchFacts, PrefetchInv, NEW r \in P!Runs, P!enqueueDelayed(r) PROVE PrefetchInv'
<1> DEFINE twin == \E j \in P!At({"delayed"}) : UrlOf[j] = P!Url(r)
           place == IF twin THEN "merged" ELSE "delayed"
           i == r[1]
           others == {j \in P!At({"waiting"}) : UrlOf[j] = UrlOf[i]}
           next == [at |-> place, attempt |-> IF place = "delayed" THEN item[i].attempt + 1
                                              ELSE item[i].attempt]
<1>1. /\ run[r] = "retrying" /\ run' = [run EXCEPT ![r] = "ending"]
      /\ item' = P!Later(i, place)
      /\ UNCHANGED <<registered, cancelled, slots, fileEffective, purge, spent>>
  BY DEF P!enqueueDelayed, P!Goto
<1>2. /\ i \in Items /\ r[2] \in Tries /\ P!Url(r) = UrlOf[i]
      /\ \A s \in P!Runs : s[1] \in Items /\ (s[1] = i /\ s[2] = r[2] => s = r)
      /\ \A s \in P!Runs : s[2] \in Tries
  BY RunPair
<1>3. item[i].at = "started" /\ item[i].attempt = r[2] /\ r[2] + 1 \in Tries
  BY <1>1 DEF PrefetchInv, Attempts, AtWork
<1>4. place \in {"merged", "delayed"}
  OBVIOUS
<1>5. place = "delayed" => \A j \in P!At({"delayed"}) : UrlOf[j] # UrlOf[i]
  BY <1>2
<1> HIDE DEF place
<1>6. next \in ItemRec /\ next.at = place
      /\ next.attempt = IF place = "delayed" THEN r[2] + 1 ELSE r[2]
  BY <1>2, <1>3, <1>4 DEF ItemRec
<1>7. /\ P!Moved(others, "merged") \in [Items -> ItemRec]
      /\ \A j \in Items :
           /\ P!Moved(others, "merged")[j].at = IF j \in others THEN "merged" ELSE item[j].at
           /\ P!Moved(others, "merged")[j].attempt = item[j].attempt
  <2>1. others \in SUBSET Items
    BY DEF P!At
  <2> HIDE DEF others
  <2> QED BY <2>1, MovedDoes DEF PrefetchInv
<1>8. i \notin others
  BY <1>3 DEF P!At
<1>9. P!Later(i, place) = [P!Moved(others, "merged") EXCEPT ![i] = next]
  <2>1. P!Moved(others, "merged")[i] = item[i]
    BY <1>2, <1>8 DEF P!Moved
  <2> HIDE DEF others
  <2> QED BY <2>1 DEF P!Later, others
<1> HIDE DEF next
<1>10. /\ item' \in [Items -> ItemRec]
       /\ item'[i].at = place
       /\ item'[i].attempt = IF place = "delayed" THEN r[2] + 1 ELSE r[2]
       /\ \A j \in Items : j # i => /\ item'[j].at = IF j \in others THEN "merged" ELSE item[j].at
                                    /\ item'[j].attempt = item[j].attempt
  <2> HIDE DEF others, ItemRec, i
  <2> QED BY <1>1, <1>2, <1>6, <1>7, <1>9
<1>11. /\ run' \in [P!Runs -> Steps] /\ run'[r] = "ending"
       /\ \A s \in P!Runs : s # r => run'[s] = run[s]
       /\ Cardinality(Holders')
            = Cardinality(Holders) + One("ending" \in Holding) - One("retrying" \in Holding)
  BY <1>1, RunGoes DEF PrefetchInv, Steps
<1>12. PrefetchTypes'
  BY <1>1, <1>10, <1>11 DEF PrefetchInv, PrefetchTypes
<1>13. Attempts'
  <2>1. ASSUME NEW s \in P!Runs
        PROVE  /\ run'[s] \in AtWork => item'[s[1]].at = "started" /\ item'[s[1]].attempt = s[2]
               /\ s[2] > item'[s[1]].attempt => run'[s] = "off"
               /\ s[2] = item'[s[1]].attempt /\ item'[s[1]].at \in Queued => run'[s] = "off"
               /\ run'[s] = "retrying" => s[2] + 1 \in Tries
    <3>1. /\ run[s] \in AtWork => item[s[1]].at = "started" /\ item[s[1]].attempt = s[2]
          /\ s[2] > item[s[1]].attempt => run[s] = "off"
          /\ s[2] = item[s[1]].attempt /\ item[s[1]].at \in Queued => run[s] = "off"
          /\ run[s] = "retrying" => s[2] + 1 \in Tries
      BY DEF PrefetchInv, Attempts
    <3>2. s[2] \in Nat /\ r[2] \in Nat
      BY <1>2 DEF Tries
    <3>3. CASE s = r
      BY <1>4, <1>10, <1>11, <3>2, <3>3 DEF AtWork, Queued
    <3>4. CASE s # r
      <4>1. run'[s] = run[s]
        BY <1>11, <3>4
      <4>2. CASE s[1] = i
        <5>1. s[2] # r[2] /\ (run[s] \in AtWork => s[2] = r[2]) /\ (s[2] > r[2] => run[s] = "off")
          BY <1>2, <1>3, <3>1, <3>4, <4>2
        <5>2. item'[s[1]].at = place /\ item'[s[1]].attempt \in {r[2], r[2] + 1}
              /\ (place = "merged" => item'[s[1]].attempt = r[2])
              /\ (place = "delayed" => item'[s[1]].attempt = r[2] + 1)
          BY <1>4, <1>10, <4>2
        <5> QED BY <1>4, <3>1, <3>2, <4>1, <5>1, <5>2 DEF Queued
      <4>3. CASE s[1] # i
        <5>1. /\ item'[s[1]].at = IF s[1] \in others THEN "merged" ELSE item[s[1]].at
              /\ item'[s[1]].attempt = item[s[1]].attempt
          BY <1>2, <1>10, <4>3
        <5>2. s[1] \in others => item[s[1]].at = "waiting"
          BY DEF P!At
        <5> HIDE DEF others
        <5> QED BY <3>1, <4>1, <5>1, <5>2 DEF Queued
      <4> QED BY <4>2, <4>3
    <3> QED BY <3>3, <3>4
  <2> QED BY <2>1 DEF Attempts
<1>14. HoldersCounted'
  BY <1>1, <1>11, HoldersFinite DEF PrefetchInv, HoldersCounted, One, Holding
<1>15. P!DeferredOnce'
  <2>1. \A j \in P!At({"waiting", "delayed"})' :
          \/ j = i /\ place = "delayed"
          \/ j # i /\ j \in P!At({"waiting", "delayed"}) /\ j \notin others
    BY <1>4, <1>10 DEF P!At
  <2>2. \A j \in P!At({"waiting", "delayed"}) :
          j \notin others /\ place = "delayed" => UrlOf[j] # UrlOf[i]
    BY <1>5 DEF P!At
  <2> HIDE DEF others, i
  <2> QED BY <2>1, <2>2 DEF PrefetchInv, P!DeferredOnce
<1>16. Owners'
  BY <1>1, <1>11 DEF PrefetchInv, Owners, P!Url, Registered
<1> QED BY <1>12, <1>13, <1>14, <1>15, <1>16 DEF PrefetchInv

LEMMA EndPrefetchKeeps ==
  ASSUME PrefetchFacts, PrefetchInv, NEW r \in P!Runs, P!EndPrefetch(r) PROVE PrefetchInv'
<1>1. /\ run[r] = "ending" /\ run' = [run EXCEPT ![r] = "unregister"]
      /\ slots' = IF slots > 0 THEN slots - 1 ELSE 0
      /\ UNCHANGED <<item, registered, cancelled, fileEffective, purge, spent>>
  BY DEF P!EndPrefetch, P!Goto
<1>2. /\ spent' \in [failures : Nat, halts : Nat, aborts : Nat, adjusts : Nat]
      /\ spent'.aborts = spent.aborts
      /\ cancelled' \subseteq P!Runs /\ registered' \in [Urls -> P!Runs \cup {Nobody}]
  BY <1>1, RunStays DEF PrefetchInv, PrefetchTypes
<1>3. slots' = slots + One("unregister" \in Holding) - One(run[r] \in Holding)
  BY <1>1, HolderHasSlot DEF One, Holding
<1>4. spent.aborts = 0 => registered'[P!Url(r)] = r
  BY <1>1 DEF PrefetchInv, Owners, Registered
<1> QED BY <1>1, <1>2, <1>3, <1>4, RunKeeps DEF Steps, AtWork

LEMMA UnregisterKeeps ==
  ASSUME PrefetchFacts, PrefetchInv, NEW r \in P!Runs, P!Unregister(r) PROVE PrefetchInv'
<1>1. /\ run[r] = "unregister" /\ run' = [run EXCEPT ![r] = "gone"]
      /\ registered' = [registered EXCEPT ![P!Url(r)] = Nobody]
      /\ cancelled' = cancelled \cup {r}
      /\ UNCHANGED <<item, slots, fileEffective, purge, spent>>
  BY DEF P!Unregister, P!Goto
<1>2. /\ spent' \in [failures : Nat, halts : Nat, aborts : Nat, adjusts : Nat]
      /\ spent'.aborts = spent.aborts
      /\ cancelled' \subseteq P!Runs /\ slots \in Nat
      /\ registered \in [Urls -> P!Runs \cup {Nobody}]
  BY <1>1, RunStays DEF PrefetchInv, PrefetchTypes
<1>3. registered' \in [Urls -> P!Runs \cup {Nobody}]
  BY <1>1, <1>2
<1>4. ASSUME spent.aborts = 0, NEW s \in P!Runs, s # r, run[s] \in Registered
      PROVE  registered'[P!Url(s)] = registered[P!Url(s)]
  <2>1. registered[P!Url(s)] = s /\ registered[P!Url(r)] = r
    BY <1>1, <1>4 DEF PrefetchInv, Owners, Registered
  <2>2. P!Url(s) # P!Url(r) /\ P!Url(s) \in Urls
    BY <1>4, <2>1, RunPair
  <2> QED BY <1>1, <1>2, <2>2
<1>5. slots' = slots + One("gone" \in Holding) - One(run[r] \in Holding)
  BY <1>1, <1>2 DEF One, Holding
<1>6. "gone" \notin Registered
  BY DEF Registered
<1> QED BY <1>1, <1>2, <1>3, <1>4, <1>5, <1>6, RunKeeps DEF Steps, AtWork

-----------------------------------------------------------------------------
(* Management requests and the governor *)

(* Items, runs and slots stay, and whoever changes what is registered is   *)
(* counted as a cancellation.                                              *)
LEMMA RequestKeeps ==
  ASSUME PrefetchInv, UNCHANGED <<item, run, slots>>,
         registered' \in [Urls -> P!Runs \cup {Nobody}], cancelled' \subseteq P!Runs,
         fileEffective' \in 1..FileCeiling,
         purge' \in {"idle", "abort", "manual", "deferred"},
         spent' \in [failures : Nat, halts : Nat, aborts : Nat, adjusts : Nat],
         spent'.aborts = 0 => spent.aborts = 0 /\ UNCHANGED <<registered, purge>>
  PROVE  PrefetchInv'
<1>1. PrefetchTypes'
  BY DEF PrefetchInv, PrefetchTypes
<1>2. Attempts' /\ HoldersCounted' /\ P!DeferredOnce'
  BY DEF PrefetchInv, Attempts, HoldersCounted, Holders, P!DeferredOnce, P!At
<1>3. Owners'
  BY DEF PrefetchInv, Owners, P!Url
<1> QED BY <1>1, <1>2, <1>3 DEF PrefetchInv

LEMMA CancelKeeps ==
  ASSUME PrefetchFacts, PrefetchInv, NEW u \in Urls, P!Cancel(u) PROVE PrefetchInv'
<1>1. PICK rs \in P!Aborted(P!OfUrl(u)) :
        cancelled' = cancelled \cup rs \cup ({registered[u]} \ {Nobody})
  BY DEF P!Cancel
<1>2. /\ P!Spend("aborts") /\ registered' = [registered EXCEPT ![u] = Nobody]
      /\ UNCHANGED <<item, run, slots, fileEffective, purge>>
  BY DEF P!Cancel
<1>3. rs \subseteq P!Runs
  BY DEF P!Aborted, P!OfUrl
<1>4. cancelled' \subseteq P!Runs /\ registered' \in [Urls -> P!Runs \cup {Nobody}]
  BY <1>1, <1>2, <1>3 DEF PrefetchInv, PrefetchTypes
<1>5. spent' \in [failures : Nat, halts : Nat, aborts : Nat, adjusts : Nat] /\ spent'.aborts # 0
  BY <1>2, SpendCounts DEF PrefetchInv
<1>6. /\ fileEffective' \in 1..FileCeiling
      /\ purge' \in {"idle", "abort", "manual", "deferred"}
  BY <1>2 DEF PrefetchInv, PrefetchTypes
<1> QED BY <1>2, <1>4, <1>5, <1>6, RequestKeeps

LEMMA BeginPurgeKeeps ==
  ASSUME PrefetchFacts, PrefetchInv, P!BeginPurge PROVE PrefetchInv'
<1>1. PICK rs \in P!Aborted(P!Runs) : cancelled' = cancelled \cup rs
  BY DEF P!BeginPurge
<1>2. /\ P!Spend("aborts") /\ purge' = "abort"
      /\ UNCHANGED <<item, run, registered, slots, fileEffective>>
  BY DEF P!BeginPurge
<1>3. rs \subseteq P!Runs
  BY DEF P!Aborted
<1>4. cancelled' \subseteq P!Runs /\ registered' \in [Urls -> P!Runs \cup {Nobody}]
      /\ fileEffective' \in 1..FileCeiling
  BY <1>1, <1>2, <1>3 DEF PrefetchInv, PrefetchTypes
<1>5. spent' \in [failures : Nat, halts : Nat, aborts : Nat, adjusts : Nat] /\ spent'.aborts # 0
  BY <1>2, SpendCounts DEF PrefetchInv
<1> QED BY <1>2, <1>4, <1>5, RequestKeeps

LEMMA AbortDownloadsKeeps ==
  ASSUME PrefetchFacts, PrefetchInv, P!abortDownloadsMatching PROVE PrefetchInv'
<1>1. /\ purge = "abort" /\ purge' = "manual" /\ registered' = [u \in Urls |-> Nobody]
      /\ cancelled' = cancelled \cup ({registered[u] : u \in Urls} \ {Nobody})
      /\ UNCHANGED <<item, run, slots, fileEffective, spent>>
  BY DEF P!abortDownloadsMatching
<1>2. cancelled' \subseteq P!Runs /\ registered' \in [Urls -> P!Runs \cup {Nobody}]
      /\ fileEffective' \in 1..FileCeiling
  BY <1>1 DEF PrefetchInv, PrefetchTypes
<1>3. spent' \in [failures : Nat, halts : Nat, aborts : Nat, adjusts : Nat] /\ spent'.aborts # 0
  BY <1>1 DEF PrefetchInv, PrefetchTypes, Owners
<1> QED BY <1>1, <1>2, <1>3, RequestKeeps

LEMMA ObserveHostKeeps ==
  ASSUME PrefetchFacts, PrefetchInv, P!ObserveHost PROVE PrefetchInv'
<1>1. /\ P!Spend("adjusts") /\ UNCHANGED <<item, run, registered, cancelled, slots, purge>>
  BY DEF P!ObserveHost
<1>2. fileEffective' \in 1..FileCeiling
  BY DEF P!ObserveHost, PrefetchInv, PrefetchTypes, PrefetchFacts
<1>3. /\ spent' \in [failures : Nat, halts : Nat, aborts : Nat, adjusts : Nat]
      /\ spent'.aborts = spent.aborts
  BY <1>1, SpendCounts DEF PrefetchInv
<1>4. /\ registered' \in [Urls -> P!Runs \cup {Nobody}] /\ cancelled' \subseteq P!Runs
      /\ purge' \in {"idle", "abort", "manual", "deferred"}
  BY <1>1 DEF PrefetchInv, PrefetchTypes
<1> QED BY <1>1, <1>2, <1>3, <1>4, RequestKeeps

-----------------------------------------------------------------------------
LEMMA PrefetchKept ==
  ASSUME PrefetchFacts, PrefetchInv, [P!Next]_(P!vars) PROVE PrefetchInv'
<1>1. ASSUME NEW i \in Items, P!EnqueuePlatform(i) \/ P!ItemStep(i) PROVE PrefetchInv'
  BY <1>1, EnqueueKeeps, ExpandKeeps, failResolveKeeps, TryBeginKeeps, enqueueWaitingKeeps
     DEF P!ItemStep
<1>2. ASSUME NEW r \in P!Runs, P!RunStep(r) PROVE PrefetchInv'
  <2>1. CASE P!Register(r) \/ P!EndDuplicate(r) \/ P!FinishRun(r)
    BY <2>1, RegisterKeeps, EndDuplicateKeeps, FinishRunKeeps
  <2>2. CASE P!enqueueDelayed(r) \/ P!EndPrefetch(r) \/ P!Unregister(r)
    BY <2>2, enqueueDelayedKeeps, EndPrefetchKeeps, UnregisterKeeps
  <2> QED BY <1>2, <2>1, <2>2 DEF P!RunStep
<1>3. ASSUME NEW u \in Urls, P!Cancel(u) PROVE PrefetchInv'
  BY <1>3, CancelKeeps
<1>4. CASE P!Tick \/ P!BeginPurge \/ P!ObserveHost
  BY <1>4, DrainKeeps, BeginPurgeKeeps, ObserveHostKeeps
<1>5. CASE P!PurgeStep
  BY <1>5, AbortDownloadsKeeps, PurgeQueueKeeps DEF P!PurgeStep
<1>6. CASE UNCHANGED P!vars
  BY <1>6, RequestKeeps DEF P!vars, PrefetchInv, PrefetchTypes
<1> QED BY <1>1, <1>2, <1>3, <1>4, <1>5, <1>6 DEF P!Next

(* An item is in nobody's copy, or in that of a submission or of the loop. *)
DrainerTyped == drainer \in [Items -> Items \cup {Loop, Nobody}]

LEMMA DrainerKept ==
  ASSUME DrainerTyped, [P!Next]_(P!vars) PROVE DrainerTyped'
<1>1. ASSUME NEW d \in Items \cup {Loop}, P!drainManual(d) PROVE DrainerTyped'
  BY <1>1 DEF P!drainManual, DrainerTyped
<1>2. ASSUME NEW i \in Items, P!Leaves(i) \/ UNCHANGED drainer PROVE DrainerTyped'
  BY <1>2 DEF P!Leaves, DrainerTyped
<1>3. CASE UNCHANGED drainer
  BY <1>3 DEF DrainerTyped
<1>4. ASSUME NEW i \in Items, P!EnqueuePlatform(i) \/ P!ItemStep(i) PROVE DrainerTyped'
  <2>1. P!Leaves(i) \/ UNCHANGED drainer
    BY <1>4 DEF P!EnqueuePlatform, P!ItemStep, P!expandItem, P!expandHalts, P!failResolve,
       P!TryBeginPrefetch, P!enqueueWaiting
  <2> QED BY <1>2, <2>1
<1>5. CASE P!Tick
  <2>1. UNCHANGED drainer \/ \E d \in Items \cup {Loop} : P!drainManual(d)
    BY <1>5 DEF P!Tick, P!drainWaiting, P!drainDelayed, P!Drain
  <2> QED BY <1>1, <1>3, <2>1
<1>6. ASSUME NEW r \in P!Runs, P!RunStep(r) PROVE UNCHANGED drainer
  BY <1>6 DEF P!RunStep, P!Register, P!EndDuplicate, P!FinishRun, P!enqueueDelayed,
     P!EndPrefetch, P!Unregister
<1>7. ASSUME \/ \E u \in Urls : P!Cancel(u)
             \/ P!BeginPurge \/ P!PurgeStep \/ P!ObserveHost
      PROVE  UNCHANGED drainer
  BY <1>7 DEF P!Cancel, P!BeginPurge, P!PurgeStep, P!abortDownloadsMatching,
     P!clearManualMatching, P!clearDeferredMatching, P!PurgeQueue, P!ObserveHost
<1>8. CASE UNCHANGED P!vars
  BY <1>3, <1>8 DEF P!vars
<1> QED BY <1>3, <1>4, <1>5, <1>6, <1>7, <1>8 DEF P!Next

LEMMA PrefetchAccounts ==
  ASSUME PrefetchFacts, PrefetchInv, DrainerTyped PROVE P!PrefetchAccounting
<1>1. P!TypeOK
  BY DEF DrainerTyped, PrefetchInv, PrefetchTypes, P!TypeOK, ItemRec, Tries, Steps
<1>2. P!SlotAccounting
  <2>1. P!RunsAt({"admitted", "duplicate", "running", "retrying", "ending"}) = Holders
    BY DEF P!RunsAt, Holders, Holding
  <2>2. \A S : P!Cardinality(S) = Cardinality(S)
    BY DEF P!Cardinality, Cardinality
  <2> QED BY <2>1, <2>2 DEF PrefetchInv, HoldersCounted, P!SlotAccounting
<1>3. P!OneRunPerUrl
  BY DEF PrefetchInv, Owners, Registered, P!OneRunPerUrl, P!RunsAt
<1> QED BY <1>1, <1>2, <1>3 DEF PrefetchInv, P!PrefetchAccounting

(* The host's count of files is the number of runs that hold a slot, one   *)
(* URL is put off once, and unless somebody cancels one run downloads it:  *)
(* for every number of items and URLs, whatever attempts fail, are merged, *)
(* cancelled or purged, however the governor moves the limit.              *)
THEOREM PrefetchAccountingHolds == PrefetchSpec => []PrefetchAccounting
<1>0. PrefetchFacts
  BY PrefetchConstants DEF PrefetchFacts, P!PrefetchConstants, P!IsFiniteSet, IsFiniteSet
<1>1. P!Init => PrefetchInv /\ DrainerTyped
  BY <1>0, InitPrefetch DEF P!Init, DrainerTyped
<1>2. PrefetchInv /\ DrainerTyped /\ [P!Next]_(P!vars) => PrefetchInv' /\ DrainerTyped'
  BY <1>0, PrefetchKept, DrainerKept
<1>3. PrefetchInv /\ DrainerTyped => PrefetchAccounting
  BY <1>0, PrefetchAccounts DEF PrefetchAccounting
<1> QED BY <1>1, <1>2, <1>3, PTL DEF PrefetchSpec, P!Spec
=============================================================================
