--------------------------- MODULE ServicesProofs ---------------------------
(***************************************************************************)
(* Proofs about the small services of MCServices, for every value of the   *)
(* constants: the online update installs only what it has verified, and    *)
(* its lock, progress and cancel function agree; the task slots of paused  *)
(* prefetches are the leases of the downloads; one renewal of a registry's *)
(* token is enough; the configuration that was answered is stored and in   *)
(* force; the catalog is whole.  Each service's invariant is kept by its   *)
(* own steps, which are its module's, and by those of the others, which    *)
(* leave its variables alone.                                              *)
(***************************************************************************)
EXTENDS MCServices, Integers, FiniteSetTheorems, TLAPS

(* The counter of failures is the one variable that services share. *)
LEMMA FaultsCounted ==
  ASSUME MaxFaults \in Nat, faults \in 0..MaxFaults, [Next]_vars, part # "update"
  PROVE  UNCHANGED update /\ faults' \in 0..MaxFaults /\ faults' >= faults
<1>1. CASE Only("lease", L!Next) \/ Only("token", T!Next)
  BY <1>1 DEF Only
<1>2. CASE Only("pypi", P!Next) \/ Only("maven", M!Next) \/ Only("npm", J!Next)
  BY <1>2 DEF Only
<1>3. CASE Only("config", C!Next)
  <2>1. C!Next /\ UNCHANGED update
    BY <1>3 DEF Only
  <2>2. UNCHANGED faults \/ (faults < MaxFaults /\ faults' = faults + 1)
    BY <2>1 DEF C!Next, C!Step, C!ReadBefore, C!Update, C!Get, C!Tell, C!UpdateLimiters,
         C!SetInteractiveTaskReserve, C!SetMaxSizeGB, C!SetUpstreamProxy, C!ResumePrefetch,
         C!LastInteractiveEnds, C!TimerFires, C!Restart
  <2> QED BY <2>1, <2>2
<1>4. CASE Only("catalog", G!Next)
  <2>1. G!Next /\ UNCHANGED update
    BY <1>4 DEF Only
  <2>2. UNCHANGED faults \/ (faults < MaxFaults /\ faults' = faults + 1)
    BY <2>1 DEF G!Next, G!CallerStep, G!RefreshStep, G!Search, G!Load, G!SetLoaded, G!Tick,
         G!NeedsRefresh, G!TriggerIfStale, G!PutUpstream, G!Kick, G!Fetch, G!PublishChunk,
         G!PublishLast, G!Create, G!Write, G!Rename, G!SetCatalog, G!ClearFlag, G!Age, G!Restart
  <2> QED BY <2>1, <2>2
<1>5. CASE UNCHANGED vars
  BY <1>5 DEF vars
<1>6. ~Only("update", U!Next)
  BY DEF Only
<1> QED BY <1>1, <1>2, <1>3, <1>4, <1>5, <1>6 DEF Next

(* It never passes its bound. *)
LEMMA FaultsBounded ==
  ASSUME MaxFaults \in Nat, faults \in 0..MaxFaults, [Next]_vars
  PROVE  faults' \in 0..MaxFaults
<1>1. CASE Only("update", U!Next)
  <2>1. U!Next
    BY <1>1 DEF Only
  <2>2. UNCHANGED faults \/ (faults < MaxFaults /\ faults' = faults + 1)
    BY <2>1 DEF U!Next, U!PostUpdate, U!PostRestart, U!RestartSelf, U!TakeHandle, U!CancelStep,
         U!CallCancel, U!ReportCancel, U!Publish, U!Crash, U!Lose, U!Apply, U!SetPreparing,
         U!Register, U!FetchLatest, U!ResolvePath, U!Download, U!SetDownloading, U!SetVerifying,
         U!Verify, U!CommitReplace, U!CheckAgain, U!SetReplacing, U!ReplaceExecutable,
         U!SetRestarting, U!Exec, U!Unwind, U!Report, U!ReleaseHandle, U!Unlock, U!env
  <2> QED BY <2>2
<1>2. CASE UNCHANGED vars
  BY <1>2 DEF vars
<1>3. CASE part # "update"
  BY <1>3, FaultsCounted
<1> QED BY <1>1, <1>2, <1>3 DEF Next, Only

-----------------------------------------------------------------------------
(* The online update *)

(* There is a first release; the bounds are numbers. *)
UpdaterConstants == MaxVersion \in Nat \ {0} /\ MaxRuns \in Nat /\ MaxFaults \in Nat

(* The executables that are anywhere, by their versions *)
Images ==
  /\ rel \in U!Versions /\ newest \in U!Versions /\ faults \in Nat
  /\ running \in U!Versions \cup {U!Absent} /\ path \in U!Versions \cup {U!Absent}
  /\ new \in U!Versions \cup {U!Absent, U!Bad}

(* From the choice of the release to the rename it is newer than what      *)
(* runs, and what was verified is still at path.new.                       *)
Chosen ==
  /\ pc \in {"resolve", "download", "progress", "verify", "hash", "commit", "committed",
             "replacing", "rename"} => rel > running
  /\ pc \in {"commit", "committed", "replacing", "rename"} => new = rel

GenuineInv == Images /\ Chosen /\ U!InstalledIsGenuine

(* The deferred functions settle the progress before the lock is given     *)
(* back: a late Cancel can only have settled it already.                   *)
Unwinding ==
  /\ pc = "unwind" => verdict \in {"failed", "cancelled"}
  /\ pc = "report" => \/ verdict \in {"failed", "cancelled"}
                      \/ verdict = "none" /\ phase = "cancelled"
  /\ pc \in {"release", "unlock", "restart"} => phase \in U!Settled
  /\ pc = "unlock" => handle = 0

SettledInv ==
  U!SettledWhenIdle /\ Unwinding /\ run \in Nat /\ lock \in {"free", "update", "restart"}

-----------------------------------------------------------------------------
(* The initial state has the first release, and nobody at work. *)
LEMMA InitGenuine == ASSUME UpdaterConstants PROVE U!Init => GenuineInv
BY DEF UpdaterConstants, U!Init, GenuineInv, Images, Chosen, U!InstalledIsGenuine, U!Versions,
       U!Absent, U!Bad

(* What reexec.Resolve leaves at the path is what was there or what runs.  *)
LEMMA ResolvedIsGenuine ==
  ASSUME UpdaterConstants, GenuineInv, NEW p \in U!Resolved
  PROVE  /\ p \in U!Versions \cup {U!Absent} /\ p # U!Bad
         /\ p = U!Absent \/ p >= running
         /\ p = U!Absent => faults > 0
BY DEF UpdaterConstants, GenuineInv, Images, U!InstalledIsGenuine, U!Resolved, U!Versions,
       U!Absent, U!Bad

(* The steps of an update keep the invariant: the release is newer when it *)
(* is chosen, the download is compared with it before it can be committed, *)
(* and only the rename and Resolve touch the path.                         *)
LEMMA ApplyKeepsGenuine ==
  ASSUME UpdaterConstants, GenuineInv, U!Apply PROVE GenuineInv'
<1> USE DEF UpdaterConstants, GenuineInv, Images, Chosen, U!InstalledIsGenuine, U!Versions,
            U!Absent, U!Bad,
            U!Go, U!Fail, U!Checked, U!CheckedInTime, U!Kept, U!env
<1>1. CASE U!SetPreparing \/ U!Register \/ U!SetDownloading \/ U!SetReplacing \/ U!SetRestarting
  BY <1>1 DEF U!SetPreparing, U!Register, U!SetDownloading, U!SetReplacing, U!SetRestarting
<1>2. CASE U!FetchLatest
  BY <1>2 DEF U!FetchLatest, U!UpdateAvailable, U!Newer, U!fetchLatest
<1>3. CASE U!ResolvePath
  <2>1. CASE path' \in U!Resolved /\ U!Go("download") /\ new' = U!Absent
    BY <1>3, <2>1, ResolvedIsGenuine DEF U!ResolvePath
  <2>2. CASE U!Fail("failed") /\ UNCHANGED <<path, new>>
    BY <1>3, <2>2 DEF U!ResolvePath
  <2> QED BY <1>3, <2>1, <2>2 DEF U!ResolvePath
<1>4. CASE U!Download
  BY <1>4 DEF U!Download
<1>5. CASE U!SetVerifying
  BY <1>5 DEF U!SetVerifying
<1>6. CASE U!Verify
  BY <1>6 DEF U!Verify
<1>7. CASE U!CommitReplace \/ U!CheckAgain
  BY <1>7 DEF U!CommitReplace, U!CheckAgain
<1>8. CASE U!ReplaceExecutable
  BY <1>8 DEF U!ReplaceExecutable
<1>9. CASE U!Exec
  <2>1. UNCHANGED <<path, new, newest, faults>>
    BY <1>9 DEF U!Exec
  <2>2. CASE U!Started(path) /\ path # U!Absent
    <3>1. running' = path /\ pc' = "idle" /\ rel' = 1
      BY <2>2 DEF U!Started
    <3> QED BY <2>1, <2>2, <3>1
  <2>3. CASE U!Fail("failed") /\ UNCHANGED <<rel, running>>
    BY <2>1, <2>3
  <2> QED BY <1>9, <2>2, <2>3 DEF U!Exec
<1>10. CASE U!Unwind \/ U!Report \/ U!ReleaseHandle \/ U!Unlock
  BY <1>10 DEF U!Unwind, U!Report, U!ReleaseHandle, U!Unlock
<1> QED BY <1>1, <1>2, <1>3, <1>4, <1>5, <1>6, <1>7, <1>8, <1>9, <1>10 DEF U!Apply

(* So do requests, restarts, cancellations, releases, crashes and losses. *)
LEMMA OthersKeepGenuine ==
  ASSUME UpdaterConstants, GenuineInv,
         \/ U!PostUpdate \/ U!PostRestart \/ U!RestartSelf \/ U!Publish \/ U!Crash \/ U!Lose
         \/ \E a \in Actors : U!TakeHandle(a) \/ U!CancelStep(a)
         \/ UNCHANGED U!vars
  PROVE  GenuineInv'
<1> USE DEF UpdaterConstants, GenuineInv, Images, Chosen, U!InstalledIsGenuine, U!Versions,
            U!Absent, U!Bad,
            U!Go, U!env
<1>1. CASE U!PostUpdate \/ U!PostRestart
  BY <1>1 DEF U!PostUpdate, U!PostRestart
<1>2. CASE U!RestartSelf
  <2>1. CASE path' \in U!Resolved
    BY <1>2, <2>1, ResolvedIsGenuine DEF U!RestartSelf, U!Started
  <2>2. CASE U!CannotResolve /\ path' = U!Absent /\ UNCHANGED <<rel, running>> /\ pc' = "idle"
    BY <1>2, <2>2 DEF U!RestartSelf, U!CannotResolve
  <2> QED BY <1>2, <2>1, <2>2 DEF U!RestartSelf
<1>3. CASE U!Publish
  BY <1>3 DEF U!Publish
<1>4. CASE U!Crash
  BY <1>4 DEF U!Crash, U!Started
<1>5. CASE U!Lose
  BY <1>5 DEF U!Lose
<1>6. CASE \E a \in Actors : U!TakeHandle(a) \/ U!CancelStep(a)
  BY <1>6 DEF U!TakeHandle, U!CancelStep, U!CallCancel, U!ReportCancel
<1>7. CASE UNCHANGED U!vars
  BY <1>7 DEF U!vars
<1> QED BY <1>1, <1>2, <1>3, <1>4, <1>5, <1>6, <1>7

-----------------------------------------------------------------------------
(* The steps of an update keep lock, progress and cancel function agreed.  *)
LEMMA ApplyKeepsSettled ==
  ASSUME SettledInv, U!Apply PROVE SettledInv'
<1> USE DEF SettledInv, U!SettledWhenIdle, Unwinding, U!Settled, U!Go, U!Fail, U!Checked,
            U!CheckedInTime
<1>1. CASE U!SetPreparing \/ U!Register \/ U!SetDownloading \/ U!SetReplacing \/ U!SetRestarting
  BY <1>1 DEF U!SetPreparing, U!Register, U!SetDownloading, U!SetReplacing, U!SetRestarting
<1>2. CASE U!FetchLatest \/ U!Download \/ U!SetVerifying
  BY <1>2 DEF U!FetchLatest, U!Download, U!SetVerifying
<1>3. CASE U!Verify \/ U!CommitReplace \/ U!CheckAgain
  BY <1>3 DEF U!Verify, U!CommitReplace, U!CheckAgain
<1>4. CASE U!ResolvePath \/ U!ReplaceExecutable
  BY <1>4 DEF U!ResolvePath, U!ReplaceExecutable
<1>5. CASE U!Exec
  BY <1>5 DEF U!Exec, U!Started
<1>6. CASE U!Unwind \/ U!Report
  BY <1>6 DEF U!Unwind, U!Report
<1>7. CASE U!ReleaseHandle \/ U!Unlock
  BY <1>7 DEF U!ReleaseHandle, U!Unlock
<1> QED BY <1>1, <1>2, <1>3, <1>4, <1>5, <1>6, <1>7 DEF U!Apply

(* An update that begins finds no cancel function of another; a Cancel     *)
(* takes the one of the update in progress; whatever replaces the process  *)
(* leaves it idle.                                                         *)
LEMMA OthersKeepSettled ==
  ASSUME SettledInv,
         \/ U!PostUpdate \/ U!PostRestart \/ U!RestartSelf \/ U!Publish \/ U!Crash \/ U!Lose
         \/ \E a \in Actors : U!TakeHandle(a) \/ U!CancelStep(a)
         \/ UNCHANGED U!vars
  PROVE  SettledInv'
<1> USE DEF SettledInv, U!SettledWhenIdle, Unwinding, U!Settled, U!Go
<1>1. CASE U!PostUpdate \/ U!PostRestart
  BY <1>1 DEF U!PostUpdate, U!PostRestart
<1>2. CASE U!RestartSelf
  BY <1>2 DEF U!RestartSelf, U!Started
<1>3. CASE U!Crash
  BY <1>3 DEF U!Crash, U!Started
<1>4. CASE U!Publish \/ U!Lose
  BY <1>4 DEF U!Publish, U!Lose
<1>5. CASE \E a \in Actors : U!TakeHandle(a) \/ U!CancelStep(a)
  BY <1>5 DEF U!TakeHandle, U!CancelStep, U!CallCancel, U!ReportCancel
<1>6. CASE UNCHANGED U!vars
  BY <1>6 DEF U!vars
<1> QED BY <1>1, <1>2, <1>3, <1>4, <1>5, <1>6

-----------------------------------------------------------------------------
(* An update has a context, and so has a Cancel that is about to call.     *)
InContext ==
  /\ pc \notin {"idle", "restart"} => run > 0
  /\ \A a \in Actors : cancel[a].pc = "call" => cancel[a].run > 0

UpdateTypes == U!TypeOK /\ InContext

Cancels == [pc : {"idle", "call", "report", "answered"}, run : 0..MaxRuns]

(* The state is of its types at first. *)
LEMMA InitTypes == ASSUME UpdaterConstants, U!Init PROVE UpdateTypes
<1>1. cancel \in [Actors -> Cancels]
  BY DEF UpdaterConstants, U!Init, U!NoCancel, Cancels
<1> QED BY <1>1 DEF UpdaterConstants, U!Init, UpdateTypes, U!TypeOK, InContext, Cancels, U!NoCancel,
                    U!Phases, U!Settled, U!CanCancel, U!Versions, U!Absent, U!Bad

(* A process that starts anew is of its types. *)
LEMMA StartedTypes ==
  ASSUME UpdaterConstants, UpdateTypes, NEW image \in U!Versions \cup {U!Absent}, U!Started(image),
         path' \in U!Versions \cup {U!Absent, U!Bad}, new' = new, newest' = newest,
         faults' \in 0..MaxFaults
  PROVE  UpdateTypes'
<1>1. cancel' \in [Actors -> Cancels] /\ \A a \in Actors : cancel'[a].pc = "idle"
  BY DEF UpdaterConstants, U!Started, U!NoCancel, Cancels
<1> QED BY <1>1 DEF UpdaterConstants, U!Started, UpdateTypes, U!TypeOK, InContext, Cancels,
                    U!Phases, U!Settled, U!CanCancel, U!Versions, U!Absent, U!Bad

(* Steps of an update keep the types. *)
LEMMA ApplyKeepsTypes ==
  ASSUME UpdaterConstants, GenuineInv, UpdateTypes, U!Apply PROVE UpdateTypes'
<1> USE DEF UpdaterConstants, UpdateTypes, U!TypeOK, InContext, U!Phases, U!Settled, U!CanCancel,
            U!Versions,
            U!Absent, U!Bad, U!Go, U!Fail, U!Checked, U!CheckedInTime, U!Kept, U!env
<1>1. CASE U!SetPreparing \/ U!SetDownloading \/ U!SetReplacing \/ U!SetRestarting
  BY <1>1 DEF U!SetPreparing, U!SetDownloading, U!SetReplacing, U!SetRestarting
<1>10. CASE U!Register
  BY <1>10 DEF U!Register
<1>2. CASE U!FetchLatest \/ U!Download
  BY ZenonT(30), <1>2 DEF U!FetchLatest, U!fetchLatest, U!Download
<1>3. CASE U!SetVerifying \/ U!Verify
  BY <1>3 DEF U!SetVerifying, U!Verify
<1>4. CASE U!CommitReplace
  BY <1>4 DEF U!CommitReplace
<1>11. CASE U!CheckAgain
  BY <1>11 DEF U!CheckAgain
<1>5. CASE U!ResolvePath
  <2>1. \A p \in U!Resolved : p \in U!Versions \cup {U!Absent}
    BY ResolvedIsGenuine
  <2> QED BY <1>5, <2>1 DEF U!ResolvePath
<1>6. CASE U!ReplaceExecutable
  BY <1>6 DEF U!ReplaceExecutable
<1>7. CASE U!Exec
  <2>1. path' = path /\ new' = new /\ newest' = newest /\ faults' = faults
    BY <1>7 DEF U!Exec
  <2>2. CASE U!Started(path)
    <3>1. path \in U!Versions \cup {U!Absent}
      BY DEF GenuineInv, Images
    <3> QED BY <2>1, <2>2, <3>1, StartedTypes
  <2>3. CASE U!Fail("failed") /\ UNCHANGED <<lock, phase, handle, run, done, rel, cancel,
              running, self>>
    BY <1>7, <2>1, <2>3 DEF U!Exec
  <2> QED BY <1>7, <2>2, <2>3 DEF U!Exec
<1>8. CASE U!Unwind \/ U!Report
  BY ZenonT(30), <1>8 DEF U!Unwind, U!Report
<1>9. CASE U!ReleaseHandle
  BY <1>9 DEF U!ReleaseHandle
<1>12. CASE U!Unlock
  BY <1>12 DEF U!Unlock
<1> QED BY <1>1, <1>2, <1>3, <1>4, <1>5, <1>6, <1>7, <1>8, <1>9, <1>10, <1>11, <1>12 DEF U!Apply

(* So do all other steps. *)
LEMMA OthersKeepTypes ==
  ASSUME UpdaterConstants, GenuineInv, UpdateTypes,
         \/ U!PostUpdate \/ U!PostRestart \/ U!RestartSelf \/ U!Publish \/ U!Crash \/ U!Lose
         \/ \E a \in Actors : U!TakeHandle(a) \/ U!CancelStep(a)
         \/ UNCHANGED U!vars
  PROVE  UpdateTypes'
<1> USE DEF UpdaterConstants, UpdateTypes, U!TypeOK, InContext, U!Phases, U!Settled, U!CanCancel,
            U!Versions,
            U!Absent, U!Bad, U!Go, U!env
<1>1. CASE U!PostUpdate
  BY <1>1 DEF U!PostUpdate
<1>8. CASE U!PostRestart
  BY <1>8 DEF U!PostRestart
<1>2. CASE U!RestartSelf
  <2>1. \A p \in U!Resolved : p \in U!Versions \cup {U!Absent}
    BY ResolvedIsGenuine
  <2>2. path' \in U!Versions \cup {U!Absent} /\ new' = new /\ newest' = newest /\ faults' = faults
    BY <1>2, <2>1 DEF U!RestartSelf
  <2>3. CASE U!Started(path')
    BY <2>2, <2>3, StartedTypes
  <2>4. CASE /\ lock' = "free" /\ pc' = "idle"
             /\ UNCHANGED <<phase, handle, run, done, verdict, rel, cancel, running, self>>
    BY <2>2, <2>4
  <2> QED BY <1>2, <2>3, <2>4 DEF U!RestartSelf
<1>3. CASE U!Publish
  BY <1>3 DEF U!Publish
<1>4. CASE U!Crash
  <2>1. path \in U!Versions \cup {U!Absent}
    BY DEF GenuineInv, Images
  <2>2. /\ path' = path /\ new' = new /\ newest' = newest
        /\ faults' \in 0..MaxFaults /\ U!Started(path)
    BY <1>4 DEF U!Crash
  <2> QED BY <2>1, <2>2, StartedTypes
<1>5. CASE U!Lose
  BY <1>5 DEF U!Lose
<1>6. CASE \E a \in Actors : U!TakeHandle(a) \/ U!CancelStep(a)
  <2>1. PICK a \in Actors : U!TakeHandle(a) \/ U!CallCancel(a) \/ U!ReportCancel(a)
    BY <1>6 DEF U!CancelStep
  <2>2. CASE U!TakeHandle(a)
    BY <2>2 DEF U!TakeHandle
  <2>3. CASE U!CallCancel(a)
    BY <2>3 DEF U!CallCancel
  <2>4. CASE U!ReportCancel(a)
    BY <2>4 DEF U!ReportCancel
  <2> QED BY <2>1, <2>2, <2>3, <2>4
<1>7. CASE UNCHANGED U!vars
  BY <1>7 DEF U!vars
<1> QED BY <1>1, <1>2, <1>3, <1>4, <1>5, <1>6, <1>7, <1>8

UpdateInv == GenuineInv /\ UpdateTypes /\ SettledInv

(* The initial state keeps the invariant of the update. *)
LEMMA InitUpdate == ASSUME UpdaterConstants, Init PROVE UpdateInv
<1>1. U!Init
  BY DEF Init
<1>2. SettledInv
  BY <1>1 DEF U!Init, SettledInv, U!SettledWhenIdle, Unwinding, U!Settled
<1> QED BY <1>1, <1>2, InitGenuine, InitTypes DEF UpdateInv

(* So do all steps: those of other services touch only the counter of      *)
(* failures.                                                               *)
LEMMA UpdateKept == ASSUME UpdaterConstants, UpdateInv, [Next]_vars PROVE UpdateInv'
<1> USE DEF UpdateInv
<1>1. CASE Only("update", U!Next)
  <2>1. U!Next
    BY <1>1 DEF Only
  <2> QED BY <2>1, ApplyKeepsGenuine, OthersKeepGenuine, ApplyKeepsTypes, OthersKeepTypes,
             ApplyKeepsSettled, OthersKeepSettled DEF U!Next
<1>2. CASE UNCHANGED vars
  <2>1. UNCHANGED U!vars
    BY <1>2 DEF vars, update, U!vars
  <2> QED BY <2>1, OthersKeepGenuine, OthersKeepTypes, OthersKeepSettled
<1>3. CASE part # "update"
  <2>1. UNCHANGED update /\ faults' \in 0..MaxFaults /\ faults' >= faults
    BY <1>3, FaultsCounted DEF UpdaterConstants, UpdateTypes, U!TypeOK
  <2>2. GenuineInv'
    BY <2>1 DEF UpdaterConstants, GenuineInv, Images, Chosen, U!InstalledIsGenuine, update,
                U!Versions, U!Absent, U!Bad
  <2>3. UpdateTypes'
    BY <2>1 DEF UpdateTypes, U!TypeOK, InContext, update
  <2>4. SettledInv'
    BY <2>1 DEF SettledInv, U!SettledWhenIdle, Unwinding, update
  <2> QED BY <2>2, <2>3, <2>4
<1> QED BY <1>1, <1>2, <1>3 DEF Next, Only

(* Whenever the process dies, a verified executable not older than what    *)
(* ran is at the path, unless somebody took it; and the state keeps its    *)
(* types.                                                                  *)
THEOREM InstalledIsGenuineHolds ==
  ASSUME UpdaterConstants PROVE Spec => []InstalledIsGenuine
<1>1. Init => UpdateInv
  BY InitUpdate
<1>2. UpdateInv /\ [Next]_vars => UpdateInv'
  BY UpdateKept
<1>3. UpdateInv => InstalledIsGenuine
  BY DEF UpdateInv, GenuineInv, UpdateTypes, InstalledIsGenuine
<1> QED BY <1>1, <1>2, <1>3, PTL DEF Spec

(* Updates and restarts exclude each other, only the Apply in progress can *)
(* be cancelled, and when nobody is at work the progress has settled.      *)
THEOREM SettledWhenIdleHolds ==
  ASSUME UpdaterConstants PROVE Spec => []SettledWhenIdle
<1>1. Init => UpdateInv
  BY InitUpdate
<1>2. UpdateInv /\ [Next]_vars => UpdateInv'
  BY UpdateKept
<1>3. UpdateInv => SettledWhenIdle
  BY DEF UpdateInv, SettledInv, SettledWhenIdle
<1> QED BY <1>1, <1>2, <1>3, PTL DEF Spec

-----------------------------------------------------------------------------
(* The leases of prefetches *)

(* There are finitely many downloads and workers; the bounds are numbers. *)
LeaseConstants ==
  IsFiniteSet(Actors) /\ IsFiniteSet(Workers) /\ Slots \in Nat /\ Blocks \in Nat

LeaseTypes ==
  /\ used \in Int
  /\ dl \in [Actors -> [pc : {"running", "over"} \cup L!Acquiring, held : BOOLEAN,
                           acquiring : BOOLEAN, cancelled : BOOLEAN]]
  /\ worker \in [L!AllWorkers -> [pc : L!WorkerPc, from : {"gate", "read"}, left : Int]]

(* The owners of slots *)
HeldBy == {d \in Actors : dl[d].held}
TakenBy == {d \in Actors : dl[d].pc \in L!Taken}
TakenFor == {x \in L!AllWorkers : worker[x].pc \in L!Taken}

Accounted ==
  /\ used = Cardinality(HeldBy) + Cardinality(TakenBy) + Cardinality(TakenFor)
  /\ used <= Slots

(* Of one download: it acquires before its workers begin and nobody does   *)
(* after they have ended; at most one worker acquires, and only while the  *)
(* slot is not held.                                                       *)
InOrder(d) ==
  /\ dl[d].pc \in L!Acquiring =>
       ~dl[d].held /\ ~dl[d].acquiring /\ \A w \in Workers : worker[<<d, w>>].pc = "off"
  /\ dl[d].pc = "over" => ~dl[d].held /\ \A w \in Workers : worker[<<d, w>>].pc \in {"off", "end"}
  /\ dl[d].acquiring <=> \E w \in Workers : worker[<<d, w>>].pc \in L!Acquiring
  /\ \A v, w \in Workers :
       worker[<<d, v>>].pc \in L!Acquiring /\ worker[<<d, w>>].pc \in L!Acquiring => v = w
  /\ \A w \in Workers : worker[<<d, w>>].pc = "await" => dl[d].acquiring
  /\ dl[d].held => ~dl[d].acquiring

Order == \A d \in Actors : InOrder(d)

LeaseInv == LeaseTypes /\ Order /\ Accounted

-----------------------------------------------------------------------------
(* T is S with `n` elements more, n being 1, 0 or -1 *)
ChangedBy(S, R, n) ==
  \/ n = 0 /\ R = S
  \/ n = 1 /\ \E e : e \notin S /\ R = S \cup {e}
  \/ n = -1 /\ \E e \in S : R = S \ {e}

(* The owners of slots are finitely many. *)
LEMMA OwnersFinite ==
  ASSUME LeaseConstants
  PROVE  /\ IsFiniteSet(HeldBy) /\ IsFiniteSet(TakenBy) /\ IsFiniteSet(TakenFor)
         /\ Cardinality(HeldBy) \in Nat /\ Cardinality(TakenBy) \in Nat
         /\ Cardinality(TakenFor) \in Nat
<1>1. IsFiniteSet(L!AllWorkers)
  BY FS_Product DEF LeaseConstants, L!AllWorkers
<1>2. HeldBy \subseteq Actors /\ TakenBy \subseteq Actors /\ TakenFor \subseteq L!AllWorkers
  BY DEF HeldBy, TakenBy, TakenFor
<1>3. IsFiniteSet(HeldBy) /\ IsFiniteSet(TakenBy) /\ IsFiniteSet(TakenFor)
  BY <1>1, <1>2, FS_Subset DEF LeaseConstants
<1> QED BY <1>3, FS_CardinalityType

(* A set that is changed by n elements has n more. *)
LEMMA ChangedCardinality ==
  ASSUME NEW S, NEW R, NEW n, IsFiniteSet(S), ChangedBy(S, R, n)
  PROVE  Cardinality(R) = Cardinality(S) + n
<1>0. Cardinality(S) \in Nat
  BY FS_CardinalityType
<1>1. CASE n = 0 /\ R = S
  BY <1>0, <1>1
<1>2. CASE n = 1 /\ \E e : e \notin S /\ R = S \cup {e}
  BY <1>0, <1>2, FS_AddElement
<1>3. CASE n = -1 /\ \E e \in S : R = S \ {e}
  <2>1. PICK e \in S : R = S \ {e}
    BY <1>3
  <2>2. Cardinality(R) = Cardinality(S) - 1
    BY <2>1, FS_RemoveElement
  <2> QED BY <1>0, <1>3, <2>2
<1> QED BY <1>1, <1>2, <1>3 DEF ChangedBy

(* The counter follows the owners if it is changed as they are. *)
LEMMA Balanced ==
  ASSUME LeaseConstants, Accounted, NEW h, NEW t, NEW w,
         ChangedBy(HeldBy, HeldBy', h), ChangedBy(TakenBy, TakenBy', t),
         ChangedBy(TakenFor, TakenFor', w),
         used' = used + h + t + w, used' <= Slots
  PROVE  Accounted'
<1>1. /\ Cardinality(HeldBy') = Cardinality(HeldBy) + h
      /\ Cardinality(TakenBy') = Cardinality(TakenBy) + t
      /\ Cardinality(TakenFor') = Cardinality(TakenFor) + w
  BY OwnersFinite, ChangedCardinality
<1>2. h \in Int /\ t \in Int /\ w \in Int
  BY DEF ChangedBy
<1>3. /\ Cardinality(HeldBy) \in Nat /\ Cardinality(TakenBy) \in Nat
      /\ Cardinality(TakenFor) \in Nat
  BY OwnersFinite
<1> QED BY <1>1, <1>2, <1>3 DEF Accounted

-----------------------------------------------------------------------------
(* Nobody has a slot, and no worker has begun. *)
LEMMA InitLease == ASSUME LeaseConstants, L!Init PROVE LeaseInv
<1>1. LeaseTypes
  BY DEF L!Init, LeaseTypes, LeaseConstants, L!Acquiring, L!WorkerPc
<1>2. Order
  BY DEF L!Init, Order, InOrder, L!AllWorkers, L!Acquiring
<1>3. HeldBy = {} /\ TakenBy = {} /\ TakenFor = {}
  BY DEF L!Init, HeldBy, TakenBy, TakenFor, L!Taken
<1>4. Accounted
  <2>1. Cardinality({}) = 0
    BY FS_EmptySet
  <2> QED BY <1>3, <2>1 DEF L!Init, Accounted, LeaseConstants
<1> QED BY <1>1, <1>2, <1>4 DEF LeaseInv

-----------------------------------------------------------------------------
(* A step of acquireTaskSlot takes a slot, gives it back or changes none.  *)
LEMMA SlotStep ==
  ASSUME LeaseConstants, LeaseTypes, used <= Slots,
         NEW was, NEW d \in Actors, NEW to, L!AcquireTaskSlot(was, d, to)
  PROVE  /\ was \in L!Acquiring /\ to \in L!Acquiring /\ used' \in Int /\ used' <= Slots
         /\ \/ (was \in L!Taken <=> to \in L!Taken) /\ used' = used
            \/ was \notin L!Taken /\ to \in L!Taken /\ used' = used + 1
            \/ was \in L!Taken /\ to \notin L!Taken /\ used' = used - 1
<1> USE DEF LeaseTypes, LeaseConstants, L!Acquiring, L!Taken
<1>1. CASE L!WaitNotPaused(was, d, to)
  BY <1>1 DEF L!WaitNotPaused
<1>2. CASE L!AcquireTask(was, d, to)
  BY <1>2 DEF L!AcquireTask
<1>3. CASE L!Recheck(was, to)
  BY <1>3 DEF L!Recheck
<1> QED BY <1>1, <1>2, <1>3 DEF L!AcquireTaskSlot

(* A download that acquires its slot *)
LEMMA StartKeeps ==
  ASSUME LeaseConstants, LeaseInv, NEW d \in Actors, L!StartDownload(d)
  PROVE  LeaseInv'
<1> USE DEF LeaseInv
<1>1. PICK to \in L!Acquiring :
         L!AcquireTaskSlot(dl[d].pc, d, to) /\ dl' = [dl EXCEPT ![d].pc = to]
  BY DEF L!StartDownload
<1>2. worker' = worker
  BY DEF L!StartDownload
<1>3. /\ dl[d].pc \in L!Acquiring /\ used' \in Int /\ used' <= Slots
      /\ \/ (dl[d].pc \in L!Taken <=> to \in L!Taken) /\ used' = used
         \/ dl[d].pc \notin L!Taken /\ to \in L!Taken /\ used' = used + 1
         \/ dl[d].pc \in L!Taken /\ to \notin L!Taken /\ used' = used - 1
  BY <1>1, SlotStep DEF Accounted
<1>4. LeaseTypes'
  BY <1>1, <1>2, <1>3 DEF LeaseTypes
<1>5. \A e \in Actors :
         /\ dl'[e].held = dl[e].held /\ dl'[e].acquiring = dl[e].acquiring
         /\ dl'[e].pc = IF e = d THEN to ELSE dl[e].pc
  BY <1>1 DEF LeaseTypes
<1>6. Order'
  <2> SUFFICES ASSUME NEW e \in Actors PROVE InOrder(e)'
    BY DEF Order
  <2>1. InOrder(e)
    BY DEF Order
  <2>2. to # "over"
    BY <1>1 DEF L!Acquiring
  <2>3. CASE e = d
    BY <1>1, <1>2, <1>3, <1>5, <2>1, <2>2, <2>3 DEF InOrder
  <2>4. CASE e # d
    BY <1>2, <1>5, <2>1, <2>4 DEF InOrder
  <2> QED BY <2>3, <2>4
<1>7. HeldBy' = HeldBy /\ TakenFor' = TakenFor
  BY <1>2, <1>5 DEF HeldBy, TakenFor
<1>8. PICK n \in {0, 1, -1} : used' = used + n /\ ChangedBy(TakenBy, TakenBy', n)
  <2>1. CASE (dl[d].pc \in L!Taken <=> to \in L!Taken) /\ used' = used
    <3>1. TakenBy' = TakenBy
      BY <1>5, <2>1 DEF TakenBy
    <3> QED BY <2>1, <3>1 DEF ChangedBy, LeaseTypes
  <2>2. CASE dl[d].pc \notin L!Taken /\ to \in L!Taken /\ used' = used + 1
    <3>1. d \notin TakenBy /\ TakenBy' = TakenBy \cup {d}
      BY <1>5, <2>2 DEF TakenBy
    <3> QED BY <2>2, <3>1 DEF ChangedBy
  <2>3. CASE dl[d].pc \in L!Taken /\ to \notin L!Taken /\ used' = used - 1
    <3>1. d \in TakenBy /\ TakenBy' = TakenBy \ {d}
      BY <1>5, <2>3 DEF TakenBy
    <3>2. ChangedBy(TakenBy, TakenBy', -1)
      BY <3>1 DEF ChangedBy
    <3> QED BY <2>3, <3>2 DEF LeaseTypes
  <2> QED BY <1>3, <2>1, <2>2, <2>3
<1>9. ChangedBy(HeldBy, HeldBy', 0) /\ ChangedBy(TakenFor, TakenFor', 0)
  BY <1>7 DEF ChangedBy
<1>10. used' = used + 0 + n + 0
  BY <1>8 DEF LeaseTypes
<1>11. Accounted'
  BY <1>3, <1>8, <1>9, <1>10, Balanced
<1> QED BY <1>4, <1>6, <1>11

(* A download that begins with its slot, and one that ends *)
LEMMA DownloadKeeps ==
  ASSUME LeaseConstants, LeaseInv, NEW d \in Actors, L!RunWorkers(d) \/ L!CloseLease(d)
  PROVE  LeaseInv'
<1> USE DEF LeaseInv
<1>1. CASE L!RunWorkers(d)
  <2>1. /\ dl[d].pc = "acquired" /\ used' = used
        /\ dl' = [dl EXCEPT ![d].pc = "running", ![d].held = TRUE]
        /\ worker' = [x \in L!AllWorkers |-> IF x[1] = d THEN [worker[x] EXCEPT !.pc = "gate"]
                                           ELSE worker[x]]
    BY <1>1 DEF L!RunWorkers
  <2>2. \A e \in Actors :
           /\ dl'[e].acquiring = dl[e].acquiring
           /\ dl'[e].pc = IF e = d THEN "running" ELSE dl[e].pc
           /\ dl'[e].held <=> (e = d \/ dl[e].held)
    BY <2>1 DEF LeaseTypes
  <2>3. \A x \in L!AllWorkers : worker'[x].pc = IF x[1] = d THEN "gate" ELSE worker[x].pc
    BY <2>1 DEF LeaseTypes
  <2>4. LeaseTypes'
    <3>1. used' \in Int
      BY <2>1 DEF LeaseTypes
    <3>2. dl' \in [Actors -> [pc : {"running", "over"} \cup L!Acquiring, held : BOOLEAN,
                               acquiring : BOOLEAN, cancelled : BOOLEAN]]
      BY ZenonT(30), <2>1 DEF LeaseTypes
    <3>3. worker' \in [L!AllWorkers -> [pc : L!WorkerPc, from : {"gate", "read"}, left : Int]]
      BY <2>1 DEF LeaseTypes, L!WorkerPc
    <3> QED BY <3>1, <3>2, <3>3 DEF LeaseTypes
  <2>5. ~dl[d].held /\ ~dl[d].acquiring /\ \A w \in Workers : worker[<<d, w>>].pc = "off"
    BY <2>1 DEF Order, InOrder, L!Acquiring
  <2>6. \A e \in Actors, w \in Workers :
           worker'[<<e, w>>].pc = IF e = d THEN "gate" ELSE worker[<<e, w>>].pc
    BY <2>3 DEF L!AllWorkers
  <2>7. Order'
    <3> SUFFICES ASSUME NEW e \in Actors PROVE InOrder(e)'
      BY DEF Order
    <3>1. CASE e = d
      BY <2>2, <2>5, <2>6, <3>1 DEF InOrder, L!Acquiring
    <3>2. CASE e # d
      BY SMTT(30), <2>2, <2>6, <3>2 DEF Order, InOrder
    <3> QED BY <3>1, <3>2
  <2>8. ChangedBy(HeldBy, HeldBy', 1)
    <3>1. d \notin HeldBy /\ HeldBy' = HeldBy \cup {d}
      BY <2>2, <2>5 DEF HeldBy
    <3> QED BY <3>1 DEF ChangedBy
  <2>9. ChangedBy(TakenBy, TakenBy', -1)
    <3>0. dl[d].pc = "acquired" /\ dl'[d].pc = "running"
      BY <2>1, <2>2
    <3>1. dl[d].pc \in L!Taken /\ dl'[d].pc \notin L!Taken
      BY <3>0 DEF L!Taken
    <3>2. d \in TakenBy /\ TakenBy' = TakenBy \ {d}
      BY <2>2, <3>1 DEF TakenBy
    <3> QED BY <3>2 DEF ChangedBy
  <2>10. ChangedBy(TakenFor, TakenFor', 0)
    <3>1. \A x \in L!AllWorkers : x[1] = d => worker[x].pc = "off"
      BY <2>5 DEF L!AllWorkers
    <3>2. TakenFor' = TakenFor
      BY <2>3, <3>1 DEF TakenFor, L!Taken
    <3> QED BY <3>2 DEF ChangedBy
  <2>11. used' = used + 1 + (-1) + 0 /\ used' <= Slots
    BY <2>1 DEF LeaseTypes, Accounted
  <2>12. Accounted'
    BY <2>8, <2>9, <2>10, <2>11, Balanced
  <2> QED BY <2>4, <2>7, <2>12
<1>2. CASE L!CloseLease(d)
  <2>1. /\ \/ dl[d].pc = "running" /\ \A w \in Workers : worker[<<d, w>>].pc = "end"
           \/ dl[d].pc = "slotFailed"
        /\ used' = IF dl[d].held THEN used - 1 ELSE used
        /\ dl' = [dl EXCEPT ![d].pc = "over", ![d].held = FALSE]
        /\ worker' = worker
    BY <1>2 DEF L!CloseLease
  <2>2. \A e \in Actors :
           /\ dl'[e].acquiring = dl[e].acquiring
           /\ dl'[e].pc = IF e = d THEN "over" ELSE dl[e].pc
           /\ dl'[e].held <=> (e # d /\ dl[e].held)
    BY <2>1 DEF LeaseTypes
  <2>3. LeaseTypes'
    <3>1. used' \in Int
      BY <2>1 DEF LeaseTypes
    <3>2. dl' \in [Actors -> [pc : {"running", "over"} \cup L!Acquiring, held : BOOLEAN,
                               acquiring : BOOLEAN, cancelled : BOOLEAN]]
      BY ZenonT(30), <2>1 DEF LeaseTypes
    <3> QED BY <2>1, <3>1, <3>2 DEF LeaseTypes
  <2>4. Order'
    <3> SUFFICES ASSUME NEW e \in Actors PROVE InOrder(e)'
      BY DEF Order
    <3>1. InOrder(e)
      BY DEF Order
    <3>2. CASE e = d
      <4>1. \A w \in Workers : worker[<<d, w>>].pc \in {"off", "end"}
        BY <2>1, <3>1, <3>2 DEF InOrder, L!Acquiring
      <4>2. ~dl[d].acquiring
        BY <3>1, <3>2, <4>1 DEF InOrder, L!Acquiring
      <4>3. dl'[d].pc = "over" /\ ~dl'[d].held /\ ~dl'[d].acquiring
        BY <2>2, <4>2
      <4> QED BY <2>1, <3>2, <4>1, <4>3 DEF InOrder, L!Acquiring
    <3>3. CASE e # d
      BY ZenonT(30), <2>1, <2>2, <3>1, <3>3 DEF InOrder
    <3> QED BY <3>2, <3>3
  <2>5. TakenBy' = TakenBy /\ TakenFor' = TakenFor
    <3>0. dl[d].pc \in {"running", "slotFailed"} /\ dl'[d].pc = "over"
      BY <2>1, <2>2
    <3>1. dl[d].pc \notin L!Taken /\ dl'[d].pc \notin L!Taken
      BY <3>0 DEF L!Taken
    <3> QED BY <2>1, <2>2, <3>1 DEF TakenBy, TakenFor
  <2>6. CASE dl[d].held
    <3>1. d \in HeldBy /\ HeldBy' = HeldBy \ {d}
      BY <2>2, <2>6 DEF HeldBy
    <3>2. ChangedBy(HeldBy, HeldBy', -1) /\ ChangedBy(TakenBy, TakenBy', 0)
            /\ ChangedBy(TakenFor, TakenFor', 0)
      BY <2>5, <3>1 DEF ChangedBy
    <3>3. used' = used + (-1) + 0 + 0 /\ used' <= Slots
      BY <2>1, <2>6 DEF LeaseTypes, Accounted, LeaseConstants
    <3>4. Accounted'
      BY <3>2, <3>3, Balanced
    <3> QED BY <2>3, <2>4, <3>4
  <2>7. CASE ~dl[d].held
    <3>1. HeldBy' = HeldBy
      BY <2>2, <2>7 DEF HeldBy
    <3>2. Accounted'
      BY <2>1, <2>5, <2>7, <3>1 DEF Accounted
    <3> QED BY <2>3, <2>4, <3>2
  <2> QED BY <2>6, <2>7
<1> QED BY <1>1, <1>2

-----------------------------------------------------------------------------
(* A worker that is at work belongs to a download that is running.         *)
LEMMA AtWork ==
  ASSUME LeaseInv, NEW x \in L!AllWorkers, worker[x].pc \notin {"off", "end"}
  PROVE  /\ x[1] \in Actors /\ x[2] \in Workers /\ x = <<x[1], x[2]>>
         /\ InOrder(x[1]) /\ dl[x[1]].pc \notin L!Acquiring \cup {"over"}
<1>1. x[1] \in Actors /\ x[2] \in Workers /\ x = <<x[1], x[2]>>
  BY DEF L!AllWorkers
<1>2. InOrder(x[1])
  BY <1>1 DEF LeaseInv, Order
<1> QED BY <1>1, <1>2 DEF InOrder

(* A worker moves on without touching a slot or the acquisition.           *)
LEMMA MoveKeeps ==
  ASSUME LeaseConstants, LeaseInv, NEW x \in L!AllWorkers, NEW q,
         worker[x].pc \notin L!Acquiring \cup {"off", "end"},
         LeaseTypes', \A y \in L!AllWorkers : worker'[y].pc = IF y = x THEN q ELSE worker[y].pc,
         q \notin L!Acquiring \cup {"off"}, q = "await" => dl[x[1]].acquiring,
         UNCHANGED <<used, dl>>
  PROVE  LeaseInv'
<1>1. /\ x[1] \in Actors /\ x[2] \in Workers /\ x = <<x[1], x[2]>>
      /\ InOrder(x[1]) /\ dl[x[1]].pc \notin L!Acquiring \cup {"over"}
  BY AtWork
<1>2. \A e \in Actors, w \in Workers :
         worker'[<<e, w>>].pc = IF e = x[1] /\ w = x[2] THEN q ELSE worker[<<e, w>>].pc
  BY <1>1 DEF L!AllWorkers
<1>3. Order'
  <2> SUFFICES ASSUME NEW e \in Actors PROVE InOrder(e)'
    BY DEF Order
  <2>1. CASE e = x[1]
    <3>1. worker[<<e, x[2]>>].pc \notin L!Acquiring
      BY <1>1, <2>1
    <3> QED BY ZenonT(30), <1>1, <1>2, <2>1, <3>1 DEF InOrder
  <2>2. CASE e # x[1]
    <3>1. InOrder(e)
      BY DEF LeaseInv, Order
    <3>2. \A w \in Workers : worker'[<<e, w>>].pc = worker[<<e, w>>].pc
      BY <1>2, <2>2
    <3> QED BY <3>1, <3>2 DEF InOrder
  <2> QED BY <2>1, <2>2
<1>4. HeldBy' = HeldBy /\ TakenBy' = TakenBy /\ TakenFor' = TakenFor
  <2>1. worker[x].pc \notin L!Taken /\ q \notin L!Taken
    BY DEF L!Acquiring, L!Taken
  <2> QED BY <2>1 DEF HeldBy, TakenBy, TakenFor
<1>5. Accounted'
  BY <1>4 DEF LeaseInv, Accounted
<1> QED BY <1>3, <1>5 DEF LeaseInv

(* The gate, a read, a poll and a cancelled wait are such moves.           *)
LEMMA QuietKeeps ==
  ASSUME LeaseConstants, LeaseInv, NEW x \in L!AllWorkers,
         L!PassGate(x) \/ L!Read(x) \/ L!Poll(x) \/ L!AwaitCancelled(x)
  PROVE  LeaseInv'
<1> USE DEF LeaseInv
<1>1. CASE L!PassGate(x)
  <2>1. PICK q \in {"blocked", "read"} :
          worker' = [worker EXCEPT ![x].pc = q, ![x].from = "gate"]
    BY <1>1 DEF L!PassGate
  <2>2. LeaseTypes' /\ UNCHANGED <<used, dl>> /\ worker[x].pc = "gate"
    <3>1. UNCHANGED <<used, dl>> /\ worker[x].pc = "gate"
      BY <1>1 DEF L!PassGate
    <3>2. worker' \in [L!AllWorkers -> [pc : L!WorkerPc, from : {"gate", "read"}, left : Int]]
      BY <2>1 DEF LeaseTypes, L!WorkerPc
    <3> QED BY <3>1, <3>2 DEF LeaseTypes
  <2>3. \A y \in L!AllWorkers : worker'[y].pc = IF y = x THEN q ELSE worker[y].pc
    BY <2>1 DEF LeaseTypes
  <2> QED BY <2>1, <2>2, <2>3, MoveKeeps DEF L!Acquiring
<1>2. CASE L!Read(x)
  <2>1. PICK q \in {"blocked", "read", "end"}, n \in Int :
          worker' = [worker EXCEPT ![x].pc = q, ![x].from = "read", ![x].left = n]
    <3>1. worker[x].left \in Int /\ worker[x].left - 1 \in Int
      BY DEF LeaseTypes
    <3> QED BY <1>2, <3>1 DEF L!Read
  <2>2. LeaseTypes' /\ UNCHANGED <<used, dl>> /\ worker[x].pc = "read"
    <3>1. UNCHANGED <<used, dl>> /\ worker[x].pc = "read"
      BY <1>2 DEF L!Read
    <3>2. worker' \in [L!AllWorkers -> [pc : L!WorkerPc, from : {"gate", "read"}, left : Int]]
      BY ZenonT(30), <2>1 DEF LeaseTypes, L!WorkerPc
    <3> QED BY <3>1, <3>2 DEF LeaseTypes
  <2>3. \A y \in L!AllWorkers : worker'[y].pc = IF y = x THEN q ELSE worker[y].pc
    BY <2>1 DEF LeaseTypes
  <2> QED BY <2>1, <2>2, <2>3, MoveKeeps DEF L!Acquiring
<1>3. CASE L!Poll(x)
  <2>1. PICK q \in {"end", "blocked", "ensure"} : worker' = [worker EXCEPT ![x].pc = q]
    BY <1>3 DEF L!Poll, L!Move
  <2>2. LeaseTypes' /\ UNCHANGED <<used, dl>> /\ worker[x].pc = "poll"
    BY <1>3, <2>1 DEF L!Poll, LeaseTypes, L!WorkerPc
  <2>3. \A y \in L!AllWorkers : worker'[y].pc = IF y = x THEN q ELSE worker[y].pc
    BY <2>1 DEF LeaseTypes
  <2> QED BY <2>1, <2>2, <2>3, MoveKeeps DEF L!Acquiring
<1>4. CASE L!AwaitCancelled(x)
  <2>1. worker' = [worker EXCEPT ![x].pc = "end"]
    BY <1>4 DEF L!AwaitCancelled, L!Move
  <2>2. LeaseTypes' /\ UNCHANGED <<used, dl>> /\ worker[x].pc = "await"
    BY <1>4, <2>1 DEF L!AwaitCancelled, LeaseTypes, L!WorkerPc
  <2>3. \A y \in L!AllWorkers : worker'[y].pc = IF y = x THEN "end" ELSE worker[y].pc
    BY <2>1 DEF LeaseTypes
  <2> QED BY <2>2, <2>3, MoveKeeps DEF L!Acquiring
<1> QED BY <1>1, <1>2, <1>3, <1>4

(* A pause gives the download's slot back, whoever of its workers sees it. *)
LEMMA GiveBackKeeps ==
  ASSUME LeaseConstants, LeaseInv, NEW x \in L!AllWorkers, L!GiveBack(x)
  PROVE  LeaseInv'
<1> USE DEF LeaseInv
<1> DEFINE d == x[1]
<1>1. /\ worker[x].pc = "blocked" /\ worker' = [worker EXCEPT ![x].pc = "poll"]
      /\ L!Release(d)
  BY DEF L!GiveBack, L!Move
<1>2. d \in Actors /\ InOrder(d) /\ dl[d].pc \notin L!Acquiring \cup {"over"}
        /\ x[2] \in Workers /\ x = <<d, x[2]>>
  BY <1>1, AtWork
<1>3. \A y \in L!AllWorkers : worker'[y].pc = IF y = x THEN "poll" ELSE worker[y].pc
  BY <1>1 DEF LeaseTypes
<1>4. worker' \in [L!AllWorkers -> [pc : L!WorkerPc, from : {"gate", "read"}, left : Int]]
  BY <1>1 DEF LeaseTypes, L!WorkerPc
<1>5. CASE ~dl[d].held
  <2>1. UNCHANGED <<used, dl>>
    BY <1>1, <1>5 DEF L!Release
  <2>2. LeaseTypes'
    BY <1>4, <2>1 DEF LeaseTypes
  <2> QED BY <1>1, <1>3, <2>1, <2>2, MoveKeeps DEF L!Acquiring
<1>6. CASE dl[d].held
  <2>1. used' = used - 1 /\ dl' = [dl EXCEPT ![d].held = FALSE]
    BY <1>1, <1>6 DEF L!Release
  <2>2. LeaseTypes'
    <3>1. used' \in Int
      BY <2>1 DEF LeaseTypes
    <3>2. dl' \in [Actors -> [pc : {"running", "over"} \cup L!Acquiring, held : BOOLEAN,
                               acquiring : BOOLEAN, cancelled : BOOLEAN]]
      BY <2>1 DEF LeaseTypes
    <3> QED BY <1>4, <3>1, <3>2 DEF LeaseTypes
  <2>3. \A e \in Actors :
           /\ dl'[e].acquiring = dl[e].acquiring /\ dl'[e].pc = dl[e].pc
           /\ dl'[e].held <=> (e # d /\ dl[e].held)
    BY <1>2, <2>1 DEF LeaseTypes
  <2>4. \A e \in Actors, w \in Workers :
           worker'[<<e, w>>].pc = IF e = d /\ w = x[2] THEN "poll" ELSE worker[<<e, w>>].pc
    BY <1>2, <1>3 DEF L!AllWorkers
  <2>5. Order'
    <3> SUFFICES ASSUME NEW e \in Actors PROVE InOrder(e)'
      BY DEF Order
    <3>1. InOrder(e) /\ worker[<<d, x[2]>>].pc = "blocked"
      BY <1>1, <1>2 DEF Order
    <3>2. CASE e = d
      BY SMTT(30), <1>2, <2>3, <2>4, <3>1, <3>2 DEF InOrder, L!Acquiring
    <3>3. CASE e # d
      BY <2>3, <2>4, <3>1, <3>3 DEF InOrder
    <3> QED BY <3>2, <3>3
  <2>6. ChangedBy(HeldBy, HeldBy', -1)
    <3>1. d \in HeldBy /\ HeldBy' = HeldBy \ {d}
      BY <1>2, <1>6, <2>3 DEF HeldBy
    <3> QED BY <3>1 DEF ChangedBy
  <2>7. TakenBy' = TakenBy /\ TakenFor' = TakenFor
    BY <1>1, <1>3, <2>3 DEF TakenBy, TakenFor, L!Taken
  <2>8. used' = used + (-1) + 0 + 0 /\ used' <= Slots
    BY <2>1 DEF LeaseTypes, Accounted, LeaseConstants
  <2>9. Accounted'
    BY <2>6, <2>7, <2>8, Balanced DEF ChangedBy
  <2> QED BY <2>2, <2>5, <2>9
<1> QED BY <1>5, <1>6

(* One worker begins to acquire, and others wait for it.                   *)
LEMMA EnsureHeldKeeps ==
  ASSUME LeaseConstants, LeaseInv, NEW x \in L!AllWorkers, L!EnsureHeld(x)
  PROVE  LeaseInv'
<1> USE DEF LeaseInv
<1> DEFINE d == x[1]
<1>1. worker[x].pc = "ensure" /\ used' = used
  BY DEF L!EnsureHeld
<1>2. d \in Actors /\ InOrder(d) /\ dl[d].pc \notin L!Acquiring \cup {"over"}
        /\ x[2] \in Workers /\ x = <<d, x[2]>>
  BY <1>1, AtWork
<1>3. CASE dl[d].held \/ dl[d].acquiring
  <2>1. dl' = dl /\ \E q \in {"read", "gate", "await"} :
           worker' = [worker EXCEPT ![x].pc = q] /\ (q = "await" => dl[d].acquiring)
    BY <1>3 DEF L!EnsureHeld, L!Move, L!Resumed
  <2>2. PICK q \in {"read", "gate", "await"} :
           worker' = [worker EXCEPT ![x].pc = q] /\ (q = "await" => dl[d].acquiring)
    BY <2>1
  <2>3. worker' \in [L!AllWorkers -> [pc : L!WorkerPc, from : {"gate", "read"}, left : Int]]
    BY <2>2 DEF LeaseTypes, L!WorkerPc
  <2>4. LeaseTypes'
    BY <1>1, <2>1, <2>3 DEF LeaseTypes
  <2>5. \A y \in L!AllWorkers : worker'[y].pc = IF y = x THEN q ELSE worker[y].pc
    BY <2>2 DEF LeaseTypes
  <2> QED BY <1>1, <2>1, <2>2, <2>4, <2>5, MoveKeeps DEF L!Acquiring
<1>4. CASE ~dl[d].held /\ ~dl[d].acquiring
  <2>1. /\ worker' = [worker EXCEPT ![x].pc = "slotGate"]
        /\ dl' = [dl EXCEPT ![d].acquiring = TRUE]
    BY <1>4 DEF L!EnsureHeld, L!Move
  <2>2. worker' \in [L!AllWorkers -> [pc : L!WorkerPc, from : {"gate", "read"}, left : Int]]
    BY <2>1 DEF LeaseTypes, L!WorkerPc, L!Acquiring
  <2>3. dl' \in [Actors -> [pc : {"running", "over"} \cup L!Acquiring, held : BOOLEAN,
                             acquiring : BOOLEAN, cancelled : BOOLEAN]]
    BY <2>1 DEF LeaseTypes
  <2>4. LeaseTypes'
    BY <1>1, <2>2, <2>3 DEF LeaseTypes
  <2>5. \A e \in Actors :
           /\ dl'[e].held = dl[e].held /\ dl'[e].pc = dl[e].pc
           /\ dl'[e].acquiring <=> (e = d \/ dl[e].acquiring)
    BY <2>1 DEF LeaseTypes
  <2>6. \A y \in L!AllWorkers : worker'[y].pc = IF y = x THEN "slotGate" ELSE worker[y].pc
    BY <2>1 DEF LeaseTypes
  <2>7. \A e \in Actors, w \in Workers :
           worker'[<<e, w>>].pc = IF e = d /\ w = x[2] THEN "slotGate" ELSE worker[<<e, w>>].pc
    BY <1>2, <2>6 DEF L!AllWorkers
  <2>8. Order'
    <3> SUFFICES ASSUME NEW e \in Actors PROVE InOrder(e)'
      BY DEF Order
    <3>1. InOrder(e)
      BY DEF Order
    <3>2. CASE e = d
      <4>1. \A w \in Workers : worker[<<d, w>>].pc \notin L!Acquiring
        BY <1>2, <1>4 DEF InOrder
      <4>2. "slotGate" \in L!Acquiring
        BY DEF L!Acquiring
      <4>3. dl'[d].acquiring /\ ~dl'[d].held /\ dl'[d].pc = dl[d].pc
        BY <1>2, <1>4, <2>5
      <4> QED BY <1>2, <2>7, <3>1, <3>2, <4>1, <4>2, <4>3 DEF InOrder
    <3>3. CASE e # d
      BY ZenonT(40), <2>5, <2>7, <3>1, <3>3 DEF InOrder
    <3> QED BY <3>2, <3>3
  <2>9. HeldBy' = HeldBy /\ TakenBy' = TakenBy
    BY <2>5 DEF HeldBy, TakenBy
  <2>10. TakenFor' = TakenFor
    BY <1>1, <2>6 DEF TakenFor, L!Taken
  <2>11. Accounted'
    BY <1>1, <2>9, <2>10 DEF Accounted
  <2> QED BY <2>4, <2>8, <2>11
<1> QED BY <1>3, <1>4

(* A worker that acquires the slot for all of its download *)
LEMMA AcquireAgainKeeps ==
  ASSUME LeaseConstants, LeaseInv, NEW x \in L!AllWorkers, L!AcquireAgain(x)
  PROVE  LeaseInv'
<1> USE DEF LeaseInv
<1> DEFINE d == x[1]
<1>1. PICK to \in L!Acquiring :
         L!AcquireTaskSlot(worker[x].pc, d, to) /\ worker' = [worker EXCEPT ![x].pc = to]
  BY DEF L!AcquireAgain, L!Move
<1>2. dl' = dl
  BY DEF L!AcquireAgain
<1>3. d \in Actors /\ x[2] \in Workers /\ x = <<d, x[2]>>
  BY DEF L!AllWorkers
<1>4. /\ worker[x].pc \in L!Acquiring /\ used' \in Int /\ used' <= Slots
      /\ \/ (worker[x].pc \in L!Taken <=> to \in L!Taken) /\ used' = used
         \/ worker[x].pc \notin L!Taken /\ to \in L!Taken /\ used' = used + 1
         \/ worker[x].pc \in L!Taken /\ to \notin L!Taken /\ used' = used - 1
  BY <1>1, <1>3, SlotStep DEF Accounted
<1>5. worker[x].pc \notin {"off", "end"} /\ to \notin {"off", "end", "await"}
  BY <1>1, <1>4 DEF L!Acquiring
<1>6. InOrder(d) /\ dl[d].pc \notin L!Acquiring \cup {"over"}
  BY <1>5, AtWork
<1>7. worker' \in [L!AllWorkers -> [pc : L!WorkerPc, from : {"gate", "read"}, left : Int]]
  BY <1>1 DEF LeaseTypes, L!WorkerPc
<1>8. LeaseTypes'
  BY <1>2, <1>4, <1>7 DEF LeaseTypes
<1>9. \A y \in L!AllWorkers : worker'[y].pc = IF y = x THEN to ELSE worker[y].pc
  BY <1>1 DEF LeaseTypes
<1>10. \A e \in Actors, w \in Workers :
          worker'[<<e, w>>].pc = IF e = d /\ w = x[2] THEN to ELSE worker[<<e, w>>].pc
  BY <1>3, <1>9 DEF L!AllWorkers
<1>11. Order'
  <2> SUFFICES ASSUME NEW e \in Actors PROVE InOrder(e)'
    BY DEF Order
  <2>1. InOrder(e)
    BY DEF Order
  <2>2. CASE e = d
    <3>1. worker[<<d, x[2]>>].pc \in L!Acquiring
      BY <1>3, <1>4
    <3>2. \A w \in Workers : worker'[<<d, w>>].pc \in L!Acquiring <=> worker[<<d,
                w>>].pc \in L!Acquiring
      BY <1>1, <1>3, <1>10, <3>1
    <3>3. \A w \in Workers : worker'[<<d, w>>].pc = "await" => worker[<<d, w>>].pc = "await"
      BY <1>3, <1>5, <1>10
    <3> QED BY <1>2, <1>6, <2>1, <2>2, <3>2, <3>3 DEF InOrder
  <2>3. CASE e # d
    <3>1. \A w \in Workers : worker'[<<e, w>>].pc = worker[<<e, w>>].pc
      BY <1>10, <2>3
    <3> QED BY <1>2, <2>1, <3>1 DEF InOrder
  <2> QED BY <2>2, <2>3
<1>12. HeldBy' = HeldBy /\ TakenBy' = TakenBy
  BY <1>2 DEF HeldBy, TakenBy
<1>13. PICK n \in {0, 1, -1} : used' = used + n /\ ChangedBy(TakenFor, TakenFor', n)
  <2>1. CASE (worker[x].pc \in L!Taken <=> to \in L!Taken) /\ used' = used
    <3>1. TakenFor' = TakenFor
      BY <1>9, <2>1 DEF TakenFor
    <3> QED BY <2>1, <3>1 DEF ChangedBy, LeaseTypes
  <2>2. CASE worker[x].pc \notin L!Taken /\ to \in L!Taken /\ used' = used + 1
    <3>1. x \notin TakenFor /\ TakenFor' = TakenFor \cup {x}
      BY <1>9, <2>2 DEF TakenFor
    <3> QED BY <2>2, <3>1 DEF ChangedBy
  <2>3. CASE worker[x].pc \in L!Taken /\ to \notin L!Taken /\ used' = used - 1
    <3>1. x \in TakenFor /\ TakenFor' = TakenFor \ {x}
      BY <1>9, <2>3 DEF TakenFor
    <3>2. ChangedBy(TakenFor, TakenFor', -1)
      BY <3>1 DEF ChangedBy
    <3> QED BY <2>3, <3>2 DEF LeaseTypes
  <2> QED BY <1>4, <2>1, <2>2, <2>3
<1>14. ChangedBy(HeldBy, HeldBy', 0) /\ ChangedBy(TakenBy, TakenBy', 0)
  BY <1>12 DEF ChangedBy
<1>15. used' = used + 0 + 0 + n
  BY <1>13 DEF LeaseTypes
<1>16. Accounted'
  BY <1>4, <1>13, <1>14, <1>15, Balanced
<1> QED BY <1>8, <1>11, <1>16

(* The end of an acquisition: the slot becomes the lease's, and those who  *)
(* wait look at the lease again.                                           *)
LEMMA AcquiredKeeps ==
  ASSUME LeaseConstants, LeaseInv, NEW x \in L!AllWorkers, L!Acquired(x)
  PROVE  LeaseInv'
<1> USE DEF LeaseInv
<1> DEFINE d == x[1]
           ok == worker[x].pc = "acquired"
           next(y) == IF y = x THEN IF ok THEN L!Resumed(x) ELSE "end"
                      ELSE IF y \in L!Woken(d) THEN "ensure" ELSE worker[y].pc
<1>1. /\ worker[x].pc \in {"acquired", "slotFailed"} /\ used' = used
      /\ dl' = [dl EXCEPT ![d].acquiring = FALSE, ![d].held = @ \/ ok]
      /\ worker' = [y \in L!AllWorkers |->
                      IF y = x THEN [worker[y] EXCEPT !.pc = IF ok THEN L!Resumed(x) ELSE "end"]
                      ELSE IF y \in L!Woken(d) THEN [worker[y] EXCEPT !.pc = "ensure"]
                      ELSE worker[y]]
  BY DEF L!Acquired
<1>2. worker[x].pc \in L!Acquiring /\ worker[x].pc \notin {"off", "end"}
  BY <1>1 DEF L!Acquiring
<1>3. d \in Actors /\ InOrder(d) /\ dl[d].pc \notin L!Acquiring \cup {"over"}
        /\ x[2] \in Workers /\ x = <<d, x[2]>>
  BY <1>2, AtWork
<1>4. L!Resumed(x) \in {"read", "gate"}
  BY DEF L!Resumed
<1>5. dl[d].acquiring /\ ~dl[d].held
  BY <1>2, <1>3 DEF InOrder
<1>6. worker' \in [L!AllWorkers -> [pc : L!WorkerPc, from : {"gate", "read"}, left : Int]]
  <2>1. {"read", "gate", "end", "ensure"} \subseteq L!WorkerPc
    BY DEF L!WorkerPc
  <2> QED BY <1>1, <1>4, <2>1 DEF LeaseTypes
<1>7. dl' \in [Actors -> [pc : {"running", "over"} \cup L!Acquiring, held : BOOLEAN,
                           acquiring : BOOLEAN, cancelled : BOOLEAN]]
  <2>1. PICK b \in BOOLEAN : dl' = [dl EXCEPT ![d].acquiring = FALSE, ![d].held = b]
    BY <1>1, <1>3 DEF LeaseTypes
  <2> QED BY ZenonT(30), <2>1 DEF LeaseTypes
<1>8. LeaseTypes'
  BY <1>1, <1>6, <1>7 DEF LeaseTypes
<1>9. \A e \in Actors :
         /\ dl'[e].pc = dl[e].pc
         /\ dl'[e].acquiring <=> (e # d /\ dl[e].acquiring)
         /\ dl'[e].held <=> (dl[e].held \/ (e = d /\ ok))
  BY <1>1 DEF LeaseTypes
<1>10. \A y \in L!AllWorkers : worker'[y].pc = next(y)
  BY <1>1 DEF LeaseTypes
<1>11. \A w \in Workers : w # x[2] => worker[<<d, w>>].pc \notin L!Acquiring
  BY <1>2, <1>3 DEF InOrder
<1>12. \A w \in Workers : worker'[<<d, w>>].pc \notin L!Acquiring \cup {"await"}
  <2> SUFFICES ASSUME NEW w \in Workers
               PROVE  worker'[<<d, w>>].pc \notin L!Acquiring \cup {"await"}
    OBVIOUS
  <2>1. worker'[<<d, w>>].pc = next(<<d, w>>)
    BY <1>3, <1>10 DEF L!AllWorkers
  <2>2. CASE w = x[2]
    BY <1>3, <1>4, <2>1, <2>2 DEF L!Acquiring
  <2>3. CASE w # x[2] /\ worker[<<d, w>>].pc = "await"
    <3>1. <<d, w>> # x /\ <<d, w>> \in L!Woken(d)
      BY <1>3, <2>3 DEF L!AllWorkers, L!Woken
    <3> QED BY <2>1, <3>1 DEF L!Acquiring
  <2>4. CASE w # x[2] /\ worker[<<d, w>>].pc # "await"
    <3>1. <<d, w>> # x /\ <<d, w>> \notin L!Woken(d)
      BY <1>3, <2>4 DEF L!Woken
    <3> QED BY <1>11, <2>1, <2>4, <3>1
  <2> QED BY <2>2, <2>3, <2>4
<1>13. \A e \in Actors, w \in Workers : e # d => worker'[<<e, w>>].pc = worker[<<e, w>>].pc
  <2> SUFFICES ASSUME NEW e \in Actors, NEW w \in Workers, e # d
               PROVE  worker'[<<e, w>>].pc = worker[<<e, w>>].pc
    OBVIOUS
  <2>1. <<e, w>> \in L!AllWorkers /\ <<e, w>> # x
    BY <1>3 DEF L!AllWorkers
  <2>2. <<e, w>> \notin L!Woken(d)
    BY DEF L!Woken
  <2> QED BY <1>10, <2>1, <2>2
<1>14. Order'
  <2> SUFFICES ASSUME NEW e \in Actors PROVE InOrder(e)'
    BY DEF Order
  <2>1. CASE e = d
    BY <1>3, <1>9, <1>12, <2>1 DEF InOrder
  <2>2. CASE e # d
    <3>1. InOrder(e) /\ \A w \in Workers : worker'[<<e, w>>].pc = worker[<<e, w>>].pc
      BY <1>13, <2>2 DEF Order
    <3> QED BY <1>9, <2>2, <3>1 DEF InOrder
  <2> QED BY <2>1, <2>2
<1>15. \A y \in L!AllWorkers : y # x => (worker'[y].pc \in L!Taken <=> worker[y].pc \in L!Taken)
  <2> SUFFICES ASSUME NEW y \in L!AllWorkers, y # x
               PROVE  worker'[y].pc \in L!Taken <=> worker[y].pc \in L!Taken
    OBVIOUS
  <2>1. CASE y \in L!Woken(d)
    <3>1. worker[y].pc = "await" /\ worker'[y].pc = "ensure"
      BY <1>10, <2>1 DEF L!Woken
    <3> QED BY <3>1 DEF L!Taken
  <2>2. CASE y \notin L!Woken(d)
    BY <1>10, <2>2
  <2> QED BY <2>1, <2>2
<1>16. worker'[x].pc \notin L!Taken
  BY <1>4, <1>10 DEF L!Taken
<1>17. TakenBy' = TakenBy
  BY <1>9 DEF TakenBy
<1>18. CASE ok
  <2>1. d \notin HeldBy /\ HeldBy' = HeldBy \cup {d}
    BY <1>3, <1>5, <1>9, <1>18 DEF HeldBy
  <2>2. x \in TakenFor /\ TakenFor' = TakenFor \ {x}
    BY <1>15, <1>16, <1>18 DEF TakenFor, L!Taken
  <2>3. ChangedBy(HeldBy, HeldBy', 1) /\ ChangedBy(TakenBy, TakenBy', 0)
          /\ ChangedBy(TakenFor, TakenFor', -1)
    BY <1>17, <2>1, <2>2 DEF ChangedBy
  <2>4. used' = used + 1 + 0 + (-1) /\ used' <= Slots
    BY <1>1 DEF LeaseTypes, Accounted
  <2>5. Accounted'
    BY <2>3, <2>4, Balanced
  <2> QED BY <1>8, <1>14, <2>5
<1>19. CASE ~ok
  <2>1. HeldBy' = HeldBy
    BY <1>9, <1>19 DEF HeldBy
  <2>2. worker[x].pc \notin L!Taken
    BY <1>1, <1>19 DEF L!Taken
  <2>3. TakenFor' = TakenFor
    BY <1>15, <1>16, <2>2 DEF TakenFor
  <2>4. Accounted'
    BY <1>1, <1>17, <2>1, <2>3 DEF Accounted
  <2> QED BY <1>8, <1>14, <2>4
<1> QED BY <1>18, <1>19

(* The scheduler and those who cancel touch no slot.                       *)
LEMMA EnvironmentKeeps ==
  ASSUME LeaseInv,
         L!Pause \/ L!Resume \/ (\E d \in Actors : L!CancelDownload(d)) \/ UNCHANGED L!vars
  PROVE  LeaseInv'
<1> USE DEF LeaseInv
<1>1. UNCHANGED <<used, worker>>
  BY DEF L!Pause, L!Resume, L!CancelDownload, L!vars
<1>2. /\ dl' \in [Actors -> [pc : {"running", "over"} \cup L!Acquiring, held : BOOLEAN,
                              acquiring : BOOLEAN, cancelled : BOOLEAN]]
      /\ \A e \in Actors : /\ dl'[e].pc = dl[e].pc /\ dl'[e].held = dl[e].held
                              /\ dl'[e].acquiring = dl[e].acquiring
  <2>1. CASE \E d \in Actors : L!CancelDownload(d)
    <3>1. PICK d \in Actors : dl' = [dl EXCEPT ![d].cancelled = TRUE]
      BY <2>1 DEF L!CancelDownload
    <3> QED BY <3>1 DEF LeaseTypes
  <2>2. CASE dl' = dl
    BY <2>2 DEF LeaseTypes
  <2> QED BY <2>1, <2>2 DEF L!Pause, L!Resume, L!vars
<1>3. LeaseTypes'
  BY <1>1, <1>2 DEF LeaseTypes
<1>4. Order'
  BY <1>1, <1>2 DEF Order, InOrder
<1>5. HeldBy' = HeldBy /\ TakenBy' = TakenBy /\ TakenFor' = TakenFor
  BY <1>1, <1>2 DEF HeldBy, TakenBy, TakenFor
<1>6. Accounted'
  BY <1>1, <1>5 DEF Accounted
<1> QED BY <1>3, <1>4, <1>6

-----------------------------------------------------------------------------
(* What the invariant says of the acquirers, in numbers                    *)
LEMMA LeaseInvImplies ==
  ASSUME LeaseConstants, LeaseInv PROVE L!SlotsAreLeases
<1> USE DEF LeaseInv
<1>1. /\ used <= Slots
      /\ used = Cardinality({d \in Actors : dl[d].held})
                 + Cardinality({d \in Actors : dl[d].pc \in L!Taken})
                 + Cardinality({x \in L!AllWorkers : worker[x].pc \in L!Taken})
  BY DEF Accounted, HeldBy, TakenBy, TakenFor
<1>2. ASSUME NEW d \in Actors
      PROVE  LET acquirers == {w \in Workers : worker[<<d, w>>].pc \in L!Acquiring}
             IN /\ Cardinality(acquirers) = IF dl[d].acquiring THEN 1 ELSE 0
                /\ L!Woken(d) # {} => dl[d].acquiring
                /\ dl[d].held => ~dl[d].acquiring
                /\ dl[d].pc = "over" => ~dl[d].held /\ ~dl[d].acquiring
  <2> DEFINE acquirers == {w \in Workers : worker[<<d, w>>].pc \in L!Acquiring}
  <2>1. InOrder(d)
    BY DEF Order
  <2>2. dl[d].acquiring => Cardinality(acquirers) = 1
    <3> SUFFICES ASSUME dl[d].acquiring PROVE Cardinality(acquirers) = 1
      OBVIOUS
    <3>1. PICK w \in Workers : worker[<<d, w>>].pc \in L!Acquiring
      BY <2>1 DEF InOrder
    <3>2. acquirers = {w}
      BY <2>1, <3>1 DEF InOrder
    <3> HIDE DEF acquirers
    <3> QED BY <3>2, FS_Singleton
  <2>3. ~dl[d].acquiring => Cardinality(acquirers) = 0
    <3> SUFFICES ASSUME ~dl[d].acquiring PROVE Cardinality(acquirers) = 0
      OBVIOUS
    <3>1. acquirers = {}
      BY <2>1 DEF InOrder
    <3> HIDE DEF acquirers
    <3> QED BY <3>1, FS_EmptySet
  <2>4. Cardinality(acquirers) = IF dl[d].acquiring THEN 1 ELSE 0
    BY <2>2, <2>3
  <2>5. L!Woken(d) # {} => dl[d].acquiring
    <3>1. \A x \in L!Woken(d) : \E w \in Workers : x = <<d, w>> /\ worker[<<d, w>>].pc = "await"
      BY DEF L!Woken, L!AllWorkers
    <3> QED BY <2>1, <3>1 DEF InOrder
  <2>6. dl[d].pc = "over" => ~dl[d].held /\ ~dl[d].acquiring
    BY <2>1 DEF InOrder, L!Acquiring
  <2> QED BY <2>1, <2>4, <2>5, <2>6 DEF InOrder
<1>3. \A S : L!Cardinality(S) = Cardinality(S)
  BY DEF L!Cardinality, Cardinality
<1> QED BY <1>1, <1>2, <1>3 DEF L!SlotsAreLeases

-----------------------------------------------------------------------------
(* What is left to read, and the counters: a worker that has not ended has *)
(* something left.                                                         *)
LeaseBounds ==
  /\ paused \in BOOLEAN /\ pauses \in 0..MaxPauses /\ cancels \in 0..MaxCancels
  /\ \A x \in L!AllWorkers :
       worker[x].left \in 0..Blocks /\ (worker[x].pc # "end" => worker[x].left > 0)

(* A worker needs at least one read; the bounds are numbers. *)
LeaseBoundConstants == Blocks \in Nat \ {0} /\ MaxPauses \in Nat /\ MaxCancels \in Nat

(* Only a read changes what is left, and no step wakes a worker that has   *)
(* ended.                                                                  *)
LEMMA BoundsKept ==
  ASSUME LeaseBoundConstants, LeaseInv, LeaseBounds, L!Next PROVE LeaseBounds'
<1> USE DEF LeaseInv, LeaseTypes
<1>1. ASSUME UNCHANGED <<paused, pauses, cancels>>,
             \A y \in L!AllWorkers :
                worker'[y].left = worker[y].left /\ (worker[y].pc = "end" => worker'[y].pc = "end")
      PROVE  LeaseBounds'
  BY <1>1 DEF LeaseBounds, L!AllWorkers
<1>2. ASSUME NEW x \in L!AllWorkers, NEW q, UNCHANGED <<paused, pauses, cancels>>,
             worker' = [worker EXCEPT ![x].pc = q], worker[x].pc # "end"
      PROVE  LeaseBounds'
  <2>1. \A y \in L!AllWorkers :
          worker'[y].left = worker[y].left /\ (worker[y].pc = "end" => worker'[y].pc = "end")
    BY <1>2
  <2> QED BY <1>1, <1>2, <2>1
<1>3. ASSUME NEW d \in Actors, L!StartDownload(d) \/ L!CloseLease(d) \/ L!CancelDownload(d)
      PROVE  LeaseBounds'
  <2>1. UNCHANGED <<worker, paused, pauses>> /\ cancels' \in 0..MaxCancels
    BY <1>3 DEF L!StartDownload, L!CloseLease, L!CancelDownload, LeaseBounds, LeaseBoundConstants
  <2> QED BY <2>1 DEF LeaseBounds, L!AllWorkers
<1>4. ASSUME NEW d \in Actors, L!RunWorkers(d) PROVE LeaseBounds'
  <2>1. \A w \in Workers : worker[<<d, w>>].pc = "off"
    BY <1>4 DEF L!RunWorkers, Order, InOrder, L!Acquiring
  <2>2. \A y \in L!AllWorkers : y[1] = d => worker[y].pc = "off"
    BY <2>1 DEF L!AllWorkers
  <2>3. /\ UNCHANGED <<paused, pauses, cancels>>
        /\ \A y \in L!AllWorkers :
             worker'[y] = IF y[1] = d THEN [worker[y] EXCEPT !.pc = "gate"] ELSE worker[y]
    BY <1>4 DEF L!RunWorkers
  <2> QED BY <1>1, <2>2, <2>3
<1>5. ASSUME NEW x \in L!AllWorkers, L!PassGate(x) PROVE LeaseBounds'
  <2>1. /\ UNCHANGED <<paused, pauses, cancels>>
        /\ \A y \in L!AllWorkers :
             worker'[y].left = worker[y].left /\ (worker[y].pc = "end" => worker'[y].pc = "end")
    BY <1>5 DEF L!PassGate
  <2> QED BY <1>1, <2>1
<1>6. ASSUME NEW x \in L!AllWorkers, L!Read(x) PROVE LeaseBounds'
  <2>1. worker[x].left \in 0..Blocks /\ worker[x].left > 0 /\ worker[x].pc = "read"
    BY <1>6 DEF L!Read, LeaseBounds
  <2>2. /\ UNCHANGED <<paused, pauses, cancels>>
        /\ \A y \in L!AllWorkers : y # x => worker'[y] = worker[y]
        /\ worker'[x].left = IF paused THEN worker[x].left ELSE worker[x].left - 1
        /\ worker'[x].pc = IF paused THEN "blocked"
                           ELSE IF dl[x[1]].cancelled \/ worker[x].left = 1 THEN "end" ELSE "read"
    BY <1>6 DEF L!Read
  <2>3. worker'[x].left \in 0..Blocks /\ (worker'[x].pc # "end" => worker'[x].left > 0)
    BY <2>1, <2>2 DEF LeaseBoundConstants
  <2> QED BY <2>2, <2>3 DEF LeaseBounds, L!AllWorkers
<1>7. ASSUME NEW x \in L!AllWorkers,
             \/ L!GiveBack(x) \/ L!Poll(x) \/ L!EnsureHeld(x) \/ L!AwaitCancelled(x)
             \/ L!AcquireAgain(x)
      PROVE  LeaseBounds'
  <2>1. /\ UNCHANGED <<paused, pauses, cancels>> /\ worker[x].pc # "end"
        /\ \E q : worker' = [worker EXCEPT ![x].pc = q]
    BY <1>7 DEF L!GiveBack, L!Poll, L!EnsureHeld, L!AwaitCancelled, L!AcquireAgain, L!Move,
                L!AcquireTaskSlot, L!WaitNotPaused, L!AcquireTask, L!Recheck
  <2> QED BY <1>2, <2>1
<1>8. ASSUME NEW x \in L!AllWorkers, L!Acquired(x) PROVE LeaseBounds'
  <2>1. /\ UNCHANGED <<paused, pauses, cancels>>
        /\ \A y \in L!AllWorkers :
             worker'[y].left = worker[y].left /\ (worker[y].pc = "end" => worker'[y].pc = "end")
    BY <1>8 DEF L!Acquired, L!Woken
  <2> QED BY <1>1, <2>1
<1>9. CASE L!Pause \/ L!Resume
  <2>1. UNCHANGED <<worker, cancels>> /\ paused' \in BOOLEAN
    BY <1>9 DEF L!Pause, L!Resume
  <2>2. pauses' = pauses \/ (pauses < MaxPauses /\ pauses' = pauses + 1)
    BY <1>9 DEF L!Pause, L!Resume
  <2>3. pauses' \in 0..MaxPauses
    BY <2>2 DEF LeaseBounds, LeaseBoundConstants
  <2> QED BY <2>1, <2>3 DEF LeaseBounds, L!AllWorkers
<1> QED BY <1>3, <1>4, <1>5, <1>6, <1>7, <1>8, <1>9 DEF L!Next, L!DownloadStep, L!WorkerStep

SlotsInv == LeaseInv /\ LeaseBounds

(* The initial state keeps the invariant of the leases. *)
LEMMA InitSlots == ASSUME LeaseConstants, LeaseBoundConstants, Init PROVE SlotsInv
<1>1. L!Init
  BY DEF Init
<1>2. LeaseInv
  BY <1>1, InitLease
<1>3. LeaseBounds
  BY <1>1 DEF L!Init, LeaseBounds, LeaseBoundConstants
<1> QED BY <1>2, <1>3 DEF SlotsInv

(* So do all steps: those of other services leave its variables alone. *)
LEMMA SlotsKept ==
  ASSUME LeaseConstants, LeaseBoundConstants, SlotsInv, [Next]_vars PROVE SlotsInv'
<1> USE DEF SlotsInv
<1>1. CASE Only("lease", L!Next)
  <2>1. L!Next
    BY <1>1 DEF Only
  <2>2. LeaseInv'
    BY <2>1, StartKeeps, DownloadKeeps, QuietKeeps, GiveBackKeeps, EnsureHeldKeeps,
       AcquireAgainKeeps, AcquiredKeeps, EnvironmentKeeps
       DEF L!Next, L!DownloadStep, L!WorkerStep
  <2> QED BY <2>1, <2>2, BoundsKept
<1>2. CASE UNCHANGED lease
  <2>1. LeaseInv'
    BY <1>2, EnvironmentKeeps DEF lease, L!vars
  <2>2. LeaseBounds'
    BY <1>2 DEF lease, LeaseBounds, L!AllWorkers
  <2> QED BY <2>1, <2>2
<1> QED BY <1>1, <1>2 DEF Next, Only, vars

(* The slots in use are those the leases hold and those that have just     *)
(* been taken; one worker of a download acquires at a time, and a          *)
(* download that has ended leaves nothing behind; and the state keeps its  *)
(* types.                                                                  *)
THEOREM SlotsAreLeasesHolds ==
  ASSUME LeaseConstants, LeaseBoundConstants PROVE Spec => []SlotsAreLeases
<1>1. Init => SlotsInv
  BY InitSlots
<1>2. SlotsInv /\ [Next]_vars => SlotsInv'
  BY SlotsKept
<1>3. SlotsInv => SlotsAreLeases
  <2> SUFFICES ASSUME SlotsInv PROVE SlotsAreLeases
    OBVIOUS
  <2>1. L!SlotsAreLeases
    BY LeaseInvImplies DEF SlotsInv
  <2>2. used \in Nat
    BY OwnersFinite DEF SlotsInv, LeaseInv, Accounted
  <2>3. worker \in [L!AllWorkers -> [pc : L!WorkerPc, from : {"gate", "read"}, left : 0..Blocks]]
    BY DEF SlotsInv, LeaseInv, LeaseTypes, LeaseBounds
  <2> QED BY <2>1, <2>2, <2>3 DEF SlotsInv, LeaseInv, LeaseTypes, LeaseBounds, L!TypeOK,
                                  SlotsAreLeases
<1> QED BY <1>1, <1>2, <1>3, PTL DEF Spec

-----------------------------------------------------------------------------
(* The tokens of a registry *)

(* There is a token service and a configuration; the bounds are numbers. *)
TokenConstants == MaxRealm \in Nat \ {0} /\ MaxCfg \in Nat \ {0} /\ MaxMute \in Nat

(* A request that has renewed its token, and that nothing disturbed: the   *)
(* source is its own and names the realm of today, and so does the token   *)
(* that it comes to hold.                                                  *)
Renewed(r) ==
  req[r].again /\ r \notin disturbed =>
    /\ req[r].pc \in {"inject", "fetch", "store", "send", "ok", "failed"}
    /\ req[r].pc = "inject" =>
         src.cfg = req[r].cfg /\ src.realm = realm /\ src.token \in {T!Nil, realm}
    /\ req[r].pc = "fetch" => req[r].realm = realm
    /\ req[r].pc \in {"store", "send"} => req[r].token = realm

TokenInv ==
  /\ T!TypeOK
  /\ \A r \in Actors : Renewed(r) /\ (req[r].pc = "refused" => req[r].again)

Request ==
  [pc : T!Over \cup {"inject", "fetch", "store", "send", "challenged"}, cfg : 0..MaxCfg,
   gen : Nat, realm : 0..MaxRealm, token : 0..MaxRealm, again : BOOLEAN]

Source == [gen : Nat, cfg : 0..MaxCfg, realm : 0..MaxRealm, token : 0..MaxRealm]

(* A source for a configuration: the one there is, or one that replaces it *)
LEMMA SourceOf ==
  ASSUME src \in Source, NEW c \in 0..MaxCfg, TokenConstants
  PROVE  /\ T!SourceFor(c) \in Source
         /\ T!SourceFor(c).gen = src.gen => T!SourceFor(c) = src /\ src.cfg = c
<1>1. CASE src.cfg = c
  BY <1>1 DEF T!SourceFor
<1>2. CASE src.cfg # c
  <2>1. T!SourceFor(c) = [gen |-> src.gen + 1, cfg |-> c, realm |-> 0, token |-> 0]
    BY <1>2 DEF T!SourceFor, T!Nil
  <2>2. src.gen + 1 \in Nat /\ src.gen + 1 # src.gen
    BY DEF Source
  <2> QED BY <2>1, <2>2 DEF Source, TokenConstants
<1> QED BY <1>1, <1>2

(* A step of one request leaves the others as they are: what it does to    *)
(* the source disturbs them, or is nothing to those who have renewed.      *)
LEMMA OthersRenewed ==
  ASSUME TokenInv, NEW q \in Actors, NEW to \in Request, req' = [req EXCEPT ![q] = to],
         realm' = realm, cfg' = cfg, mute' \in 0..MaxMute, src' \in Source,
         disturbed' \in SUBSET Actors, disturbed \subseteq disturbed',
         \/ T!Active \subseteq disturbed'
         \/ src' = src
         \/ src' = [src EXCEPT !.token = src.realm]
         \/ src' = [src EXCEPT !.realm = realm, !.token = T!Nil],
         Renewed(q)', to.pc = "refused" => to.again
  PROVE  TokenInv'
<1>1. T!TypeOK'
  BY DEF TokenInv, T!TypeOK, Request, Source
<1>2. ASSUME NEW r \in Actors, r # q PROVE Renewed(r)' /\ (req'[r].pc = "refused" => req'[r].again)
  <2>1. req'[r] = req[r] /\ Renewed(r) /\ (req[r].pc = "refused" => req[r].again)
    BY <1>2 DEF TokenInv, T!TypeOK
  <2>2. CASE T!Active \subseteq disturbed'
    BY <2>1, <2>2 DEF Renewed, T!Active, T!Over
  <2>3. CASE src' = src
    BY <2>1, <2>3 DEF Renewed
  <2>4. CASE src' = [src EXCEPT !.token = src.realm]
    BY <2>1, <2>4 DEF Renewed, TokenInv, T!TypeOK
  <2>5. CASE src' = [src EXCEPT !.realm = realm, !.token = T!Nil]
    BY <2>1, <2>5 DEF Renewed, TokenInv, T!TypeOK
  <2> QED BY <2>2, <2>3, <2>4, <2>5
<1>3. req'[q] = to
  BY DEF TokenInv, T!TypeOK
<1> QED BY <1>1, <1>2, <1>3 DEF TokenInv

(* Every step of a request keeps the invariant. *)
LEMMA RequestKeeps ==
  ASSUME TokenConstants, TokenInv, NEW q \in Actors, T!Step(q) PROVE TokenInv'
<1> DEFINE old == req[q]
<1>0. /\ old \in Request /\ req \in [Actors -> Request] /\ src \in Source
      /\ realm \in 1..MaxRealm /\ cfg \in 0..MaxCfg
      /\ disturbed \subseteq Actors /\ T!Active \subseteq Actors /\ mute \in 0..MaxMute
      /\ Renewed(q) /\ 0 \in 0..MaxRealm /\ realm \in 0..MaxRealm /\ realm # 0
  BY DEF TokenInv, T!TypeOK, Request, Source, T!Active, T!Realms, TokenConstants
<1>1. CASE T!Begin(q)
  <2> DEFINE to == [old EXCEPT !.pc = "inject", !.cfg = cfg]
  <2>1. to \in Request
    BY <1>0 DEF Request
  <2>2. req' = [req EXCEPT ![q] = to] /\ UNCHANGED <<src, realm, cfg, mute, disturbed>>
        /\ old.pc = "new"
    BY <1>0, <1>1 DEF T!Begin
  <2>3. Renewed(q)' /\ to.pc = "inject"
    BY <1>0, <2>2 DEF Renewed, Request
  <2> HIDE DEF to
  <2> QED BY <1>0, <2>1, <2>2, <2>3, OthersRenewed
<1>2. CASE T!Inject(q)
  <2> DEFINE s == T!SourceFor(old.cfg)
             to == [old EXCEPT !.pc = IF s.realm # 0 /\ s.token = 0 THEN "fetch" ELSE "send",
                                !.gen = s.gen, !.realm = s.realm, !.token = s.token]
  <2>1. s \in Source /\ (s.gen = src.gen => s = src /\ src.cfg = old.cfg)
    BY <1>0, SourceOf DEF Request
  <2>2. /\ req' = [req EXCEPT ![q] = to] /\ UNCHANGED <<realm, cfg, mute>> /\ src' = s
        /\ disturbed' = IF s.gen # src.gen THEN disturbed \cup T!Active ELSE disturbed
        /\ old.pc = "inject"
    BY <1>0, <1>2 DEF T!Inject, T!Nil
  <2>3. q \in T!Active
    BY <2>2 DEF T!Active, T!Over
  <2> HIDE DEF s
  <2>4. to \in Request
    BY <1>0, <2>1 DEF Request, Source
  <2>5. to.pc # "refused"
    BY <1>0 DEF Request
  <2>6. Renewed(q)'
    <3> SUFFICES ASSUME old.again, q \notin disturbed' PROVE Renewed(q)'
      BY <1>0, <2>2 DEF Renewed, Request
    <3>1. s = src /\ src.realm = realm /\ src.token \in {0, realm}
      BY <1>0, <2>1, <2>2, <2>3 DEF Renewed, T!Nil
    <3>2. to.realm = realm /\ to.pc \in {"fetch", "send"} /\ (to.pc = "send" => to.token = realm)
      BY <1>0, <3>1 DEF Request
    <3>3. req'[q] = to
      BY <1>0, <2>2
    <3> HIDE DEF to
    <3> QED BY <2>2, <3>2, <3>3 DEF Renewed
  <2> HIDE DEF to
  <2> QED BY <1>0, <2>1, <2>2, <2>4, <2>5, <2>6, OthersRenewed
<1>3. CASE T!Fetch(q)
  <2>1. PICK to \in {[old EXCEPT !.pc = "store", !.token = old.realm],
              [old EXCEPT !.pc = "failed"], [old EXCEPT !.pc = "refused"]} :
          /\ req' = [req EXCEPT ![q] = to]
          /\ IF to.pc = "refused" THEN old.again /\ disturbed' = disturbed \cup {q}
             ELSE UNCHANGED disturbed
    BY <1>0, <1>3 DEF T!Fetch, Request
  <2>2. UNCHANGED <<src, realm, cfg, mute>> /\ old.pc = "fetch"
    BY <1>3 DEF T!Fetch
  <2>3. to \in Request
    BY <1>0 DEF Request, T!Over
  <2>4. /\ to.pc \in {"store", "failed", "refused"} /\ (to.pc = "store" => to.token = old.realm)
        /\ to.again = old.again
    BY <1>0 DEF Request
  <2>5. Renewed(q)'
    BY <1>0, <2>1, <2>2, <2>4 DEF Renewed
  <2>6. disturbed \subseteq disturbed' /\ disturbed' \in SUBSET Actors
    BY <1>0, <2>1
  <2> QED BY <1>0, <2>1, <2>2, <2>3, <2>4, <2>5, <2>6, OthersRenewed
<1>4. CASE T!Store(q)
  <2> DEFINE to == [old EXCEPT !.pc = "send"]
  <2>1. to \in Request /\ to.pc = "send" /\ to.token = old.token /\ to.again = old.again
    BY <1>0 DEF Request
  <2>2. /\ req' = [req EXCEPT ![q] = to] /\ UNCHANGED <<realm, cfg, mute>> /\ old.pc = "store"
        /\ src' = IF old.gen = src.gen THEN [src EXCEPT !.token = old.token] ELSE src
        /\ disturbed' = IF old.token = src.realm THEN disturbed ELSE disturbed \cup T!Active
    BY <1>0, <1>4 DEF T!Store
  <2> HIDE DEF to
  <2>3. q \in T!Active
    BY <2>2 DEF T!Active, T!Over
  <2>4. Renewed(q)'
    BY <1>0, <2>1, <2>2 DEF Renewed
  <2>5. src' \in Source
    BY <1>0, <2>2 DEF Source, Request
  <2>6. \/ T!Active \subseteq disturbed'
        \/ src' = src
        \/ src' = [src EXCEPT !.token = src.realm]
    BY <2>2
  <2> QED BY <1>0, <2>1, <2>2, <2>4, <2>5, <2>6, OthersRenewed
<1>5. CASE T!Send(q)
  <2>1. PICK to \in {[old EXCEPT !.pc = "ok"], [old EXCEPT !.pc = "refused"],
                      [old EXCEPT !.pc = "challenged", !.realm = realm],
                      [old EXCEPT !.pc = "challenged", !.realm = 0]} :
          /\ req' = [req EXCEPT ![q] = to]
          /\ to.pc = "refused" => old.again /\ old.token # realm
          /\ to.pc = "challenged" => ~old.again
    BY <1>0, <1>5 DEF T!Send, T!ParseBearerChallenge, T!Nil, Request
  <2>2. /\ UNCHANGED <<src, realm, cfg>> /\ old.pc = "send"
        /\ mute' \in 0..MaxMute /\ disturbed' \in {disturbed, disturbed \cup {q}}
    <3>1. UNCHANGED <<src, realm, cfg>> /\ old.pc = "send"
      BY <1>5 DEF T!Send
    <3>2. \/ UNCHANGED <<mute, disturbed>>
          \/ mute < MaxMute /\ mute' = mute + 1 /\ disturbed' = disturbed \cup {q}
      BY <1>5 DEF T!Send
    <3> QED BY <1>0, <3>1, <3>2 DEF TokenConstants
  <2>3. to \in Request /\ to.again = old.again /\ to.pc \in {"ok", "refused", "challenged"}
    BY <1>0 DEF Request, T!Over
  <2>4. Renewed(q)'
    BY <1>0, <2>1, <2>2, <2>3 DEF Renewed
  <2>5. disturbed' \in SUBSET Actors /\ disturbed \subseteq disturbed'
    BY <1>0, <2>2
  <2> QED BY <1>0, <2>1, <2>2, <2>3, <2>4, <2>5, OthersRenewed
<1>6. CASE T!Invalidate(q)
  <2> DEFINE s == T!SourceFor(old.cfg)
             c == old.realm
             to == [old EXCEPT !.pc = "inject", !.again = TRUE]
  <2>1. s \in Source /\ (s.gen = src.gen => s = src /\ src.cfg = old.cfg)
    BY <1>0, SourceOf DEF Request
  <2>2. /\ req' = [req EXCEPT ![q] = to] /\ UNCHANGED <<realm, cfg, mute>>
        /\ src' = [s EXCEPT !.realm = IF c = 0 THEN @ ELSE c, !.token = 0]
        /\ disturbed' = IF s.gen # src.gen \/ c # realm THEN disturbed \cup T!Active
                        ELSE disturbed
        /\ old.pc = "challenged"
    BY <1>0, <1>6 DEF T!Invalidate, T!Nil
  <2>3. q \in T!Active
    BY <2>2 DEF T!Active, T!Over
  <2>4. to \in Request /\ to.pc = "inject" /\ to.cfg = old.cfg /\ to.again
    BY <1>0 DEF Request
  <2> HIDE DEF s, to
  <2>5. src' \in Source
    BY <1>0, <2>1, <2>2 DEF Source, Request
  <2>6. \/ T!Active \subseteq disturbed'
        \/ s = src /\ src.cfg = old.cfg /\ src' = [src EXCEPT !.realm = realm, !.token = T!Nil]
    BY <1>0, <2>1, <2>2 DEF T!Nil
  <2>7. Renewed(q)'
    <3>1. CASE T!Active \subseteq disturbed'
      BY <2>3, <3>1 DEF Renewed
    <3>2. CASE s = src /\ src.cfg = old.cfg /\ src' = [src EXCEPT !.realm = realm, !.token = T!Nil]
      <4>1. src'.cfg = old.cfg /\ src'.realm = realm /\ src'.token = T!Nil
        BY <1>0, <3>2 DEF Source
      <4>2. req'[q] = to /\ realm' = realm
        BY <1>0, <2>2
      <4> QED BY <2>4, <4>1, <4>2 DEF Renewed
    <3> QED BY <2>6, <3>1, <3>2
  <2> QED BY <1>0, <2>2, <2>4, <2>5, <2>6, <2>7, OthersRenewed
<1> QED BY <1>1, <1>2, <1>3, <1>4, <1>5, <1>6 DEF T!Step

(* So do the registry, the administrator and time. *)
LEMMA TokenKept ==
  ASSUME TokenConstants, TokenInv, T!Next \/ UNCHANGED token PROVE TokenInv'
<1>1. ASSUME NEW q \in Actors, T!Step(q) PROVE TokenInv'
  BY <1>1, RequestKeeps
<1>2. CASE T!ChangeRealm
  BY <1>2 DEF T!ChangeRealm, TokenInv, T!TypeOK, T!Realms, TokenConstants, Renewed, T!Active, T!Over
<1>3. CASE T!PutConfig
  BY <1>3 DEF T!PutConfig, TokenInv, T!TypeOK, TokenConstants, Renewed
<1>4. CASE T!Expire
  BY <1>4 DEF T!Expire, TokenInv, T!TypeOK, TokenConstants, Renewed, T!Nil
<1>5. CASE UNCHANGED token
  BY <1>5 DEF token, TokenInv, T!TypeOK, Renewed
<1> QED BY <1>1, <1>2, <1>3, <1>4, <1>5 DEF T!Next

(* A request is refused a second time only if something changed, or was    *)
(* stored late, while it was on its way: one renewal is enough.            *)
THEOREM RefusedOnlyIfDisturbedHolds ==
  ASSUME TokenConstants PROVE Spec => []RefusedOnlyIfDisturbed
<1>1. Init => TokenInv
  <2> SUFFICES ASSUME T!Init PROVE TokenInv
    BY DEF Init
  <2> QED BY DEF TokenConstants, T!Init, TokenInv, T!TypeOK, T!Over, T!Nil, T!Realms, Renewed
<1>2. TokenInv /\ [Next]_vars => TokenInv'
  BY TokenKept DEF Next, Only, vars
<1>3. TokenInv => RefusedOnlyIfDisturbed
  BY DEF TokenInv, Renewed, RefusedOnlyIfDisturbed, T!RefusedOnlyIfDisturbed
<1> QED BY <1>1, <1>2, <1>3, PTL DEF Spec

-----------------------------------------------------------------------------
(* The configuration *)

(* What a request carries: a section that it does not is no value. *)
Sections ==
  [rate : Nat \cup {Unset}, quota : Nat \cup {Unset}, proxy : Nat \cup {Unset},
   sched : {Unset} \cup [mode : BOOLEAN, resume : BOOLEAN \cup {Unset}]]

ConfigConstants ==
  /\ Unset \notin Nat \cup BOOLEAN \cup [mode : BOOLEAN, resume : BOOLEAN \cup {Unset}]
  /\ MaxPuts \in Nat /\ MaxFaults \in Nat

(* A configuration before its defaults are filled in *)
Raw ==
  [rate : Nat, quota : Nat, proxy : Nat, mode : BOOLEAN, resume : BOOLEAN \cup {Unset},
   legacy : Nat]

(* A putConfig: before it has the configuration, and while it tells it *)
Putting ==
  {C!NoPut} \cup [pc : {"update", "get"}, body : Sections, was : BOOLEAN]
  \cup [pc : {"rate", "mode", "quota", "proxy", "resume"}, body : Sections, was : BOOLEAN,
        cfg : C!Settings]

(* What the components work with is the configuration, but for what `a`    *)
(* has changed and will tell; a pause without a timer is one it will lift. *)
InForce(a) ==
  /\ put[a].pc = "update" => put[a].was = memory.resume
  /\ put[a].pc \in {"rate", "mode", "quota", "proxy", "resume"} => put[a].cfg = memory
  /\ \/ comp.rate = memory.rate
     \/ put[a].pc \in {"get", "rate"} /\ C!Sent(a, "rate")
  /\ \/ comp.mode = memory.mode
     \/ put[a].pc \in {"get", "rate", "mode"}
  /\ \/ comp.quota = memory.quota
     \/ put[a].pc \in {"get", "rate", "mode", "quota"} /\ C!Sent(a, "quota")
  /\ \/ comp.proxy = memory.proxy
     \/ put[a].pc \in {"get", "rate", "mode", "quota", "proxy"} /\ C!Sent(a, "proxy")
  /\ memory.resume /\ stuck => put[a].pc # "update" /\ C!Sent(a, "sched") /\ ~put[a].was

ConfigInv ==
  /\ C!TypeOK /\ put \in [Actors -> Putting]
  /\ ~unsaved => row = memory
  /\ ~mixed =>
       /\ \A a, b \in Actors : C!Idle(a) \/ C!Idle(b) \/ a = b
       /\ \A a \in Actors : ~C!Idle(a) => InForce(a)
       /\ (\A a \in Actors : C!Idle(a)) =>
            comp = C!Components(memory) /\ (memory.resume => ~stuck)

(* The defaults make a configuration of what was stored or asked for, and  *)
(* leave alone what is set.                                                *)
LEMMA DefaultsFill ==
  ASSUME ConfigConstants, NEW c \in Raw
  PROVE  /\ C!applyDefaults(c) \in C!Settings
         /\ C!applyDefaults(c).rate = IF c.rate = 0 THEN c.legacy ELSE c.rate
         /\ C!applyDefaults(c).quota = IF c.quota = 0 THEN 1 ELSE c.quota
         /\ C!applyDefaults(c).proxy = c.proxy /\ C!applyDefaults(c).mode = c.mode
         /\ c.resume \in BOOLEAN => C!applyDefaults(c).resume = c.resume
<1> DEFINE rate == IF c.rate = 0 THEN c.legacy ELSE c.rate
           quota == IF c.quota = 0 THEN 1 ELSE c.quota
           resume == IF c.resume = Unset THEN TRUE ELSE c.resume
           e == [c EXCEPT !.rate = rate, !.quota = quota, !.resume = resume]
           d == [e EXCEPT !.legacy = 0]
<1>1. C!applyDefaults(c) = d
  BY DEF C!applyDefaults, C!NormalizePlatform, C!Default
<1>2. d \in C!Settings
  <2>1. c.resume \in BOOLEAN \cup {Unset} /\ c \in Raw
    BY DEF Raw
  <2>2. resume \in BOOLEAN
    BY <2>1, Zenon
  <2>3. rate \in Nat /\ quota \in Nat \ {0}
    BY DEF Raw
  <2> HIDE DEF rate, quota, resume
  <2> QED BY <2>1, <2>2, <2>3 DEF Raw, C!Settings
<1>3. /\ d.rate = (IF c.rate = 0 THEN c.legacy ELSE c.rate)
      /\ d.quota = (IF c.quota = 0 THEN 1 ELSE c.quota)
      /\ d.proxy = c.proxy /\ d.mode = c.mode
      /\ c.resume \in BOOLEAN => d.resume = c.resume
  BY DEF Raw, ConfigConstants
<1> QED BY <1>1, <1>2, <1>3

(* A configuration is its own row. *)
LEMMA RowOf == ASSUME NEW c \in C!Settings PROVE C!Persisted(c) = c
BY DEF C!Persisted, C!Settings

(* An update changes the sections that are sent, and no other. *)
LEMMA UpdatedIs ==
  ASSUME ConfigConstants, memory \in C!Settings, NEW body \in Sections
  PROVE  /\ C!Updated(body) \in C!Settings
         /\ body.rate = Unset => C!Updated(body).rate = memory.rate
         /\ body.quota = Unset => C!Updated(body).quota = memory.quota
         /\ body.proxy = Unset => C!Updated(body).proxy = memory.proxy
         /\ body.sched = Unset => C!Updated(body).resume = memory.resume
<1> DEFINE rate == C!Set(body.rate, memory.rate)
           quota == C!Set(body.quota, memory.quota)
           proxy == C!Set(body.proxy, memory.proxy)
           mode == IF body.sched = Unset THEN memory.mode ELSE body.sched.mode
           resume == IF body.sched = Unset THEN memory.resume ELSE body.sched.resume
           c == [memory EXCEPT !.rate = rate, !.quota = quota, !.proxy = proxy,
                               !.mode = mode, !.resume = resume]
<1>1. C!Updated(body) = C!applyDefaults(c)
  BY DEF C!Updated
<1>2. c \in Raw
  <2>1. /\ memory.mode \in BOOLEAN /\ memory.resume \in BOOLEAN
        /\ body.sched \in {Unset} \cup [mode : BOOLEAN, resume : BOOLEAN \cup {Unset}]
    BY DEF C!Settings, Sections
  <2>2. body.sched # Unset => /\ body.sched.mode \in BOOLEAN
                              /\ body.sched.resume \in BOOLEAN \cup {Unset}
    BY <2>1
  <2>3. mode \in BOOLEAN /\ resume \in BOOLEAN \cup {Unset}
    BY <2>1, <2>2, Zenon
  <2>4. rate \in Nat /\ quota \in Nat /\ proxy \in Nat
    BY DEF C!Settings, Sections, C!Set
  <2>5. memory \in Raw
    BY DEF C!Settings, Raw
  <2> HIDE DEF rate, quota, proxy, mode, resume
  <2> QED BY <2>3, <2>4, <2>5 DEF Raw
<1>3. /\ body.rate = Unset => c.rate = memory.rate
      /\ body.quota = Unset => c.quota = memory.quota
      /\ body.proxy = Unset => c.proxy = memory.proxy
      /\ body.sched = Unset => c.resume = memory.resume
      /\ c.legacy = 0
  BY DEF C!Settings, C!Set
<1>4. memory.quota # 0 /\ memory.resume \in BOOLEAN /\ memory.rate \in Nat
  BY DEF C!Settings
<1> HIDE DEF c
<1> QED BY <1>1, <1>2, <1>3, <1>4, DefaultsFill

(* Requests carry sections, and databases hold rows. *)
LEMMA InputsTyped ==
  ASSUME ConfigConstants
  PROVE  /\ Bodies \subseteq Sections
         /\ Stored \cup {C!defaultRuntime} \subseteq Raw
<1>1. NoSection \in Sections
  BY DEF NoSection, Sections
<1>2. Bodies \subseteq Sections
  <2>1. [NoSection EXCEPT !.rate = 0, !.quota = 2] \in Sections
    BY <1>1 DEF Sections
  <2>2. [NoSection EXCEPT !.quota = 0, !.proxy = 1] \in Sections
    BY <1>1 DEF Sections
  <2>3. \A m \in [mode : BOOLEAN, resume : BOOLEAN \cup {Unset}] :
          [NoSection EXCEPT !.sched = m] \in Sections
    BY <1>1 DEF Sections
  <2>4. /\ [mode |-> TRUE, resume |-> FALSE] \in [mode : BOOLEAN, resume : BOOLEAN \cup {Unset}]
        /\ [mode |-> FALSE, resume |-> Unset] \in [mode : BOOLEAN, resume : BOOLEAN \cup {Unset}]
    OBVIOUS
  <2> QED BY <2>1, <2>2, <2>3, <2>4 DEF Bodies
<1>3. Stored \cup {C!defaultRuntime} \subseteq Raw
  BY DEF Stored, C!defaultRuntime, C!Default, Raw
<1> QED BY <1>2, <1>3

(* A row that was opened is the configuration in memory. *)
LEMMA OpenKeeps ==
  ASSUME ConfigConstants, NEW stored \in Raw, C!Open(stored)
  PROVE  /\ memory \in C!Settings /\ row = memory /\ comp = C!Components(memory)
         /\ comp \in [rate : Nat, quota : Nat, proxy : Nat, mode : BOOLEAN]
<1>1. memory \in C!Settings
  BY DefaultsFill DEF C!Open
<1> QED BY <1>1, RowOf DEF C!Open, C!Components, C!Settings

(* The initial state keeps the invariant. *)
LEMMA InitConfig == ASSUME ConfigConstants, C!Init PROVE ConfigInv
<1>1. PICK stored \in Raw : C!Open(stored)
  BY InputsTyped DEF C!Init
<1>2. \A a \in Actors : put[a] = C!NoPut /\ C!Idle(a)
  BY DEF C!Init, C!NoPut, C!Idle
<1>3. put \in [Actors -> Putting]
  BY DEF C!Init, Putting
<1>4. /\ memory \in C!Settings /\ row = memory /\ comp = C!Components(memory)
      /\ comp \in [rate : Nat, quota : Nat, proxy : Nat, mode : BOOLEAN]
  BY <1>1, OpenKeeps
<1>5. ~armed /\ ~stuck /\ ~mixed /\ ~unsaved
      /\ {armed, stuck, mixed, unsaved} \subseteq BOOLEAN
  BY DEF C!Init
<1>6. puts \in 0..MaxPuts /\ faults \in 0..MaxFaults
  BY DEF C!Init, ConfigConstants
<1> QED BY <1>2, <1>3, <1>4, <1>5, <1>6 DEF C!TypeOK, ConfigInv

(* A step of one request, when no other is on its way *)
LEMMA OneAtWork ==
  ASSUME ConfigInv, NEW a \in Actors, NEW p \in Putting, put' = [put EXCEPT ![a] = p],
         C!TypeOK', ~unsaved' => row' = memory',
         ~mixed' => ~mixed /\ \A b \in Actors \ {a} : C!Idle(b),
         ~mixed' /\ p.pc # "idle" => InForce(a)',
         ~mixed' /\ p.pc = "idle" => comp' = C!Components(memory') /\ (memory'.resume => ~stuck')
  PROVE  ConfigInv'
<1>1. put' \in [Actors -> Putting] /\ put'[a] = p /\ \A b \in Actors \ {a} : put'[b] = put[b]
  BY DEF ConfigInv
<1>2. ~mixed' => \A b \in Actors \ {a} : C!Idle(b)'
  BY <1>1 DEF C!Idle
<1>3. C!Idle(a)' <=> p.pc = "idle"
  BY <1>1 DEF C!Idle
<1>4. \A b, r \in Actors : ~mixed' => C!Idle(b)' \/ C!Idle(r)' \/ b = r
  BY <1>2
<1>5. \A b \in Actors : ~mixed' /\ ~C!Idle(b)' => InForce(b)'
  BY <1>2, <1>3
<1>6. ~mixed' /\ (\A b \in Actors : C!Idle(b)') =>
         comp' = C!Components(memory') /\ (memory'.resume => ~stuck')
  BY <1>3
<1> QED BY <1>1, <1>4, <1>5, <1>6, Zenon DEF ConfigInv

(* A request has nobody beside it, unless it was noted. *)
LEMMA Alone ==
  ASSUME ConfigInv, NEW a \in Actors, ~C!Idle(a), ~mixed
  PROVE  InForce(a) /\ \A b \in Actors \ {a} : C!Idle(b)
BY DEF ConfigInv

(* The kinds of requests on their way *)
LEMMA PutKinds ==
  ASSUME ConfigInv, NEW a \in Actors
  PROVE  /\ \/ put[a] = C!NoPut /\ put[a].pc = "idle"
            \/ /\ put[a].pc \in {"update", "get"}
               /\ put[a] \in [pc : {"update", "get"}, body : Sections, was : BOOLEAN]
            \/ /\ put[a].pc \in {"rate", "mode", "quota", "proxy", "resume"}
               /\ put[a] \in [pc : {"rate", "mode", "quota", "proxy", "resume"},
                              body : Sections, was : BOOLEAN, cfg : C!Settings]
BY DEF ConfigInv, Putting, C!NoPut

(* A request begins. *)
LEMMA ReadBeforeKeeps ==
  ASSUME ConfigConstants, ConfigInv, NEW a \in Actors, NEW body \in Bodies, C!ReadBefore(a, body)
  PROVE  ConfigInv'
<1> DEFINE p == [pc |-> "update", body |-> body, was |-> memory.resume]
<1>1. p \in Putting /\ p.pc = "update" /\ p.was = memory.resume
  BY InputsTyped DEF Putting, ConfigInv, C!TypeOK, C!Settings
<1>2. put' = [put EXCEPT ![a] = p] /\ put'[a] = p
  BY DEF C!ReadBefore, ConfigInv
<1>3. UNCHANGED <<memory, row, comp, armed, stuck, faults, unsaved>> /\ C!Idle(a)
  BY DEF C!ReadBefore
<1>4. mixed' \in BOOLEAN /\ (~mixed' => ~mixed /\ \A b \in Actors : C!Idle(b))
  BY DEF C!ReadBefore, ConfigInv, C!TypeOK
<1>5. puts' \in 0..MaxPuts
  BY DEF C!ReadBefore, ConfigInv, C!TypeOK, ConfigConstants
<1>6. C!TypeOK'
  BY <1>3, <1>4, <1>5 DEF ConfigInv, C!TypeOK
<1> HIDE DEF p
<1>7. ~mixed' => InForce(a)'
  BY <1>1, <1>2, <1>3, <1>4 DEF ConfigInv, InForce, C!Components
<1> QED BY <1>1, <1>2, <1>3, <1>4, <1>6, <1>7, OneAtWork DEF ConfigInv

(* The update of the configuration, and of its row *)
LEMMA UpdateKeeps ==
  ASSUME ConfigConstants, ConfigInv, NEW a \in Actors, C!Update(a) PROVE ConfigInv'
<1> DEFINE body == put[a].body
<1>1. /\ put[a].pc = "update" /\ memory' = C!Updated(body)
      /\ UNCHANGED <<comp, armed, stuck, puts>>
      /\ put[a] \in [pc : {"update", "get"}, body : Sections, was : BOOLEAN]
  BY PutKinds DEF C!Update
<1>2. /\ memory \in C!Settings /\ memory' \in C!Settings
      /\ body.rate = Unset => memory'.rate = memory.rate
      /\ body.quota = Unset => memory'.quota = memory.quota
      /\ body.proxy = Unset => memory'.proxy = memory.proxy
      /\ body.sched = Unset => memory'.resume = memory.resume
  BY <1>1, UpdatedIs DEF ConfigInv, C!TypeOK
<1>3. ~mixed => InForce(a) /\ \A b \in Actors \ {a} : C!Idle(b)
  BY <1>1, Alone DEF C!Idle
<1>4. ASSUME row' = C!Persisted(memory'), unsaved' = FALSE, UNCHANGED <<faults, mixed>>,
             put' = [put EXCEPT ![a].pc = "get"]
      PROVE  ConfigInv'
  <2> DEFINE p == [put[a] EXCEPT !.pc = "get"]
  <2>1. p \in Putting /\ p.pc = "get" /\ p.was = put[a].was /\ p.body = body
    BY <1>1 DEF Putting
  <2>2. put' = [put EXCEPT ![a] = p] /\ put'[a] = p
    BY <1>4 DEF ConfigInv
  <2>3. row' = memory'
    BY <1>2, <1>4, RowOf
  <2>4. C!TypeOK'
    BY <1>1, <1>2, <1>4, <2>3 DEF ConfigInv, C!TypeOK
  <2> HIDE DEF p
  <2>5. ~mixed' => InForce(a)'
    BY <1>1, <1>2, <1>3, <1>4, <2>1, <2>2 DEF InForce, C!Sent
  <2> QED BY <1>3, <1>4, <2>1, <2>2, <2>3, <2>4, <2>5, OneAtWork
<1>5. ASSUME faults < MaxFaults, faults' = faults + 1, unsaved' = TRUE, mixed' = TRUE,
             put' = [put EXCEPT ![a] = C!NoPut], UNCHANGED row
      PROVE  ConfigInv'
  <2>1. faults' \in 0..MaxFaults
    BY <1>5 DEF ConfigInv, C!TypeOK, ConfigConstants
  <2>2. C!TypeOK'
    BY <1>1, <1>2, <1>5, <2>1 DEF ConfigInv, C!TypeOK
  <2>3. C!NoPut \in Putting
    BY DEF Putting
  <2> QED BY <1>5, <2>2, <2>3 DEF ConfigInv
<1> QED BY <1>4, <1>5 DEF C!Update

(* The copy of the configuration that is applied *)
LEMMA GetKeeps ==
  ASSUME ConfigInv, NEW a \in Actors, C!Get(a) PROVE ConfigInv'
<1> DEFINE p == [pc |-> "rate", body |-> put[a].body, was |-> put[a].was, cfg |-> memory]
<1>1. /\ put[a].pc = "get"
      /\ put[a] \in [pc : {"update", "get"}, body : Sections, was : BOOLEAN]
  BY PutKinds DEF C!Get
<1>2. UNCHANGED <<memory, row, comp, armed, stuck, puts, faults, mixed, unsaved>>
  BY DEF C!Get
<1>3. p \in Putting /\ p.pc = "rate" /\ p.cfg = memory /\ p.was = put[a].was
      /\ p.body = put[a].body
  BY <1>1 DEF Putting, ConfigInv, C!TypeOK
<1>4. put' = [put EXCEPT ![a] = p] /\ put'[a] = p
  BY DEF C!Get, ConfigInv
<1>5. ~mixed => InForce(a) /\ \A b \in Actors \ {a} : C!Idle(b)
  BY <1>1, Alone DEF C!Idle
<1>6. C!TypeOK'
  BY <1>2 DEF ConfigInv, C!TypeOK
<1> HIDE DEF p
<1>7. ~mixed' => InForce(a)'
  BY <1>1, <1>2, <1>3, <1>4, <1>5 DEF InForce, C!Sent
<1> QED BY <1>2, <1>3, <1>4, <1>5, <1>6, <1>7, OneAtWork DEF ConfigInv

(* A component is told, and the request goes on to the next. *)
LEMMA TellKeeps ==
  ASSUME ConfigInv, NEW a \in Actors, NEW now, NEW then, NEW part2, C!Tell(a, now, then, part2),
         now \in {"rate", "mode", "quota", "proxy"}, then \in {"mode", "quota", "proxy", "resume"},
         part2 \in [rate : Nat, quota : Nat, proxy : Nat, mode : BOOLEAN],
         ASSUME InForce(a), put[a].cfg = memory, comp' = part2, UNCHANGED <<memory, stuck>>,
                put'[a].pc = then, put'[a].cfg = put[a].cfg, put'[a].was = put[a].was,
                put'[a].body = put[a].body
         PROVE  InForce(a)'
  PROVE  ConfigInv'
<1> DEFINE p == [put[a] EXCEPT !.pc = then]
<1>1. /\ put[a].pc = now /\ comp' = part2
      /\ UNCHANGED <<memory, row, armed, stuck, puts, faults, mixed, unsaved>>
  BY DEF C!Tell
<1>2. put[a] \in [pc : {"rate", "mode", "quota", "proxy", "resume"},
                  body : Sections, was : BOOLEAN, cfg : C!Settings]
  BY <1>1, PutKinds
<1>3. /\ p \in Putting /\ p.pc = then /\ p.cfg = put[a].cfg /\ p.was = put[a].was
      /\ p.body = put[a].body
  BY <1>2 DEF Putting
<1>4. put' = [put EXCEPT ![a] = p] /\ put'[a] = p
  BY DEF C!Tell, ConfigInv
<1>5. ~mixed => InForce(a) /\ \A b \in Actors \ {a} : C!Idle(b)
  BY <1>1, Alone DEF C!Idle
<1>6. C!TypeOK'
  BY <1>1 DEF ConfigInv, C!TypeOK
<1>7. ~mixed => put[a].cfg = memory
  BY <1>1, <1>5 DEF InForce
<1> HIDE DEF p
<1>8. ~mixed' => InForce(a)'
  BY <1>1, <1>3, <1>4, <1>5, <1>7
<1>9. p.pc # "idle"
  BY <1>3
<1> QED BY <1>1, <1>3, <1>4, <1>5, <1>6, <1>8, <1>9, OneAtWork DEF ConfigInv

(* Each of the components *)
LEMMA ComponentsKeep ==
  ASSUME ConfigInv, NEW a \in Actors,
         C!UpdateLimiters(a) \/ C!SetInteractiveTaskReserve(a) \/ C!SetMaxSizeGB(a)
           \/ C!SetUpstreamProxy(a)
  PROVE  ConfigInv'
<1>1. /\ put[a].pc \in {"rate", "mode", "quota", "proxy"}
      /\ put[a].cfg \in C!Settings
      /\ comp \in [rate : Nat, quota : Nat, proxy : Nat, mode : BOOLEAN]
  BY PutKinds DEF C!UpdateLimiters, C!SetInteractiveTaskReserve, C!SetMaxSizeGB,
       C!SetUpstreamProxy, C!Tell, ConfigInv, C!TypeOK
<1> DEFINE rate2 == IF C!Sent(a, "rate") THEN [comp EXCEPT !.rate = put[a].cfg.rate] ELSE comp
           mode2 == [comp EXCEPT !.mode = put[a].cfg.mode]
           quota2 == IF C!Sent(a, "quota") THEN [comp EXCEPT !.quota = put[a].cfg.quota] ELSE comp
           proxy2 == IF C!Sent(a, "proxy") THEN [comp EXCEPT !.proxy = put[a].cfg.proxy] ELSE comp
<1>2. ASSUME C!UpdateLimiters(a) PROVE ConfigInv'
  <2>1. C!Tell(a, "rate", "mode", rate2) /\ put[a].pc = "rate"
    BY <1>2 DEF C!UpdateLimiters, C!Tell
  <2>2. rate2 \in [rate : Nat, quota : Nat, proxy : Nat, mode : BOOLEAN]
    BY <1>1 DEF C!Settings
  <2>3. ASSUME InForce(a), put[a].cfg = memory, comp' = rate2, UNCHANGED <<memory, stuck>>,
               put'[a].pc = "mode", put'[a].cfg = put[a].cfg, put'[a].was = put[a].was,
               put'[a].body = put[a].body
        PROVE  InForce(a)'
    BY <1>1, <2>1, <2>3 DEF InForce, C!Sent
  <2> HIDE DEF rate2
  <2> QED BY <2>1, <2>2, <2>3, TellKeeps
<1>3. ASSUME C!SetInteractiveTaskReserve(a) PROVE ConfigInv'
  <2>1. C!Tell(a, "mode", "quota", mode2) /\ put[a].pc = "mode"
    BY <1>3 DEF C!SetInteractiveTaskReserve, C!Tell
  <2>2. mode2 \in [rate : Nat, quota : Nat, proxy : Nat, mode : BOOLEAN]
    BY <1>1 DEF C!Settings
  <2>3. ASSUME InForce(a), put[a].cfg = memory, comp' = mode2, UNCHANGED <<memory, stuck>>,
               put'[a].pc = "quota", put'[a].cfg = put[a].cfg, put'[a].was = put[a].was,
               put'[a].body = put[a].body
        PROVE  InForce(a)'
    BY <1>1, <2>1, <2>3 DEF InForce, C!Sent
  <2> HIDE DEF mode2
  <2> QED BY <2>1, <2>2, <2>3, TellKeeps
<1>4. ASSUME C!SetMaxSizeGB(a) PROVE ConfigInv'
  <2>1. C!Tell(a, "quota", "proxy", quota2) /\ put[a].pc = "quota"
    BY <1>4 DEF C!SetMaxSizeGB, C!Tell
  <2>2. quota2 \in [rate : Nat, quota : Nat, proxy : Nat, mode : BOOLEAN]
    BY <1>1 DEF C!Settings
  <2>3. ASSUME InForce(a), put[a].cfg = memory, comp' = quota2, UNCHANGED <<memory, stuck>>,
               put'[a].pc = "proxy", put'[a].cfg = put[a].cfg, put'[a].was = put[a].was,
               put'[a].body = put[a].body
        PROVE  InForce(a)'
    BY <1>1, <2>1, <2>3 DEF InForce, C!Sent
  <2> HIDE DEF quota2
  <2> QED BY <2>1, <2>2, <2>3, TellKeeps
<1>5. ASSUME C!SetUpstreamProxy(a) PROVE ConfigInv'
  <2>1. C!Tell(a, "proxy", "resume", proxy2) /\ put[a].pc = "proxy"
    BY <1>5 DEF C!SetUpstreamProxy, C!Tell
  <2>2. proxy2 \in [rate : Nat, quota : Nat, proxy : Nat, mode : BOOLEAN]
    BY <1>1 DEF C!Settings
  <2>3. ASSUME InForce(a), put[a].cfg = memory, comp' = proxy2, UNCHANGED <<memory, stuck>>,
               put'[a].pc = "resume", put'[a].cfg = put[a].cfg, put'[a].was = put[a].was,
               put'[a].body = put[a].body
        PROVE  InForce(a)'
    BY <1>1, <2>1, <2>3 DEF InForce, C!Sent
  <2> HIDE DEF proxy2
  <2> QED BY <2>1, <2>2, <2>3, TellKeeps
<1> QED BY <1>2, <1>3, <1>4, <1>5

(* The pause is lifted, if the request has switched resume_on_idle on. *)
LEMMA ResumeKeeps ==
  ASSUME ConfigInv, NEW a \in Actors, C!ResumePrefetch(a) PROVE ConfigInv'
<1>1. /\ put[a].pc = "resume" /\ put' = [put EXCEPT ![a] = C!NoPut]
      /\ UNCHANGED <<memory, row, comp, puts, faults, mixed, unsaved>>
  BY DEF C!ResumePrefetch
<1>2. /\ put[a].was \in BOOLEAN /\ put[a].cfg \in C!Settings
  BY <1>1, PutKinds
<1>3. C!NoPut \in Putting /\ C!NoPut.pc = "idle"
  BY DEF Putting, C!NoPut
<1>4. armed' \in BOOLEAN /\ stuck' \in BOOLEAN
  BY DEF C!ResumePrefetch, ConfigInv, C!TypeOK
<1>5. C!TypeOK'
  BY <1>1, <1>4 DEF ConfigInv, C!TypeOK
<1>6. ~mixed => InForce(a) /\ \A b \in Actors \ {a} : C!Idle(b)
  BY <1>1, Alone DEF C!Idle
<1>7. ASSUME ~mixed PROVE comp = C!Components(memory) /\ (memory.resume => ~stuck')
  <2>1. /\ comp.rate = memory.rate /\ comp.mode = memory.mode /\ comp.quota = memory.quota
        /\ comp.proxy = memory.proxy
    BY <1>1, <1>6, <1>7 DEF InForce
  <2>2. comp \in [rate : Nat, quota : Nat, proxy : Nat, mode : BOOLEAN]
    BY DEF ConfigInv, C!TypeOK
  <2>3. comp = C!Components(memory)
    BY <2>1, <2>2 DEF C!Components
  <2>4. put[a].cfg = memory /\ (memory.resume /\ stuck => C!Sent(a, "sched") /\ ~put[a].was)
    BY <1>1, <1>6, <1>7 DEF InForce
  <2>5. memory.resume => ~stuck'
    BY <2>4 DEF C!ResumePrefetch
  <2> QED BY <2>3, <2>5
<1> HIDE DEF C!NoPut
<1> QED BY <1>1, <1>3, <1>5, <1>6, <1>7, OneAtWork DEF ConfigInv

(* What the scheduler's timers do, and a restart *)
LEMMA SurroundingsKeep ==
  ASSUME ConfigConstants, ConfigInv,
         C!LastInteractiveEnds \/ C!TimerFires \/ C!Restart \/ UNCHANGED C!vars
  PROVE  ConfigInv'
<1>1. ASSUME UNCHANGED <<memory, row, comp, put, puts, faults, mixed, unsaved>>,
             stuck' = ~memory.resume \/ UNCHANGED stuck, armed' \in BOOLEAN
      PROVE  ConfigInv'
  <2>1. memory.resume \in BOOLEAN /\ stuck \in BOOLEAN
    BY DEF ConfigInv, C!TypeOK, C!Settings
  <2>2. stuck' \in BOOLEAN /\ (memory.resume /\ stuck' => stuck)
    <3>1. CASE UNCHANGED stuck
      BY <2>1, <3>1, Zenon
    <3>2. CASE stuck' = ~memory.resume
      <4>1. CASE memory.resume = TRUE
        BY <3>2, <4>1, Zenon
      <4>2. CASE memory.resume = FALSE
        BY <3>2, <4>2, Zenon
      <4> QED BY <2>1, <4>1, <4>2
    <3> QED BY <1>1, <3>1, <3>2
  <2>3. C!TypeOK'
    BY <1>1, <2>2 DEF ConfigInv, C!TypeOK
  <2>4. \A a \in Actors : /\ C!Idle(a)' <=> C!Idle(a)
                          /\ InForce(a) => InForce(a)'
    BY <1>1, <2>2 DEF C!Idle, InForce, C!Sent
  <2>5. ~mixed' => \A a \in Actors : ~C!Idle(a)' => InForce(a)'
    BY <1>1, <2>4 DEF ConfigInv
  <2>6. ~mixed' => \A a, b \in Actors : C!Idle(a)' \/ C!Idle(b)' \/ a = b
    BY <1>1, <2>4 DEF ConfigInv
  <2>7. ~mixed' /\ (\A a \in Actors : C!Idle(a)') =>
           comp' = C!Components(memory') /\ (memory'.resume => ~stuck')
    BY <1>1, <2>2, <2>4 DEF ConfigInv
  <2> QED BY <1>1, <2>3, <2>5, <2>6, <2>7 DEF ConfigInv
<1>2. ASSUME C!Restart PROVE ConfigInv'
  <2>1. row \in Raw
    BY DEF ConfigInv, C!TypeOK, C!Settings, Raw
  <2>2. /\ memory' = C!applyDefaults(row) /\ row' = C!Persisted(memory')
        /\ comp' = C!Components(memory') /\ UNCHANGED puts
        /\ put' = [a \in Actors |-> C!NoPut]
        /\ ~armed' /\ ~stuck' /\ ~mixed' /\ ~unsaved'
        /\ {armed', stuck', mixed', unsaved'} \subseteq BOOLEAN
        /\ faults' = faults + 1 /\ faults < MaxFaults
    BY <1>2 DEF C!Restart
  <2>3. memory' \in C!Settings
    BY <2>1, <2>2, DefaultsFill
  <2>4. row' = memory'
    BY <2>2, <2>3, RowOf
  <2>5. comp' \in [rate : Nat, quota : Nat, proxy : Nat, mode : BOOLEAN]
    BY <2>2, <2>3 DEF C!Components, C!Settings
  <2>6. faults' \in 0..MaxFaults
    BY <2>2 DEF ConfigInv, C!TypeOK, ConfigConstants
  <2>7. C!TypeOK'
    BY <2>2, <2>3, <2>4, <2>5, <2>6 DEF ConfigInv, C!TypeOK
  <2>8. /\ \A a \in Actors : put'[a] = C!NoPut /\ C!Idle(a)'
        /\ put' \in [Actors -> Putting]
    BY <2>2 DEF C!NoPut, C!Idle, Putting
  <2> QED BY <2>2, <2>4, <2>7, <2>8 DEF ConfigInv
<1>3. armed \in BOOLEAN /\ memory.resume \in BOOLEAN
  BY DEF ConfigInv, C!TypeOK, C!Settings
<1>4. C!LastInteractiveEnds \/ C!TimerFires \/ UNCHANGED C!vars
      => /\ UNCHANGED <<memory, row, comp, put, puts, faults, mixed, unsaved>>
         /\ stuck' = ~memory.resume \/ UNCHANGED stuck
         /\ armed' \in BOOLEAN
  BY <1>3 DEF C!LastInteractiveEnds, C!TimerFires, C!vars
<1> QED BY <1>1, <1>2, <1>4

(* So do all steps: those of other services touch only the counter of      *)
(* failures.                                                               *)
LEMMA ConfigKept == ASSUME ConfigConstants, ConfigInv, [Next]_vars PROVE ConfigInv'
<1>1. CASE Only("config", C!Next)
  <2>1. C!Next
    BY <1>1 DEF Only
  <2> QED BY <2>1, ReadBeforeKeeps, UpdateKeeps, GetKeeps, ComponentsKeep, ResumeKeeps,
             SurroundingsKeep DEF C!Next, C!Step
<1>2. CASE ~Only("config", C!Next)
  <2>1. UNCHANGED config
    BY <1>2 DEF Next, Only, vars
  <2>2. faults' \in 0..MaxFaults
    BY FaultsBounded DEF ConfigInv, C!TypeOK, ConfigConstants
  <2>3. C!TypeOK'
    BY <2>1, <2>2 DEF ConfigInv, C!TypeOK, config
  <2>4. \A a \in Actors : (C!Idle(a)' <=> C!Idle(a)) /\ (InForce(a)' <=> InForce(a))
    BY <2>1 DEF config, C!Idle, InForce, C!Sent
  <2>5. C!Components(memory)' = C!Components(memory)
    BY <2>1 DEF config, C!Components
  <2> QED BY <2>1, <2>3, <2>4, <2>5 DEF ConfigInv, config
<1> QED BY <1>1, <1>2

(* What was answered is stored, and in force once no request is on its way *)
(* and none was disturbed: in whatever order requests, pauses and restarts *)
(* follow each other.                                                      *)
THEOREM AppliedIsStoredHolds ==
  ASSUME ConfigConstants PROVE Spec => []AppliedIsStored
<1>1. Init => ConfigInv
  BY InitConfig DEF Init
<1>2. ConfigInv /\ [Next]_vars => ConfigInv'
  BY ConfigKept
<1>3. ConfigInv => AppliedIsStored
  BY RowOf DEF ConfigInv, AppliedIsStored, C!AppliedIsStored, C!TypeOK
<1> QED BY <1>1, <1>2, <1>3, PTL DEF Spec

-----------------------------------------------------------------------------
(* The catalog of package names *)

(* The first upstream is one of them; the bounds are numbers. *)
CatalogConstants == 1 \in Roots /\ MaxChanges \in Nat /\ MaxFaults \in Nat

RefreshPoints ==
  {"off", "fetch", "publish", "last", "create", "set", "clear", "write", "rest", "rename"}
RefreshRecords ==
  [pc : RefreshPoints, root : {0} \cup Roots, open : {"none", "tmp", "file", "gone"}]
CallerRecords == [pc : {"idle", "load", "loaded", "need", "kick"}, list : G!Lists]

CatalogTypes ==
  G!TypeOK /\ refresh \in [Actors -> RefreshRecords] /\ caller \in [Callers -> CallerRecords]

(* One refresh writes at a time, and what it has written is in the         *)
(* temporary file.                                                         *)
OneWriter ==
  /\ \A r, s \in Actors : refresh[r].pc \in G!Saving /\ refresh[s].pc \in G!Saving => r = s
  /\ \A r \in Actors :
       /\ refresh[r].open = IF refresh[r].pc \in G!Saving THEN "tmp" ELSE "none"
       /\ refresh[r].pc = "write" => tmp = [url |-> refresh[r].root, state |-> "none"]
       /\ refresh[r].pc = "rest" => tmp = [url |-> refresh[r].root, state |-> "part"]
       /\ refresh[r].pc = "rename" => tmp = G!Whole(r)

(* A search that has read the file has all of the list. *)
ReadWhole == \A c \in Callers : caller[c].pc = "loaded" => caller[c].list.state = "whole"

CatalogInv ==
  CatalogTypes /\ G!CatalogIsWhole /\ (~overlapped => OneWriter /\ ReadWhole)

(* A refresh goes to another step. *)
LEMMA GoTyped ==
  ASSUME CatalogTypes, NEW r \in Actors, NEW p \in RefreshPoints, G!Go(r, p)
  PROVE  /\ refresh' \in [Actors -> RefreshRecords]
         /\ refresh'[r].pc = p /\ refresh'[r].root = refresh[r].root
         /\ refresh'[r].open = refresh[r].open
         /\ \A s \in Actors : s # r => refresh'[s] = refresh[s]
<1> DEFINE d == [refresh[r] EXCEPT !.pc = p]
<1>1. refresh[r] \in RefreshRecords
  BY DEF CatalogTypes
<1>2. d \in RefreshRecords /\ d.pc = p /\ d.root = refresh[r].root /\ d.open = refresh[r].open
  BY <1>1 DEF RefreshRecords
<1>3. refresh' = [refresh EXCEPT ![r] = d]
  BY DEF G!Go
<1> HIDE DEF d
<1> QED BY <1>2, <1>3 DEF CatalogTypes

(* A step of a refresh that neither writes nor will *)
LEMMA GoKeeps ==
  ASSUME CatalogTypes, OneWriter, NEW r \in Actors, NEW p \in RefreshPoints \ G!Saving,
         refresh[r].pc \notin G!Saving, G!Go(r, p), UNCHANGED tmp
  PROVE  OneWriter'
<1>1. /\ refresh'[r].pc = p /\ refresh'[r].root = refresh[r].root
      /\ refresh'[r].open = refresh[r].open
      /\ \A s \in Actors : s # r => refresh'[s] = refresh[s]
  BY GoTyped
<1>2. p \notin {"write", "rest", "rename"}
  BY DEF G!Saving
<1> QED BY <1>1, <1>2 DEF OneWriter, G!Saving, G!Whole

(* The list that a file holds, if one can load it *)
LEMMA LoadableIsWhole ==
  ASSUME CatalogInv, ~overlapped, G!Loadable PROVE file.state = "whole"
BY DEF CatalogInv, G!CatalogIsWhole, G!Loadable

(* Those who ask, except that a refresh begins *)
LEMMA CallersKeep ==
  ASSUME CatalogInv, NEW c \in Callers,
         \/ G!Search(c) \/ G!Tick(c) \/ G!TriggerIfStale(c) \/ G!PutUpstream(c) \/ G!Load(c)
         \/ G!SetLoaded(c) \/ G!NeedsRefresh(c)
  PROVE  CatalogInv'
<1> DEFINE d == caller'[c]
<1>1. UNCHANGED <<tmp, file, refresh, overlapped>>
  BY DEF G!Search, G!Tick, G!TriggerIfStale, G!PutUpstream, G!Load, G!SetLoaded,
       G!NeedsRefresh, G!disk
<1>2. caller[c] \in CallerRecords /\ file \in G!Lists /\ G!Nothing \in G!Lists
  BY DEF CatalogInv, CatalogTypes, G!TypeOK, G!Nothing, G!Lists
<1>3. ASSUME NEW p \in {"idle", "load", "need", "kick"}, caller' = [caller EXCEPT ![c].pc = p],
             names' = names, at' = at, refreshing' = refreshing, root' \in Roots
      PROVE  CatalogInv'
  <2> DEFINE e == [caller[c] EXCEPT !.pc = p]
  <2>1. e \in CallerRecords /\ e.pc # "loaded"
    BY <1>2, <1>3 DEF CallerRecords
  <2>2. caller' = [caller EXCEPT ![c] = e]
    BY <1>3
  <2> HIDE DEF e
  <2>3. caller' \in [Callers -> CallerRecords] /\ (ReadWhole => ReadWhole')
    BY <2>1, <2>2 DEF CatalogInv, CatalogTypes, ReadWhole
  <2>4. CatalogTypes'
    BY <1>1, <1>3, <2>3 DEF CatalogInv, CatalogTypes, G!TypeOK
  <2>5. OneWriter' <=> OneWriter
    BY <1>1 DEF OneWriter, G!Whole
  <2>6. G!CatalogIsWhole'
    BY <1>1, <1>3 DEF CatalogInv, G!CatalogIsWhole
  <2> QED BY <1>1, <2>3, <2>4, <2>5, <2>6 DEF CatalogInv
<1>4. ASSUME G!Load(c), G!Loadable PROVE CatalogInv'
  <2> DEFINE e == [pc |-> "loaded", list |-> file]
  <2>1. /\ e \in CallerRecords /\ (~overlapped => e.list.state = "whole")
    BY <1>2, <1>4, LoadableIsWhole DEF CallerRecords
  <2>2. caller' = [caller EXCEPT ![c] = e] /\ UNCHANGED <<names, at, refreshing, root>>
    BY <1>4 DEF G!Load, G!mem
  <2> HIDE DEF e
  <2>3. caller' \in [Callers -> CallerRecords] /\ (~overlapped /\ ReadWhole => ReadWhole')
    BY <2>1, <2>2 DEF CatalogInv, CatalogTypes, ReadWhole
  <2>4. CatalogTypes'
    BY <1>1, <2>2, <2>3 DEF CatalogInv, CatalogTypes, G!TypeOK
  <2>5. OneWriter' <=> OneWriter
    BY <1>1 DEF OneWriter, G!Whole
  <2>6. G!CatalogIsWhole'
    BY <1>1, <2>2 DEF CatalogInv, G!CatalogIsWhole
  <2> QED BY <1>1, <2>3, <2>4, <2>5, <2>6 DEF CatalogInv
<1>5. ASSUME caller' = [caller EXCEPT ![c] = [pc |-> "need", list |-> G!Nothing]],
             names' = names \/ (caller[c].pc = "loaded" /\ names' = caller[c].list),
             at' \in {"never", "old", "fresh"}, refreshing' \in BOOLEAN, UNCHANGED root
      PROVE  CatalogInv'
  <2> DEFINE e == [pc |-> "need", list |-> G!Nothing]
  <2>1. e \in CallerRecords /\ e.pc # "loaded"
    BY <1>2 DEF CallerRecords
  <2>2. caller' = [caller EXCEPT ![c] = e]
    BY <1>5
  <2> HIDE DEF e
  <2>3. caller' \in [Callers -> CallerRecords] /\ (ReadWhole => ReadWhole')
    BY <2>1, <2>2 DEF CatalogInv, CatalogTypes, ReadWhole
  <2>4. names' \in G!Lists
    BY <1>2, <1>5 DEF CatalogInv, CatalogTypes, G!TypeOK, CallerRecords
  <2>5. CatalogTypes'
    BY <1>1, <1>5, <2>3, <2>4 DEF CatalogInv, CatalogTypes, G!TypeOK
  <2>6. OneWriter' <=> OneWriter
    BY <1>1 DEF OneWriter, G!Whole
  <2>7. ~overlapped => names' = names \/ names'.state = "whole"
    BY <1>5 DEF CatalogInv, ReadWhole
  <2>8. G!CatalogIsWhole'
    BY <1>1, <2>7 DEF CatalogInv, G!CatalogIsWhole
  <2> QED BY <1>1, <2>3, <2>5, <2>6, <2>8 DEF CatalogInv
<1>6. /\ names \in G!Lists /\ at \in {"never", "old", "fresh"} /\ refreshing \in BOOLEAN
      /\ root \in Roots
  BY DEF CatalogInv, CatalogTypes, G!TypeOK
<1>7. CASE G!Search(c) \/ G!Tick(c) \/ G!TriggerIfStale(c) \/ G!NeedsRefresh(c)
  <2>1. UNCHANGED <<names, at, refreshing, root>>
    BY <1>7 DEF G!Search, G!Tick, G!TriggerIfStale, G!NeedsRefresh, G!mem
  <2>2. \E p \in {"idle", "load", "need", "kick"} : caller' = [caller EXCEPT ![c].pc = p]
    <3>1. CASE G!Search(c)
      BY <3>1 DEF G!Search
    <3>2. CASE G!NeedsRefresh(c)
      BY <3>2 DEF G!NeedsRefresh
    <3>3. CASE G!Tick(c) \/ G!TriggerIfStale(c)
      BY <3>3 DEF G!Tick, G!TriggerIfStale
    <3> QED BY <1>7, <3>1, <3>2, <3>3
  <2> QED BY <1>3, <1>6, <2>1, <2>2
<1>8. CASE G!PutUpstream(c)
  BY <1>3, <1>8 DEF G!PutUpstream, G!mem
<1>9. CASE G!Load(c) /\ ~G!Loadable
  <2>1. /\ caller' = [caller EXCEPT ![c] = [pc |-> "need", list |-> G!Nothing]]
        /\ UNCHANGED <<names, at, refreshing, root>>
    BY <1>9 DEF G!Load, G!mem
  <2> QED BY <1>5, <1>6, <2>1
<1>10. CASE G!SetLoaded(c)
  <2>1. /\ caller' = [caller EXCEPT ![c] = [pc |-> "need", list |-> G!Nothing]]
        /\ caller[c].pc = "loaded" /\ names' = caller[c].list /\ UNCHANGED root
        /\ at' \in {"never", "old", "fresh"} /\ refreshing' \in BOOLEAN
    BY <1>10 DEF G!SetLoaded
  <2> QED BY <1>5, <2>1
<1> QED BY <1>4, <1>7, <1>8, <1>9, <1>10

(* A refresh begins, if none is under way. *)
LEMMA KickKeeps ==
  ASSUME CatalogInv, NEW c \in Callers, G!Kick(c) PROVE CatalogInv'
<1> DEFINE e == [caller[c] EXCEPT !.pc = "idle"]
<1>1. e \in CallerRecords /\ e.pc # "loaded"
  BY DEF CatalogInv, CatalogTypes, CallerRecords
<1>2. /\ caller' = [caller EXCEPT ![c] = e] /\ refreshing' \in BOOLEAN
      /\ UNCHANGED <<names, at, tmp, file, root, overlapped>>
  BY DEF G!Kick, G!disk, CatalogInv, CatalogTypes, G!TypeOK
<1> HIDE DEF e
<1>3. caller' \in [Callers -> CallerRecords] /\ (ReadWhole => ReadWhole')
  BY <1>1, <1>2 DEF CatalogInv, CatalogTypes, ReadWhole
<1>4. \/ UNCHANGED refresh
      \/ \E r \in Actors :
           /\ refresh[r].pc = "off"
           /\ refresh' = [refresh EXCEPT ![r] = [G!Off EXCEPT !.pc = "fetch", !.root = root]]
  BY DEF G!Kick
<1> DEFINE d == [G!Off EXCEPT !.pc = "fetch", !.root = root]
<1>5. root \in Roots
  BY DEF CatalogInv, CatalogTypes, G!TypeOK
<1>6. G!Off \in RefreshRecords /\ G!Off.open = "none"
  BY DEF G!Off, RefreshRecords, RefreshPoints
<1> HIDE DEF G!Off
<1>7. d \in RefreshRecords /\ d.pc = "fetch" /\ d.open = "none"
  BY <1>5, <1>6 DEF RefreshRecords, RefreshPoints
<1> HIDE DEF d
<1>8. /\ refresh' \in [Actors -> RefreshRecords]
      /\ \A r \in Actors : \/ refresh'[r] = refresh[r]
                           \/ refresh[r].pc = "off" /\ refresh'[r] = d
  BY <1>4, <1>7 DEF CatalogInv, CatalogTypes, d
<1>9. CatalogTypes'
  BY <1>2, <1>3, <1>8 DEF CatalogInv, CatalogTypes, G!TypeOK
<1>10. OneWriter => OneWriter'
  BY <1>2, <1>7, <1>8 DEF OneWriter, G!Saving, G!Whole
<1>11. G!CatalogIsWhole'
  BY <1>2, <1>8 DEF CatalogInv, G!CatalogIsWhole
<1> QED BY <1>2, <1>3, <1>9, <1>10, <1>11 DEF CatalogInv

(* The steps of a refresh that leave the files alone *)
LEMMA RefreshKeeps ==
  ASSUME CatalogInv, NEW r \in Actors,
         G!Fetch(r) \/ G!PublishChunk(r) \/ G!PublishLast(r) \/ G!SetCatalog(r) \/ G!ClearFlag(r)
  PROVE  CatalogInv'
<1>1. /\ refresh[r] \in RefreshRecords /\ names \in G!Lists /\ refreshing \in BOOLEAN
      /\ at \in {"never", "old", "fresh"} /\ tmp \in G!Lists /\ file \in G!Lists
      /\ root \in Roots
  BY DEF CatalogInv, CatalogTypes, G!TypeOK
<1>2. G!Whole(r) \in G!Lists /\ G!Whole(r).state = "whole"
      /\ [G!Whole(r) EXCEPT !.state = "part"] \in G!Lists
      /\ [G!Whole(r) EXCEPT !.state = "part"].state = "part"
  BY <1>1 DEF G!Whole, G!Lists, RefreshRecords
<1>3. UNCHANGED <<tmp, file, caller, root, overlapped>>
  BY DEF G!Fetch, G!PublishChunk, G!PublishLast, G!SetCatalog, G!ClearFlag, G!disk
<1>4. refresh[r].pc \in {"fetch", "publish", "last", "set", "clear"}
      /\ at' \in {"never", "old", "fresh"} /\ refreshing' \in BOOLEAN
  BY <1>1 DEF G!Fetch, G!PublishChunk, G!PublishLast, G!SetCatalog, G!ClearFlag, G!mem
<1>5. refresh[r].pc \notin G!Saving
  BY <1>4 DEF G!Saving
<1>6. (ReadWhole' <=> ReadWhole) /\ (caller' = caller)
  BY <1>3 DEF ReadWhole
<1>7. ASSUME NEW p \in {"fetch", "publish", "create", "last", "clear"}, G!Go(r, p),
             \/ UNCHANGED names /\ refresh[r].pc # "last"
             \/ names' = G!Whole(r)
             \/ names' = [G!Whole(r) EXCEPT !.state = "part"] /\ p = "last"
      PROVE  CatalogInv'
  <2>1. p \in RefreshPoints \ G!Saving
    BY <1>7 DEF RefreshPoints, G!Saving
  <2>2. /\ refresh' \in [Actors -> RefreshRecords] /\ refresh'[r].pc = p
        /\ \A s \in Actors : s # r => refresh'[s] = refresh[s]
    BY <1>7, <2>1, GoTyped DEF CatalogInv
  <2>3. OneWriter => OneWriter'
    BY <1>3, <1>5, <1>7, <2>1, GoKeeps DEF CatalogInv
  <2>4. names' \in G!Lists
    BY <1>1, <1>2, <1>7
  <2>5. CatalogTypes'
    BY <1>3, <1>4, <2>2, <2>4 DEF CatalogInv, CatalogTypes, G!TypeOK
  <2>6. G!CatalogIsWhole'
    BY <1>2, <1>3, <1>7, <2>2 DEF CatalogInv, G!CatalogIsWhole
  <2> QED BY <1>3, <1>6, <2>3, <2>5, <2>6 DEF CatalogInv
<1>8. CASE G!Fetch(r)
  <2>1. UNCHANGED names /\ refresh[r].pc # "last"
    BY <1>8 DEF G!Fetch, G!mem
  <2>2. \E p \in {"publish", "create", "clear"} : G!Go(r, p)
    BY <1>8 DEF G!Fetch
  <2> QED BY <1>7, <2>1, <2>2
<1>9. CASE G!PublishChunk(r)
  <2>1. \/ names' = G!Whole(r) /\ G!Go(r, "create")
        \/ names' = [G!Whole(r) EXCEPT !.state = "part"] /\ G!Go(r, "last")
    BY <1>9 DEF G!PublishChunk
  <2> QED BY <1>7, <2>1
<1>10. CASE G!PublishLast(r) \/ G!SetCatalog(r)
  <2>1. names' = G!Whole(r) /\ (G!Go(r, "create") \/ G!Go(r, "clear"))
    BY <1>10 DEF G!PublishLast, G!SetCatalog
  <2> QED BY <1>7, <2>1
<1>11. CASE G!ClearFlag(r)
  <2>1. refresh' = [refresh EXCEPT ![r] = G!Off] /\ UNCHANGED names /\ refresh[r].pc = "clear"
    BY <1>11 DEF G!ClearFlag
  <2>2. G!Off \in RefreshRecords /\ G!Off.pc = "off" /\ G!Off.open = "none"
    BY DEF RefreshRecords, RefreshPoints, G!Off
  <2> HIDE DEF G!Off
  <2>3. /\ refresh' \in [Actors -> RefreshRecords] /\ refresh'[r] = G!Off
        /\ \A s \in Actors : s # r => refresh'[s] = refresh[s]
    BY <2>1, <2>2 DEF CatalogInv, CatalogTypes
  <2>4. OneWriter => OneWriter'
    BY <1>3, <2>2, <2>3 DEF OneWriter, G!Saving, G!Whole
  <2>5. CatalogTypes'
    BY <1>1, <1>3, <1>4, <2>1, <2>3 DEF CatalogInv, CatalogTypes, G!TypeOK
  <2>6. G!CatalogIsWhole'
    BY <1>3, <2>1, <2>3 DEF CatalogInv, G!CatalogIsWhole
  <2> QED BY <1>3, <1>6, <2>4, <2>5, <2>6 DEF CatalogInv
<1> QED BY <1>8, <1>9, <1>10, <1>11

(* The temporary file is created, or cannot be. *)
LEMMA CreateKeeps ==
  ASSUME CatalogInv, NEW r \in Actors, G!Create(r) PROVE CatalogInv'
<1>1. /\ refresh[r] \in RefreshRecords /\ refresh[r].pc = "create"
      /\ UNCHANGED <<names, at, refreshing, caller, file, root>>
  BY DEF G!Create, G!mem, CatalogInv, CatalogTypes
<1>2. ReadWhole' <=> ReadWhole
  BY <1>1 DEF ReadWhole
<1>3. ASSUME G!Go(r, "set"), UNCHANGED <<tmp, overlapped>> PROVE CatalogInv'
  <2>1. "set" \in RefreshPoints \ G!Saving /\ refresh[r].pc \notin G!Saving
    BY <1>1 DEF RefreshPoints, G!Saving
  <2>2. /\ refresh' \in [Actors -> RefreshRecords] /\ refresh'[r].pc = "set"
        /\ \A s \in Actors : s # r => refresh'[s] = refresh[s]
    BY <1>3, <2>1, GoTyped DEF CatalogInv
  <2>3. OneWriter => OneWriter'
    BY <1>3, <2>1, GoKeeps DEF CatalogInv
  <2>4. CatalogTypes'
    BY <1>1, <1>3, <2>2 DEF CatalogInv, CatalogTypes, G!TypeOK
  <2>5. G!CatalogIsWhole'
    BY <1>1, <1>3, <2>2 DEF CatalogInv, G!CatalogIsWhole
  <2> QED BY <1>2, <1>3, <2>3, <2>4, <2>5 DEF CatalogInv
<1>4. ASSUME tmp' = [url |-> refresh[r].root, state |-> "none"],
             refresh' = [refresh EXCEPT ![r].pc = "write", ![r].open = "tmp"],
             overlapped' = (overlapped \/ \E s \in Actors : refresh[s].pc \in G!Saving)
      PROVE  CatalogInv'
  <2> DEFINE d == [refresh[r] EXCEPT !.pc = "write", !.open = "tmp"]
  <2>1. d \in RefreshRecords /\ d.pc = "write" /\ d.open = "tmp" /\ d.root = refresh[r].root
    BY <1>1 DEF RefreshRecords, RefreshPoints
  <2>2. refresh' = [refresh EXCEPT ![r] = d]
    BY <1>1, <1>4 DEF CatalogInv, CatalogTypes
  <2> HIDE DEF d
  <2>3. /\ refresh' \in [Actors -> RefreshRecords] /\ refresh'[r] = d
        /\ \A s \in Actors : s # r => refresh'[s] = refresh[s]
    BY <2>1, <2>2 DEF CatalogInv, CatalogTypes
  <2>4. tmp' \in G!Lists
    BY <1>1, <1>4 DEF G!Lists, RefreshRecords
  <2>5. CatalogTypes'
    BY <1>1, <2>3, <2>4 DEF CatalogInv, CatalogTypes, G!TypeOK
  <2>6. ~overlapped' => ~overlapped /\ \A s \in Actors : refresh[s].pc \notin G!Saving
    BY <1>4
  <2>7. ~overlapped' => OneWriter'
    BY <1>4, <2>1, <2>3, <2>6 DEF CatalogInv, OneWriter, G!Saving, G!Whole
  <2>8. G!CatalogIsWhole'
    BY <1>1, <2>3, <2>6 DEF CatalogInv, G!CatalogIsWhole
  <2> QED BY <1>2, <2>5, <2>6, <2>7, <2>8 DEF CatalogInv
<1> QED BY <1>3, <1>4 DEF G!Create

(* Names are written, to whatever file the refresh has open. *)
LEMMA WriteKeeps ==
  ASSUME CatalogInv, NEW r \in Actors, G!Write(r) PROVE CatalogInv'
<1>1. /\ refresh[r] \in RefreshRecords /\ refresh[r].pc \in {"write", "rest"}
      /\ UNCHANGED <<names, at, refreshing, caller, root, overlapped>>
      /\ tmp \in G!Lists /\ file \in G!Lists
  BY DEF G!Write, G!mem, CatalogInv, CatalogTypes, G!TypeOK
<1>2. PICK state \in IF refresh[r].pc = "write" THEN {"part", "whole"} ELSE {"whole"} :
        /\ tmp' \in IF refresh[r].open = "tmp" THEN G!Written(tmp, r, state) ELSE {tmp}
        /\ file' \in IF refresh[r].open = "file" THEN G!Written(file, r, state) ELSE {file}
        /\ G!Go(r, IF state = "part" THEN "rest" ELSE "rename")
  BY DEF G!Write
<1>3. state \in {"part", "whole"}
  BY <1>2
<1> DEFINE p == IF state = "part" THEN "rest" ELSE "rename"
<1>4. p \in RefreshPoints /\ p \in {"rest", "rename"}
  BY DEF RefreshPoints
<1>5. /\ refresh' \in [Actors -> RefreshRecords]
      /\ refresh'[r].pc = p /\ refresh'[r].root = refresh[r].root
      /\ refresh'[r].open = refresh[r].open
      /\ \A s \in Actors : s # r => refresh'[s] = refresh[s]
  BY <1>2, <1>4, GoTyped DEF CatalogInv
<1>6. ASSUME NEW list \in G!Lists PROVE G!Written(list, r, state) \subseteq G!Lists
  <2>1. [list EXCEPT !.state = state] \in G!Lists /\ [list EXCEPT !.state = "mixed"] \in G!Lists
        /\ [url |-> refresh[r].root, state |-> state] \in G!Lists
    BY <1>1, <1>3, <1>6 DEF G!Lists, RefreshRecords
  <2> QED BY <2>1 DEF G!Written
<1>7. tmp' \in G!Lists /\ file' \in G!Lists
  BY <1>1, <1>2, <1>6
<1>8. CatalogTypes'
  BY <1>1, <1>5, <1>7 DEF CatalogInv, CatalogTypes, G!TypeOK
<1>9. ReadWhole' <=> ReadWhole
  BY <1>1 DEF ReadWhole
<1>10. ASSUME ~overlapped PROVE OneWriter' /\ file' = file
  <2>1. refresh[r].pc \in G!Saving /\ OneWriter
    BY <1>1, <1>10 DEF CatalogInv, G!Saving
  <2>2. /\ refresh[r].open = "tmp"
        /\ \A s \in Actors \ {r} : refresh[s].pc \notin G!Saving /\ refresh[s].open = "none"
    BY <2>1 DEF OneWriter
  <2>3. G!Alone(r) /\ tmp.state \in {"none", "part"} /\ tmp.url = refresh[r].root
    BY <1>1, <2>1, <2>2 DEF OneWriter, G!Alone
  <2>4. tmp' = [tmp EXCEPT !.state = state] /\ file' = file
    BY <1>2, <2>2, <2>3 DEF G!Written
  <2>5. tmp' = [url |-> refresh[r].root, state |-> state]
    BY <1>1, <2>3, <2>4 DEF G!Lists
  <2>6. /\ p = "rest" => state = "part"
        /\ p = "rename" => state = "whole"
    BY <1>3
  <2> HIDE DEF p
  <2>7. OneWriter'
    BY <1>4, <1>5, <2>1, <2>2, <2>5, <2>6 DEF OneWriter, G!Saving, G!Whole
  <2> QED BY <2>4, <2>7
<1>11. G!CatalogIsWhole'
  BY <1>1, <1>5, <1>10 DEF CatalogInv, G!CatalogIsWhole
<1> QED BY <1>1, <1>8, <1>9, <1>10, <1>11 DEF CatalogInv

(* The temporary file becomes the file. *)
LEMMA RenameKeeps ==
  ASSUME CatalogInv, NEW r \in Actors, G!Rename(r) PROVE CatalogInv'
<1> DEFINE d == [refresh[r] EXCEPT !.pc = "set", !.open = "none"]
           others(s) == [refresh[s] EXCEPT !.open = G!Renamed(@)]
<1>1. /\ refresh[r].pc = "rename" /\ UNCHANGED <<names, at, refreshing, caller, root, overlapped>>
      /\ tmp \in G!Lists /\ file \in G!Lists /\ G!Absent \in G!Lists
  BY DEF G!Rename, G!mem, CatalogInv, CatalogTypes, G!TypeOK, G!Absent, G!Lists
<1>2. d \in RefreshRecords /\ d.pc = "set" /\ d.open = "none"
  BY DEF RefreshRecords, RefreshPoints, CatalogInv, CatalogTypes
<1>3. ASSUME NEW s \in Actors
      PROVE  /\ others(s) \in RefreshRecords /\ others(s).pc = refresh[s].pc
             /\ others(s).root = refresh[s].root /\ others(s).open = G!Renamed(refresh[s].open)
  <2>1. refresh[s] \in RefreshRecords
    BY DEF CatalogInv, CatalogTypes
  <2>2. G!Renamed(refresh[s].open) \in {"none", "tmp", "file", "gone"}
    BY <2>1 DEF G!Renamed, RefreshRecords
  <2> QED BY <2>1, <2>2 DEF RefreshRecords
<1>4. \/ /\ tmp # G!Absent /\ file' = tmp /\ tmp' = G!Absent
         /\ refresh' = [s \in Actors |-> IF s = r THEN d ELSE others(s)]
      \/ /\ tmp = G!Absent /\ UNCHANGED <<tmp, file>>
         /\ refresh' = [refresh EXCEPT ![r] = d]
  BY DEF G!Rename, G!disk, CatalogInv, CatalogTypes
<1> HIDE DEF d, others
<1>5. refresh' \in [Actors -> RefreshRecords] /\ refresh'[r].pc = "set"
      /\ \A s \in Actors : s # r => refresh'[s].pc = refresh[s].pc
  BY <1>2, <1>3, <1>4 DEF CatalogInv, CatalogTypes
<1>6. tmp' \in G!Lists /\ file' \in G!Lists
  BY <1>1, <1>4
<1>7. CatalogTypes'
  BY <1>1, <1>5, <1>6 DEF CatalogInv, CatalogTypes, G!TypeOK
<1>8. ReadWhole' <=> ReadWhole
  BY <1>1 DEF ReadWhole
<1>9. ASSUME ~overlapped PROVE OneWriter' /\ file'.state = "whole"
  <2>1. refresh[r].pc \in G!Saving /\ OneWriter
    BY <1>1, <1>9 DEF CatalogInv, G!Saving
  <2>2. \A s \in Actors \ {r} : refresh[s].pc \notin G!Saving /\ refresh[s].open = "none"
    BY <2>1 DEF OneWriter
  <2>3. tmp = G!Whole(r) /\ tmp.state = "whole" /\ tmp # G!Absent
    BY <1>1, <2>1 DEF OneWriter, G!Whole, G!Absent
  <2>4. \A s \in Actors \ {r} : /\ refresh'[s].pc = refresh[s].pc
                                /\ refresh'[s].open = G!Renamed(refresh[s].open)
    BY <1>3, <1>4, <2>3
  <2>5. G!Renamed("none") = "none"
    BY DEF G!Renamed
  <2>6. refresh'[r] = d
    BY <1>4, <2>3
  <2>7. \A s \in Actors : refresh'[s].pc \notin G!Saving /\ refresh'[s].open = "none"
    BY <1>2, <2>2, <2>4, <2>5, <2>6 DEF G!Saving
  <2>8. OneWriter'
    BY <2>7 DEF OneWriter, G!Saving
  <2> QED BY <1>4, <2>3, <2>8
<1>10. G!CatalogIsWhole'
  BY <1>1, <1>5, <1>9 DEF CatalogInv, G!CatalogIsWhole
<1> QED BY <1>1, <1>7, <1>8, <1>9, <1>10 DEF CatalogInv

(* The list ages, and the program restarts. *)
LEMMA RestartKeeps ==
  ASSUME CatalogInv, G!Age \/ G!Restart PROVE CatalogInv'
<1>1. CASE G!Age
  <2>1. UNCHANGED <<names, refreshing, tmp, file, refresh, caller, root, overlapped>> /\ at' = "old"
    BY <1>1 DEF G!Age, G!disk
  <2>2. CatalogTypes'
    BY <2>1 DEF CatalogInv, CatalogTypes, G!TypeOK
  <2>3. (OneWriter' <=> OneWriter) /\ (ReadWhole' <=> ReadWhole)
    BY <2>1 DEF OneWriter, ReadWhole, G!Whole
  <2>4. G!CatalogIsWhole'
    BY <2>1 DEF CatalogInv, G!CatalogIsWhole
  <2> QED BY <2>1, <2>2, <2>3, <2>4 DEF CatalogInv
<1>2. CASE G!Restart
  <2>1. /\ names' = IF G!Loadable THEN file ELSE G!Nothing
        /\ at' \in {"never", "old", "fresh"} /\ refreshing' = FALSE
        /\ refresh' = [r \in Actors |-> G!Off] /\ caller' = [c \in Callers |-> G!Idle]
        /\ UNCHANGED <<tmp, file, root, overlapped>>
    BY <1>2 DEF G!Restart, G!disk
  <2>2. /\ G!Nothing \in G!Lists /\ G!Nothing.state = "none"
        /\ G!Off \in RefreshRecords /\ G!Off.pc = "off" /\ G!Off.open = "none"
        /\ G!Idle.pc = "idle"
    BY DEF G!Nothing, G!Lists, G!Off, RefreshRecords, RefreshPoints, G!Idle
  <2>3. G!Idle \in CallerRecords
    BY <2>2 DEF G!Idle, CallerRecords
  <2> HIDE DEF G!Off, G!Idle, G!Nothing
  <2>4. names' \in G!Lists
    BY <2>1, <2>2 DEF CatalogInv, CatalogTypes, G!TypeOK
  <2>5. CatalogTypes'
    BY <2>1, <2>2, <2>3, <2>4 DEF CatalogInv, CatalogTypes, G!TypeOK
  <2>6. OneWriter' /\ ReadWhole'
    BY <2>1, <2>2 DEF OneWriter, ReadWhole, G!Saving
  <2>7. ~overlapped => names'.state \in {"none", "whole"}
    BY <2>1, <2>2, LoadableIsWhole
  <2>8. G!CatalogIsWhole'
    BY <2>1, <2>7 DEF CatalogInv, G!CatalogIsWhole
  <2> QED BY <2>5, <2>6, <2>8 DEF CatalogInv
<1> QED BY <1>1, <1>2

(* The initial state keeps the invariant, and so do all steps. *)
LEMMA InitCatalog == ASSUME CatalogConstants, G!Init PROVE CatalogInv
<1>1. /\ G!Nothing \in G!Lists /\ G!Nothing.state = "none" /\ G!Absent \in G!Lists
      /\ G!Absent.state = "absent"
      /\ G!Off \in RefreshRecords /\ G!Off.pc = "off" /\ G!Off.open = "none"
      /\ G!Idle.pc = "idle"
  BY DEF G!Nothing, G!Lists, G!Off, RefreshRecords, RefreshPoints, G!Idle, G!Absent
<1>2. G!Idle \in CallerRecords
  BY <1>1 DEF G!Idle, CallerRecords
<1> HIDE DEF G!Off, G!Idle, G!Nothing, G!Absent
<1>3. CatalogTypes
  BY <1>1, <1>2 DEF G!Init, CatalogTypes, G!TypeOK, CatalogConstants
<1>4. OneWriter /\ ReadWhole /\ G!CatalogIsWhole
  BY <1>1 DEF G!Init, OneWriter, ReadWhole, G!Saving, G!CatalogIsWhole
<1> QED BY <1>3, <1>4 DEF CatalogInv

LEMMA CatalogKept == ASSUME CatalogInv, [Next]_vars PROVE CatalogInv'
<1>1. CASE Only("catalog", G!Next)
  <2>1. G!Next
    BY <1>1 DEF Only
  <2>2. ASSUME NEW c \in Callers,
               G!Search(c) \/ G!Tick(c) \/ G!TriggerIfStale(c) \/ G!PutUpstream(c)
                 \/ G!CallerStep(c)
        PROVE  CatalogInv'
    BY <2>2, CallersKeep, KickKeeps DEF G!CallerStep
  <2>3. ASSUME NEW r \in Actors, G!RefreshStep(r) PROVE CatalogInv'
    BY <2>3, RefreshKeeps, CreateKeeps, WriteKeeps, RenameKeeps DEF G!RefreshStep
  <2> QED BY <2>1, <2>2, <2>3, RestartKeeps DEF G!Next
<1>2. CASE ~Only("catalog", G!Next)
  <2>1. UNCHANGED catalog
    BY <1>2 DEF Next, Only, vars
  <2>2. CatalogTypes'
    BY <2>1 DEF CatalogInv, CatalogTypes, G!TypeOK, catalog
  <2>3. (OneWriter' <=> OneWriter) /\ (ReadWhole' <=> ReadWhole)
    BY <2>1 DEF OneWriter, ReadWhole, catalog, G!Whole
  <2>4. G!CatalogIsWhole'
    BY <2>1 DEF CatalogInv, G!CatalogIsWhole, catalog
  <2> QED BY <2>1, <2>2, <2>3, <2>4 DEF CatalogInv, catalog
<1> QED BY <1>1, <1>2

(* Searches are answered from all of one upstream's list, or the beginning *)
(* of the first one while its refresh publishes it, and that is what a     *)
(* restart finds in the file, unless two refreshes wrote at one time.      *)
THEOREM CatalogIsWholeHolds ==
  ASSUME CatalogConstants PROVE Spec => []CatalogIsWhole
<1>1. Init => CatalogInv
  BY InitCatalog DEF Init
<1>2. CatalogInv /\ [Next]_vars => CatalogInv'
  BY CatalogKept
<1>3. CatalogInv => CatalogIsWhole
  BY DEF CatalogInv, CatalogTypes, CatalogIsWhole
<1> QED BY <1>1, <1>2, <1>3, PTL DEF Spec
=============================================================================
