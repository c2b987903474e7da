------------------------------ MODULE Updater ------------------------------
(* update/update.go and reexec/reexec.go: the online update, its           *)
(* cancellation, the manual restart that shares its lock, and what they    *)
(* leave on disk when the process dies at any moment.                      *)
(*                                                                         *)
(* An executable is the number of its version, Bad one whose bytes are not *)
(* those of the checksum, Absent no file.  A context is the number of the  *)
(* Apply it was made for.  The Windows half of replaceExecutable is left   *)
(* out: there is no Exec on Windows and no release is built for it.        *)
EXTENDS Naturals

CONSTANTS Admins,       \* those who call Cancel
          MaxVersion,   \* the newest version that is ever published
          MaxRuns,      \* bound on the number of updates begun
          MaxFaults     \* bound on crashes and lost executables together

VARIABLES
  lock,       \* applyMu: "free", "update" or "restart"
  phase,      \* prog.Phase
  handle,     \* applyCancel: the context it cancels, 0 for nil
  run,        \* the context of the latest Apply
  done,       \* the contexts that have been cancelled
  pc,         \* where Apply or the manual restart is
  verdict,    \* what Apply's deferred function reports
  rel,        \* the release Apply has chosen
  cancel,     \* per administrator: the Cancel in progress, or answered
  running,    \* the version of the process; Absent when it could not start
  path,       \* on disk: the executable
  new,        \* on disk: the download, path.new
  self,       \* where the running image is: "path", "bak" or "gone"
  newest,     \* environment: the latest release
  faults

vars == <<lock, phase, handle, run, done, pc, verdict, rel, cancel,
          running, path, new, self, newest, faults>>
env == <<newest, faults>>

Absent == 0
Bad == MaxVersion + 1
Versions == 1..MaxVersion
CanCancel == {"preparing", "downloading", "verifying"}       \* phaseCanCancel
Settled == {"idle", "failed", "cancelled"}
Phases == CanCancel \cup Settled \cup {"replacing", "restarting"}
NoCancel == [pc |-> "idle", run |-> 0]

Init ==
  /\ lock = "free" /\ phase = "idle" /\ handle = 0 /\ run = 0 /\ done = {}
  /\ pc = "idle" /\ verdict = "none" /\ rel = 1
  /\ cancel = [a \in Admins |-> NoCancel]
  /\ running = 1 /\ path = 1 /\ new = Absent /\ self = "path"
  /\ newest = 1 /\ faults = 0

-----------------------------------------------------------------------------
(* Exec and the crashes replace the process: its memory is as at Init, but *)
(* `run`, which only names contexts, goes on counting                      *)
Started(image) ==
  /\ running' = image
  /\ self' = "path"
  /\ lock' = "free" /\ phase' = "idle" /\ handle' = 0 /\ done' = {}
  /\ pc' = "idle" /\ verdict' = "none" /\ rel' = 1
  /\ cancel' = [a \in Admins |-> NoCancel]
  /\ UNCHANGED run

(* Apply moves on, or returns an error: `v` is "cancelled" for             *)
(* context.Canceled and "failed" for every other one                       *)
Go(p) == pc' = p /\ UNCHANGED verdict
Fail(v) == pc' = "unwind" /\ verdict' = v

(* A step that looks at the context, by itself or in an HTTP request       *)
Checked(next) == IF run \in done THEN Fail("cancelled") ELSE next

(* After the download the five minutes of postCtx may be over as well      *)
CheckedInTime(p) == Checked(Go(p) \/ Fail("failed"))

(* Compare, of releases: their order *)
Newer(v) == v > running

(* The latest release, with its asset and its checksums: they are asked    *)
(* for anew every time                                                     *)
fetchLatest == newest

(* Status *)
UpdateAvailable == Newer(fetchLatest)

(* postUpdate: the lock is taken before 202 is answered *)
PostUpdate ==
  /\ running # Absent /\ lock = "free" /\ UpdateAvailable /\ run < MaxRuns
  /\ lock' = "update" /\ run' = run + 1 /\ Go("begun")
  /\ UNCHANGED <<phase, handle, done, rel, cancel, running, path, new, self, env>>

SetPreparing ==
  /\ pc = "begun" /\ Go("register") /\ phase' = "preparing"
  /\ UNCHANGED <<lock, handle, run, done, rel, cancel, running, path, new, self, env>>

Register ==
  /\ pc = "register" /\ Go("fetch") /\ handle' = run
  /\ UNCHANGED <<lock, phase, run, done, rel, cancel, running, path, new, self, env>>

(* BeforeApply (its cancellations are Scheduler's), the latest release,    *)
(* its asset and its checksums: each may fail or be missing                *)
FetchLatest ==
  /\ pc = "fetch"
  /\ Checked(IF UpdateAvailable THEN Go("resolve") \/ Fail("failed") ELSE Fail("failed"))
  /\ rel' = fetchLatest
  /\ UNCHANGED <<lock, phase, handle, run, done, cancel, running, path, new, self, env>>

(* reexec.Resolve: what the path may hold afterwards.  A lost executable   *)
(* is copied back from the .bak the kernel reports, and if that fails the  *)
(* .bak itself is answered; or from the image that is still open.          *)
Resolved ==
  IF path # Absent THEN {path}
  ELSE IF self = "bak" THEN {running, Absent} ELSE {running}
CannotResolve == path = Absent /\ self = "gone"

(* The stale path.new is removed before the download *)
ResolvePath ==
  /\ pc = "resolve"
  /\ \/ path' \in Resolved /\ Go("download") /\ phase' = "downloading" /\ new' = Absent
     \/ CannotResolve /\ Fail("failed") /\ UNCHANGED <<path, phase, new>>
  /\ UNCHANGED <<lock, handle, run, done, rel, cancel, running, self, env>>

(* downloadFile: the body may not be what the release promises.  A stall,  *)
(* a wrong size or a full disk fail, and path.new is removed.              *)
Download ==
  /\ pc = "download"
  /\ Checked(Go("progress") \/ Fail("failed"))
  /\ new' \in IF pc' = "progress" THEN {rel, Bad} ELSE {Absent}
  /\ UNCHANGED <<lock, phase, handle, run, done, rel, cancel, running, path, self, env>>

(* What was read before a cancellation is still reported after it *)
SetDownloading ==
  /\ pc = "progress" /\ Go("verify") /\ phase' = "downloading"
  /\ UNCHANGED <<lock, handle, run, done, rel, cancel, running, path, new, self, env>>

Kept == IF pc' = "unwind" THEN Absent ELSE new

SetVerifying ==
  /\ pc = "verify" /\ phase' = "verifying" /\ CheckedInTime("hash") /\ new' = Kept
  /\ UNCHANGED <<lock, handle, run, done, rel, cancel, running, path, self, env>>

(* Mutant: the checksum is not compared *)
VerifyUnchecked ==
  /\ pc = "hash" /\ CheckedInTime("commit") /\ new' = Kept
  /\ UNCHANGED <<lock, phase, handle, run, done, rel, cancel, running, path, self, env>>

Verify ==
  /\ pc = "hash"
  /\ IF new = rel THEN CheckedInTime("commit") ELSE Fail("failed")
  /\ new' = Kept
  /\ UNCHANGED <<lock, phase, handle, run, done, rel, cancel, running, path, self, env>>

(* commitReplace, under cancelMu: nobody can take the handle from here on *)
CommitReplace ==
  /\ pc = "commit" /\ CheckedInTime("committed") /\ handle' = 0 /\ new' = Kept
  /\ UNCHANGED <<lock, phase, run, done, rel, cancel, running, path, self, env>>

CheckAgain ==
  /\ pc = "committed" /\ CheckedInTime("replacing") /\ new' = Kept
  /\ UNCHANGED <<lock, phase, handle, run, done, rel, cancel, running, path, self, env>>

SetReplacing ==
  /\ pc = "replacing" /\ Go("rename") /\ phase' = "replacing"
  /\ UNCHANGED <<lock, handle, run, done, rel, cancel, running, path, new, self, env>>

(* replaceExecutable, one rename; then an old .bak is removed *)
ReplaceExecutable ==
  /\ pc = "rename"
  /\ \/ path' = new /\ self' = "gone" /\ Go("exec")
     \/ Fail("failed") /\ UNCHANGED <<path, self>>
  /\ new' = Absent
  /\ UNCHANGED <<lock, phase, handle, run, done, rel, cancel, running, env>>

SetRestarting ==
  /\ pc = "exec" /\ Go("execNow") /\ phase' = "restarting"
  /\ UNCHANGED <<lock, handle, run, done, rel, cancel, running, path, new, self, env>>

Exec ==
  /\ pc = "execNow"
  /\ \/ path # Absent /\ Started(path)
     \/ /\ Fail("failed")
        /\ UNCHANGED <<lock, phase, handle, run, done, rel, cancel, running, self>>
  /\ UNCHANGED <<path, new, env>>

-----------------------------------------------------------------------------
(* The deferred functions of Apply.  The phase is read, then written.      *)
Unwind ==
  /\ pc = "unwind" /\ pc' = "report"
  /\ verdict' = IF verdict = "failed" /\ phase = "cancelled" THEN "none" ELSE verdict
  /\ UNCHANGED <<lock, phase, handle, run, done, rel, cancel, running, path, new, self, env>>

Report ==
  /\ pc = "report" /\ Go("release")
  /\ phase' = IF verdict = "none" THEN phase ELSE verdict
  /\ UNCHANGED <<lock, handle, run, done, rel, cancel, running, path, new, self, env>>

(* Mutant: the handle stays after the update has ended *)
ReleaseHandleKept ==
  /\ pc = "release" /\ Go("unlock") /\ done' = done \cup {run}
  /\ UNCHANGED <<lock, phase, handle, run, rel, cancel, running, path, new, self, env>>

ReleaseHandle ==
  /\ pc = "release" /\ Go("unlock") /\ handle' = 0 /\ done' = done \cup {run}
  /\ UNCHANGED <<lock, phase, run, rel, cancel, running, path, new, self, env>>

Unlock ==
  /\ pc = "unlock" /\ pc' = "idle" /\ verdict' = "none" /\ lock' = "free"
  /\ UNCHANGED <<phase, handle, run, done, rel, cancel, running, path, new, self, env>>

-----------------------------------------------------------------------------
(* Cancel, in three steps: under cancelMu, the call, the progress.         *)
TakeHandle(a) ==
  /\ running # Absent /\ cancel[a].pc \in {"idle", "answered"}
  /\ handle # 0 /\ phase \in CanCancel
  /\ cancel' = [cancel EXCEPT ![a] = [pc |-> "call", run |-> handle]]
  /\ handle' = 0
  /\ UNCHANGED <<lock, phase, run, done, pc, verdict, rel, running, path, new, self, env>>

CallCancel(a) ==
  /\ cancel[a].pc = "call"
  /\ cancel' = [cancel EXCEPT ![a].pc = "report"]
  /\ done' = done \cup {cancel[a].run}
  /\ UNCHANGED <<lock, phase, handle, run, pc, verdict, rel, running, path, new, self, env>>

ReportCancel(a) ==
  /\ cancel[a].pc = "report"
  /\ cancel' = [cancel EXCEPT ![a].pc = "answered"]
  /\ phase' = "cancelled"
  /\ UNCHANGED <<lock, handle, run, done, pc, verdict, rel, running, path, new, self, env>>

-----------------------------------------------------------------------------
(* postRestart, which shares the lock *)
PostRestart ==
  /\ running # Absent /\ lock = "free" /\ lock' = "restart" /\ pc' = "restart"
  /\ UNCHANGED <<phase, handle, run, done, verdict, rel, cancel, running, path, new, self, env>>

RestartSelf ==
  /\ pc = "restart"
  /\ \/ path' \in Resolved /\ path' # Absent /\ Started(path')
     \/ /\ path' \in Resolved \cup (IF CannotResolve THEN {Absent} ELSE {})
        /\ lock' = "free" /\ pc' = "idle"
        /\ UNCHANGED <<phase, handle, run, done, verdict, rel, cancel, running, self>>
  /\ UNCHANGED <<new, env>>

-----------------------------------------------------------------------------
(* Environment *)
Publish ==
  /\ newest < MaxVersion /\ newest' = newest + 1
  /\ UNCHANGED <<lock, phase, handle, run, done, pc, verdict, rel, cancel,
                 running, path, new, self, faults>>

(* The process dies; whoever watches it starts what is at the path *)
Crash ==
  /\ running # Absent /\ faults < MaxFaults /\ faults' = faults + 1
  /\ Started(path)
  /\ UNCHANGED <<path, new, newest>>

(* Somebody, or an earlier release, moves the executable to .bak or deletes it *)
Lose ==
  /\ running # Absent /\ path # Absent /\ faults < MaxFaults /\ faults' = faults + 1
  /\ path' = Absent
  /\ self' \in IF self = "path" THEN {"bak", "gone"} ELSE {self}
  /\ UNCHANGED <<lock, phase, handle, run, done, pc, verdict, rel, cancel,
                 running, new, newest>>

Apply ==
  \/ SetPreparing \/ Register \/ FetchLatest \/ ResolvePath \/ Download
  \/ SetDownloading \/ SetVerifying \/ Verify \/ CommitReplace \/ CheckAgain
  \/ SetReplacing \/ ReplaceExecutable \/ SetRestarting \/ Exec
  \/ Unwind \/ Report \/ ReleaseHandle \/ Unlock
CancelStep(a) == CallCancel(a) \/ ReportCancel(a)

Next ==
  \/ PostUpdate \/ Apply \/ PostRestart \/ RestartSelf
  \/ \E a \in Admins : TakeHandle(a) \/ CancelStep(a)
  \/ Publish \/ Crash \/ Lose

Spec == Init /\ [][Next]_vars

(* A goroutine that can go on does: requests end (a watchdog, a time limit *)
(* or a context), and nobody has to ask for anything.                      *)
Fairness ==
  /\ WF_vars(Apply) /\ WF_vars(RestartSelf)
  /\ \A a \in Admins : WF_vars(CancelStep(a))

FairSpec == Spec /\ Fairness

-----------------------------------------------------------------------------
(* Properties *)

TypeOK ==
  /\ lock \in {"free", "update", "restart"} /\ phase \in Phases
  /\ handle \in 0..run /\ run \in 0..MaxRuns /\ done \subseteq 1..MaxRuns
  /\ verdict \in {"none", "failed", "cancelled"}
  /\ rel \in Versions /\ newest \in Versions /\ faults \in 0..MaxFaults
  /\ cancel \in [Admins -> [pc : {"idle", "call", "report", "answered"}, run : 0..MaxRuns]]
  /\ running \in Versions \cup {Absent} /\ path \in Versions \cup {Absent, Bad}
  /\ new \in Versions \cup {Absent, Bad} /\ self \in {"path", "bak", "gone"}

(* Whenever the process dies, the path holds an executable whose checksum  *)
(* was verified, not older than what ran: it is never empty, half written, *)
(* or replaced by a file that was not checked, unless somebody took it.    *)
InstalledIsGenuine ==
  /\ path # Bad
  /\ path = Absent \/ path >= running
  /\ path = Absent => faults > 0

(* An update and a manual restart exclude each other, only the Apply in    *)
(* progress can be cancelled, and when nobody is at work the progress says *)
(* idle, failed or cancelled: it never hangs in a phase of something that  *)
(* has ended, however a late Cancel and the deferred functions interleave. *)
SettledWhenIdle ==
  /\ lock = "free" <=> pc = "idle"
  /\ lock = "restart" <=> pc = "restart"
  /\ handle # 0 => handle = run /\ lock = "update"
  /\ lock = "free" => phase \in Settled

(* Every update and every restart that begins ends, and gives the lock back *)
UpdateEnds == lock # "free" ~> lock = "free"

(* commitReplace's comment: the way to cancel is closed before the         *)
(* executable is replaced, so that what was cancelled is not installed.    *)
(* An administrator who has been told that the update is cancelled does    *)
(* not find it installed.                                                  *)
CancelledIsNotInstalled ==
  [][(pc = "rename" /\ path' # path) =>
       ~\E a \in Admins : cancel[a] = [pc |-> "answered", run |-> run]]_vars
=============================================================================
