---------------------------- MODULE ConfigApply ----------------------------
(* config/config.go and putConfig of api/api.go: the configuration in      *)
(* memory, its row in the database, and the components that are told of    *)
(* changes one after the other, outside the configuration's lock.          *)
(*                                                                         *)
(* A setting is a number.  `rate` is the bandwidth (0 for no limit),       *)
(* `quota` the cache's size (0 is replaced by the default), `proxy` the    *)
(* upstream proxy, `mode` is on_interactive = "continue", `resume` is      *)
(* resume_on_idle.  `legacy` is the rate limit that a platform of an old   *)
(* database still carries.                                                 *)
EXTENDS Naturals

CONSTANTS Admins,
          Bodies,     \* the requests: what each section is set to, or Unset
          Unset,
          Stored,     \* the rows of older releases that a database may hold
          MaxPuts, MaxFaults   \* bounds on requests, and on failures and restarts

VARIABLES
  memory,     \* Manager.cfg
  row,        \* app_settings["runtime"]
  comp,       \* what the components work with
  armed,      \* the idle timer has been armed by a configuration change
  stuck,      \* prefetch is paused, and nothing is armed to lift it
  put,        \* per administrator: the putConfig in progress
  puts, faults,
  mixed,      \* history: two putConfigs overlapped, or one failed, since the start
  unsaved     \* history: the last write of the row failed

vars == <<memory, row, comp, armed, stuck, put, puts, faults, mixed, unsaved>>

Default == 1
NoPut == [pc |-> "idle"]
Idle(a) == put[a].pc = "idle"

(* The row of a new database *)
defaultRuntime ==
  [rate |-> 0, quota |-> Default, proxy |-> 0, mode |-> FALSE, resume |-> TRUE, legacy |-> 0]

NormalizePlatform(c) == [c EXCEPT !.legacy = 0]

(* applyDefaults.  The limit of a platform is taken over while there is no *)
(* global one, and a missing resume_on_idle means on.                      *)
applyDefaults(c) ==
  NormalizePlatform(
    [c EXCEPT !.rate = IF c.rate = 0 THEN c.legacy ELSE c.rate,
              !.quota = IF c.quota = 0 THEN Default ELSE c.quota,
              !.resume = IF c.resume = Unset THEN TRUE ELSE c.resume])

(* persistLocked leaves out the limits of the platforms *)
Persisted(c) == [c EXCEPT !.legacy = 0]

(* The program start builds every component from the configuration *)
Components(c) == [rate |-> c.rate, quota |-> c.quota, proxy |-> c.proxy, mode |-> c.mode]

(* Open: GetJSON, merge, applyDefaults, and the row is written back *)
Open(stored) ==
  /\ memory = applyDefaults(stored)
  /\ row = Persisted(memory)
  /\ comp = Components(memory)

Init ==
  /\ \E stored \in Stored \cup {defaultRuntime} : Open(stored)
  /\ armed = FALSE /\ stuck = FALSE
  /\ put = [a \in Admins |-> NoPut]
  /\ puts = 0 /\ faults = 0 /\ mixed = FALSE /\ unsaved = FALSE

-----------------------------------------------------------------------------
(* putConfig *)
Set(v, old) == IF v = Unset THEN old ELSE v

(* The previous resume_on_idle is read before the update *)
ReadBefore(a, body) ==
  /\ Idle(a) /\ puts < MaxPuts /\ puts' = puts + 1
  /\ put' = [put EXCEPT ![a] = [pc |-> "update", body |-> body, was |-> memory.resume]]
  /\ mixed' = (mixed \/ \E b \in Admins : ~Idle(b))
  /\ UNCHANGED <<memory, row, comp, armed, stuck, faults, unsaved>>

(* Manager.Update: memory is changed, then the row is written; if that     *)
(* fails the change stays in memory and the request ends with an error     *)
Updated(body) ==
  applyDefaults([memory EXCEPT
    !.rate = Set(body.rate, @), !.quota = Set(body.quota, @), !.proxy = Set(body.proxy, @),
    !.mode = IF body.sched = Unset THEN @ ELSE body.sched.mode,
    !.resume = IF body.sched = Unset THEN @ ELSE body.sched.resume])

Update(a) ==
  /\ put[a].pc = "update"
  /\ memory' = Updated(put[a].body)
  /\ \/ row' = Persisted(memory') /\ unsaved' = FALSE
        /\ put' = [put EXCEPT ![a].pc = "get"] /\ UNCHANGED <<faults, mixed>>
     \/ /\ faults < MaxFaults /\ faults' = faults + 1
        /\ unsaved' = TRUE /\ mixed' = TRUE
        /\ put' = [put EXCEPT ![a] = NoPut] /\ UNCHANGED row
  /\ UNCHANGED <<comp, armed, stuck, puts>>

(* cfg.Get: what is applied is this copy *)
Get(a) ==
  /\ put[a].pc = "get"
  /\ put' = [put EXCEPT ![a] = [pc |-> "rate", body |-> @.body, was |-> @.was, cfg |-> memory]]
  /\ UNCHANGED <<memory, row, comp, armed, stuck, puts, faults, mixed, unsaved>>

(* One component after the other.  The limiters' idle share and reserve    *)
(* are set by every request, the others by those that carry the section.   *)
Tell(a, at, next, newComp) ==
  /\ put[a].pc = at
  /\ comp' = newComp
  /\ put' = [put EXCEPT ![a].pc = next]
  /\ UNCHANGED <<memory, row, armed, stuck, puts, faults, mixed, unsaved>>

Sent(a, section) == put[a].body[section] # Unset
UpdateLimiters(a) ==
  Tell(a, "rate", "mode", IF Sent(a, "rate") THEN [comp EXCEPT !.rate = put[a].cfg.rate] ELSE comp)
SetInteractiveTaskReserve(a) ==
  Tell(a, "mode", "quota", [comp EXCEPT !.mode = put[a].cfg.mode])
SetMaxSizeFromBody(a) ==   \* mutant: what was sent, not what it became
  Tell(a, "quota", "proxy", IF Sent(a, "quota") THEN [comp EXCEPT !.quota = put[a].body.quota]
                            ELSE comp)
SetMaxSizeGB(a) ==
  Tell(a, "quota", "proxy", IF Sent(a, "quota") THEN [comp EXCEPT !.quota = put[a].cfg.quota] ELSE comp)
SetUpstreamProxy(a) ==
  Tell(a, "proxy", "resume", IF Sent(a, "proxy") THEN [comp EXCEPT !.proxy = put[a].cfg.proxy] ELSE comp)

(* ResumePrefetchIfIdle, which looks at the configuration itself *)
ResumePrefetch(a) ==
  /\ put[a].pc = "resume"
  /\ IF Sent(a, "sched") /\ ~put[a].was /\ put[a].cfg.resume /\ memory.resume
     THEN armed' = TRUE /\ stuck' = FALSE
     ELSE UNCHANGED <<armed, stuck>>
  /\ put' = [put EXCEPT ![a] = NoPut]
  /\ UNCHANGED <<memory, row, comp, puts, faults, mixed, unsaved>>

-----------------------------------------------------------------------------
(* Scheduler: the last interactive download of a pause ends; its timer is  *)
(* armed only if resume_on_idle is on                                      *)
LastInteractiveEnds ==
  /\ stuck' = ~memory.resume
  /\ armed' = memory.resume
  /\ UNCHANGED <<memory, row, comp, put, puts, faults, mixed, unsaved>>

(* applyPrefetchResumeIdlePlatforms looks at the configuration once more *)
TimerFires ==
  /\ armed /\ armed' = FALSE
  /\ stuck' = ~memory.resume
  /\ UNCHANGED <<memory, row, comp, put, puts, faults, mixed, unsaved>>

Restart ==
  /\ faults < MaxFaults /\ faults' = faults + 1
  /\ memory' = applyDefaults(row) /\ row' = Persisted(memory') /\ comp' = Components(memory')
  /\ armed' = FALSE /\ stuck' = FALSE /\ mixed' = FALSE /\ unsaved' = FALSE
  /\ put' = [a \in Admins |-> NoPut]
  /\ UNCHANGED puts

Step(a) ==
  \/ Update(a) \/ Get(a) \/ UpdateLimiters(a) \/ SetInteractiveTaskReserve(a)
  \/ SetMaxSizeGB(a) \/ SetUpstreamProxy(a) \/ ResumePrefetch(a)

Next ==
  \/ \E a \in Admins : Step(a) \/ \E body \in Bodies : ReadBefore(a, body)
  \/ LastInteractiveEnds \/ TimerFires \/ Restart

Spec == Init /\ [][Next]_vars
Fairness == \A a \in Admins : WF_vars(Step(a))

-----------------------------------------------------------------------------
(* Properties *)

Settings ==
  [rate : Nat, quota : Nat \ {0}, proxy : Nat, mode : BOOLEAN, resume : BOOLEAN, legacy : {0}]

TypeOK ==
  /\ memory \in Settings /\ row \in Settings
  /\ comp \in [rate : Nat, quota : Nat, proxy : Nat, mode : BOOLEAN]
  /\ {armed, stuck, mixed, unsaved} \subseteq BOOLEAN
  /\ puts \in 0..MaxPuts /\ faults \in 0..MaxFaults

(* What was answered survives a restart at any moment: the row is the      *)
(* configuration in memory unless its last write failed.  Once no request  *)
(* is on its way every component works with the configuration, and with    *)
(* resume_on_idle on no pause is left without a timer: in whatever order   *)
(* pauses end, requests follow each other and the program restarts, as     *)
(* long as no two requests overlapped and none failed since the start.     *)
AppliedIsStored ==
  /\ ~unsaved => row = Persisted(memory)
  /\ (\A a \in Admins : Idle(a)) /\ ~mixed =>
       /\ comp = Components(memory)
       /\ memory.resume => ~stuck

(* Every putConfig ends *)
PutEnds == \A a \in Admins : []<>Idle(a)
=============================================================================
