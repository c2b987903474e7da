---------------------------- MODULE ChunkDownload ----------------------------
(***************************************************************************)
(* The background download of one file: internal/downloader/download.go    *)
(* (download, downloadOnce), chunk.go (fetchChunk) and serial.go.  The     *)
(* file is fetched in ranges by concurrent goroutines into a temporary     *)
(* file as long as the result; a finished range is marked in meta.db, so   *)
(* that a later attempt which finds the temporary file fetches only the    *)
(* other ranges.  The temporary file is verified, moved into the cache and *)
(* the marks are cleared.  Module Inflight shows that at most one attempt  *)
(* per file runs at a time.                                                *)
(*                                                                         *)
(* Data: the content of a range is the set of upstream versions its bytes  *)
(* come from, {} while it is not all there; the expected digest, if known, *)
(* is that of version 1, and all versions have the same length.  Task and  *)
(* connection slots, the prefetch gate, bandwidth and waits only delay     *)
(* steps here (modules PlatformLimiter, PrefetchLease); renewing the       *)
(* credentials after a 401 is one of the failures that are retried.        *)
(***************************************************************************)
EXTENDS Naturals, FiniteSets, Sequences

CONSTANTS
  NChunks,       \* ranges of the file
  MaxVersion,    \* the upstream content changes from 1 up to this version
  HasETag,       \* the upstream sends ETags
  Files,         \* what the file may be like: is ExpectedSHA256 known when the
                 \* download starts; is HEAD redirected to another URL; is the
                 \* length known to the caller (HasKnownSize), or stated by the
                 \* answers to GET, or neither
  Ceiling,       \* opt.Concurrency
  MaxAttempts,   \* attempts per range and of the serial download, 5 in the code
  MaxFailures, MaxCancels, MaxRestarts, MaxEvictions, MaxClears,
  MaxDisturbances  \* bounds, the last on the sum of the four before it

ASSUME DownloadConstants ==
  /\ NChunks \in Nat \ {0}
  /\ MaxVersion \in Nat \ {0}
  /\ HasETag \in BOOLEAN
  /\ Files \subseteq [digestKnown : BOOLEAN, redirected : BOOLEAN,
                      length : {"known", "stated", "unstated"}]
  /\ Ceiling \in Nat \ {0} /\ MaxAttempts \in Nat \ {0}
  /\ {MaxFailures, MaxCancels, MaxRestarts, MaxEvictions, MaxClears,
      MaxDisturbances} \subseteq Nat

Chunks == 1..NChunks
Versions == 1..MaxVersion

VARIABLES
  upstream,  \* the version the upstream serves now
  tmp,       \* the temporary file of the ranges
  serial,    \* the temporary file of the serial download, as a sequence
  marks,     \* the ranges marked in meta.db, each under a URL
  stale,     \* history: the marks that have outlived their temporary file
  entry,     \* the cached file
  clearing,  \* the cache is being cleared
  dl,        \* the attempt: where it is, its ETag, retries, first error, ...
  worker,    \* the goroutine of each range
  file,      \* which of Files it is
  used       \* how often each kind of disturbance happened (bounds only)

vars == <<upstream, tmp, serial, marks, stale, entry, clearing, dl, worker, file, used>>

NoFile == [there |-> FALSE, data |-> [c \in Chunks |-> {}]]
EmptyFile == [there |-> TRUE, data |-> [c \in Chunks |-> {}]]
IdleWorker == [pc |-> "off", attempt |-> 0, got |-> {}]
\* ctxDone: the context of the caller is cancelled; url: opt.URL, the one asked
\* for or the one HEAD ended at; conn: the version the serial connection
\* delivers; attempt: of the serial download
IdleDownload == [pc |-> "idle", url |-> "asked", etag |-> 0, retries |-> 0, ctxDone |-> FALSE,
                 err |-> "none", pending |-> {}, conn |-> 0, attempt |-> 0]

Init ==
  /\ upstream = 1
  /\ file \in Files
  /\ tmp = NoFile /\ serial = <<>>
  /\ marks = {} /\ stale = {}
  /\ entry = NoFile
  /\ clearing = FALSE
  /\ dl = IdleDownload
  /\ worker = [c \in Chunks |-> IdleWorker]
  /\ used = [failures |-> 0, cancels |-> 0, restarts |-> 0,
             evictions |-> 0, clears |-> 0]

Goto(pc) == dl' = [dl EXCEPT !.pc = pc]
Fail == /\ used.failures < MaxFailures
        /\ used' = [used EXCEPT !.failures = @ + 1]
AllOff == \A c \in Chunks : worker[c].pc = "off"

ETagFits == dl.etag \in {0, upstream}
\* jobCtx is cancelled with its parent and by the first error
JobDone == dl.ctxDone \/ dl.err # "none"

(* ClearChunks; its failure is ignored *)
Unmark(url) == marks' \in {marks, {m \in marks : m[1] # url}}

\* The marks that are there when the temporary file goes have outlived it.
Outlive == stale' = IF tmp'.there THEN stale \cap marks' ELSE marks'

(* Mutant: only the length is compared *)
VerifiedLength(data) == file.digestKnown => \A c \in Chunks : data[c] # {}

Verified(data) == file.digestKnown => \A c \in Chunks : data[c] = {1}

-----------------------------------------------------------------------------
(* download: the attempt and its single retry after a content change *)

Start ==
  /\ dl.pc = "idle" /\ ~entry.there /\ ~clearing     \* HoldWrite
  /\ dl' = [IdleDownload EXCEPT !.pc = "probe"]
  /\ UNCHANGED <<upstream, tmp, serial, marks, entry, clearing, worker, used>>

(* A request that finds the file in the cache starts no download *)
Hit ==
  /\ dl.pc = "idle" /\ entry.there
  /\ UNCHANGED vars

(* A content change voids the partial files once (wipePartial), then fails. *)
(* wipePartial clears the marks of the URL asked for.                       *)
ContentChanged(part, ser) ==
  IF dl.retries = 0
  THEN /\ dl' = [IdleDownload EXCEPT !.pc = "probe", !.retries = 1,
                                     !.ctxDone = dl.ctxDone]
       /\ tmp' = NoFile /\ serial' = <<>>
       /\ Unmark("asked")
  ELSE /\ dl' = IdleDownload
       /\ tmp' = part /\ serial' = ser
       /\ UNCHANGED marks

(* With a known size there is no HEAD before the first try. *)
SkipHead ==
  /\ dl.pc = "probe"
  /\ file.length = "known" /\ dl.retries = 0
  /\ Goto("open")
  /\ UNCHANGED <<upstream, tmp, serial, marks, entry, clearing, worker, used>>

(* headWithETag; without it, or without a length, the download is serial *)
Probe ==
  /\ dl.pc = "probe"
  /\ ~(file.length = "known" /\ dl.retries = 0)
  /\ \/ /\ ~dl.ctxDone
        /\ dl' = [dl EXCEPT !.pc = "open",
                            !.url = IF file.redirected THEN "final" ELSE @,
                            !.etag = IF HasETag THEN upstream ELSE 0]
        /\ UNCHANGED used
     \/ /\ IF dl.ctxDone \/ file.length = "unstated" THEN UNCHANGED used ELSE Fail
        /\ Goto("connect")
  /\ UNCHANGED <<upstream, tmp, serial, marks, entry, clearing, worker>>

Resume == dl.retries = 0 /\ tmp.there

(* A temporary file of the right length is resumed: the ranges marked (and  *)
(* not older than ChunkTTLHours) are not fetched again.                     *)
OpenTmp ==
  /\ dl.pc = "open"
  /\ \E fresh \in SUBSET {c \in Chunks : <<dl.url, c>> \in marks} :
       dl' = [dl EXCEPT !.pc = "chunks",
                        !.pending = IF Resume THEN Chunks \ fresh ELSE Chunks]
  /\ tmp' = IF Resume THEN tmp ELSE EmptyFile
  /\ UNCHANGED <<upstream, serial, marks, entry, clearing, worker, used>>

(* It cannot be opened or allocated. *)
OpenTmpFails ==
  /\ dl.pc = "open"
  /\ Fail
  /\ tmp' = IF Resume THEN tmp ELSE NoFile
  /\ dl' = IdleDownload
  /\ UNCHANGED <<upstream, serial, marks, entry, clearing, worker>>

-----------------------------------------------------------------------------
(* downloadOnce: the loop that launches the goroutines, and one goroutine *)

Launch(c) ==
  /\ dl.pc = "chunks" /\ ~JobDone
  /\ c \in dl.pending /\ \A d \in dl.pending : c <= d
  /\ Cardinality({d \in Chunks : worker[d].pc # "off"}) < Ceiling
  /\ worker' = [worker EXCEPT ![c] = [IdleWorker EXCEPT !.pc = "gate"]]
  /\ dl' = [dl EXCEPT !.pending = @ \ {c}]
  /\ UNCHANGED <<upstream, tmp, serial, marks, entry, clearing, used>>

(* Mutant: left only when every range has been launched; otherwise it polls *)
LeaveLoopWhenEmpty ==
  /\ dl.pc = "chunks"
  /\ IF dl.pending = {} THEN Goto("wait") ELSE UNCHANGED dl
  /\ UNCHANGED <<upstream, tmp, serial, marks, entry, clearing, worker, used>>

LeaveLoop ==
  /\ dl.pc = "chunks"
  /\ JobDone \/ dl.pending = {}
  /\ Goto("wait")
  /\ UNCHANGED <<upstream, tmp, serial, marks, entry, clearing, worker, used>>

WorkerTo(c, pc) == worker' = [worker EXCEPT ![c].pc = pc]

(* Mutant: the goroutine returns without setErr *)
WorkerFailsSilently(c, error) ==
  /\ worker' = [worker EXCEPT ![c] = IdleWorker]
  /\ UNCHANGED dl

(* setErr: the first error is kept, and the goroutine returns *)
WorkerFails(c, error) ==
  /\ worker' = [worker EXCEPT ![c] = IdleWorker]
  /\ dl' = [dl EXCEPT !.err = IF @ = "none" THEN error ELSE @]

(* waitPrefetchGate and AcquireConn may notice a cancelled context, or not *)
WorkerGate(c) ==
  /\ worker[c].pc = "gate"
  /\ \/ WorkerTo(c, "try") /\ UNCHANGED dl
     \/ JobDone /\ WorkerFails(c, "cancel")
  /\ UNCHANGED <<upstream, tmp, serial, marks, entry, clearing, used>>

(* Top of the attempt loop: when the job is cancelled, return silently *)
WorkerTry(c) ==
  /\ worker[c].pc = "try"
  /\ worker' = [worker EXCEPT ![c] = IF JobDone THEN IdleWorker
                                     ELSE [@ EXCEPT !.pc = "fetching"]]
  /\ UNCHANGED <<upstream, tmp, serial, marks, entry, clearing, dl, used>>

FetchChunk(c) ==
  /\ worker[c].pc = "fetching" /\ ~JobDone /\ ETagFits
  /\ tmp' = [tmp EXCEPT !.data[c] = worker[c].got \cup {upstream}]
  /\ WorkerTo(c, "fetched")
  /\ UNCHANGED <<upstream, serial, marks, entry, clearing, dl, used>>

(* The attempt breaks off, maybe after some bytes: go on behind them, or   *)
(* give up when it was the last attempt or all bytes had come.             *)
FetchBreaks(c) ==
  /\ worker[c].pc = "fetching" /\ ETagFits
  /\ Fail
  /\ \E bytes \in SUBSET {upstream} :
       tmp' = [tmp EXCEPT !.data[c] = IF @ = {} THEN {} ELSE @ \cup bytes]
       /\ \/ /\ worker[c].attempt + 1 < MaxAttempts
             /\ worker' = [worker EXCEPT ![c] =
                             [pc |-> "try", attempt |-> @.attempt + 1,
                              got |-> @.got \cup bytes]]
             /\ UNCHANGED dl
          \/ WorkerFails(c, "transient")
          \/ WorkerFails(c, "hard")          \* 404, bad content, no credentials
  /\ UNCHANGED <<upstream, serial, marks, entry, clearing>>

FetchRefused(c) ==
  /\ worker[c].pc = "fetching"
  /\ \/ JobDone /\ WorkerFails(c, "cancel")
     \/ ~ETagFits /\ WorkerFails(c, "changed")
  /\ UNCHANGED <<upstream, tmp, serial, marks, entry, clearing, used>>

(* A mark that cannot be written is like one that is no longer fresh. *)
MarkChunks(c) ==
  /\ worker[c].pc = "fetched"
  /\ marks' = marks \cup {<<dl.url, c>>} /\ stale' = stale \ {<<dl.url, c>>}
  /\ worker' = [worker EXCEPT ![c] = IdleWorker]
  /\ UNCHANGED <<upstream, tmp, serial, entry, clearing, dl, used>>

-----------------------------------------------------------------------------
(* downloadOnce after wg.Wait *)

AfterWait ==
  /\ dl.pc = "wait" /\ AllOff
  /\ CASE dl.err = "none" ->
            Goto("verify") /\ UNCHANGED <<tmp, serial, marks>>
       [] dl.err = "changed" -> ContentChanged(tmp, serial)
       [] dl.err = "transient" ->   \* serial only if the host is down to 1
            /\ \/ dl' = [dl EXCEPT !.pc = "connect", !.err = "none"]
               \/ dl' = IdleDownload
            /\ UNCHANGED <<tmp, serial, marks>>
       [] OTHER -> dl' = IdleDownload /\ UNCHANGED <<tmp, serial, marks>>
  /\ UNCHANGED <<upstream, entry, clearing, worker, used>>

(* verifyAndRemember removes a file with the wrong digest; one it cannot   *)
(* read counts as changed too.                                             *)
Verify ==
  /\ dl.pc = "verify"
  /\ \/ /\ Verified(tmp.data)
        /\ Goto("put")
        /\ UNCHANGED <<tmp, serial, marks, used>>
     \/ /\ ~Verified(tmp.data)
        /\ ContentChanged(NoFile, serial)
        /\ UNCHANGED used
     \/ /\ file.digestKnown /\ Fail
        /\ ContentChanged(tmp, serial)
  /\ UNCHANGED <<upstream, entry, clearing, worker>>

(* cache.Put: refused while the cache is cleared, the file is removed then. *)
(* When it fails the file has or has not been moved away already, and the   *)
(* marks stay.                                                              *)
Put ==
  /\ dl.pc = "put"
  /\ \/ /\ ~clearing
        /\ entry' = [there |-> TRUE, data |-> tmp.data]
        /\ tmp' = NoFile
        /\ Goto("unmark")
        /\ UNCHANGED used
     \/ /\ clearing
        /\ tmp' = NoFile
        /\ dl' = IdleDownload
        /\ UNCHANGED <<entry, used>>
     \/ /\ Fail
        /\ tmp' \in {tmp, NoFile}
        /\ dl' = IdleDownload
        /\ UNCHANGED entry
  /\ UNCHANGED <<upstream, serial, marks, clearing, worker>>

ClearChunks ==
  /\ dl.pc = "unmark"
  /\ Unmark(dl.url)
  /\ dl' = IdleDownload
  /\ UNCHANGED <<upstream, tmp, serial, entry, clearing, worker, used>>

-----------------------------------------------------------------------------
(* downloadSerial: one connection from the bytes that are there *)

SerialDead == serial' = <<>> /\ dl' = IdleDownload /\ UNCHANGED marks

SerialConnect ==
  /\ dl.pc = "connect"
  /\ IF dl.ctxDone THEN SerialDead /\ UNCHANGED tmp
     ELSE IF ~ETagFits THEN ContentChanged(tmp, <<>>)
     ELSE \* 206 for the rest, or 200 and from the start
          /\ serial' \in {serial, <<>>}
          /\ dl' = [dl EXCEPT !.pc = "serial", !.conn = upstream]
          /\ UNCHANGED <<tmp, marks>>
  /\ UNCHANGED <<upstream, entry, clearing, worker, used>>

SerialRead ==
  /\ dl.pc = "serial" /\ ~dl.ctxDone
  /\ Len(serial) < NChunks
  /\ serial' = Append(serial, dl.conn)
  /\ UNCHANGED <<upstream, tmp, marks, entry, clearing, dl, worker, used>>

(* An attempt fails; 5 in all, none once the context is cancelled *)
SerialBreaks ==
  /\ dl.pc = "serial"
  /\ IF dl.ctxDone THEN UNCHANGED used ELSE Fail
  /\ \/ SerialDead
     \/ /\ ~dl.ctxDone /\ dl.attempt + 1 < MaxAttempts
        /\ dl' = [dl EXCEPT !.pc = "connect", !.attempt = @ + 1]
        /\ UNCHANGED <<serial, marks>>
  /\ UNCHANGED <<upstream, tmp, entry, clearing, worker>>

(* A body that ends early is noticed only if its length is known or stated; *)
(* nothing is made of an empty one.  Neither is of a file that cannot be    *)
(* verified or put.                                                         *)
SerialPut ==
  /\ dl.pc = "serial"
  /\ Len(serial) = NChunks \/ (file.length = "unstated" /\ serial # <<>>)
  /\ LET data == [c \in Chunks |-> IF c <= Len(serial) THEN {serial[c]} ELSE {}]
     IN \/ /\ ~Verified(data)
           /\ ContentChanged(tmp, <<>>)
           /\ UNCHANGED <<entry, used>>
        \/ /\ Verified(data)
           /\ entry' = IF clearing THEN entry ELSE [there |-> TRUE, data |-> data]
           /\ SerialDead /\ UNCHANGED <<tmp, used>>
        \/ /\ Fail
           /\ SerialDead /\ UNCHANGED <<tmp, entry>>
  /\ UNCHANGED <<upstream, clearing, worker>>

-----------------------------------------------------------------------------
(* What happens to a download *)

Spend(kind, max) ==
  /\ used[kind] < max
  /\ used.cancels + used.restarts + used.evictions + used.clears < MaxDisturbances
  /\ used' = [used EXCEPT ![kind] = @ + 1]

(* Taken over by an interactive request, or cancelled by an administrator *)
Cancel ==
  /\ dl.pc # "idle" /\ ~dl.ctxDone
  /\ Spend("cancels", MaxCancels)
  /\ dl' = [dl EXCEPT !.ctxDone = TRUE]
  /\ UNCHANGED <<upstream, tmp, serial, marks, entry, clearing, worker>>

(* The process stops and starts; main purges the temporary files *)
Restart ==
  /\ Spend("restarts", MaxRestarts)
  /\ dl' = IdleDownload
  /\ worker' = [c \in Chunks |-> IdleWorker]
  /\ tmp' = NoFile /\ serial' = <<>>
  /\ clearing' = FALSE
  /\ UNCHANGED <<upstream, marks, entry>>

Evict ==
  /\ entry.there
  /\ Spend("evictions", MaxEvictions)
  /\ entry' = NoFile
  /\ UNCHANGED <<upstream, tmp, serial, marks, clearing, dl, worker>>

(* cache.Clear: downloads are awaited, then everything goes.  A download   *)
(* is aborted unless its task is not yet bound (module Scheduler).         *)
BeginClear ==
  /\ ~clearing
  /\ Spend("clears", MaxClears)
  /\ clearing' = TRUE
  /\ \E aborted \in BOOLEAN :
       dl' = [dl EXCEPT !.ctxDone = @ \/ (aborted /\ dl.pc # "idle")]
  /\ UNCHANGED <<upstream, tmp, serial, marks, entry, worker>>

FinishClear ==
  /\ clearing /\ dl.pc = "idle"
  /\ entry' = NoFile /\ tmp' = NoFile
  /\ marks' \in {marks, {}}                \* the failure is ignored
  /\ clearing' = FALSE
  /\ UNCHANGED <<upstream, serial, dl, worker, used>>

UpstreamChange ==
  /\ upstream < MaxVersion
  /\ upstream' = upstream + 1
  /\ UNCHANGED <<tmp, serial, marks, entry, clearing, dl, worker, used>>

-----------------------------------------------------------------------------
DownloadStep ==
  /\ UNCHANGED file
  /\ \/ SkipHead \/ Probe \/ OpenTmp \/ OpenTmpFails
     \/ LeaveLoop \/ AfterWait \/ Verify \/ Put \/ ClearChunks
     \/ SerialConnect \/ SerialRead \/ SerialBreaks \/ SerialPut
     \/ \E c \in Chunks : Launch(c)
  /\ Outlive

WorkerStep(c) ==
  /\ UNCHANGED file
  /\ \/ MarkChunks(c)
     \/ /\ UNCHANGED stale
        /\ \/ WorkerGate(c) \/ WorkerTry(c)
           \/ FetchChunk(c) \/ FetchBreaks(c) \/ FetchRefused(c)

Disturbance ==
  /\ UNCHANGED file
  /\ Cancel \/ Restart \/ Evict \/ BeginClear \/ FinishClear \/ UpstreamChange
  /\ Outlive

Next ==
  \/ Start /\ UNCHANGED <<file, stale>>
  \/ Hit
  \/ DownloadStep
  \/ \E c \in Chunks : WorkerStep(c)
  \/ Disturbance

Spec == Init /\ [][Next]_vars

(* The download's goroutines run on: reads have a stall timeout, waits end. *)
FairSpec == Spec /\ WF_vars(DownloadStep) /\ \A c \in Chunks : WF_vars(WorkerStep(c))

-----------------------------------------------------------------------------
(* Properties *)

FileRec == [there : BOOLEAN, data : [Chunks -> SUBSET Versions]]

TypeOK ==
  /\ upstream \in Versions /\ file \in Files
  /\ tmp \in FileRec /\ entry \in FileRec
  /\ serial \in Seq(Versions) /\ Len(serial) <= NChunks
  /\ marks \subseteq {"asked", "final"} \X Chunks /\ stale \subseteq marks
  /\ clearing \in BOOLEAN
  /\ dl \in [pc : {"idle", "probe", "open", "chunks", "wait", "verify", "put",
                   "unmark", "connect", "serial"},
             url : {"asked", "final"},
             etag : 0..MaxVersion, retries : 0..1, ctxDone : BOOLEAN,
             err : {"none", "cancel", "changed", "transient", "hard"},
             pending : SUBSET Chunks, conn : 0..MaxVersion,
             attempt : 0..(MaxAttempts - 1)]
  /\ worker \in [Chunks -> [pc : {"off", "gate", "try", "fetching", "fetched"},
                            attempt : 0..(MaxAttempts - 1),
                            got : SUBSET Versions]]

OnlyExpected == file.digestKnown /\ entry.there => \A c \in Chunks : entry.data[c] = {1}

(* A file with a known digest is cached only if it is the expected content, *)
(* whatever was cancelled, restarted, resumed or changed on the way.        *)
CachedMatchesDigest == TypeOK /\ OnlyExpected

(* No cached file has a hole: every range was fetched before the file was  *)
(* moved into the cache.                                                   *)
CachedIsWhole == entry.there => \A c \in Chunks : entry.data[c] # {}

(* What an attempt caches has a hole in three cases only: the attempt was  *)
(* cancelled; the mark of that range had outlived the temporary file it    *)
(* spoke of; or the body came by one connection, its length neither known  *)
(* nor stated, and ended early.  Failing ranges, retries, resumption,      *)
(* content changes and the loop that launches the ranges open no hole.     *)
ResumedIsWhole ==
  [][entry'.there /\ entry' # entry =>
       \A c \in Chunks : entry'.data[c] = {} =>
         \/ dl.ctxDone
         \/ <<dl.url, c>> \in stale
         \/ dl.pc = "serial" /\ file.length = "unstated"]_vars

(* Every download ends: neither an error, a cancellation nor a goroutine   *)
(* that returned silently leaves the launching loop waiting forever.       *)
DownloadEnds == dl.pc # "idle" ~> dl.pc = "idle"

=============================================================================
