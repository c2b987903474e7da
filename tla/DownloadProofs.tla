---------------------------- MODULE DownloadProofs ----------------------------
(***************************************************************************)
(* Proofs about the two ways to download a file.                           *)
(*                                                                         *)
(* In the background, for every number of ranges, versions, attempts and   *)
(* disturbances: a file with a known digest is cached only as the expected *)
(* content, and what an attempt caches has a hole only if it was cancelled *)
(* or a mark had outlived its temporary file, or at the end of a body of   *)
(* unstated length.                                                        *)
(*                                                                         *)
(* For a client that waits, for files, histories of the upstream and       *)
(* numbers of resumptions of any size: the client is sent and the cache is *)
(* given the right bytes.                                                  *)
(***************************************************************************)
EXTENDS ChunkDownload, MCStreamDownload, TLAPS

Points ==
  {"idle", "probe", "open", "chunks", "wait", "verify", "put", "unmark", "connect", "serial"}
DownloadRec ==
  [pc : Points, url : {"asked", "final"}, etag : 0..MaxVersion, retries : 0..1, ctxDone : BOOLEAN,
   err : {"none", "cancel", "changed", "transient", "hard"},
   pending : SUBSET Chunks, conn : 0..MaxVersion, attempt : 0..(MaxAttempts - 1)]
WorkerRec ==
  [pc : {"off", "gate", "try", "fetching", "fetched"}, attempt : 0..(MaxAttempts - 1),
   got : SUBSET Versions]
Marks == {"asked", "final"} \X Chunks
UsedRec == [failures : Nat, cancels : Nat, restarts : Nat, evictions : Nat, clears : Nat]

(* Everything has its type, and a connection delivers a version. *)
Types ==
  /\ upstream \in Versions /\ file \in Files
  /\ tmp \in FileRec /\ entry \in FileRec
  /\ serial \in Seq(Versions) /\ Len(serial) <= NChunks
  /\ marks \subseteq Marks /\ clearing \in BOOLEAN
  /\ dl \in DownloadRec /\ worker \in [Chunks -> WorkerRec]
  /\ used \in UsedRec
  /\ dl.pc = "serial" => dl.conn # 0

(* Goroutines work while downloadOnce launches or awaits them; from the    *)
(* opening of the temporary file to its move it is there; the second try   *)
(* begins without one.                                                     *)
Working ==
  /\ \A c \in Chunks : worker[c].pc # "off" => dl.pc \in {"chunks", "wait"}
  /\ dl.pc \in {"chunks", "wait", "verify", "put"} => tmp.there
  /\ dl.pc \in {"wait", "verify", "put"} => dl.pending = {} \/ JobDone
  /\ dl.pc \in {"verify", "put"} => dl.err = "none"
  /\ dl.pc \in {"probe", "open"} /\ dl.retries = 1 => ~tmp.there
  /\ dl.ctxDone => dl.pc # "idle"

(* What has passed Verify stays as it is until it is moved. *)
Matching ==
  /\ file.digestKnown /\ dl.pc = "put" => \A c \in Chunks : tmp.data[c] = {1}
  /\ OnlyExpected

(* A mark that has not outlived it speaks of the temporary file.           *)
MarksTell ==
  /\ stale \subseteq marks
  /\ \A m \in marks : m \in stale \/ (tmp.there /\ tmp.data[m[2]] # {})

(* A range is in the temporary file, or somebody will fetch it, or the     *)
(* attempt will not cache the file, or a mark lies.                        *)
Served(c) ==
  \/ tmp.data[c] # {}
  \/ c \in dl.pending \/ worker[c].pc # "off"
  \/ JobDone
  \/ <<dl.url, c>> \in stale

Resuming ==
  /\ MarksTell
  /\ \A c \in Chunks :
       /\ worker[c].pc = "fetched" => tmp.data[c] # {}
       /\ dl.pc \in {"chunks", "wait", "verify", "put"} => Served(c)

DownloadInv == Types /\ Working /\ Matching /\ Resuming

-----------------------------------------------------------------------------
(* Records *)

LEMMA IdleRecords ==
  /\ IdleDownload \in DownloadRec /\ IdleDownload.pc = "idle" /\ ~IdleDownload.ctxDone
  /\ IdleDownload.retries = 0 /\ IdleDownload.err = "none" /\ IdleDownload.pending = {}
  /\ IdleWorker \in WorkerRec /\ IdleWorker.pc = "off"
  /\ NoFile \in FileRec /\ ~NoFile.there
  /\ EmptyFile \in FileRec /\ EmptyFile.there /\ \A c \in Chunks : EmptyFile.data[c] = {}
<1>1. 0 \in 0..MaxVersion /\ 0 \in 0..1 /\ 0 \in 0..(MaxAttempts - 1)
  BY DownloadConstants
<1>2. IdleDownload \in DownloadRec /\ IdleDownload.pc = "idle" /\ ~IdleDownload.ctxDone
      /\ IdleDownload.retries = 0 /\ IdleDownload.err = "none" /\ IdleDownload.pending = {}
  BY <1>1 DEF IdleDownload, DownloadRec, Points
<1>3. IdleWorker \in WorkerRec /\ IdleWorker.pc = "off"
  BY <1>1 DEF IdleWorker, WorkerRec
<1>4. [c \in Chunks |-> {}] \in [Chunks -> SUBSET Versions]
  OBVIOUS
<1> QED BY <1>2, <1>3, <1>4 DEF NoFile, EmptyFile, FileRec

LEMMA GotoDoes ==
  ASSUME dl \in DownloadRec, NEW p \in Points, Goto(p)
  PROVE  /\ dl' \in DownloadRec /\ dl'.pc = p /\ dl'.retries = dl.retries
         /\ dl'.ctxDone = dl.ctxDone /\ dl'.err = dl.err /\ dl'.pending = dl.pending
         /\ dl'.url = dl.url
BY DEF Goto, DownloadRec

(* A goroutine is somewhere else. *)
LEMMA WorkerSet ==
  ASSUME worker \in [Chunks -> WorkerRec], NEW c \in Chunks, NEW w \in WorkerRec,
         worker' = [worker EXCEPT ![c] = w]
  PROVE  /\ worker' \in [Chunks -> WorkerRec] /\ worker'[c] = w
         /\ \A d \in Chunks : d # c => worker'[d] = worker[d]
OBVIOUS

LEMMA WorkerToDoes ==
  ASSUME worker \in [Chunks -> WorkerRec], NEW c \in Chunks,
         NEW p \in {"off", "gate", "try", "fetching", "fetched"}, WorkerTo(c, p)
  PROVE  /\ worker' \in [Chunks -> WorkerRec] /\ worker'[c].pc = p
         /\ \A d \in Chunks : d # c => worker'[d] = worker[d]
<1> DEFINE w == [worker[c] EXCEPT !.pc = p]
<1>1. w \in WorkerRec /\ w.pc = p
  BY DEF WorkerRec
<1>2. worker' = [worker EXCEPT ![c] = w]
  BY DEF WorkerTo
<1> HIDE DEF w
<1> QED BY <1>1, <1>2

(* A failure and a disturbance are counted. *)
LEMMA FailCounts == ASSUME used \in UsedRec, Fail PROVE used' \in UsedRec
BY DEF Fail, UsedRec

LEMMA SpendCounts ==
  ASSUME used \in UsedRec, NEW max,
         NEW kind \in {"cancels", "restarts", "evictions", "clears"}, Spend(kind, max)
  PROVE  used' \in UsedRec
<1>1. used[kind] \in Nat /\ used' = [used EXCEPT ![kind] = @ + 1]
  BY DEF Spend, UsedRec
<1> QED BY <1>1 DEF UsedRec

(* The marks that outlive the temporary file are told from the others.     *)
LEMMA MarksTold ==
  ASSUME DownloadInv, Outlive, marks' \subseteq marks,
         tmp'.there => ~tmp.there \/ tmp' = tmp
  PROVE  MarksTell'
<1>1. MarksTell
  BY DEF DownloadInv, Resuming
<1>2. CASE tmp'.there
  BY <1>1, <1>2 DEF MarksTell, Outlive
<1>3. CASE ~tmp'.there
  BY <1>3 DEF MarksTell, Outlive
<1> QED BY <1>2, <1>3

LEMMA StaleStays ==
  ASSUME DownloadInv, Outlive \/ UNCHANGED stale, UNCHANGED <<tmp, marks>>
  PROVE  stale' = stale /\ MarksTell'
<1>1. MarksTell
  BY DEF DownloadInv, Resuming
<1>2. stale' = stale
  BY <1>1 DEF MarksTell, Outlive
<1> QED BY <1>1, <1>2 DEF MarksTell

-----------------------------------------------------------------------------
(* The steps of an attempt *)

(* The attempt goes on, or ends, where no range is at work. *)
LEMMA Moved ==
  ASSUME DownloadInv, Outlive \/ UNCHANGED stale, dl' \in DownloadRec,
         UNCHANGED <<upstream, tmp, marks, entry, clearing, worker, file>>,
         used' \in UsedRec,
         serial' \in Seq(Versions), Len(serial') <= NChunks,
         dl'.pc = "serial" => dl'.conn # 0,
         dl'.ctxDone => dl.ctxDone /\ dl'.pc # "idle",
         dl'.pc \in {"probe", "open"} /\ dl'.retries = 1
           => dl.pc \in {"probe", "open"} /\ dl.retries = 1,
         dl'.pc \notin {"chunks", "wait", "verify", "put"},
         AllOff
  PROVE  DownloadInv'
<1>1. Types'
  BY DEF DownloadInv, Types
<1>2. Working'
  BY DEF DownloadInv, Working, AllOff
<1>3. Matching'
  BY DEF DownloadInv, Matching, OnlyExpected
<1>4. Resuming'
  BY StaleStays DEF DownloadInv, Resuming, AllOff
<1> QED BY <1>1, <1>2, <1>3, <1>4 DEF DownloadInv

(* A content change: the second try begins, or the attempt ends. *)
LEMMA Changed ==
  ASSUME DownloadInv, Outlive,
         NEW part \in {tmp, NoFile}, NEW ser \in Seq(Versions), Len(ser) <= NChunks,
         dl.pc \in {"wait", "verify", "connect", "serial"}, AllOff, ContentChanged(part, ser),
         used' \in UsedRec,
         UNCHANGED <<upstream, entry, clearing, worker, file>>
  PROVE  DownloadInv'
<1>1. CASE dl.retries = 0
  <2> DEFINE d == [IdleDownload EXCEPT !.pc = "probe", !.retries = 1, !.ctxDone = dl.ctxDone]
  <2>1. dl.ctxDone \in BOOLEAN
    BY DEF DownloadInv, Types, DownloadRec
  <2> HIDE DEF IdleDownload
  <2>2. /\ d \in DownloadRec /\ d.pc = "probe" /\ d.retries = 1
        /\ d.ctxDone = dl.ctxDone /\ d.err = "none"
    <3> DEFINE done == dl.ctxDone
               b == [IdleDownload EXCEPT !.pc = "probe", !.retries = 1, !.ctxDone = done]
    <3>1. done \in BOOLEAN /\ 1 \in 0..1
      BY <2>1
    <3> HIDE DEF done
    <3>2. b \in DownloadRec
      BY <3>1, IdleRecords DEF DownloadRec, Points
    <3>3. b.pc = "probe" /\ b.retries = 1 /\ b.err = "none"
      BY <3>1, IdleRecords DEF DownloadRec, Points
    <3>4. b.ctxDone = done
      BY <3>1, IdleRecords, Zenon DEF DownloadRec, Points
    <3> QED BY <3>2, <3>3, <3>4 DEF done
  <2>3. /\ dl' = d /\ tmp' = NoFile /\ serial' = <<>>
        /\ marks' \subseteq marks
    BY <1>1 DEF ContentChanged, Unmark
  <2> HIDE DEF d, NoFile
  <2>4. NoFile \in FileRec /\ ~tmp'.there
    BY <2>3, IdleRecords
  <2>5. /\ serial' \in Seq(Versions) /\ Len(serial') = 0 /\ 0 <= NChunks
        /\ marks' \subseteq Marks
    BY <2>3, DownloadConstants DEF DownloadInv, Types
  <2>6. Types'
    BY <2>5, <2>2, <2>3, <2>4 DEF DownloadInv, Types
  <2>7. Working'
    BY <2>2, <2>3, <2>4 DEF DownloadInv, Working, AllOff
  <2>8. Matching'
    BY <2>2, <2>3 DEF DownloadInv, Matching, OnlyExpected
  <2>9. Resuming'
    BY <2>2, <2>3, <2>4, MarksTold DEF DownloadInv, Resuming, AllOff
  <2> QED BY <2>6, <2>7, <2>8, <2>9 DEF DownloadInv
<1>2. CASE dl.retries # 0
  <2> HIDE DEF IdleDownload, NoFile
  <2>1. dl' = IdleDownload /\ tmp' = part /\ serial' = ser /\ marks' = marks
    BY <1>2 DEF ContentChanged
  <2>2. dl' \in DownloadRec /\ dl'.pc = "idle" /\ ~dl'.ctxDone /\ tmp' \in FileRec
    BY <2>1, IdleRecords DEF DownloadInv, Types
  <2>3. Types'
    BY <2>1, <2>2 DEF DownloadInv, Types
  <2>4. Working'
    BY <2>1, <2>2 DEF DownloadInv, Working, AllOff
  <2>5. Matching'
    BY <2>1, <2>2 DEF DownloadInv, Matching, OnlyExpected
  <2>6. Resuming'
    BY <2>1, <2>2, IdleRecords, MarksTold DEF DownloadInv, Resuming, AllOff
  <2> QED BY <2>3, <2>4, <2>5, <2>6 DEF DownloadInv
<1> QED BY <1>1, <1>2

(* A goroutine exists only while downloadOnce launches or awaits it. *)
LEMMA NobodyElsewhere ==
  ASSUME DownloadInv, dl.pc \notin {"chunks", "wait"} PROVE AllOff
BY DEF DownloadInv, Working, AllOff

(* The attempt ends; the temporary file of the ranges stays or goes.       *)
LEMMA Dropped ==
  ASSUME DownloadInv, Outlive, dl' = IdleDownload, AllOff, tmp' \in {tmp, NoFile},
         UNCHANGED <<upstream, serial, marks, entry, clearing, worker, file>>, used' \in UsedRec
  PROVE  DownloadInv'
<1> HIDE DEF IdleDownload, NoFile
<1>1. dl' \in DownloadRec /\ dl'.pc = "idle" /\ ~dl'.ctxDone
  BY IdleRecords
<1>2. tmp' \in FileRec /\ (tmp'.there => tmp' = tmp)
  BY IdleRecords DEF DownloadInv, Types
<1>3. Types'
  BY <1>1, <1>2 DEF DownloadInv, Types
<1>4. Working'
  BY <1>1 DEF DownloadInv, Working, AllOff
<1>5. Matching'
  BY <1>1 DEF DownloadInv, Matching, OnlyExpected
<1>6. Resuming'
  BY <1>1, <1>2, MarksTold DEF Resuming, AllOff
<1> QED BY <1>3, <1>4, <1>5, <1>6 DEF DownloadInv

LEMMA StartKeeps ==
  ASSUME DownloadInv, Start, UNCHANGED <<file, stale>> PROVE DownloadInv'
<1> DEFINE d == [IdleDownload EXCEPT !.pc = "probe"]
<1>1. /\ dl.pc = "idle" /\ ~clearing /\ dl' = d
      /\ UNCHANGED <<upstream, tmp, serial, marks, entry, clearing, worker, used>>
  BY DEF Start
<1> HIDE DEF IdleDownload
<1>2. d \in DownloadRec /\ d.pc = "probe" /\ d.retries = 0 /\ ~d.ctxDone
  BY IdleRecords DEF DownloadRec, Points
<1> HIDE DEF d
<1>3. AllOff
  BY <1>1, NobodyElsewhere
<1>4. /\ used' \in UsedRec
      /\ serial' \in Seq(Versions) /\ Len(serial') <= NChunks
  BY <1>1 DEF DownloadInv, Types
<1> QED BY <1>1, <1>2, <1>3, <1>4, Moved

LEMMA SkipHeadKeeps ==
  ASSUME DownloadInv, SkipHead, UNCHANGED file, Outlive PROVE DownloadInv'
<1>1. /\ dl.pc = "probe" /\ Goto("open")
      /\ UNCHANGED <<upstream, tmp, serial, marks, entry, clearing, worker, used>>
  BY DEF SkipHead
<1>2. AllOff
  BY <1>1, NobodyElsewhere
<1>3. /\ dl' \in DownloadRec /\ dl'.pc = "open" /\ dl'.retries = dl.retries
      /\ dl'.ctxDone = dl.ctxDone
  BY <1>1, GotoDoes DEF DownloadInv, Types, Points
<1>4. used' \in UsedRec /\ serial' \in Seq(Versions) /\ Len(serial') <= NChunks
  BY <1>1 DEF DownloadInv, Types
<1> QED BY <1>1, <1>2, <1>3, <1>4, Moved

LEMMA ProbeKeeps ==
  ASSUME DownloadInv, Probe, UNCHANGED file, Outlive PROVE DownloadInv'
<1>1. /\ dl.pc = "probe"
      /\ UNCHANGED <<upstream, tmp, serial, marks, entry, clearing, worker>>
  BY DEF Probe
<1>2. AllOff
  BY <1>1, NobodyElsewhere
<1>3. dl \in DownloadRec /\ used \in UsedRec /\ upstream \in 0..MaxVersion
  BY DownloadConstants DEF DownloadInv, Types, Versions
<1>4. used' \in UsedRec
  BY <1>3, FailCounts DEF Probe
<1>5. /\ dl' \in DownloadRec /\ dl'.pc \in {"open", "connect"} /\ dl'.retries = dl.retries
      /\ dl'.ctxDone = dl.ctxDone
  <2>1. CASE dl' = [dl EXCEPT !.pc = "open", !.url = IF file.redirected THEN "final" ELSE @,
                              !.etag = IF HasETag THEN upstream ELSE 0]
    <3> DEFINE etag == IF HasETag THEN upstream ELSE 0
               url == IF file.redirected THEN "final" ELSE dl.url
    <3>1. etag \in 0..MaxVersion
      BY <1>3, DownloadConstants
    <3>2. url \in {"asked", "final"}
      BY <1>3 DEF DownloadRec
    <3>3. dl' = [dl EXCEPT !.pc = "open", !.url = url, !.etag = etag]
      BY <2>1
    <3> HIDE DEF etag, url
    <3> QED BY <1>3, <3>1, <3>2, <3>3 DEF DownloadRec, Points
  <2>2. CASE Goto("connect")
    BY <1>3, <2>2, GotoDoes DEF Points
  <2> QED BY <2>1, <2>2 DEF Probe
<1>6. /\ serial' \in Seq(Versions) /\ Len(serial') <= NChunks
  BY <1>1, <1>4 DEF DownloadInv, Types
<1> QED BY <1>1, <1>2, <1>4, <1>5, <1>6, Moved

(* The temporary file is opened. *)
LEMMA OpenTmpKeeps ==
  ASSUME DownloadInv, OpenTmp, UNCHANGED file, Outlive PROVE DownloadInv'
<1>1. PICK fresh \in SUBSET {c \in Chunks : <<dl.url, c>> \in marks} :
        dl' = [dl EXCEPT !.pc = "chunks", !.pending = IF Resume THEN Chunks \ fresh ELSE Chunks]
  BY DEF OpenTmp
<1>2. /\ dl.pc = "open" /\ tmp' = IF Resume THEN tmp ELSE EmptyFile
      /\ UNCHANGED <<upstream, serial, marks, entry, clearing, worker, used>>
  BY DEF OpenTmp
<1>3. AllOff
  BY <1>2, NobodyElsewhere
<1>4. dl \in DownloadRec /\ tmp \in FileRec
  BY DEF DownloadInv, Types
<1>5. /\ dl' \in DownloadRec /\ dl'.pc = "chunks" /\ dl'.ctxDone = dl.ctxDone
      /\ dl'.pending = (IF Resume THEN Chunks \ fresh ELSE Chunks) /\ dl'.url = dl.url
  BY <1>1, <1>4 DEF DownloadRec, Points
<1> HIDE DEF EmptyFile
<1>6. tmp' \in FileRec /\ tmp'.there
  BY <1>2, <1>4, IdleRecords DEF Resume
<1>7. Types'
  BY <1>2, <1>5, <1>6 DEF DownloadInv, Types
<1>8. Working'
  BY <1>2, <1>3, <1>5, <1>6 DEF DownloadInv, Working, AllOff
<1>9. Matching'
  BY <1>2, <1>5 DEF DownloadInv, Matching, OnlyExpected
<1>10. ~Resume => ~tmp.there
  <2>1. dl.retries = 1 => ~tmp.there
    BY <1>2 DEF DownloadInv, Working
  <2>2. dl.retries \in 0..1
    BY <1>4 DEF DownloadRec
  <2> QED BY <2>1, <2>2 DEF Resume
<1>11. MarksTell'
  <2>1. Resume => tmp' = tmp
    BY <1>2
  <2>2. marks' = marks /\ stale' = stale \cap marks
    BY <1>2, <1>6 DEF Outlive
  <2>3. MarksTell
    BY DEF DownloadInv, Resuming
  <2> QED BY <1>10, <2>1, <2>2, <2>3 DEF MarksTell
<1>12. \A c \in Chunks : Served(c)'
  <2> SUFFICES ASSUME NEW c \in Chunks, c \notin dl'.pending PROVE Served(c)'
    BY DEF Served
  <2>1. c \in fresh
    BY <1>5
  <2>2. <<dl'.url, c>> \in marks'
    BY <1>2, <1>5, <2>1
  <2> QED BY <1>11, <2>2 DEF MarksTell, Served
<1>13. Resuming'
  BY <1>2, <1>3, <1>11, <1>12 DEF Resuming, AllOff
<1> QED BY <1>7, <1>8, <1>9, <1>13 DEF DownloadInv

LEMMA OpenTmpFailsKeeps ==
  ASSUME DownloadInv, OpenTmpFails, UNCHANGED file, Outlive PROVE DownloadInv'
<1> HIDE DEF IdleDownload, NoFile
<1>1. /\ dl.pc = "open" /\ Fail /\ tmp' \in {tmp, NoFile} /\ dl' = IdleDownload
      /\ UNCHANGED <<upstream, serial, marks, entry, clearing, worker>>
  BY DEF OpenTmpFails
<1>2. AllOff
  BY <1>1, NobodyElsewhere
<1>3. used' \in UsedRec
  BY <1>1, FailCounts DEF DownloadInv, Types
<1> QED BY <1>1, <1>2, <1>3, Dropped

(* The launching loop *)
LEMMA LaunchKeeps ==
  ASSUME DownloadInv, NEW c \in Chunks, Launch(c), UNCHANGED file, Outlive PROVE DownloadInv'
<1> DEFINE w == [IdleWorker EXCEPT !.pc = "gate"]
<1>1. /\ dl.pc = "chunks" /\ worker' = [worker EXCEPT ![c] = w]
      /\ dl' = [dl EXCEPT !.pending = @ \ {c}]
      /\ UNCHANGED <<upstream, tmp, serial, marks, entry, clearing, used>>
  BY DEF Launch
<1> HIDE DEF IdleWorker
<1>2. w \in WorkerRec /\ w.pc = "gate"
  BY IdleRecords DEF WorkerRec
<1> HIDE DEF w
<1>3. /\ worker' \in [Chunks -> WorkerRec] /\ worker'[c].pc = "gate"
      /\ \A d \in Chunks : d # c => worker'[d] = worker[d]
  BY <1>1, <1>2, WorkerSet DEF DownloadInv, Types
<1>4. /\ dl' \in DownloadRec /\ dl'.pc = "chunks" /\ dl'.ctxDone = dl.ctxDone
      /\ dl'.err = dl.err /\ dl'.retries = dl.retries
      /\ dl'.pending = dl.pending \ {c} /\ dl'.url = dl.url
  BY <1>1 DEF DownloadInv, Types, DownloadRec
<1>5. Types'
  BY <1>1, <1>3, <1>4 DEF DownloadInv, Types
<1>6. Working'
  BY <1>1, <1>3, <1>4 DEF DownloadInv, Working
<1>7. Matching'
  BY <1>1, <1>4 DEF DownloadInv, Matching, OnlyExpected
<1>8. \A d \in Chunks : Served(d) => Served(d)'
  BY <1>1, <1>3, <1>4, StaleStays DEF Served, JobDone
<1>9. \A d \in Chunks : worker'[d].pc = "fetched" => worker[d].pc = "fetched"
  BY <1>3
<1>10. Resuming'
  BY <1>1, <1>4, <1>8, <1>9, StaleStays DEF DownloadInv, Resuming
<1> QED BY <1>5, <1>6, <1>7, <1>10 DEF DownloadInv

LEMMA LeaveLoopKeeps ==
  ASSUME DownloadInv, LeaveLoop, UNCHANGED file, Outlive PROVE DownloadInv'
<1>1. /\ dl.pc = "chunks" /\ (JobDone \/ dl.pending = {}) /\ Goto("wait")
      /\ UNCHANGED <<upstream, tmp, serial, marks, entry, clearing, worker, used>>
  BY DEF LeaveLoop
<1>2. /\ dl' \in DownloadRec /\ dl'.pc = "wait" /\ dl'.retries = dl.retries
      /\ dl'.ctxDone = dl.ctxDone /\ dl'.err = dl.err /\ dl'.pending = dl.pending
      /\ dl'.url = dl.url
  BY <1>1, GotoDoes DEF DownloadInv, Types, Points
<1>3. Types'
  BY <1>1, <1>2 DEF DownloadInv, Types
<1>4. Working'
  BY <1>1, <1>2 DEF DownloadInv, Working, JobDone
<1>5. Matching'
  BY <1>1, <1>2 DEF DownloadInv, Matching, OnlyExpected
<1>6. Resuming'
  BY <1>1, <1>2, StaleStays DEF DownloadInv, Resuming, Served, JobDone
<1> QED BY <1>3, <1>4, <1>5, <1>6 DEF DownloadInv
-----------------------------------------------------------------------------
(* The goroutine of a range *)

(* A goroutine moves on and the attempt stays where it is: its range is    *)
(* still served, and what it fetched is there.                             *)
LEMMA Worked ==
  ASSUME DownloadInv, NEW c \in Chunks, worker[c].pc # "off",
         UNCHANGED <<upstream, serial, entry, clearing, file>>,
         tmp' \in FileRec, tmp'.there = tmp.there,
         \A d \in Chunks : tmp.data[d] # {} => tmp'.data[d] # {},
         \/ UNCHANGED <<marks, stale>>
         \/ /\ marks' = marks \cup {<<dl.url, c>>} /\ stale' = stale \ {<<dl.url, c>>}
            /\ worker[c].pc = "fetched",
         worker' \in [Chunks -> WorkerRec], \A d \in Chunks : d # c => worker'[d] = worker[d],
         dl' \in DownloadRec, dl'.pc = dl.pc, dl'.ctxDone = dl.ctxDone,
         dl'.retries = dl.retries, dl'.pending = dl.pending, dl'.url = dl.url,
         dl.err # "none" => dl'.err # "none",
         used' \in UsedRec,
         worker'[c].pc = "fetched" => tmp'.data[c] # {},
         worker'[c].pc = "off" => JobDone' \/ worker[c].pc = "fetched"
  PROVE  DownloadInv'
<1>1. dl.pc \in {"chunks", "wait"} /\ tmp.there
  BY DEF DownloadInv, Working
<1>2. Types'
  <2>1. dl.url \in {"asked", "final"} /\ marks \subseteq Marks
    BY DEF DownloadInv, Types, DownloadRec
  <2>2. marks' \subseteq Marks
    BY <2>1 DEF Marks
  <2> QED BY <1>1, <2>2 DEF DownloadInv, Types
<1>3. JobDone => JobDone'
  BY DEF JobDone
<1>4. Working'
  BY <1>1, <1>3 DEF DownloadInv, Working
<1>5. Matching'
  BY <1>1 DEF DownloadInv, Matching, OnlyExpected
<1>6. worker[c].pc = "fetched" => tmp'.data[c] # {}
  BY DEF DownloadInv, Resuming
<1>7. MarksTell'
  <2>1. MarksTell /\ marks \subseteq Marks
    BY DEF DownloadInv, Resuming, Types
  <2>2. \A m \in marks : m[2] \in Chunks
    BY <2>1 DEF Marks
  <2>3. CASE UNCHANGED <<marks, stale>>
    BY <2>1, <2>2, <2>3 DEF MarksTell
  <2>4. CASE /\ marks' = marks \cup {<<dl.url, c>>} /\ stale' = stale \ {<<dl.url, c>>}
             /\ worker[c].pc = "fetched"
    <3>1. stale' \subseteq marks'
      BY <2>1, <2>4 DEF MarksTell
    <3>2. ASSUME NEW m \in marks' PROVE m \in stale' \/ (tmp'.there /\ tmp'.data[m[2]] # {})
      <4>1. CASE m = <<dl.url, c>>
        BY <1>1, <1>6, <2>4, <4>1
      <4>2. CASE m # <<dl.url, c>>
        BY <2>1, <2>2, <2>4, <4>2 DEF MarksTell
      <4> QED BY <4>1, <4>2
    <3> QED BY <3>1, <3>2 DEF MarksTell
  <2> QED BY <2>3, <2>4
<1>8. \A d \in Chunks : Served(d)'
  <2> SUFFICES ASSUME NEW d \in Chunks PROVE Served(d)'
    OBVIOUS
  <2>1. Served(d)
    BY <1>1 DEF DownloadInv, Resuming
  <2>2. CASE d = c
    BY <1>3, <1>6, <2>1, <2>2 DEF Served
  <2>3. CASE d # c
    <3>1. <<dl.url, d>> \in stale => <<dl'.url, d>> \in stale'
      BY <2>3
    <3> QED BY <1>3, <2>1, <2>3, <3>1 DEF Served
  <2> QED BY <2>2, <2>3
<1>9. Resuming'
  BY <1>6, <1>7, <1>8 DEF DownloadInv, Resuming
<1> QED BY <1>2, <1>4, <1>5, <1>9 DEF DownloadInv

(* setErr *)
LEMMA WorkerFailsDoes ==
  ASSUME Types, NEW c \in Chunks,
         NEW error \in {"cancel", "changed", "transient", "hard"}, WorkerFails(c, error)
  PROVE  /\ worker' \in [Chunks -> WorkerRec] /\ worker'[c].pc = "off"
         /\ \A d \in Chunks : d # c => worker'[d] = worker[d]
         /\ dl' \in DownloadRec /\ dl'.pc = dl.pc /\ dl'.ctxDone = dl.ctxDone
         /\ dl'.retries = dl.retries /\ dl'.pending = dl.pending /\ dl'.url = dl.url
         /\ dl'.err # "none"
<1> HIDE DEF IdleWorker
<1>1. worker' = [worker EXCEPT ![c] = IdleWorker]
  BY DEF WorkerFails
<1> DEFINE err == IF dl.err = "none" THEN error ELSE dl.err
<1>2. err \in {"none", "cancel", "changed", "transient", "hard"} /\ err # "none"
  BY DEF Types, DownloadRec
<1>3. dl' = [dl EXCEPT !.err = err]
  BY DEF WorkerFails
<1> HIDE DEF err
<1>4. /\ dl' \in DownloadRec /\ dl'.pc = dl.pc /\ dl'.ctxDone = dl.ctxDone
      /\ dl'.retries = dl.retries /\ dl'.pending = dl.pending /\ dl'.url = dl.url
      /\ dl'.err # "none"
  BY <1>2, <1>3 DEF Types, DownloadRec
<1>5. /\ worker' \in [Chunks -> WorkerRec] /\ worker'[c].pc = "off"
      /\ \A d \in Chunks : d # c => worker'[d] = worker[d]
  BY <1>1, IdleRecords, WorkerSet DEF Types
<1> QED BY <1>4, <1>5

(* A goroutine fails, maybe after some bytes. *)
LEMMA FailedKeeps ==
  ASSUME DownloadInv, NEW c \in Chunks, worker[c].pc # "off",
         NEW error \in {"cancel", "changed", "transient", "hard"}, WorkerFails(c, error),
         UNCHANGED <<upstream, serial, marks, stale, entry, clearing, file>>,
         tmp' \in FileRec, tmp'.there = tmp.there,
         \A d \in Chunks : tmp.data[d] # {} => tmp'.data[d] # {},
         used' \in UsedRec
  PROVE  DownloadInv'
<1>1. /\ worker' \in [Chunks -> WorkerRec] /\ worker'[c].pc = "off"
      /\ \A d \in Chunks : d # c => worker'[d] = worker[d]
      /\ dl' \in DownloadRec /\ dl'.pc = dl.pc /\ dl'.ctxDone = dl.ctxDone
      /\ dl'.retries = dl.retries /\ dl'.pending = dl.pending /\ dl'.url = dl.url
      /\ dl'.err # "none"
  BY WorkerFailsDoes DEF DownloadInv
<1>2. JobDone'
  BY <1>1 DEF JobDone
<1> QED BY <1>1, <1>2, Worked

LEMMA WorkerGateKeeps ==
  ASSUME DownloadInv, NEW c \in Chunks, WorkerGate(c), UNCHANGED <<file, stale>> PROVE DownloadInv'
<1>1. /\ worker[c].pc = "gate"
      /\ UNCHANGED <<upstream, tmp, serial, marks, entry, clearing, used>>
  BY DEF WorkerGate
<1>2. /\ tmp' \in FileRec /\ used' \in UsedRec
  BY <1>1 DEF DownloadInv, Types
<1>3. CASE WorkerTo(c, "try") /\ UNCHANGED dl
  <2>1. /\ worker' \in [Chunks -> WorkerRec] /\ worker'[c].pc = "try"
        /\ \A d \in Chunks : d # c => worker'[d] = worker[d]
    BY <1>3, WorkerToDoes DEF DownloadInv, Types
  <2>2. dl' \in DownloadRec /\ dl' = dl
    BY <1>3 DEF DownloadInv, Types
  <2> QED BY <1>1, <1>2, <2>1, <2>2, Worked
<1>4. CASE WorkerFails(c, "cancel")
  BY <1>1, <1>2, <1>4, FailedKeeps
<1> QED BY <1>3, <1>4 DEF WorkerGate

LEMMA WorkerTryKeeps ==
  ASSUME DownloadInv, NEW c \in Chunks, WorkerTry(c), UNCHANGED <<file, stale>> PROVE DownloadInv'
<1>1. /\ worker[c].pc = "try"
      /\ UNCHANGED <<upstream, tmp, serial, marks, entry, clearing, dl, used>>
  BY DEF WorkerTry
<1>2. /\ tmp' \in FileRec /\ used' \in UsedRec
      /\ dl' \in DownloadRec /\ (JobDone => JobDone')
  BY <1>1 DEF DownloadInv, Types, JobDone
<1>3. /\ worker' \in [Chunks -> WorkerRec]
      /\ \A d \in Chunks : d # c => worker'[d] = worker[d]
      /\ worker'[c].pc = "fetching" \/ (worker'[c].pc = "off" /\ JobDone)
  <2>1. worker \in [Chunks -> WorkerRec]
    BY DEF DownloadInv, Types
  <2>2. CASE JobDone
    <3> HIDE DEF IdleWorker
    <3>1. worker' = [worker EXCEPT ![c] = IdleWorker]
      BY <2>2 DEF WorkerTry
    <3> QED BY <2>1, <2>2, <3>1, IdleRecords, WorkerSet
  <2>3. CASE ~JobDone
    <3>1. WorkerTo(c, "fetching")
      BY <2>3 DEF WorkerTry, WorkerTo
    <3> QED BY <2>1, <3>1, WorkerToDoes
  <2> QED BY <2>2, <2>3
<1> QED BY <1>1, <1>2, <1>3, Worked

LEMMA FetchChunkKeeps ==
  ASSUME DownloadInv, NEW c \in Chunks, FetchChunk(c), UNCHANGED <<file, stale>> PROVE DownloadInv'
<1> DEFINE data == [tmp.data EXCEPT ![c] = worker[c].got \cup {upstream}]
<1>1. /\ worker[c].pc = "fetching" /\ tmp' = [tmp EXCEPT !.data = data]
      /\ WorkerTo(c, "fetched")
      /\ UNCHANGED <<upstream, serial, marks, entry, clearing, dl, used>>
  BY DEF FetchChunk
<1>2. /\ used' \in UsedRec
      /\ dl' \in DownloadRec
  BY <1>1 DEF DownloadInv, Types
<1>3. /\ data \in [Chunks -> SUBSET Versions] /\ data[c] # {}
      /\ \A d \in Chunks : d # c => data[d] = tmp.data[d]
  BY DEF DownloadInv, Types, FileRec, WorkerRec
<1> HIDE DEF data
<1>4. tmp' \in FileRec /\ tmp'.there = tmp.there /\ tmp'.data = data
  BY <1>1, <1>3 DEF DownloadInv, Types, FileRec
<1>5. /\ worker' \in [Chunks -> WorkerRec] /\ worker'[c].pc = "fetched"
      /\ \A d \in Chunks : d # c => worker'[d] = worker[d]
  BY <1>1, WorkerToDoes DEF DownloadInv, Types
<1>6. \A d \in Chunks : tmp.data[d] # {} => tmp'.data[d] # {}
  BY <1>3, <1>4
<1>7. tmp'.data[c] # {}
  BY <1>3, <1>4
<1> QED BY <1>1, <1>2, <1>4, <1>5, <1>6, <1>7, Worked

LEMMA FetchBreaksKeeps ==
  ASSUME DownloadInv, NEW c \in Chunks, FetchBreaks(c), UNCHANGED <<file, stale>> PROVE DownloadInv'
<1>1. PICK bytes \in SUBSET {upstream} :
        /\ tmp' = [tmp EXCEPT !.data[c] = IF @ = {} THEN {} ELSE @ \cup bytes]
        /\ \/ /\ worker[c].attempt + 1 < MaxAttempts
              /\ worker' = [worker EXCEPT ![c] =
                              [pc |-> "try", attempt |-> @.attempt + 1,
                               got |-> @.got \cup bytes]]
              /\ UNCHANGED dl
           \/ WorkerFails(c, "transient")
           \/ WorkerFails(c, "hard")
  BY Zenon DEF FetchBreaks
<1>2. /\ worker[c].pc = "fetching" /\ Fail
      /\ UNCHANGED <<upstream, serial, marks, entry, clearing>>
  BY DEF FetchBreaks
<1>3. /\ used' \in UsedRec
  BY <1>2, FailCounts DEF DownloadInv, Types
<1> DEFINE range == IF tmp.data[c] = {} THEN {} ELSE tmp.data[c] \cup bytes
           data == [tmp.data EXCEPT ![c] = range]
<1>4. range \in SUBSET Versions /\ (tmp.data[c] # {} => range # {})
  BY DEF DownloadInv, Types, FileRec
<1>5. tmp' = [tmp EXCEPT !.data = data]
  BY <1>1
<1> HIDE DEF range
<1>6. /\ data \in [Chunks -> SUBSET Versions] /\ data[c] = range
      /\ \A d \in Chunks : d # c => data[d] = tmp.data[d]
  BY <1>4 DEF DownloadInv, Types, FileRec
<1> HIDE DEF data
<1>7. tmp' \in FileRec /\ tmp'.there = tmp.there /\ tmp'.data = data
  BY <1>5, <1>6 DEF DownloadInv, Types, FileRec
<1>8. \A d \in Chunks : tmp.data[d] # {} => tmp'.data[d] # {}
  BY <1>4, <1>6, <1>7
<1>9. CASE /\ worker[c].attempt + 1 < MaxAttempts
           /\ worker' = [worker EXCEPT ![c] =
                           [pc |-> "try", attempt |-> @.attempt + 1,
                            got |-> @.got \cup bytes]]
           /\ UNCHANGED dl
  <2> DEFINE w == [pc |-> "try", attempt |-> worker[c].attempt + 1,
                   got |-> worker[c].got \cup bytes]
  <2>1. worker[c].attempt \in 0..(MaxAttempts - 1) /\ worker[c].got \in SUBSET Versions
    BY DEF DownloadInv, Types, WorkerRec
  <2>2. worker[c].attempt + 1 \in 0..(MaxAttempts - 1)
    BY <1>9, <2>1, DownloadConstants
  <2>3. worker[c].got \cup bytes \in SUBSET Versions
    BY <2>1 DEF DownloadInv, Types
  <2>4. w \in WorkerRec /\ w.pc = "try"
    BY <2>2, <2>3 DEF WorkerRec
  <2>5. worker' = [worker EXCEPT ![c] = w]
    BY <1>9
  <2> HIDE DEF w
  <2>6. /\ worker' \in [Chunks -> WorkerRec] /\ worker'[c].pc = "try"
        /\ \A d \in Chunks : d # c => worker'[d] = worker[d]
    BY <2>4, <2>5, WorkerSet DEF DownloadInv, Types
  <2>7. dl' \in DownloadRec /\ dl' = dl
    BY <1>9 DEF DownloadInv, Types
  <2> QED BY <1>2, <1>3, <1>7, <1>8, <2>6, <2>7, Worked
<1>10. ASSUME NEW error \in {"transient", "hard"}, WorkerFails(c, error) PROVE DownloadInv'
  BY <1>2, <1>3, <1>7, <1>8, <1>10, FailedKeeps
<1> QED BY <1>1, <1>9, <1>10

LEMMA FetchRefusedKeeps ==
  ASSUME DownloadInv, NEW c \in Chunks, FetchRefused(c), UNCHANGED <<file, stale>>
  PROVE  DownloadInv'
<1>1. /\ worker[c].pc = "fetching"
      /\ UNCHANGED <<upstream, tmp, serial, marks, entry, clearing, used>>
  BY DEF FetchRefused
<1>2. tmp' \in FileRec /\ used' \in UsedRec
  BY <1>1 DEF DownloadInv, Types
<1>3. ASSUME NEW error \in {"cancel", "changed"}, WorkerFails(c, error) PROVE DownloadInv'
  BY <1>1, <1>2, <1>3, FailedKeeps
<1> QED BY <1>3 DEF FetchRefused

LEMMA MarkChunksKeeps ==
  ASSUME DownloadInv, NEW c \in Chunks, MarkChunks(c), UNCHANGED file PROVE DownloadInv'
<1> HIDE DEF IdleWorker
<1>1. /\ worker[c].pc = "fetched" /\ marks' = marks \cup {<<dl.url, c>>}
      /\ stale' = stale \ {<<dl.url, c>>}
      /\ worker' = [worker EXCEPT ![c] = IdleWorker]
      /\ UNCHANGED <<upstream, tmp, serial, entry, clearing, dl, used>>
  BY DEF MarkChunks
<1>2. /\ tmp' \in FileRec /\ used' \in UsedRec
      /\ dl' \in DownloadRec
  BY <1>1 DEF DownloadInv, Types
<1>3. /\ worker' \in [Chunks -> WorkerRec] /\ worker'[c].pc = "off"
      /\ \A d \in Chunks : d # c => worker'[d] = worker[d]
  BY <1>1, IdleRecords, WorkerSet DEF DownloadInv, Types
<1> QED BY <1>1, <1>2, <1>3, Worked
-----------------------------------------------------------------------------
(* The attempt after its goroutines *)

(* The attempt goes on with the temporary file as it is. *)
LEMMA Passed ==
  ASSUME DownloadInv, Outlive, NEW p \in {"verify", "put"}, Goto(p), AllOff,
         dl.pc \in {"wait", "verify"}, dl.err = "none",
         p = "put" => Verified(tmp.data),
         UNCHANGED <<upstream, tmp, serial, marks, entry, clearing, worker, used, file>>
  PROVE  DownloadInv'
<1>1. /\ dl' \in DownloadRec /\ dl'.pc = p /\ dl'.retries = dl.retries
      /\ dl'.ctxDone = dl.ctxDone /\ dl'.err = dl.err /\ dl'.pending = dl.pending
      /\ dl'.url = dl.url
  BY GotoDoes DEF DownloadInv, Types, Points
<1>2. Types'
  BY <1>1 DEF DownloadInv, Types
<1>3. Working'
  BY <1>1 DEF DownloadInv, Working, AllOff, JobDone
<1>4. Matching'
  BY <1>1 DEF DownloadInv, Matching, OnlyExpected, Verified
<1>5. Resuming'
  BY <1>1, StaleStays DEF DownloadInv, Resuming, Served, JobDone, AllOff
<1> QED BY <1>2, <1>3, <1>4, <1>5 DEF DownloadInv

(* The attempt ends and leaves the temporary file of the ranges. *)
LEMMA Ended ==
  ASSUME DownloadInv, Outlive, dl' = IdleDownload, AllOff,
         UNCHANGED <<upstream, tmp, marks, entry, clearing, worker, file>>,
         serial' \in Seq(Versions), Len(serial') <= NChunks,
         used' \in UsedRec
  PROVE  DownloadInv'
<1> HIDE DEF IdleDownload
<1>1. /\ dl' \in DownloadRec /\ dl'.pc = "idle" /\ ~dl'.ctxDone /\ dl'.retries = 0
  BY IdleRecords
<1> QED BY <1>1, Moved

LEMMA AfterWaitKeeps ==
  ASSUME DownloadInv, AfterWait, UNCHANGED file, Outlive PROVE DownloadInv'
<1>1. /\ dl.pc = "wait" /\ AllOff
      /\ UNCHANGED <<upstream, entry, clearing, worker, used>>
  BY DEF AfterWait
<1>2. /\ used' \in UsedRec
      /\ serial \in Seq(Versions) /\ Len(serial) <= NChunks
  BY <1>1 DEF DownloadInv, Types
<1>3. CASE dl.err = "none"
  <2>1. Goto("verify") /\ UNCHANGED <<tmp, serial, marks>>
    BY <1>3 DEF AfterWait
  <2> QED BY <1>1, <1>3, <2>1, Passed
<1>4. CASE dl.err = "changed"
  <2>1. ContentChanged(tmp, serial)
    BY <1>4 DEF AfterWait
  <2> QED BY <1>1, <1>2, <2>1, Changed
<1>5. ASSUME dl' = [dl EXCEPT !.pc = "connect", !.err = "none"], UNCHANGED <<tmp, serial, marks>>
      PROVE  DownloadInv'
  <2>1. dl' \in DownloadRec /\ dl'.pc = "connect" /\ dl'.ctxDone = dl.ctxDone
    BY <1>5 DEF DownloadInv, Types, DownloadRec, Points
  <2> QED BY <1>1, <1>2, <1>5, <2>1, Moved
<1>6. ASSUME dl' = IdleDownload, UNCHANGED <<tmp, serial, marks>> PROVE DownloadInv'
  BY <1>1, <1>2, <1>6, Ended
<1>7. CASE dl.err = "transient"
  <2>1. /\ \/ dl' = [dl EXCEPT !.pc = "connect", !.err = "none"]
           \/ dl' = IdleDownload
        /\ UNCHANGED <<tmp, serial, marks>>
    BY <1>7 DEF AfterWait
  <2> QED BY <1>5, <1>6, <2>1
<1>8. CASE dl.err \notin {"none", "changed", "transient"}
  <2>1. dl' = IdleDownload /\ UNCHANGED <<tmp, serial, marks>>
    BY <1>8 DEF AfterWait
  <2> QED BY <1>6, <2>1
<1> QED BY <1>3, <1>4, <1>7, <1>8

LEMMA VerifyKeeps ==
  ASSUME DownloadInv, Verify, UNCHANGED file, Outlive PROVE DownloadInv'
<1>1. dl.pc = "verify" /\ UNCHANGED <<upstream, entry, clearing, worker>>
  BY DEF Verify
<1>2. AllOff
  BY <1>1, NobodyElsewhere
<1>3. /\ serial \in Seq(Versions) /\ Len(serial) <= NChunks /\ dl.err = "none"
      /\ used \in UsedRec
  BY <1>1 DEF DownloadInv, Types, Working
<1>4. CASE Verified(tmp.data) /\ Goto("put") /\ UNCHANGED <<tmp, serial, marks, used>>
  BY <1>1, <1>2, <1>3, <1>4, Passed
<1>5. CASE ContentChanged(NoFile, serial) /\ UNCHANGED used
  BY <1>1, <1>2, <1>3, <1>5, Changed
<1>6. CASE Fail /\ ContentChanged(tmp, serial)
  <2>1. used' \in UsedRec
    BY <1>3, <1>6, FailCounts
  <2> QED BY <1>1, <1>2, <1>3, <1>6, <2>1, Changed
<1> QED BY <1>4, <1>5, <1>6 DEF Verify

LEMMA PutKeeps ==
  ASSUME DownloadInv, Put, UNCHANGED file, Outlive PROVE DownloadInv'
<1> HIDE DEF IdleDownload, NoFile
<1>1. dl.pc = "put" /\ UNCHANGED <<upstream, serial, marks, clearing, worker>>
  BY DEF Put
<1>2. AllOff
  BY <1>1, NobodyElsewhere
<1>3. CASE ~clearing /\ entry' = [there |-> TRUE, data |-> tmp.data] /\ tmp' = NoFile
           /\ Goto("unmark") /\ UNCHANGED used
  <2>1. /\ dl' \in DownloadRec /\ dl'.pc = "unmark" /\ dl'.ctxDone = dl.ctxDone
    BY <1>3, GotoDoes DEF DownloadInv, Types, Points
  <2>2. entry' \in FileRec /\ entry'.there /\ entry'.data = tmp.data
    BY <1>3 DEF DownloadInv, Types, FileRec
  <2>3. tmp' \in FileRec /\ ~tmp'.there
    BY <1>3, IdleRecords
  <2>4. Types'
    BY <1>1, <1>3, <2>1, <2>2, <2>3 DEF DownloadInv, Types
  <2>5. Working'
    BY <1>1, <1>2, <2>1, <2>3 DEF DownloadInv, Working, AllOff
  <2>6. Matching'
    BY <1>1, <2>1, <2>2 DEF DownloadInv, Matching, OnlyExpected
  <2>7. Resuming'
    BY <1>1, <1>2, <2>1, <2>3, MarksTold DEF Resuming, AllOff
  <2> QED BY <2>4, <2>5, <2>6, <2>7 DEF DownloadInv
<1>4. CASE dl' = IdleDownload /\ tmp' \in {tmp, NoFile} /\ UNCHANGED entry
           /\ (Fail \/ UNCHANGED used)
  <2>1. used' \in UsedRec
    BY <1>4, FailCounts DEF DownloadInv, Types
  <2> QED BY <1>1, <1>2, <1>4, <2>1, Dropped
<1> QED BY <1>3, <1>4 DEF Put

LEMMA ClearChunksKeeps ==
  ASSUME DownloadInv, ClearChunks, UNCHANGED file, Outlive PROVE DownloadInv'
<1> HIDE DEF IdleDownload
<1>1. /\ dl.pc = "unmark" /\ marks' \subseteq marks /\ dl' = IdleDownload
      /\ UNCHANGED <<upstream, tmp, serial, entry, clearing, worker, used>>
  BY DEF ClearChunks, Unmark
<1>2. AllOff
  BY <1>1, NobodyElsewhere
<1>3. dl' \in DownloadRec /\ dl'.pc = "idle" /\ ~dl'.ctxDone
  BY <1>1, IdleRecords
<1>4. Types'
  BY <1>1, <1>3 DEF DownloadInv, Types
<1>5. Working'
  BY <1>1, <1>2, <1>3 DEF DownloadInv, Working, AllOff
<1>6. Matching'
  BY <1>1, <1>3 DEF DownloadInv, Matching, OnlyExpected
<1>7. MarksTell'
  <2>1. MarksTell
    BY DEF DownloadInv, Resuming
  <2> QED BY <1>1, <2>1 DEF MarksTell, Outlive
<1>8. Resuming'
  BY <1>1, <1>2, <1>3, <1>7 DEF Resuming, AllOff
<1> QED BY <1>4, <1>5, <1>6, <1>8 DEF DownloadInv

-----------------------------------------------------------------------------
(* The serial download *)

LEMMA SerialConnectKeeps ==
  ASSUME DownloadInv, SerialConnect, UNCHANGED file, Outlive PROVE DownloadInv'
<1>1. dl.pc = "connect" /\ UNCHANGED <<upstream, entry, clearing, worker, used>>
  BY DEF SerialConnect
<1>2. AllOff
  BY <1>1, NobodyElsewhere
<1>3. /\ used' \in UsedRec
      /\ serial \in Seq(Versions) /\ Len(serial) <= NChunks
  BY <1>1 DEF DownloadInv, Types
<1>4. <<>> \in Seq(Versions) /\ Len(<<>>) <= NChunks
  BY DownloadConstants
<1>5. CASE SerialDead /\ UNCHANGED tmp
  BY <1>1, <1>2, <1>3, <1>4, <1>5, Ended DEF SerialDead
<1>6. CASE ContentChanged(tmp, <<>>)
  BY <1>1, <1>2, <1>3, <1>4, <1>6, Changed
<1>7. CASE serial' \in {serial, <<>>} /\ dl' = [dl EXCEPT !.pc = "serial", !.conn = upstream]
           /\ UNCHANGED <<tmp, marks>>
  <2>1. upstream \in 0..MaxVersion /\ upstream # 0
    BY DownloadConstants DEF DownloadInv, Types, Versions
  <2>2. /\ dl' \in DownloadRec /\ dl'.pc = "serial" /\ dl'.conn = upstream
        /\ dl'.ctxDone = dl.ctxDone
    BY <1>7, <2>1 DEF DownloadInv, Types, DownloadRec, Points
  <2>3. serial' \in Seq(Versions) /\ Len(serial') <= NChunks
    BY <1>3, <1>4, <1>7
  <2> QED BY <1>1, <1>2, <1>3, <1>7, <2>1, <2>2, <2>3, Moved
<1> QED BY <1>5, <1>6, <1>7 DEF SerialConnect

LEMMA SerialReadKeeps ==
  ASSUME DownloadInv, SerialRead, UNCHANGED file, Outlive PROVE DownloadInv'
<1>1. /\ dl.pc = "serial" /\ Len(serial) < NChunks /\ serial' = Append(serial, dl.conn)
      /\ UNCHANGED <<upstream, tmp, marks, entry, clearing, dl, worker, used>>
  BY DEF SerialRead
<1>2. AllOff
  BY <1>1, NobodyElsewhere
<1>3. dl.conn \in Versions
  BY <1>1, DownloadConstants DEF DownloadInv, Types, DownloadRec, Versions
<1>4. serial' \in Seq(Versions) /\ Len(serial') <= NChunks
  BY <1>1, <1>3, DownloadConstants DEF DownloadInv, Types
<1>5. /\ used' \in UsedRec /\ dl' \in DownloadRec
      /\ dl'.conn # 0
  BY <1>1 DEF DownloadInv, Types
<1> QED BY <1>1, <1>2, <1>4, <1>5, Moved

LEMMA SerialBreaksKeeps ==
  ASSUME DownloadInv, SerialBreaks, UNCHANGED file, Outlive PROVE DownloadInv'
<1>1. dl.pc = "serial" /\ UNCHANGED <<upstream, tmp, entry, clearing, worker>>
  BY DEF SerialBreaks
<1>2. AllOff
  BY <1>1, NobodyElsewhere
<1>3. used' \in UsedRec
  BY FailCounts DEF DownloadInv, Types, SerialBreaks
<1>4. /\ serial \in Seq(Versions) /\ Len(serial) <= NChunks
      /\ <<>> \in Seq(Versions) /\ Len(<<>>) <= NChunks
  BY DownloadConstants DEF DownloadInv, Types
<1>5. CASE SerialDead
  BY <1>1, <1>2, <1>3, <1>4, <1>5, Ended DEF SerialDead
<1>6. CASE /\ ~dl.ctxDone /\ dl.attempt + 1 < MaxAttempts
           /\ dl' = [dl EXCEPT !.pc = "connect", !.attempt = @ + 1]
           /\ UNCHANGED <<serial, marks>>
  <2>1. dl.attempt + 1 \in 0..(MaxAttempts - 1)
    BY <1>6, DownloadConstants DEF DownloadInv, Types, DownloadRec
  <2>2. dl' \in DownloadRec /\ dl'.pc = "connect" /\ dl'.ctxDone = dl.ctxDone
    BY <1>6, <2>1 DEF DownloadInv, Types, DownloadRec, Points
  <2> QED BY <1>1, <1>2, <1>3, <1>4, <1>6, <2>2, Moved
<1> QED BY <1>5, <1>6 DEF SerialBreaks

LEMMA SerialPutKeeps ==
  ASSUME DownloadInv, SerialPut, UNCHANGED file, Outlive PROVE DownloadInv'
<1> HIDE DEF IdleDownload
<1> DEFINE data == [c \in Chunks |-> IF c <= Len(serial) THEN {serial[c]} ELSE {}]
<1>1. /\ dl.pc = "serial" /\ UNCHANGED <<upstream, clearing, worker>>
      /\ \/ ~Verified(data) /\ ContentChanged(tmp, <<>>) /\ UNCHANGED <<entry, used>>
         \/ /\ Verified(data)
            /\ entry' = IF clearing THEN entry ELSE [there |-> TRUE, data |-> data]
            /\ SerialDead /\ UNCHANGED <<tmp, used>>
         \/ Fail /\ SerialDead /\ UNCHANGED <<tmp, entry>>
  BY DEF SerialPut
<1>2. AllOff
  BY <1>1, NobodyElsewhere
<1>3. /\ used \in UsedRec /\ serial \in Seq(Versions) /\ Len(serial) <= NChunks
      /\ <<>> \in Seq(Versions) /\ Len(<<>>) <= NChunks
  BY DownloadConstants DEF DownloadInv, Types
<1>4. data \in [Chunks -> SUBSET Versions]
  <2>1. ASSUME NEW c \in Chunks
        PROVE  (IF c <= Len(serial) THEN {serial[c]} ELSE {}) \in SUBSET Versions
    <3>1. c \in Nat /\ 1 <= c
      BY DownloadConstants DEF Chunks
    <3>2. c <= Len(serial) => serial[c] \in Versions
      BY <1>3, <3>1
    <3> QED BY <3>2
  <2> QED BY <2>1
<1> HIDE DEF data
<1>5. CASE ~Verified(data) /\ ContentChanged(tmp, <<>>) /\ UNCHANGED <<entry, used>>
  BY <1>1, <1>2, <1>3, <1>5, Changed
<1>6. CASE Fail /\ SerialDead /\ UNCHANGED <<tmp, entry>>
  <2>1. used' \in UsedRec
    BY <1>3, <1>6, FailCounts
  <2> QED BY <1>1, <1>2, <1>3, <1>6, <2>1, Ended DEF SerialDead
<1>7. CASE /\ Verified(data)
           /\ entry' = IF clearing THEN entry ELSE [there |-> TRUE, data |-> data]
           /\ SerialDead /\ UNCHANGED <<tmp, used>>
  <2>1. serial' = <<>> /\ dl' = IdleDownload /\ UNCHANGED <<tmp, marks>>
    BY <1>7 DEF SerialDead
  <2>2. file.digestKnown => \A c \in Chunks : data[c] = {1}
    BY <1>7 DEF Verified
  <2>3. /\ entry' \in FileRec
        /\ entry' = entry \/ (entry'.there /\ entry'.data = data)
    BY <1>4, <1>7 DEF DownloadInv, Types, FileRec
  <2>4. dl' \in DownloadRec /\ dl'.pc = "idle" /\ ~dl'.ctxDone
    BY <2>1, IdleRecords
  <2>5. Types'
    BY <1>1, <1>3, <1>7, <2>1, <2>3, <2>4 DEF DownloadInv, Types
  <2>6. Working'
    BY <1>1, <1>2, <2>4 DEF DownloadInv, Working, AllOff
  <2>7. Matching'
    BY <2>2, <2>3, <2>4 DEF DownloadInv, Matching, OnlyExpected
  <2>8. Resuming'
    BY <1>1, <1>2, <2>1, <2>4, StaleStays DEF Resuming, AllOff
  <2> QED BY <2>5, <2>6, <2>7, <2>8 DEF DownloadInv
<1> QED BY <1>1, <1>5, <1>6, <1>7

-----------------------------------------------------------------------------
(* What happens to a download *)

(* Only the caller's context or the cached file is touched.                *)
LEMMA Touched ==
  ASSUME DownloadInv, Outlive, dl' \in DownloadRec, dl'.pc = dl.pc, dl'.conn = dl.conn,
         dl'.url = dl.url, dl'.retries = dl.retries, dl'.pending = dl.pending, dl'.err = dl.err,
         dl.ctxDone => dl'.ctxDone, dl'.ctxDone => dl'.pc # "idle",
         entry' \in FileRec, entry' = entry \/ ~entry'.there, clearing' \in BOOLEAN,
         UNCHANGED <<upstream, tmp, serial, marks, worker, file>>, used' \in UsedRec
  PROVE  DownloadInv'
<1>1. JobDone => JobDone'
  BY DEF JobDone
<1>2. Types'
  BY DEF DownloadInv, Types
<1>3. Working'
  BY <1>1 DEF DownloadInv, Working
<1>4. Matching'
  BY DEF DownloadInv, Matching, OnlyExpected
<1>5. \A c \in Chunks : Served(c) => Served(c)'
  BY <1>1, StaleStays DEF Served
<1>6. Resuming'
  BY <1>5, StaleStays DEF DownloadInv, Resuming
<1> QED BY <1>2, <1>3, <1>4, <1>6 DEF DownloadInv

(* A disturbance is counted. *)
LEMMA SpentIn ==
  ASSUME DownloadInv, NEW max,
         NEW kind \in {"cancels", "restarts", "evictions", "clears"}, Spend(kind, max)
  PROVE  used' \in UsedRec
BY SpendCounts DEF DownloadInv, Types

LEMMA CancelKeeps ==
  ASSUME DownloadInv, Cancel, UNCHANGED file, Outlive PROVE DownloadInv'
<1>1. /\ dl.pc # "idle" /\ Spend("cancels", MaxCancels) /\ dl' = [dl EXCEPT !.ctxDone = TRUE]
      /\ UNCHANGED <<upstream, tmp, serial, marks, entry, clearing, worker>>
  BY DEF Cancel
<1>2. /\ dl' \in DownloadRec /\ dl'.pc = dl.pc /\ dl'.conn = dl.conn /\ dl'.ctxDone
      /\ dl'.retries = dl.retries /\ dl'.pending = dl.pending /\ dl'.err = dl.err
      /\ dl'.url = dl.url
  BY <1>1 DEF DownloadInv, Types, DownloadRec
<1>3. used' \in UsedRec
  BY <1>1, SpentIn
<1>4. entry' \in FileRec /\ clearing' \in BOOLEAN
  BY <1>1 DEF DownloadInv, Types
<1> QED BY <1>1, <1>2, <1>3, <1>4, Touched

LEMMA RestartKeeps ==
  ASSUME DownloadInv, Restart, UNCHANGED file, Outlive PROVE DownloadInv'
<1> HIDE DEF IdleDownload, IdleWorker, NoFile
<1>1. /\ Spend("restarts", MaxRestarts) /\ dl' = IdleDownload
      /\ worker' = [c \in Chunks |-> IdleWorker]
      /\ tmp' = NoFile /\ serial' = <<>> /\ clearing' = FALSE
      /\ UNCHANGED <<upstream, marks, entry>>
  BY DEF Restart
<1>2. /\ dl' \in DownloadRec /\ dl'.pc = "idle" /\ ~dl'.ctxDone
      /\ tmp' \in FileRec /\ ~tmp'.there
  BY <1>1, IdleRecords
<1>3. worker' \in [Chunks -> WorkerRec] /\ \A c \in Chunks : worker'[c].pc = "off"
  BY <1>1, IdleRecords
<1>4. used' \in UsedRec
  BY <1>1, SpentIn
<1>5. serial' \in Seq(Versions) /\ Len(serial') <= NChunks
  BY <1>1, DownloadConstants
<1>6. Types'
  BY <1>1, <1>2, <1>3, <1>4, <1>5 DEF DownloadInv, Types
<1>7. Working'
  BY <1>2, <1>3 DEF Working
<1>8. Matching'
  BY <1>1, <1>2 DEF DownloadInv, Matching, OnlyExpected
<1>9. Resuming'
  BY <1>1, <1>2, <1>3, MarksTold DEF Resuming
<1> QED BY <1>6, <1>7, <1>8, <1>9 DEF DownloadInv

LEMMA EvictKeeps ==
  ASSUME DownloadInv, Evict, UNCHANGED file, Outlive PROVE DownloadInv'
<1> HIDE DEF NoFile
<1>1. /\ entry' = NoFile /\ Spend("evictions", MaxEvictions)
      /\ UNCHANGED <<upstream, tmp, serial, marks, clearing, dl, worker>>
  BY DEF Evict
<1>2. entry' \in FileRec /\ ~entry'.there
  BY <1>1, IdleRecords
<1>3. used' \in UsedRec
  BY <1>1, SpentIn
<1>4. /\ dl' \in DownloadRec /\ clearing' \in BOOLEAN
      /\ dl'.ctxDone => dl'.pc # "idle"
  BY <1>1 DEF DownloadInv, Types, Working
<1> QED BY <1>1, <1>2, <1>3, <1>4, Touched

LEMMA BeginClearKeeps ==
  ASSUME DownloadInv, BeginClear, UNCHANGED file, Outlive PROVE DownloadInv'
<1>1. PICK aborted \in BOOLEAN :
        dl' = [dl EXCEPT !.ctxDone = @ \/ (aborted /\ dl.pc # "idle")]
  BY DEF BeginClear
<1>2. /\ clearing' = TRUE /\ Spend("clears", MaxClears)
      /\ UNCHANGED <<upstream, tmp, serial, marks, entry, worker>>
  BY DEF BeginClear
<1>3. /\ dl' \in DownloadRec /\ dl'.pc = dl.pc /\ dl'.conn = dl.conn /\ dl'.url = dl.url
      /\ dl'.retries = dl.retries /\ dl'.pending = dl.pending /\ dl'.err = dl.err
      /\ dl.ctxDone => dl'.ctxDone
      /\ dl'.ctxDone => dl'.pc # "idle"
  <2> DEFINE done == dl.ctxDone \/ (aborted /\ dl.pc # "idle")
  <2>1. /\ done \in BOOLEAN /\ (dl.ctxDone => done)
        /\ done => dl.pc # "idle"
    BY DEF DownloadInv, Types, DownloadRec, Working
  <2>2. dl' = [dl EXCEPT !.ctxDone = done]
    BY <1>1
  <2> HIDE DEF done
  <2>3. /\ dl' \in DownloadRec /\ dl'.pc = dl.pc /\ dl'.conn = dl.conn /\ dl'.url = dl.url
        /\ dl'.retries = dl.retries /\ dl'.pending = dl.pending /\ dl'.err = dl.err
    BY <2>1, <2>2 DEF DownloadInv, Types, DownloadRec
  <2>4. dl'.ctxDone = done
    BY <2>1, <2>2 DEF DownloadInv, Types, DownloadRec
  <2> QED BY <2>1, <2>3, <2>4
<1>4. used' \in UsedRec
  BY <1>2, SpentIn
<1>5. entry' \in FileRec /\ clearing' \in BOOLEAN
  BY <1>2 DEF DownloadInv, Types
<1> QED BY <1>2, <1>3, <1>4, <1>5, Touched

LEMMA FinishClearKeeps ==
  ASSUME DownloadInv, FinishClear, UNCHANGED file, Outlive PROVE DownloadInv'
<1> HIDE DEF NoFile
<1>1. /\ dl.pc = "idle" /\ entry' = NoFile /\ marks' \subseteq marks
      /\ tmp' = NoFile /\ clearing' = FALSE
      /\ UNCHANGED <<upstream, serial, dl, worker, used>>
  BY DEF FinishClear
<1>2. AllOff
  BY <1>1, NobodyElsewhere
<1>3. entry' \in FileRec /\ ~entry'.there /\ tmp' \in FileRec /\ ~tmp'.there
  BY <1>1, IdleRecords
<1>4. Types'
  BY <1>1, <1>3 DEF DownloadInv, Types
<1>5. Working'
  BY <1>1, <1>2 DEF DownloadInv, Working, AllOff
<1>6. Matching'
  BY <1>1, <1>3 DEF Matching, OnlyExpected
<1>7. Resuming'
  BY <1>1, <1>2, <1>3, MarksTold DEF Resuming, AllOff
<1> QED BY <1>4, <1>5, <1>6, <1>7 DEF DownloadInv

LEMMA UpstreamChangeKeeps ==
  ASSUME DownloadInv, UpstreamChange, UNCHANGED file, Outlive PROVE DownloadInv'
<1>1. /\ upstream < MaxVersion /\ upstream' = upstream + 1
      /\ UNCHANGED <<tmp, serial, marks, entry, clearing, dl, worker, used>>
  BY DEF UpstreamChange
<1>2. upstream' \in Versions
  BY <1>1, DownloadConstants DEF DownloadInv, Types, Versions
<1>3. Types'
  BY <1>1, <1>2 DEF DownloadInv, Types
<1>4. Working' /\ Matching'
  BY <1>1 DEF DownloadInv, Working, JobDone, Matching, OnlyExpected
<1>5. Resuming'
  BY <1>1, StaleStays DEF DownloadInv, Resuming, Served, JobDone
<1> QED BY <1>3, <1>4, <1>5 DEF DownloadInv

-----------------------------------------------------------------------------
(* The invariant *)

LEMMA InitDownload == Init => DownloadInv
<1> SUFFICES ASSUME Init PROVE DownloadInv
  OBVIOUS
<1> HIDE DEF IdleDownload, IdleWorker, NoFile
<1>1. /\ upstream = 1 /\ file \in Files /\ tmp = NoFile /\ serial = <<>> /\ marks = {} /\ stale = {}
      /\ entry = NoFile /\ clearing = FALSE /\ dl = IdleDownload
      /\ worker = [c \in Chunks |-> IdleWorker]
      /\ used = [failures |-> 0, cancels |-> 0, restarts |-> 0, evictions |-> 0, clears |-> 0]
  BY DEF Init
<1>2. dl \in DownloadRec /\ dl.pc = "idle" /\ ~dl.ctxDone
  BY <1>1, IdleRecords
<1>3. worker \in [Chunks -> WorkerRec] /\ \A c \in Chunks : worker[c].pc = "off"
  BY <1>1, IdleRecords
<1>4. tmp \in FileRec /\ ~tmp.there /\ entry \in FileRec /\ ~entry.there
  BY <1>1, IdleRecords
<1>5. used \in UsedRec
  BY <1>1 DEF UsedRec
<1>6. upstream \in Versions /\ serial \in Seq(Versions) /\ Len(serial) <= NChunks
  BY <1>1, DownloadConstants DEF Versions
<1>7. Types
  BY <1>1, <1>2, <1>3, <1>4, <1>5, <1>6 DEF Types
<1>8. Working
  BY <1>2, <1>3 DEF Working
<1>9. Matching
  BY <1>2, <1>4 DEF Matching, OnlyExpected
<1>10. Resuming
  BY <1>1, <1>2, <1>3, <1>4 DEF Resuming, MarksTell
<1> QED BY <1>7, <1>8, <1>9, <1>10 DEF DownloadInv

LEMMA DownloadStepKeeps == ASSUME DownloadInv, DownloadStep PROVE DownloadInv'
<1>1. UNCHANGED file /\ Outlive
  BY DEF DownloadStep
<1>2. CASE SkipHead \/ Probe \/ OpenTmp \/ OpenTmpFails \/ LeaveLoop
  BY <1>1, <1>2, SkipHeadKeeps, ProbeKeeps, OpenTmpKeeps, OpenTmpFailsKeeps, LeaveLoopKeeps
<1>3. CASE AfterWait \/ Verify \/ Put \/ ClearChunks
  BY <1>1, <1>3, AfterWaitKeeps, VerifyKeeps, PutKeeps, ClearChunksKeeps
<1>4. CASE SerialConnect \/ SerialRead \/ SerialBreaks \/ SerialPut
  BY <1>1, <1>4, SerialConnectKeeps, SerialReadKeeps, SerialBreaksKeeps, SerialPutKeeps
<1>5. CASE \E c \in Chunks : Launch(c)
  BY <1>1, <1>5, LaunchKeeps
<1> QED BY <1>2, <1>3, <1>4, <1>5 DEF DownloadStep

LEMMA WorkerStepKeeps ==
  ASSUME DownloadInv, NEW c \in Chunks, WorkerStep(c) PROVE DownloadInv'
<1>1. UNCHANGED file
  BY DEF WorkerStep
<1>2. CASE UNCHANGED stale /\ (WorkerGate(c) \/ WorkerTry(c) \/ FetchChunk(c))
  BY <1>1, <1>2, WorkerGateKeeps, WorkerTryKeeps, FetchChunkKeeps
<1>3. CASE UNCHANGED stale /\ (FetchBreaks(c) \/ FetchRefused(c))
  BY <1>1, <1>3, FetchBreaksKeeps, FetchRefusedKeeps
<1>4. CASE MarkChunks(c)
  BY <1>1, <1>4, MarkChunksKeeps
<1> QED BY <1>2, <1>3, <1>4 DEF WorkerStep

LEMMA DisturbanceKeeps == ASSUME DownloadInv, Disturbance PROVE DownloadInv'
<1>1. UNCHANGED file /\ Outlive
  BY DEF Disturbance
<1>2. CASE Cancel \/ Restart \/ Evict
  BY <1>1, <1>2, CancelKeeps, RestartKeeps, EvictKeeps
<1>3. CASE BeginClear \/ FinishClear \/ UpstreamChange
  BY <1>1, <1>3, BeginClearKeeps, FinishClearKeeps, UpstreamChangeKeeps
<1> QED BY <1>2, <1>3 DEF Disturbance

(* Nothing happens: a request that finds the file, or a stutter. *)
LEMMA StutterKeeps == ASSUME DownloadInv, UNCHANGED vars PROVE DownloadInv'
BY DEF vars, DownloadInv, Types, Working, JobDone, Matching, OnlyExpected,
       Resuming, MarksTell, Served

LEMMA DownloadKept == ASSUME DownloadInv, [Next]_vars PROVE DownloadInv'
<1>1. CASE Start /\ UNCHANGED <<file, stale>>
  BY <1>1, StartKeeps
<1>2. CASE Hit \/ UNCHANGED vars
  BY <1>2, StutterKeeps DEF Hit
<1>3. CASE DownloadStep
  BY <1>3, DownloadStepKeeps
<1>4. CASE \E c \in Chunks : WorkerStep(c)
  BY <1>4, WorkerStepKeeps
<1>5. CASE Disturbance
  BY <1>5, DisturbanceKeeps
<1> QED BY <1>1, <1>2, <1>3, <1>4, <1>5 DEF Next

(* A file with a known digest is cached only as the expected content:      *)
(* what Verify has seen is not written to until Put moves it, and the      *)
(* serial download is compared before it is moved.                         *)
THEOREM CachedMatchesDigestHolds == Spec => []CachedMatchesDigest
<1>1. Init => DownloadInv
  BY InitDownload
<1>2. DownloadInv /\ [Next]_vars => DownloadInv'
  BY DownloadKept
<1>3. DownloadInv => TypeOK
  BY DEF DownloadInv, Types, TypeOK, DownloadRec, Points, WorkerRec, Marks, Resuming, MarksTell
<1>4. DownloadInv => CachedMatchesDigest
  BY <1>3 DEF DownloadInv, Matching, CachedMatchesDigest
<1> QED BY <1>1, <1>2, <1>4, PTL DEF Spec

(* What Put moves into the cache is served range by range. *)
LEMMA PutIsWhole ==
  ASSUME DownloadInv, dl.pc = "put", ~dl.ctxDone, NEW c \in Chunks, tmp.data[c] = {}
  PROVE  <<dl.url, c>> \in stale
<1>1. AllOff
  BY NobodyElsewhere
<1>2. ~JobDone /\ dl.pending = {}
  BY DEF DownloadInv, Working, JobDone
<1>3. Served(c)
  BY DEF DownloadInv, Resuming
<1> QED BY <1>1, <1>2, <1>3 DEF Served, AllOff

(* A download whose length is known or stated is whole or not cached. *)
LEMMA SerialIsWhole ==
  ASSUME DownloadInv, SerialPut, entry' # entry, entry'.there, file.length # "unstated"
  PROVE  \A c \in Chunks : entry'.data[c] # {}
<1> HIDE DEF IdleDownload, NoFile
<1> DEFINE data == [c \in Chunks |-> IF c <= Len(serial) THEN {serial[c]} ELSE {}]
<1>1. entry' = [there |-> TRUE, data |-> data]
  BY DEF SerialPut
<1>2. Len(serial) = NChunks
  BY DEF SerialPut
<1>3. \A c \in Chunks : c <= NChunks
  BY DownloadConstants DEF Chunks
<1>4. \A c \in Chunks : data[c] = {serial[c]}
  BY <1>2, <1>3
<1> QED BY <1>1, <1>4

(* What an attempt caches has a hole only if the attempt was cancelled, if *)
(* the mark of that range had outlived its temporary file, or at the end   *)
(* of a body whose length was neither known nor stated: downloadOnce       *)
(* launches every range without a mark, and an attempt one of whose ranges *)
(* has failed does not reach Put.                                          *)
THEOREM ResumedIsWholeHolds == Spec => ResumedIsWhole
<1> DEFINE Excused(c) == \/ dl.ctxDone
                         \/ <<dl.url, c>> \in stale
                         \/ dl.pc = "serial" /\ file.length = "unstated"
           Step == entry'.there /\ entry' # entry =>
                     \A c \in Chunks : entry'.data[c] = {} => Excused(c)
<1>1. Init => DownloadInv
  BY InitDownload
<1>2. DownloadInv /\ [Next]_vars => DownloadInv'
  BY DownloadKept
<1>3. DownloadInv /\ [Next]_vars => Step
  <2> SUFFICES ASSUME DownloadInv, [Next]_vars, entry'.there, entry' # entry,
                      NEW c \in Chunks, entry'.data[c] = {}
               PROVE  Excused(c)
    OBVIOUS
  <2>1. Put \/ SerialPut
    <3>1. ~NoFile.there
      BY DEF NoFile
    <3>2. ~(Start \/ Hit \/ UNCHANGED vars)
      BY DEF Start, Hit, vars
    <3>3. ~(\E d \in Chunks : WorkerStep(d))
      BY DEF WorkerStep, WorkerGate, WorkerTry, FetchChunk, FetchBreaks, FetchRefused, MarkChunks
    <3>4. ~Disturbance
      <4> HIDE DEF NoFile
      <4> QED BY <3>1 DEF Disturbance, Cancel, Restart, Evict, BeginClear, FinishClear,
                          UpstreamChange
    <3>5. DownloadStep
      BY <3>2, <3>3, <3>4 DEF Next
    <3>6. ~(SkipHead \/ Probe \/ OpenTmp \/ OpenTmpFails \/ LeaveLoop \/ AfterWait \/ Verify
            \/ ClearChunks \/ SerialConnect \/ SerialRead \/ SerialBreaks
            \/ \E d \in Chunks : Launch(d))
      BY DEF SkipHead, Probe, OpenTmp, OpenTmpFails, LeaveLoop, AfterWait, Verify, ClearChunks,
             SerialConnect, SerialRead, SerialBreaks, Launch
    <3> QED BY <3>5, <3>6 DEF DownloadStep
  <2>2. CASE Put
    <3>1. dl.pc = "put" /\ entry' = [there |-> TRUE, data |-> tmp.data]
      BY <2>2 DEF Put
    <3> QED BY <3>1, PutIsWhole
  <2>3. CASE SerialPut
    <3>1. dl.pc = "serial"
      BY <2>3 DEF SerialPut
    <3> QED BY <2>3, <3>1, SerialIsWhole
  <2> QED BY <2>1, <2>2, <2>3
<1> QED BY <1>1, <1>2, <1>3, PTL DEF Spec, ResumedIsWhole

-----------------------------------------------------------------------------
(* The interactive download, which MCStreamDownload names S *)

(* Until the file is handed over, the client and the file are in step and  *)
(* the running hash is theirs or spoilt.                                   *)
InStep ==
  phase \in {"start", "connect", "copy", "finish"} =>
    /\ client = copy /\ Len(copy) = sent
    /\ hash \in {S!Wrong, copy}

(* The header is written before the first block; the blocks are in place   *)
(* and of the version of the header's ETag.                                *)
InPlace ==
  /\ phase = "start" => ~header
  /\ sent > 0 => header
  /\ header /\ request.etags => identity # 0
  /\ phase = "copy" =>
       /\ tries < MaxResume
       /\ header /\ body.next = sent + 1
       /\ request.etags => body.version = identity
  /\ \A i \in DOMAIN client :
       client[i][2] = i /\ (request.etags => client[i][1] = identity)

(* What is about to be cached has passed the checks; what is cached had.   *)
Checked(f) ==
  /\ f = client
  /\ request.sized => Len(f) = Length
  /\ digest => f = S!Expected

ReadyToPut ==
  /\ phase \in {"start", "connect", "copy", "finish"} => digest = (request.digest # "none")
  /\ ~digest => request.digest = "none" \/ (request.digest = "integrity" /\ ~request.docker)
  /\ phase = "put" => copy = S!Wrong \/ Checked(copy)
  /\ stored # <<>> => phase = "done" /\ Checked(stored)

StreamInv == S!TypeOK /\ InStep /\ InPlace /\ ReadyToPut

(* The parameters are positive numbers. *)
LEMMA StreamParameters ==
  /\ Length \in Nat /\ Publications \in Nat /\ MaxResume \in Nat
  /\ Length > 0 /\ Publications > 0 /\ MaxResume > 0
BY StreamConstants DEF StreamConstants, S!StreamConstants

(* The published content is a sequence of blocks and not the marker.       *)
LEMMA ExpectedFacts ==
  /\ S!Expected \in Seq(S!Blocks) /\ S!Wrong \in Seq(S!Blocks)
  /\ S!Expected # S!Wrong
BY StreamParameters DEF S!Expected, S!Whole, S!Wrong, S!Blocks

(* The initial state satisfies the invariant. *)
LEMMA InitStreams == S!Init => StreamInv
<1> SUFFICES ASSUME S!Init PROVE StreamInv
  OBVIOUS
<1> USE StreamParameters
<1>1. S!TypeOK
  <2>1. body \in [version : 1..Publications, next : 1..(Length + 1)]
    BY DEF S!Init
  <2>2. {hash, client, copy, stored} \subseteq Seq(S!Blocks)
    BY DEF S!Init
  <2>3. published \in 1..Publications /\ tries \in 0..MaxResume
        /\ identity \in 0..Publications /\ sent \in 0..Length
    BY DEF S!Init
  <2>4. request \in S!Requests /\ {header, stop, digest} \subseteq BOOLEAN
        /\ phase \in {"start", "connect", "copy", "finish", "put", "done", "failed"}
    BY DEF S!Init
  <2> QED BY <2>1, <2>2, <2>3, <2>4 DEF S!TypeOK
<1>2. InStep
  BY DEF S!Init, InStep
<1>3. InPlace
  BY DEF S!Init, InPlace
<1>4. ReadyToPut
  BY DEF S!Init, ReadyToPut
<1> QED BY <1>1, <1>2, <1>3, <1>4 DEF StreamInv

(* A block that is copied keeps the three in step and in place. *)
LEMMA CopyBlockKeeps == StreamInv /\ S!CopyBlock => StreamInv'
<1> SUFFICES ASSUME StreamInv, S!CopyBlock PROVE StreamInv'
  OBVIOUS
<1> USE StreamParameters
<1>1. /\ body.version \in 1..Publications /\ body.next = sent + 1 /\ sent < Length
      /\ sent \in 0..Length /\ S!Block \in S!Blocks
      /\ client \in Seq(S!Blocks) /\ copy = client /\ Len(client) = sent
      /\ hash \in {S!Wrong, copy} /\ header
      /\ request.etags => body.version = identity
  BY SMTT(30) DEF StreamInv, S!TypeOK, InStep, InPlace, S!CopyBlock, S!Block, S!Blocks
<1>2. S!TypeOK'
  <2>1. {hash', client', copy', stored'} \subseteq Seq(S!Blocks)
    BY <1>1, ExpectedFacts DEF StreamInv, S!TypeOK, S!CopyBlock, S!Hash
  <2>2. body' \in [version : 1..Publications, next : 1..(Length + 1)]
    <3>1. /\ body' = [body EXCEPT !.next = @ + 1]
          /\ body \in [version : 1..Publications, next : 1..(Length + 1)]
          /\ body.next + 1 \in 1..(Length + 1)
      BY SMTT(30), <1>1 DEF StreamInv, S!TypeOK, S!CopyBlock
    <3> QED BY <3>1
  <2>3. sent' \in 0..Length
    BY <1>1 DEF S!CopyBlock
  <2> QED BY <2>1, <2>2, <2>3 DEF StreamInv, S!TypeOK, S!CopyBlock
<1>3. InStep'
  BY <1>1 DEF InStep, S!CopyBlock, S!Hash
<1>4. InPlace'
  <2>1. ASSUME NEW i \in DOMAIN client'
        PROVE  client'[i][2] = i /\ (request.etags => client'[i][1] = identity)
    <3>1. CASE i \in DOMAIN client
      BY <1>1, <3>1 DEF StreamInv, InPlace, S!CopyBlock
    <3>2. CASE i = Len(client) + 1
      BY <1>1, <3>2 DEF S!CopyBlock, S!Block
    <3> QED BY <1>1, <2>1, <3>1, <3>2 DEF S!CopyBlock
  <2>2. body'.next = sent' + 1 /\ body'.version = body.version
    BY <1>1 DEF StreamInv, S!TypeOK, S!CopyBlock
  <2> QED BY <1>1, <2>1, <2>2 DEF StreamInv, InPlace, S!CopyBlock
<1>5. ReadyToPut'
  BY DEF StreamInv, ReadyToPut, S!CopyBlock
<1> QED BY <1>2, <1>3, <1>4, <1>5 DEF StreamInv

(* An answer continues where the file ends, in the same version. *)
LEMMA ConnectedKeeps == StreamInv /\ S!Connected => StreamInv'
<1> SUFFICES ASSUME StreamInv, S!Connected PROVE StreamInv'
  OBVIOUS
<1> USE StreamParameters
<1>1. body' = [version |-> published, next |-> sent + 1]
  BY DEF S!Connected, S!FirstBlock
<1>2. S!TypeOK'
  BY <1>1 DEF StreamInv, S!TypeOK, S!Connected, S!Goto, S!copies
<1>3. InStep'
  BY DEF StreamInv, InStep, S!Connected, S!Goto, S!copies
<1>4. InPlace'
  <2>1. identity' # identity => client = <<>>
    BY DEF StreamInv, S!TypeOK, InStep, InPlace, S!Connected, S!Goto
  <2>2. request.etags => identity' = published /\ identity' # 0
    BY DEF StreamInv, S!TypeOK, InPlace, S!Connected, S!SameContent
  <2> QED BY <1>1, <2>1, <2>2 DEF StreamInv, S!TypeOK, InPlace, S!Connected, S!Goto, S!copies
<1>5. ReadyToPut'
  BY DEF StreamInv, ReadyToPut, S!Connected, S!Goto, S!copies
<1> QED BY <1>2, <1>3, <1>4, <1>5 DEF StreamInv

(* Only a file with the known digest and length comes before Put. *)
LEMMA FinishKeeps == StreamInv /\ S!Finish => StreamInv'
<1> SUFFICES ASSUME StreamInv, S!Finish PROVE StreamInv'
  OBVIOUS
<1> USE StreamParameters
<1>1. S!TypeOK'
  BY ExpectedFacts DEF StreamInv, S!TypeOK, S!Finish
<1>2. InStep'
  BY DEF InStep, S!Finish
<1>3. InPlace'
  BY DEF StreamInv, InPlace, S!Finish
<1>4. ReadyToPut'
  <2>1. copy = client /\ Len(copy) = sent /\ hash \in {S!Wrong, copy}
    BY DEF StreamInv, InStep, S!Finish
  <2>2. /\ stored = <<>> /\ stored' = <<>> /\ digest = (request.digest # "none")
        /\ UNCHANGED <<request, client>>
    BY DEF StreamInv, ReadyToPut, S!Finish
  <2>3. CASE S!Full /\ S!Genuine /\ phase' = "put" /\ UNCHANGED <<copy, digest>>
    <3>1. digest => copy = S!Expected
      BY <2>1, <2>2, <2>3, ExpectedFacts DEF StreamInv, S!TypeOK, S!Requests, S!Genuine
    <3>2. request.sized => Len(copy) = Length
      BY <2>1, <2>3 DEF S!Full
    <3> QED BY <2>1, <2>2, <2>3, <3>1, <3>2 DEF StreamInv, ReadyToPut, Checked
  <2>4. CASE /\ S!Full /\ request.digest = "integrity" /\ ~request.docker
             /\ phase' = "put" /\ digest' = FALSE /\ copy' \in {copy, S!Wrong}
    <3>1. request.sized => Len(copy) = Length
      BY <2>1, <2>4 DEF S!Full
    <3> QED BY <2>1, <2>2, <2>4, <3>1 DEF ReadyToPut, Checked
  <2>5. CASE phase' = "failed" /\ UNCHANGED <<copy, digest>>
    BY <2>2, <2>5 DEF StreamInv, ReadyToPut
  <2> QED BY <2>3, <2>4, <2>5 DEF S!Finish
<1> QED BY <1>1, <1>2, <1>3, <1>4 DEF StreamInv

(* The other steps do not touch the bytes, or end the request. *)
LEMMA OtherStreamStepsKeep ==
  ASSUME StreamInv,
         S!Start \/ S!Refused \/ S!ClientWriteFails \/ S!FileWriteFails \/ S!CopyBreaks
           \/ S!CopyEnds \/ S!Put \/ S!Stop \/ S!Publish \/ UNCHANGED S!vars
  PROVE  StreamInv'
<1> USE StreamParameters
<1>1. CASE S!Start
  BY <1>1 DEF StreamInv, S!TypeOK, InStep, InPlace, ReadyToPut, Checked, S!Start, S!Goto, S!copies
<1>2. CASE S!Refused
  BY <1>2 DEF StreamInv, S!TypeOK, InStep, InPlace, ReadyToPut, Checked, S!Refused, S!Retry, S!Goto,
              S!copies
<1>3. CASE S!ClientWriteFails
  <2>1. S!TypeOK'
    <3>1. hash' \in Seq(S!Blocks) /\ UNCHANGED <<client, copy, stored, body, request>>
      BY <1>3, ExpectedFacts DEF S!ClientWriteFails
    <3>2. tries' \in 0..MaxResume
      BY <1>3 DEF StreamInv, S!TypeOK, InPlace, S!ClientWriteFails, S!Retry, S!Goto
    <3>3. phase' \in {"connect", "failed"}
          /\ UNCHANGED <<published, identity, header, stop, digest, sent>>
      BY <1>3 DEF S!ClientWriteFails, S!Retry, S!Goto
    <3>4. {hash', client', copy', stored'} \subseteq Seq(S!Blocks)
      BY <3>1 DEF StreamInv, S!TypeOK
    <3> QED BY <3>1, <3>2, <3>3, <3>4 DEF StreamInv, S!TypeOK
  <2>2. InStep' /\ InPlace' /\ ReadyToPut'
    BY <1>3 DEF StreamInv, InStep, InPlace, ReadyToPut, Checked, S!ClientWriteFails, S!Retry, S!Goto
  <2> QED BY <2>1, <2>2 DEF StreamInv
<1>4. CASE S!FileWriteFails
  <2>1. /\ body.version \in 1..Publications /\ body.next = Len(client) + 1
        /\ body.next \in 1..Length
        /\ client \in Seq(S!Blocks) /\ (request.etags => body.version = identity)
    BY <1>4 DEF StreamInv, S!TypeOK, InStep, InPlace, S!FileWriteFails, S!Goto
  <2>2. S!TypeOK'
    <3>1. S!Block \in S!Blocks
      BY <1>4, <2>1 DEF S!Block, S!Blocks
    <3>2. hash' \in Seq(S!Blocks) /\ client' \in Seq(S!Blocks)
      BY <1>4, <2>1, <3>1, ExpectedFacts DEF StreamInv, S!TypeOK, S!FileWriteFails, S!Hash
    <3>3. phase' = "failed" /\ UNCHANGED <<request, published, tries, body, identity, header,
                                           sent, copy, stop, digest, stored>>
      BY <1>4 DEF S!FileWriteFails, S!Goto
    <3>4. {hash', client', copy', stored'} \subseteq Seq(S!Blocks)
      BY <3>2, <3>3 DEF StreamInv, S!TypeOK
    <3> QED BY <3>3, <3>4 DEF StreamInv, S!TypeOK
  <2>3. \A i \in DOMAIN client' :
          client'[i][2] = i /\ (request.etags => client'[i][1] = identity)
    <3>1. client' = Append(client, S!Block)
      BY <1>4 DEF S!FileWriteFails
    <3> QED BY <2>1, <3>1 DEF StreamInv, InPlace, S!Block
  <2>4. InStep' /\ InPlace' /\ ReadyToPut'
    BY <1>4, <2>3 DEF StreamInv, InStep, InPlace, ReadyToPut, S!FileWriteFails, S!Goto
  <2> QED BY <2>2, <2>4 DEF StreamInv
<1>5. CASE S!CopyBreaks
  BY <1>5 DEF StreamInv, S!TypeOK, InStep, InPlace, ReadyToPut, Checked, S!CopyBreaks,
              S!Retry, S!Goto, S!copies
<1>6. CASE S!CopyEnds
  BY <1>6 DEF StreamInv, S!TypeOK, InStep, InPlace, ReadyToPut, Checked, S!CopyEnds, S!Goto,
              S!copies
<1>7. CASE S!Put
  BY <1>7 DEF StreamInv, S!TypeOK, InStep, InPlace, ReadyToPut, Checked, S!Put, S!Goto, S!copies
<1>8. CASE S!Stop
  BY <1>8 DEF StreamInv, S!TypeOK, InStep, InPlace, ReadyToPut, Checked, S!Stop, S!copies
<1>9. CASE S!Publish
  BY <1>9 DEF StreamInv, S!TypeOK, InStep, InPlace, ReadyToPut, Checked, S!Publish, S!copies
<1>10. CASE UNCHANGED S!vars
  BY <1>10 DEF StreamInv, S!TypeOK, InStep, InPlace, ReadyToPut, Checked, S!vars
<1> QED BY <1>1, <1>2, <1>3, <1>4, <1>5, <1>6, <1>7, <1>8, <1>9, <1>10

(* The strengthened invariant holds of every execution. *)
LEMMA StreamInvHolds == S!Spec => []StreamInv
<1>1. StreamInv /\ [S!Next]_(S!vars) => StreamInv'
  BY CopyBlockKeeps, ConnectedKeeps, FinishKeeps, OtherStreamStepsKeep DEF S!Next, S!Step
<1> QED BY InitStreams, <1>1, PTL DEF S!Spec

(* The state of a stream keeps its types. *)
THEOREM StreamTypeCorrect == StreamSpec => []StreamTypeOK
<1>1. StreamInv => StreamTypeOK
  BY DEF StreamInv, S!TypeOK, StreamTypeOK
<1> QED BY StreamInvHolds, <1>1, PTL DEF StreamSpec

(* A resumption asks for the rest from where both client and file are.     *)
THEOREM ResumesWhereItStoppedHolds == StreamSpec => []S!ResumesWhereItStopped
<1>1. StreamInv => S!ResumesWhereItStopped
  BY DEF StreamInv, InStep, S!ResumesWhereItStopped
<1> QED BY StreamInvHolds, <1>1, PTL DEF StreamSpec

(* The client gets blocks in place, of one version where there are ETags.  *)
THEOREM ClientGetsOneFileHolds == StreamSpec => []ClientGetsOneFile
<1>1. StreamInv => ClientGetsOneFile
  BY DEF StreamInv, InPlace, S!ClientGetsOneFile, ClientGetsOneFile
<1> QED BY StreamInvHolds, <1>1, PTL DEF StreamSpec

(* What is cached with its digest has this digest, and a file of Docker or *)
(* one whose digest was computed on the way is not cached without it.      *)
THEOREM CachedIsGenuineHolds == StreamSpec => []CachedIsGenuine
<1>1. StreamInv => CachedIsGenuine
  BY DEF StreamInv, ReadyToPut, Checked, S!CachedIsGenuine, CachedIsGenuine
<1> QED BY StreamInvHolds, <1>1, PTL DEF StreamSpec

(* What is cached is what the first client got, to its length.             *)
THEOREM CachedIsWhatWasSentHolds == StreamSpec => []CachedIsWhatWasSent
<1>1. StreamInv => CachedIsWhatWasSent
  BY DEF StreamInv, ReadyToPut, Checked, S!CachedIsWhatWasSent, CachedIsWhatWasSent
<1> QED BY StreamInvHolds, <1>1, PTL DEF StreamSpec
=============================================================================
