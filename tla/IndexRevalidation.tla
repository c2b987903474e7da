--------------------------- MODULE IndexRevalidation ---------------------------
(***************************************************************************)
(* An index in the proxy: handleIndex and doRevalidation                   *)
(* (internal/proxy/proxy_index.go), FetchSimpleIndex of the prefetch       *)
(* (internal/downloader/proxy_fetch.go), and PutBytes of the cache.  A     *)
(* fresh copy is a hit.  An expired one is revalidated, once for all who   *)
(* ask at the same time: if the upstream confirms it, its time to live is  *)
(* renewed, else each of those who asked puts the new body into the cache. *)
(* Without a copy the index is fetched by each on his own.                 *)
(*                                                                         *)
(* A body is the version the upstream published, 0 when it is empty, Torn  *)
(* when it is a part of one or a mixture of two; if the upstream sends     *)
(* ETags, that of version v is v, else it is 0.  The file of a copy is     *)
(* named by the request that created it: content and name of a file are    *)
(* kept apart, because PutBytes opens the one temporary name of its key    *)
(* and may write into a file that another request is about to move, or has *)
(* made the copy.  Rewriting the body and matching the client's own ETag   *)
(* change no state; one index and one Accept variant are modelled, others  *)
(* have keys of their own; reading a file that is there does not fail.     *)
(***************************************************************************)
EXTENDS Naturals, FiniteSets

CONSTANTS
  Requests,      \* GET and HEAD of clients, calls of FetchSimpleIndex
  Setups,        \* who asks, and whether the upstream sends ETags (and then
                 \* understands If-None-Match)
  None, First,   \* no file; the file of the copy that is there at the start
  MaxVersion,    \* versions 1..n are published one after the other
  MaxBreaks      \* bound on failures, empty and silent answers and deletions

ASSUME IndexConstants ==
  /\ IsFiniteSet(Requests)
  /\ Setups \subseteq
       [kind : [Requests -> {"GET", "HEAD", "prefetch"}], etags : BOOLEAN]
  /\ None \notin Requests /\ First \notin Requests /\ First # None
  /\ MaxVersion \in Nat \ {0} /\ MaxBreaks \in Nat

VARIABLES
  setup,     \* which of Setups it is
  upstream,  \* the version it publishes now
  entry,     \* the copy: is it in meta.db; its file (or None, even if it is),
             \* upstream_etag, not yet expired
  content,   \* of each file
  tmp,       \* the file with PutBytes' temporary name
  staged,    \* the file each request writes or has moved next to its destination
  req,       \* where each request is, the copy it read, the body it got
  reval,     \* each request's revalidation, if it started one
  running,   \* s.revalLocks[key]: who started the revalidation in progress
  answer,    \* of each request: the cache label, and whether the body was current
             \* at some time since the upstream was asked
  met,       \* history: PutBytes of two bodies overlapped; an empty body came;
             \* a body or its metadata could not be written; a copy that is to
             \* be revalidated was read torn
  had,       \* history: requests that have had a copy all the time
  used       \* breaks so far (bound)

fileVars == <<entry, content, tmp, staged>>
revalVars == <<reval, running>>
vars == <<setup, upstream, fileVars, req, revalVars, answer, met, had, used>>

Files == Requests \cup {First}
Torn == MaxVersion + 1
TagOf(v) == IF setup.etags THEN v ELSE 0
Break == used < MaxBreaks /\ used' = used + 1

NoEntry == [meta |-> FALSE, file |-> None, tag |-> 0, fresh |-> FALSE]

(* The copy is there and not empty *)
Readable(e, c) == e.file # None /\ c[e.file] # 0
Body == content[entry.file]

(* A reader that meets a writer of the file may get a part of it. *)
BeingWritten(f) == \E r \in Requests : req[r].pc = "write" /\ staged[r] = f
Seen == {Body} \cup {b \in {Torn} : BeingWritten(entry.file)}

(* A whole version, published when it was asked for or later *)
Current(body, base) == body \in base..MaxVersion

Of(kind) == {r \in Requests : setup.kind[r] = kind}

Idle(pc) == [pc |-> pc, body |-> 0, tag |-> 0, leader |-> None]

Init ==
  /\ setup \in Setups
  /\ upstream = 1
  /\ \E there, fresh \in BOOLEAN :
       entry = IF there THEN [meta |-> TRUE, file |-> First, tag |-> TagOf(1),
                              fresh |-> fresh]
               ELSE NoEntry
  /\ content = [f \in Files |-> IF f = First THEN 1 ELSE 0]
  /\ tmp = None
  /\ staged = [r \in Requests |-> None]
  /\ req = [r \in Requests |-> Idle("new")]
  /\ reval = [r \in Requests |-> [pc |-> "off", base |-> 0, result |-> "none",
                                  body |-> 0]]
  /\ running = None
  /\ answer = [r \in Requests |-> [label |-> "none", current |-> TRUE]]
  /\ met = [bodies |-> FALSE, empty |-> FALSE, failed |-> FALSE, torn |-> FALSE]
  /\ had = {}
  /\ used = 0

Goto(r, from, to) == req[r].pc = from /\ req' = [req EXCEPT ![r].pc = to]

Answered(r, label, current) ==
  /\ req' = [req EXCEPT ![r] = Idle("done")]
  /\ answer' = [answer EXCEPT ![r] = [label |-> label, current |-> current]]

(* serveCachedIndex refuses an empty body *)
FromCache(r, label, body) ==
  Answered(r, IF body = 0 THEN "refused" ELSE label, FALSE)

(* ReadAll; HEAD and GET read a fresh copy alike.  Open drops the metadata  *)
(* of one whose file is gone.                                               *)
Arrive(r) ==
  /\ req[r].pc = "new"
  /\ IF entry.fresh /\ entry.file # None
     THEN \E body \in Seen : FromCache(r, "hit", body)
     ELSE Goto(r, "new", "miss") /\ UNCHANGED answer
  /\ entry' = IF entry.fresh /\ entry.file = None THEN NoEntry ELSE entry
  /\ had' = IF Readable(entry, content) THEN had \cup {r} ELSE had
  /\ UNCHANGED <<setup, upstream, content, tmp, staged, revalVars, met, used>>

(* ReadAllStale after a failure: the copy that is there now, or an error *)
FallBack(r) ==
  IF entry.file # None THEN \E body \in Seen : FromCache(r, "stale", body)
  ELSE Answered(r, "refused", FALSE)

(* No credentials for the upstream *)
AuthFails(r) ==
  /\ r \notin Of("prefetch") /\ req[r].pc = "miss" /\ Break
  /\ FallBack(r)
  /\ UNCHANGED <<setup, upstream, fileVars, revalVars, met, had>>

(* ReadAllStale: HEAD is content with an expired copy *)
ReadStale(r) ==
  /\ r \notin Of("prefetch") /\ req[r].pc = "miss"
  /\ entry.file # None
  /\ \E body \in Seen :
       IF r \in Of("HEAD")
       THEN FromCache(r, "stale", body) /\ UNCHANGED met
       ELSE /\ req' = [req EXCEPT ![r] = [@ EXCEPT !.pc = "stale", !.body = body,
                                                   !.tag = entry.tag]]
            /\ met' = [met EXCEPT !.torn = @ \/ body = Torn]
            /\ UNCHANGED answer
  /\ UNCHANGED <<setup, upstream, fileVars, revalVars, had, used>>

NoCopy(r) ==
  /\ r \in Of("prefetch") \/ entry.file = None
  /\ Goto(r, "miss", "full")
  /\ UNCHANGED <<setup, upstream, fileVars, revalVars, answer, met, had, used>>

-----------------------------------------------------------------------------
(* doRevalidation *)

(* LoadOrStore: follow the revalidation in progress or start one *)
Join(r) ==
  /\ req[r].pc = "stale"
  /\ IF running # None
     THEN /\ req' = [req EXCEPT ![r].pc = "wait", ![r].leader = running]
          /\ UNCHANGED revalVars
     ELSE /\ req' = [req EXCEPT ![r].pc = "wait", ![r].leader = r]
          /\ running' = r
          /\ reval' = [reval EXCEPT ![r].base = upstream,
                ![r].pc = IF req[r].body = 0 THEN "forget"
                          ELSE IF req[r].tag # 0 THEN "head" ELSE "get"]
  /\ UNCHANGED <<setup, upstream, fileVars, answer, met, had, used>>

(* Mutant: any answer to the conditional request counts as a confirmation *)
NotModifiedAlways(r) == TRUE

NotModified(r) == req[r].tag = upstream

(* The conditional HEAD *)
Condition(r) ==
  /\ reval[r].pc = "head"
  /\ \/ reval' = [reval EXCEPT ![r].pc = IF NotModified(r) THEN "renew" ELSE "get"]
        /\ UNCHANGED used
     \/ reval' = [reval EXCEPT ![r].pc = "get"] /\ Break
  /\ UNCHANGED <<setup, upstream, fileVars, req, running, answer, met, had>>

(* The body of the answer comes to a halt and is waited for: with           *)
(* context.Background(), and neither client nor reader with a time limit.   *)
BodyHalts(r) ==
  /\ reval[r].pc = "get" /\ Break
  /\ reval' = [reval EXCEPT ![r].pc = "silent"]
  /\ UNCHANGED <<setup, upstream, fileVars, req, running, answer, met, had>>

(* The whole index, compared with the copy *)
Compare(r) ==
  /\ reval[r].pc = "get"
  /\ \/ /\ IF upstream = req[r].body
           THEN reval' = [reval EXCEPT ![r].pc = "renew"]
           ELSE reval' = [reval EXCEPT ![r] =
                  [@ EXCEPT !.pc = "forget", !.result = "changed", !.body = upstream]]
        /\ UNCHANGED used
     \/ reval' = [reval EXCEPT ![r].pc = "forget"] /\ Break  \* failed, empty, or of no type
  /\ UNCHANGED <<setup, upstream, fileVars, req, running, answer, met, had>>

(* RenewTTL renews whichever copy is in meta.db now *)
Renew(r) ==
  /\ reval[r].pc = "renew"
  /\ \/ /\ entry.meta
        /\ entry' = [entry EXCEPT !.fresh = TRUE]
        /\ reval' = [reval EXCEPT ![r] =
             [@ EXCEPT !.pc = "forget", !.result = "renewed", !.body = req[r].body]]
        /\ UNCHANGED used
     \/ /\ IF entry.meta THEN Break ELSE UNCHANGED used
        /\ reval' = [reval EXCEPT ![r].pc = "forget"]
        /\ UNCHANGED entry
  /\ UNCHANGED <<setup, upstream, content, tmp, staged, req, running, answer, met, had>>

Forget(r) ==
  /\ reval[r].pc = "forget"
  /\ reval' = [reval EXCEPT ![r].pc = "close"]
  /\ running' = None
  /\ UNCHANGED <<setup, upstream, fileVars, req, answer, met, had, used>>

(* Mutant: without a result the waiters are not woken *)
CloseOnlyResult(r) ==
  /\ reval[r].pc = "close" /\ reval[r].result # "none"
  /\ reval' = [reval EXCEPT ![r].pc = "closed"]
  /\ UNCHANGED <<setup, upstream, fileVars, req, running, answer, met, had, used>>

Close(r) ==
  /\ reval[r].pc = "close"
  /\ reval' = [reval EXCEPT ![r].pc = "closed"]
  /\ UNCHANGED <<setup, upstream, fileVars, req, running, answer, met, had, used>>

(* <-result.done: everybody answers from the shared result, or falls back  *)
(* on the copy he has read himself.                                        *)
Await(r) ==
  /\ req[r].pc = "wait"
  /\ LET v == reval[req[r].leader]
     IN /\ v.pc = "closed"
        /\ CASE v.result = "renewed" -> Answered(r, "revalidated", Current(v.body, v.base))
             [] v.result = "changed" ->
                  /\ req' = [req EXCEPT ![r] = [@ EXCEPT !.pc = "open", !.body = v.body,
                                                         !.tag = TagOf(v.body)]]
                  /\ UNCHANGED answer
             [] OTHER -> FromCache(r, "stale", req[r].body)
  /\ UNCHANGED <<setup, upstream, fileVars, revalVars, met, had, used>>

-----------------------------------------------------------------------------
(* The whole index without a copy *)

(* Only the body of a GET is kept, even an empty one *)
Fetch(r) ==
  /\ req[r].pc = "full"
  /\ \E body \in {upstream, 0} :
       /\ IF body = 0 THEN Break ELSE UNCHANGED used
       /\ met' = [met EXCEPT !.empty = @ \/ (body = 0 /\ r \notin Of("HEAD"))]
       /\ IF r \in Of("HEAD")
          THEN Answered(r, "miss", TRUE)
          ELSE /\ req' = [req EXCEPT ![r] = [@ EXCEPT !.pc = "open", !.body = body,
                                                      !.tag = TagOf(body), !.leader = r]]
               /\ UNCHANGED answer
  /\ UNCHANGED <<setup, upstream, fileVars, revalVars, had>>

(* Mutant: an error of the upstream is passed on at once *)
FetchFailsUnsaved(r) ==
  /\ req[r].pc = "full" /\ Break
  /\ Answered(r, "refused", FALSE)
  /\ UNCHANGED <<setup, upstream, fileVars, revalVars, met, had>>

(* No answer: the copy that has come meanwhile helps *)
FetchFails(r) ==
  /\ req[r].pc = "full" /\ Break
  /\ FallBack(r)
  /\ UNCHANGED <<setup, upstream, fileVars, revalVars, met, had>>

(* An error page is handed on to a client; the prefetch falls back *)
FetchRefused(r) ==
  /\ r \notin Of("prefetch")
  /\ req[r].pc = "full" /\ Break
  /\ Answered(r, "refused", FALSE)
  /\ UNCHANGED <<setup, upstream, fileVars, revalVars, met, had>>

(* The body halts here too.  (A client that hangs up ends it: FetchFails.) *)
FetchHalts(r) ==
  /\ r \notin Of("HEAD") /\ Break
  /\ Goto(r, "full", "silent")
  /\ UNCHANGED <<setup, upstream, fileVars, revalVars, answer, met, had>>

-----------------------------------------------------------------------------
(* PutBytes *)

Putting == {r \in Requests : req[r].pc \in {"write", "put", "commit", "cleanup"}}

(* os.WriteFile creates or empties the file, then writes it *)
OpenBytes(r) ==
  /\ Goto(r, "open", "write")
  /\ LET f == IF tmp = None THEN r ELSE tmp
     IN /\ tmp' = f
        /\ staged' = [staged EXCEPT ![r] = f]
        /\ content' = [content EXCEPT ![f] = 0]
        /\ had' = IF entry.file = f THEN {} ELSE had
  /\ met' = [met EXCEPT !.bodies = @ \/ \E q \in Putting : req[q].body # req[r].body]
  /\ UNCHANGED <<setup, upstream, entry, revalVars, answer, used>>

(* The answer to who brings a body, whether it could be cached or not *)
AnsweredNew(r) == Answered(r, "miss", Current(req[r].body, reval[req[r].leader].base))

(* The file cannot be opened, or the directory is missing *)
OpenFails(r) ==
  /\ req[r].pc = "open" /\ Break
  /\ AnsweredNew(r)
  /\ UNCHANGED <<setup, upstream, fileVars, revalVars, met, had>>

(* What a file that holds c holds when b has been written from its start:   *)
(* a longer body keeps its tail.                                            *)
Written(b, c) ==
  IF b = 0 THEN {c} ELSE IF c \in {0, b} THEN {b} ELSE {b, Torn}

WriteBytes(r) ==
  /\ Goto(r, "write", "put")
  /\ \E c \in Written(req[r].body, content[staged[r]]) :
       content' = [content EXCEPT ![staged[r]] = c]
  /\ staged' = [staged EXCEPT ![r] = None]
  /\ UNCHANGED <<setup, upstream, entry, tmp, revalVars, answer, met, had, used>>

(* Less than the body could be written; the file keeps the temporary name. *)
WriteFails(r) ==
  /\ req[r].pc = "write" /\ Break
  /\ \E c \in Written(req[r].body, content[staged[r]]) \cup {content[staged[r]], Torn} :
       content' = [content EXCEPT ![staged[r]] = c]
  /\ met' = [met EXCEPT !.failed = TRUE]
  /\ AnsweredNew(r)
  /\ UNCHANGED <<setup, upstream, entry, tmp, staged, revalVars, had>>

(* Put moves the file aside if it is still there; or is refused, because   *)
(* the cache is being cleared, and removes it.                             *)
Stage(r) ==
  /\ \/ /\ tmp # None
        /\ Goto(r, "put", "commit")
        /\ staged' = [staged EXCEPT ![r] = tmp]
        /\ UNCHANGED used
     \/ /\ IF tmp = None THEN UNCHANGED used ELSE Break
        /\ Goto(r, "put", "cleanup")
        /\ UNCHANGED staged
  /\ tmp' = None
  /\ UNCHANGED <<setup, upstream, entry, content, revalVars, answer, met, had>>

(* Files that are replaced or deleted are not read again *)
Gone(files) == [f \in Files |-> IF f \in files THEN 0 ELSE content[f]]

(* Mutant: the entry keeps the tag of the copy that was expired *)
CommitKeepingTag(r) ==
  /\ Goto(r, "commit", "cleanup")
  /\ entry' = [meta |-> TRUE, file |-> staged[r], tag |-> entry.tag, fresh |-> TRUE]
  /\ staged' = [staged EXCEPT ![r] = None]
  /\ content' = Gone({entry.file})
  /\ had' = IF content[staged[r]] = 0 THEN {} ELSE had
  /\ UNCHANGED <<setup, upstream, tmp, revalVars, answer, met, used>>

Commit(r) ==
  /\ Goto(r, "commit", "cleanup")
  /\ entry' = [meta |-> TRUE, file |-> staged[r], tag |-> req[r].tag, fresh |-> TRUE]
  /\ staged' = [staged EXCEPT ![r] = None]
  /\ content' = Gone({entry.file})
  /\ had' = IF content[staged[r]] = 0 THEN {} ELSE had
  /\ UNCHANGED <<setup, upstream, tmp, revalVars, answer, met, used>>

(* The cache is being cleared by now: the staged file is removed *)
CommitRefused(r) ==
  /\ Break
  /\ Goto(r, "commit", "cleanup")
  /\ staged' = [staged EXCEPT ![r] = None]
  /\ content' = Gone({staged[r]})
  /\ UNCHANGED <<setup, upstream, entry, tmp, revalVars, answer, met, had>>

(* The old file has been removed, and the new one cannot take its place *)
CommitLoses(r) ==
  /\ Break
  /\ Goto(r, "commit", "cleanup")
  /\ entry' = [entry EXCEPT !.file = None]
  /\ staged' = [staged EXCEPT ![r] = None]
  /\ content' = Gone({entry.file, staged[r]})
  /\ had' = {}
  /\ UNCHANGED <<setup, upstream, tmp, revalVars, answer, met>>

(* It has taken its place, but under the metadata of the old one, if any *)
CommitUnrecorded(r) ==
  /\ Break
  /\ Goto(r, "commit", "cleanup")
  /\ entry' = [entry EXCEPT !.file = IF entry.meta THEN staged[r] ELSE None]
  /\ staged' = [staged EXCEPT ![r] = None]
  /\ content' = Gone({entry.file})
  /\ had' = IF content[staged[r]] = 0 THEN {} ELSE had
  /\ met' = [met EXCEPT !.failed = TRUE]
  /\ UNCHANGED <<setup, upstream, tmp, revalVars, answer>>

(* The deferred removal of the temporary name, whoever's file it is now *)
CleanUp(r) ==
  /\ req[r].pc = "cleanup"
  /\ tmp' = None
  /\ AnsweredNew(r)
  /\ UNCHANGED <<setup, upstream, entry, content, staged, revalVars, met, had, used>>

-----------------------------------------------------------------------------
(* The environment *)

Publish ==
  /\ upstream < MaxVersion
  /\ upstream' = upstream + 1
  /\ UNCHANGED <<setup, fileVars, req, revalVars, answer, met, had, used>>

Expire ==
  /\ entry.fresh
  /\ entry' = [entry EXCEPT !.fresh = FALSE]
  /\ UNCHANGED <<setup, upstream, content, tmp, staged, req, revalVars, answer, met, had,
                 used>>

(* Evicted, deleted or cleared *)
Delete ==
  /\ entry.meta /\ Break
  /\ entry' = NoEntry
  /\ content' = Gone({entry.file})
  /\ had' = {}
  /\ UNCHANGED <<setup, upstream, tmp, staged, req, revalVars, answer, met>>

Lookup(r) == Arrive(r) \/ AuthFails(r) \/ ReadStale(r) \/ NoCopy(r) \/ Join(r) \/ Await(r)
Revalidate(r) == Condition(r) \/ BodyHalts(r) \/ Compare(r) \/ Renew(r) \/ Forget(r) \/
                 Close(r)
FullGet(r) == Fetch(r) \/ FetchFails(r) \/ FetchRefused(r) \/ FetchHalts(r)
PutBytes(r) == OpenBytes(r) \/ OpenFails(r) \/ WriteBytes(r) \/ WriteFails(r) \/ Stage(r) \/
               Commit(r) \/ CommitRefused(r) \/ CommitLoses(r) \/ CommitUnrecorded(r) \/
               CleanUp(r)

Next ==
  \/ \E r \in Requests : Lookup(r) \/ Revalidate(r) \/ FullGet(r) \/ PutBytes(r)
  \/ Publish \/ Expire \/ Delete

Spec == Init /\ [][Next]_vars

(* Goroutines go on, and the transport limits the wait for the headers of  *)
(* an answer.  Nothing limits that for its body: one that halts for ever   *)
(* is "silent" and has no next step.                                       *)
FairSpec ==
  /\ Spec
  /\ \A r \in Requests :
       /\ WF_vars(req[r].pc # "new" /\ (Lookup(r) \/ FullGet(r) \/ PutBytes(r)))
       /\ WF_vars(Revalidate(r))

-----------------------------------------------------------------------------
(* Properties *)

Bodies == 0..Torn

TypeOK ==
  /\ setup \in Setups /\ upstream \in 1..MaxVersion
  /\ entry \in [meta : BOOLEAN, file : Files \cup {None}, tag : Bodies, fresh : BOOLEAN]
  /\ entry.fresh \/ entry.file # None => entry.meta
  /\ content \in [Files -> Bodies]
  /\ tmp \in Requests \cup {None}
  /\ staged \in [Requests -> Requests \cup {None}]
  /\ req \in [Requests -> [pc : {"new", "miss", "stale", "wait", "full", "silent", "open",
                                 "write", "put", "commit", "cleanup", "done"},
                           body : Bodies, tag : Bodies, leader : Requests \cup {None}]]
  /\ reval \in [Requests -> [pc : {"off", "head", "get", "silent", "renew", "forget", "close",
                                   "closed"},
                             base : Bodies, result : {"none", "renewed", "changed"},
                             body : Bodies]]
  /\ running \in Requests \cup {None}
  /\ answer \in [Requests -> [label : {"none", "hit", "stale", "miss", "revalidated",
                                       "refused"}, current : BOOLEAN]]

(* The file of a copy is empty only as long as a request that shares its   *)
(* temporary name is about to write it, unless the upstream has answered   *)
(* with nothing or a body could not be written: whatever overlaps, readers *)
(* find an index again.                                                    *)
EmptyIsBeingWritten ==
  entry.file # None /\ Body = 0 /\ ~met.empty /\ ~met.failed => BeingWritten(entry.file)

(* A part of an index, or a mixture of two, is kept only after two         *)
(* different bodies were put at once, or one could not be written.         *)
TornHasACause == entry.file # None /\ Body = Torn => met.bodies \/ met.failed

(* The ETag that is sent with the next conditional request is that of the  *)
(* body that is kept, with the same two exceptions.                        *)
TagIsOfBody ==
  entry.file # None /\ Body \notin {0, Torn} /\ ~met.bodies /\ ~met.failed
    => entry.tag = TagOf(Body)

(* What is kept is one answer: readers find it whole, and the next         *)
(* conditional request asks about it.                                      *)
KeptIsOneAnswer == TypeOK /\ EmptyIsBeingWritten /\ TornHasACause /\ TagIsOfBody

(* An answer that is called confirmed or new, to whoever shares the        *)
(* revalidation, was current at some time since the revalidation began:    *)
(* unless the cache's one temporary name has mixed bodies or tags up, or   *)
(* the copy that was confirmed had been read while it was written.         *)
ConfirmedIsCurrent ==
  \A r \in Requests :
    /\ answer[r].label \in {"revalidated", "miss"}
    /\ ~met.bodies /\ ~met.failed /\ ~met.torn
    => answer[r].current

(* A request that finds a copy all along is not refused, whatever becomes  *)
(* of the upstream, of the credentials and of the other requests.          *)
CopySaves == \A r \in had : answer[r].label # "refused"

(* Every request ends, nobody waits for a revalidation that is over: but   *)
(* for the requests, and those that follow the revalidation, whose body    *)
(* has come to a halt.                                                     *)
EveryIndexRequestEnds ==
  \A r \in Requests :
    req[r].pc = "miss" ~>
      \/ req[r].pc \in {"done", "silent"}
      \/ req[r].pc = "wait" /\ reval[req[r].leader].pc = "silent"
=============================================================================
