------------------------------- MODULE Inflight -------------------------------
(***************************************************************************)
(* How concurrent requests for one file share a download: getOrDownload    *)
(* (internal/downloader/downloader.go) for the prefetch service and for    *)
(* requests with the prefetch header, ServePackage and servePackageOnce    *)
(* (serve.go) for interactive clients.  The engine's inflight map holds    *)
(* the wait record of the request that downloads, its leader; the others   *)
(* follow it and read its outcome when its channel is closed.  One key;    *)
(* different keys do not meet.  A request leads at most once, so its wait  *)
(* record is named by it (the second ServePackage of the proxy, after new  *)
(* credentials, is another request here).  The transfer itself is one step *)
(* (modules ChunkDownload and StreamDownload).                             *)
(***************************************************************************)
EXTENDS Naturals, FiniteSets

CONSTANTS
  Fetchers, Streamers,  \* as in SingleFlight
  None,                 \* no entry in the inflight map
  MaxTries,             \* turns of ServePackage, 3 in the code
  MaxBreaks             \* bound on failures, departures and evictions

ASSUME InflightConstants ==
  /\ IsFiniteSet(Fetchers) /\ IsFiniteSet(Streamers)
  /\ Fetchers \cap Streamers = {}
  /\ None \notin Fetchers \cup Streamers
  /\ MaxTries \in Nat \ {0, 1}
  /\ MaxBreaks \in Nat

Requests == Fetchers \cup Streamers

VARIABLES
  inflight,  \* e.inflight[key]: the leader, or None
  wait,      \* inflightWait of each request that led: outcome, done channel
  req,       \* where each request is, whom it follows, its turn
  ctx,       \* requests whose (run) context is cancelled
  gone,      \* requests whose caller cancelled it: disconnected, aborted
  cached,    \* the cache has the file
  used       \* failures and evictions so far (bounds)

vars == <<inflight, wait, req, ctx, gone, cached, used>>

Init ==
  /\ inflight = None
  /\ wait = [r \in Requests |-> [err |-> "none", entry |-> FALSE, done |-> FALSE]]
  /\ req = [r \in Requests |-> [pc |-> "new", follows |-> None, turn |-> 0]]
  /\ ctx = {} /\ gone = {}
  /\ cached = FALSE
  /\ used = [failures |-> 0, evictions |-> 0]

Breaks == used.failures + used.evictions + Cardinality(gone)

Goto(r, from, to) ==
  /\ req[r].pc = from
  /\ req' = [req EXCEPT ![r].pc = to]

Arrive(r) ==
  /\ Goto(r, "new", "lookup")
  /\ UNCHANGED <<inflight, wait, ctx, gone, cached, used>>

(* cache.Get or cache.Open; a prefetch hit still waits for a task slot,    *)
(* which only a cancelled context refuses.                                 *)
Lookup(r) ==
  /\ \/ ~cached /\ Goto(r, "lookup", "claim")
     \/ cached /\ Goto(r, "lookup", "served")
     \/ cached /\ r \in Fetchers \cap gone /\ Goto(r, "lookup", "failed")
  /\ UNCHANGED <<inflight, wait, ctx, gone, cached, used>>

Follow(r) ==
  /\ req[r].pc = "claim" /\ inflight # None
  /\ req' = [req EXCEPT ![r].pc = "await", ![r].follows = inflight]
  /\ UNCHANGED <<inflight, wait, gone, cached, used>>

(* Mutants: a follower cancels whoever leads; LoadOrStore stores anyway *)
ClaimCancellingAny(r) ==
  \/ /\ inflight = None
     /\ Goto(r, "claim", "download")
     /\ inflight' = r
     /\ UNCHANGED <<wait, ctx, gone, cached, used>>
  \/ /\ Follow(r)
     /\ ctx' = IF r \in Streamers THEN ctx \cup {inflight} ELSE ctx

ClaimByReplacing(r) ==
  \/ /\ inflight = None \/ (r \in Streamers /\ inflight \in Fetchers)
     /\ Goto(r, "claim", "download")
     /\ inflight' = r
     /\ ctx' = ctx \cup ({inflight} \cap Fetchers)
     /\ UNCHANGED <<wait, gone, cached, used>>
  \/ /\ ~(r \in Streamers /\ inflight \in Fetchers)
     /\ Follow(r)
     /\ UNCHANGED ctx

(* LoadOrStore; an interactive follower cancels a background leader *)
Claim(r) ==
  \/ /\ inflight = None
     /\ Goto(r, "claim", "download")
     /\ inflight' = r
     /\ UNCHANGED <<wait, ctx, gone, cached, used>>
  \/ /\ Follow(r)
     /\ ctx' = IF r \in Streamers THEN ctx \cup ({inflight} \cap Fetchers) ELSE ctx

Outcome(r, err, entry) ==
  wait' = [wait EXCEPT ![r].err = err, ![r].entry = entry]

(* A transfer that ends in time puts the file into the cache even if its   *)
(* context is cancelled meanwhile.                                         *)
Download(r) ==
  /\ Goto(r, "download", "release")
  /\ \/ cached' = TRUE /\ Outcome(r, "none", TRUE) /\ UNCHANGED used
     \/ r \in ctx /\ Outcome(r, "cancel", FALSE) /\ UNCHANGED <<cached, used>>
     \/ /\ Breaks < MaxBreaks
        /\ used' = [used EXCEPT !.failures = @ + 1]
        /\ Outcome(r, "fail", FALSE)
        /\ UNCHANGED cached
  /\ UNCHANGED <<inflight, ctx, gone>>

(* The deferred function: inflight.Delete, then close(done) *)
Release(r) ==
  /\ Goto(r, "release", "close")
  /\ inflight' = None
  /\ UNCHANGED <<wait, ctx, gone, cached, used>>

(* Mutant: after a failed transfer the channel stays open *)
CloseOnlySuccess(r) ==
  /\ Goto(r, "close", IF wait[r].err = "none" THEN "served" ELSE "failed")
  /\ wait' = [wait EXCEPT ![r].done = wait[r].entry]
  /\ UNCHANGED <<inflight, ctx, gone, cached, used>>

Close(r) ==
  /\ Goto(r, "close", IF wait[r].err = "none" THEN "served" ELSE "failed")
  /\ wait' = [wait EXCEPT ![r].done = TRUE]
  /\ UNCHANGED <<inflight, ctx, gone, cached, used>>

(* The select of a follower *)
Await(r) ==
  /\ \/ r \in gone /\ Goto(r, "await", "failed")
     \/ req[r].pc = "await" /\ wait[req[r].follows].done /\ Goto(r, "await", "woken")
  /\ UNCHANGED <<inflight, wait, ctx, gone, cached, used>>

NextTurn(r, to, last) ==
  /\ req[r].pc = "woken"
  /\ IF req[r].turn + 1 < last
     THEN req' = [req EXCEPT ![r] = [pc |-> to, follows |-> None, turn |-> @.turn + 1]]
     ELSE req' = [req EXCEPT ![r].pc = "failed"]

(* A background follower takes the leader's outcome, its error included;   *)
(* if it has none, the cache's; and else takes one more turn.              *)
WakeFetcher(r) ==
  /\ r \in Fetchers /\ req[r].pc = "woken"
  /\ LET w == wait[req[r].follows]
     IN CASE w.err # "none" -> Goto(r, "woken", "failed")
          [] w.err = "none" /\ (w.entry \/ cached) -> Goto(r, "woken", "served")
          [] OTHER -> NextTurn(r, "lookup", 2)
  /\ UNCHANGED <<inflight, wait, ctx, gone, cached, used>>

(* Mutant: the leader's error ends the interactive follower *)
WakeStreamerTakingError(r) ==
  /\ r \in Streamers /\ req[r].pc = "woken"
  /\ Goto(r, "woken", IF cached THEN "served" ELSE "failed")
  /\ UNCHANGED <<inflight, wait, ctx, gone, cached, used>>

(* An interactive follower looks into the cache first, then opens the      *)
(* leader's entry again, and if there is none tries to lead.               *)
WakeStreamer(r) ==
  /\ r \in Streamers /\ req[r].pc = "woken"
  /\ IF cached THEN Goto(r, "woken", "served")
     ELSE IF wait[req[r].follows].entry THEN Goto(r, "woken", "reopen")
     ELSE NextTurn(r, "claim", MaxTries)
  /\ UNCHANGED <<inflight, wait, ctx, gone, cached, used>>

Reopen(r) ==
  /\ Goto(r, "reopen", IF cached THEN "served" ELSE "failed")
  /\ UNCHANGED <<inflight, wait, ctx, gone, cached, used>>

(* The caller of an open request goes away *)
Leave(r) ==
  /\ req[r].pc \notin {"new", "served", "failed"}
  /\ r \notin gone /\ Breaks < MaxBreaks
  /\ gone' = gone \cup {r} /\ ctx' = ctx \cup {r}
  /\ UNCHANGED <<inflight, wait, req, cached, used>>

(* The file is evicted, cleared or found missing on disk *)
Evict ==
  /\ cached
  /\ Breaks < MaxBreaks
  /\ used' = [used EXCEPT !.evictions = @ + 1]
  /\ cached' = FALSE
  /\ UNCHANGED <<inflight, wait, req, ctx, gone>>

Step(r) ==
  \/ Lookup(r) \/ Claim(r) \/ Download(r) \/ Release(r) \/ Close(r)
  \/ Await(r) \/ WakeFetcher(r) \/ WakeStreamer(r) \/ Reopen(r)

Next ==
  \/ \E r \in Requests : Arrive(r) \/ Step(r) \/ Leave(r)
  \/ Evict

Spec == Init /\ [][Next]_vars

(* The goroutine of an open request runs on; transfers have time limits *)
FairSpec == Spec /\ \A r \in Requests : WF_vars(Step(r))

-----------------------------------------------------------------------------
(* Properties *)

TypeOK ==
  /\ inflight \in Requests \cup {None}
  /\ wait \in [Requests -> [err : {"none", "cancel", "fail"},
                            entry : BOOLEAN, done : BOOLEAN]]
  /\ req \in [Requests -> [pc : {"new", "lookup", "claim", "download", "release",
                                 "close", "await", "woken", "reopen", "served",
                                 "failed"},
                           follows : Requests \cup {None}, turn : 0..(MaxTries - 1)]]
  /\ gone \subseteq ctx /\ ctx \subseteq Requests
  /\ cached \in BOOLEAN
  /\ used \in [failures : 0..MaxBreaks, evictions : 0..MaxBreaks]

(* A takeover cancels background downloads only: the context of an         *)
(* interactive request is cancelled by nobody but its caller.              *)
InteractiveKeepsContext == TypeOK /\ ctx \cap Streamers \subseteq gone

(* Every request that arrives is answered or refused: nobody waits for a   *)
(* leader that has left.                                                   *)
EveryRequestEnds ==
  \A r \in Requests : req[r].pc = "lookup" ~> req[r].pc \in {"served", "failed"}

(* A comment of getOrDownload says that a background follower whose leader *)
(* was cancelled by an interactive request takes a turn of its own.  The   *)
(* code does not get there: the leader leaves an error behind, which is    *)
(* returned two tests before.                                              *)
RetriesAfterTakeover ==
  \A r \in Fetchers \ gone :
    /\ req[r].pc = "failed" /\ req[r].follows # None
    /\ wait[req[r].follows].err = "cancel"
    => req[r].follows \in gone \/ req[r].turn > 0

(* The requests of one file implement SingleFlight: one transfer at a time,*)
(* and an interactive request is refused only if something broke or        *)
(* background requests outran all its turns.                               *)
Phase(r) ==
  CASE req[r].pc = "new" -> "new"
    [] req[r].pc = "download" -> "leading"
    [] req[r].pc \in {"release", "close"} -> "led"
    [] req[r].pc = "served" -> "answered"
    [] req[r].pc = "failed" -> "refused"
    [] OTHER -> "open"

Flight == INSTANCE SingleFlight WITH
  phase <- [r \in Requests |-> Phase(r)],
  stored <- \E r \in Requests : wait[r].entry,
  broken <- used.failures > 0 \/ used.evictions > 0 \/ gone # {}

ImplementsSingleFlight == Flight!Spec
=============================================================================
