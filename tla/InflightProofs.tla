---------------------------- MODULE InflightProofs ----------------------------
(***************************************************************************)
(* Proofs that the sharing of downloads keeps interactive requests from    *)
(* being cancelled and implements SingleFlight, for every number of        *)
(* requests and turns.  The hard part is the last way to be refused: an    *)
(* interactive request that has used up its turns has followed as many     *)
(* different background leaders, because each of them was over when it     *)
(* began to follow the next.                                               *)
(***************************************************************************)
EXTENDS Inflight, FiniteSetTheorems, TLAPS

Stored == \E r \in Requests : wait[r].entry
Broken == used.failures > 0 \/ used.evictions > 0 \/ gone # {}

(* The map has the one request that is between claiming and releasing it *)
LeaderIsInMap ==
  /\ \A r \in Requests : req[r].pc \in {"download", "release"} => inflight = r
  /\ inflight # None => req[inflight].pc \in {"download", "release"}

(* A wait record is written by its own request, once, and closed last *)
RecordsInOrder ==
  \A r \in Requests :
    /\ req[r].pc \notin {"release", "close", "served", "failed"} =>
         wait[r].err = "none" /\ ~wait[r].entry
    /\ wait[r].done => req[r].pc \in {"served", "failed"}
    /\ (wait[r].done \/ req[r].pc \in {"release", "close"}) /\ wait[r].err = "none" =>
         wait[r].entry

(* Every failure has its reason *)
Reasons ==
  \A r \in Requests :
    /\ wait[r].err = "fail" => used.failures > 0
    /\ wait[r].err = "cancel" => r \in ctx
    /\ r \in ctx => \/ r \in gone
                    \/ r \in Fetchers /\ \E s \in Streamers : req[s].pc # "new"

CachedOrEvicted == (cached => Stored) /\ (Stored /\ ~cached => used.evictions > 0)

Following ==
  \A r \in Requests :
    /\ req[r].pc \in {"await", "woken", "reopen"} => req[r].follows \in Requests
    /\ req[r].pc \in {"woken", "reopen"} => wait[req[r].follows].done
    /\ req[r].pc = "reopen" => wait[req[r].follows].entry

(* Background requests whose transfer is over and has failed *)
Outrunners == {f \in Fetchers : wait[f].done /\ wait[f].err # "none"}
Leader(r) == IF req[r].pc \in {"await", "woken"} THEN {req[r].follows} ELSE {}

(* The turns a request has used were lost to others than whom it follows *)
TurnsLost ==
  ~Broken => \A r \in Streamers : req[r].turn <= Cardinality(Outrunners \ Leader(r))

FlightInv ==
  /\ InteractiveKeepsContext /\ LeaderIsInMap /\ RecordsInOrder /\ Reasons
  /\ CachedOrEvicted /\ Following /\ TurnsLost

-----------------------------------------------------------------------------
(* Requests are finitely many, and so are those that have gone. *)
LEMMA RequestsFinite ==
  /\ IsFiniteSet(Requests)
  /\ \A S \in SUBSET Requests : IsFiniteSet(S) /\ Cardinality(S) \in Nat
<1>1. IsFiniteSet(Requests)
  BY InflightConstants, FS_Union DEF Requests
<1> QED BY <1>1, FS_Subset, FS_CardinalityType

(* Failures, evictions and departures stay within their bound. *)
LEMMA BreaksBounded ==
  ASSUME TypeOK, Breaks < MaxBreaks
  PROVE  used.failures + 1 \in 0..MaxBreaks /\ used.evictions + 1 \in 0..MaxBreaks
<1>1. Cardinality(gone) \in Nat
  BY RequestsFinite DEF TypeOK
<1> QED BY <1>1, InflightConstants DEF TypeOK, Breaks

-----------------------------------------------------------------------------
(* Nobody has asked. *)
LEMMA InitFlight == Init => FlightInv
<1> SUFFICES ASSUME Init PROVE FlightInv
  OBVIOUS
<1> USE InflightConstants DEF Init
<1>1. InteractiveKeepsContext
  <2>1. 0 \in 0..MaxBreaks /\ 0 \in 0..(MaxTries - 1)
    OBVIOUS
  <2>2. wait \in [Requests -> [err : {"none", "cancel", "fail"},
                              entry : BOOLEAN, done : BOOLEAN]]
    OBVIOUS
  <2> QED BY <2>1, <2>2 DEF InteractiveKeepsContext, TypeOK
<1>2. LeaderIsInMap /\ RecordsInOrder /\ Reasons /\ CachedOrEvicted /\ Following
  BY DEF LeaderIsInMap, RecordsInOrder, Reasons, CachedOrEvicted, Stored, Following
<1>3. TurnsLost
  <2> SUFFICES ASSUME NEW r \in Streamers
               PROVE  req[r].turn <= Cardinality(Outrunners \ Leader(r))
    BY DEF TurnsLost
  <2>1. req[r].turn = 0
    BY DEF Requests
  <2>2. Cardinality(Outrunners \ Leader(r)) \in Nat
    BY RequestsFinite DEF Outrunners, Requests
  <2> QED BY <2>1, <2>2
<1> QED BY <1>1, <1>2, <1>3 DEF FlightInv

-----------------------------------------------------------------------------
(* Why a request is refused, in terms of SingleFlight *)
Came(group) == {r \in group : req[r].pc # "new"}
Reason(r) ==
  \/ Broken
  \/ r \in Fetchers /\ Came(Streamers) # {}
  \/ Cardinality(Came(Fetchers)) >= MaxTries

(* What a step that changes nothing but its request may do *)
Passive(r) ==
  \/ Goto(r, "new", "lookup")
  \/ Goto(r, "lookup", "claim")
  \/ wait[req[r].follows].done /\ Goto(r, "await", "woken")
  \/ wait[req[r].follows].entry /\ Goto(r, "woken", "reopen")
  \/ Stored /\ \E from \in {"lookup", "woken", "reopen"} : Goto(r, from, "served")
  \/ Reason(r) /\ \E from \in {"lookup", "await", "woken", "reopen"} : Goto(r, from, "failed")
  \/ /\ req[r].pc = "woken" /\ req[r].turn + 1 < MaxTries
     /\ ~Broken => req[r].turn + 1 <= Cardinality(Outrunners)
     /\ req' = [req EXCEPT ![r] = [pc |-> "claim", follows |-> None, turn |-> @.turn + 1]]

(* The leader a woken request has followed is over; if it has no entry it  *)
(* has failed for a reason that excuses those who take its outcome.        *)
LEMMA LeaderFailed ==
  ASSUME FlightInv, NEW r \in Requests, req[r].pc = "woken"
  PROVE  /\ req[r].follows \in Requests /\ wait[req[r].follows].done
         /\ wait[req[r].follows].err = "none" => wait[req[r].follows].entry
         /\ wait[req[r].follows].err # "none" =>
              Broken \/ (req[r].follows \in Outrunners /\ Came(Streamers) # {})
<1> DEFINE l == req[r].follows
<1>1. l \in Requests /\ wait[l].done
  BY DEF FlightInv, Following
<1>2. wait[l].err = "none" => wait[l].entry
  BY <1>1 DEF FlightInv, RecordsInOrder
<1>3. ASSUME wait[l].err # "none"
      PROVE  Broken \/ (l \in Outrunners /\ Came(Streamers) # {})
  <2>1. wait[l].err \in {"cancel", "fail"}
    BY <1>1, <1>3 DEF FlightInv, InteractiveKeepsContext, TypeOK
  <2>2. CASE wait[l].err = "fail"
    BY <1>1, <2>2 DEF FlightInv, Reasons, Broken
  <2>3. CASE wait[l].err = "cancel"
    <3>1. l \in gone \/ (l \in Fetchers /\ \E s \in Streamers : req[s].pc # "new")
      BY <1>1, <2>3 DEF FlightInv, Reasons
    <3> QED BY <1>1, <1>3, <3>1 DEF Broken, Outrunners, Came
  <2> QED BY <2>1, <2>2, <2>3
<1> QED BY <1>1, <1>2, <1>3

(* The background requests that have failed have come. *)
LEMMA OutrunnersCame ==
  ASSUME FlightInv
  PROVE  /\ Outrunners \subseteq Came(Fetchers)
         /\ Cardinality(Outrunners) <= Cardinality(Came(Fetchers))
         /\ Cardinality(Outrunners) \in Nat /\ Cardinality(Came(Fetchers)) \in Nat
<1>1. Outrunners \subseteq Came(Fetchers)
  BY DEF Outrunners, Came, FlightInv, RecordsInOrder, Requests
<1>2. Came(Fetchers) \in SUBSET Requests /\ Outrunners \in SUBSET Requests
  BY DEF Came, Outrunners, Requests
<1> QED BY <1>1, <1>2, RequestsFinite, FS_Subset

(* A request that is woken without an answer has lost one turn more. *)
LEMMA OneTurnMore ==
  ASSUME FlightInv, NEW r \in Streamers, req[r].pc = "woken", ~Broken,
         req[r].follows \in Outrunners
  PROVE  req[r].turn + 1 <= Cardinality(Outrunners)
<1>1. req[r].turn <= Cardinality(Outrunners \ {req[r].follows})
  BY DEF FlightInv, TurnsLost, Leader
<1>2. IsFiniteSet(Outrunners)
  BY RequestsFinite DEF Outrunners, Requests
<1>3. Cardinality(Outrunners \ {req[r].follows}) = Cardinality(Outrunners) - 1
  BY <1>2, FS_RemoveElement
<1>4. Cardinality(Outrunners) \in Nat /\ req[r].turn \in Nat
  BY OutrunnersCame, InflightConstants DEF FlightInv, InteractiveKeepsContext, TypeOK, Requests
<1> QED BY <1>1, <1>3, <1>4

(* Every step that changes nothing but its request is one of those. *)
LEMMA PassiveStep ==
  ASSUME FlightInv, NEW r \in Requests,
         \/ Arrive(r) \/ Lookup(r) \/ Await(r) \/ WakeFetcher(r)
         \/ WakeStreamer(r) \/ Reopen(r)
  PROVE  Passive(r) /\ UNCHANGED <<inflight, wait, ctx, gone, cached, used>>
<1>1. CASE Arrive(r)
  BY <1>1 DEF Arrive, Passive
<1>2. CASE Lookup(r)
  BY <1>2 DEF Lookup, Passive, Reason, Broken, FlightInv, CachedOrEvicted
<1>3. CASE Await(r)
  BY <1>3 DEF Await, Passive, Reason, Broken
<1>4. CASE WakeFetcher(r)
  <2> DEFINE w == wait[req[r].follows]
  <2>1. r \in Fetchers /\ req[r].pc = "woken"
        /\ UNCHANGED <<inflight, wait, ctx, gone, cached, used>>
    BY <1>4 DEF WakeFetcher
  <2>2. CASE w.err # "none"
    <3>1. Goto(r, "woken", "failed")
      BY <1>4, <2>2 DEF WakeFetcher
    <3>2. Reason(r)
      BY <2>1, <2>2, LeaderFailed DEF Reason
    <3> QED BY <2>1, <3>1, <3>2 DEF Passive
  <2>3. CASE w.err = "none"
    <3>1. w.entry /\ req[r].follows \in Requests
      BY <2>1, <2>3, LeaderFailed
    <3>2. Goto(r, "woken", "served")
      BY <1>4, <2>3, <3>1 DEF WakeFetcher
    <3> QED BY <2>1, <3>1, <3>2 DEF Passive, Stored
  <2> QED BY <2>2, <2>3
<1>5. CASE WakeStreamer(r)
  <2> DEFINE w == wait[req[r].follows]
  <2>1. r \in Streamers /\ req[r].pc = "woken"
        /\ UNCHANGED <<inflight, wait, ctx, gone, cached, used>>
    BY <1>5 DEF WakeStreamer
  <2>2. CASE cached
    BY <1>5, <2>1, <2>2 DEF WakeStreamer, Passive, FlightInv, CachedOrEvicted
  <2>3. CASE ~cached /\ w.entry
    BY <1>5, <2>1, <2>3 DEF WakeStreamer, Passive
  <2>4. CASE ~cached /\ ~w.entry
    <3>1. NextTurn(r, "claim", MaxTries)
      BY <1>5, <2>4 DEF WakeStreamer
    <3>2. Broken \/ req[r].follows \in Outrunners
      BY <2>1, <2>4, LeaderFailed
    <3>3. ~Broken => req[r].turn + 1 <= Cardinality(Outrunners)
      BY <2>1, <3>2, OneTurnMore
    <3>4. CASE req[r].turn + 1 < MaxTries
      BY <2>1, <3>1, <3>3, <3>4 DEF NextTurn, Passive
    <3>5. CASE ~(req[r].turn + 1 < MaxTries)
      <4>1. Goto(r, "woken", "failed")
        BY <2>1, <3>1, <3>5 DEF NextTurn, Goto
      <4>2. req[r].turn \in Nat
        BY InflightConstants DEF FlightInv, InteractiveKeepsContext, TypeOK
      <4>3. ~Broken => Cardinality(Came(Fetchers)) >= MaxTries
        BY <3>3, <3>5, <4>2, OutrunnersCame, InflightConstants
      <4> QED BY <2>1, <4>1, <4>3 DEF Passive, Reason
    <3> QED BY <3>4, <3>5
  <2> QED BY <2>2, <2>3, <2>4
<1>6. CASE Reopen(r)
  <2>1. CASE cached
    BY <1>6, <2>1 DEF Reopen, Passive, FlightInv, CachedOrEvicted
  <2>2. CASE ~cached
    <3>1. Goto(r, "reopen", "failed") /\ UNCHANGED <<inflight, wait, ctx, gone, cached, used>>
      BY <1>6, <2>2 DEF Reopen
    <3>2. Stored
      BY <3>1 DEF Goto, FlightInv, Following, Stored
    <3>3. Broken
      BY <2>2, <3>2 DEF FlightInv, CachedOrEvicted, Broken
    <3> QED BY <3>1, <3>3 DEF Passive, Reason
  <2> QED BY <2>1, <2>2
<1> QED BY <1>1, <1>2, <1>3, <1>4, <1>5, <1>6

-----------------------------------------------------------------------------
(* The turns lost are kept by a step that makes no request forget one and  *)
(* no failed background request recover.                                   *)
LEMMA TurnsKept ==
  ASSUME TypeOK, TurnsLost, Broken => Broken', NEW S \in SUBSET Streamers,
         \A s \in S : /\ req'[s].turn = req[s].turn
                     /\ Outrunners \ Leader(s) \subseteq (Outrunners \ Leader(s))'
  PROVE  ~Broken' => \A s \in S : req'[s].turn <= Cardinality((Outrunners \ Leader(s))')
<1> SUFFICES ASSUME ~Broken', NEW s \in S
             PROVE  req'[s].turn <= Cardinality((Outrunners \ Leader(s))')
  OBVIOUS
<1>1. req[s].turn <= Cardinality(Outrunners \ Leader(s))
  BY DEF TurnsLost
<1>2. (Outrunners \ Leader(s))' \in SUBSET Requests
  BY DEF Outrunners, Requests
<1>3. IsFiniteSet((Outrunners \ Leader(s))') /\ Cardinality((Outrunners \ Leader(s))') \in Nat
  BY <1>2, RequestsFinite
<1>4. Cardinality(Outrunners \ Leader(s)) <= Cardinality((Outrunners \ Leader(s))')
      /\ Cardinality(Outrunners \ Leader(s)) \in Nat
  BY <1>3, FS_Subset, FS_CardinalityType
<1>5. req[s].turn \in Nat
  BY InflightConstants DEF TypeOK, Requests
<1> QED BY <1>1, <1>3, <1>4, <1>5

(* A request that changes nothing but itself *)
LEMMA PassiveKeeps ==
  ASSUME FlightInv, NEW r \in Requests, Passive(r),
         UNCHANGED <<inflight, wait, ctx, gone, cached, used>>
  PROVE  FlightInv'
<1> USE DEF FlightInv, Goto
<1> DEFINE Open == {"lookup", "claim", "await", "woken", "reopen"}
<1>1. PICK to \in {"lookup", "claim", "woken", "reopen", "served", "failed"} :
         /\ req[r].pc \in {"new"} \cup Open
         /\ \A q \in Requests : req'[q].pc = IF q = r THEN to ELSE req[q].pc
         /\ \A q \in Requests \ {r} : req'[q] = req[q]
         /\ to \in {"lookup", "claim"} => ~wait[r].entry /\ wait[r].err = "none" /\ ~wait[r].done
         /\ to \in {"woken", "reopen"} => wait[req[r].follows].done
         /\ to = "reopen" => wait[req[r].follows].entry
         /\ to = "woken" => req[r].pc = "await"
         /\ to \in {"woken", "reopen", "served", "failed"} =>
              req'[r].follows = req[r].follows /\ req'[r].turn = req[r].turn
         /\ to \in {"woken", "reopen"} => req[r].pc \in {"await", "woken"}
  BY SMTT(30) DEF Passive, InteractiveKeepsContext, TypeOK, RecordsInOrder, Following
<1>2. InteractiveKeepsContext'
  BY SMTT(30), InflightConstants DEF Passive, InteractiveKeepsContext, TypeOK
<1>3. LeaderIsInMap'
  BY <1>1 DEF LeaderIsInMap, InteractiveKeepsContext, TypeOK
<1>4. RecordsInOrder'
  BY <1>1 DEF RecordsInOrder
<1>5. Reasons'
  <2>1. \A q \in Requests : req[q].pc # "new" => req'[q].pc # "new"
    BY <1>1
  <2> QED BY <2>1 DEF Reasons, Requests
<1>6. CachedOrEvicted'
  BY DEF CachedOrEvicted, Stored
<1>7. Following'
  BY <1>1 DEF Following
<1>8. Outrunners' = Outrunners /\ Broken' = Broken
  BY DEF Outrunners, Broken
<1>9. TurnsLost'
  <2>1. ASSUME NEW s \in Streamers \ {r}
        PROVE  req'[s].turn = req[s].turn /\ Leader(s)' = Leader(s)
    BY <1>1 DEF Leader, Requests
  <2>2. CASE req'[r].turn = req[r].turn /\ Leader(r)' \subseteq Leader(r)
    BY <1>8, <2>1, <2>2, TurnsKept DEF TurnsLost, InteractiveKeepsContext
  <2>3. CASE ~(req'[r].turn = req[r].turn /\ Leader(r)' \subseteq Leader(r))
    <3>1. /\ ~Broken => req[r].turn + 1 <= Cardinality(Outrunners)
          /\ req'[r].turn = req[r].turn + 1 /\ Leader(r)' = {}
      BY <2>3 DEF Passive, Leader, InteractiveKeepsContext, TypeOK
    <3>2. ~Broken' => \A s \in Streamers \ {r} :
                        req'[s].turn <= Cardinality((Outrunners \ Leader(s))')
      BY <1>8, <2>1, TurnsKept DEF InteractiveKeepsContext
    <3>3. (Outrunners \ Leader(r))' = Outrunners
      BY <1>8, <3>1
    <3> QED BY <1>8, <3>1, <3>2, <3>3 DEF TurnsLost
  <2> QED BY <2>2, <2>3
<1> QED BY <1>2, <1>3, <1>4, <1>5, <1>6, <1>7, <1>9

(* The claim: the request leads, or it follows whoever is in the map; that *)
(* one is not over, so it is none of those the request has lost turns to.  *)
LEMMA ClaimKeeps ==
  ASSUME FlightInv, NEW r \in Requests, Claim(r)
  PROVE  FlightInv'
<1> USE DEF FlightInv, Goto
<1>1. UNCHANGED <<wait, gone, cached, used>> /\ req[r].pc = "claim"
  BY DEF Claim, Follow
<1>2. PICK to \in {"download", "await"} :
         /\ \A q \in Requests : req'[q].pc = IF q = r THEN to ELSE req[q].pc
         /\ \A q \in Requests : req'[q].turn = req[q].turn
         /\ \A q \in Requests \ {r} : req'[q] = req[q]
         /\ to = "download" => inflight = None /\ inflight' = r /\ ctx' = ctx
         /\ to = "await" =>
              /\ inflight # None /\ inflight' = inflight /\ req'[r].follows = inflight
              /\ ctx' = IF r \in Streamers THEN ctx \cup ({inflight} \cap Fetchers) ELSE ctx
  BY DEF Claim, Follow, InteractiveKeepsContext, TypeOK
<1>3. InteractiveKeepsContext'
  <2>1. TypeOK'
    BY DEF Claim, Follow, InteractiveKeepsContext, TypeOK, Requests
  <2> QED BY <1>1, <1>2, <2>1, InflightConstants DEF InteractiveKeepsContext
<1>4. r # None
  BY InflightConstants DEF Requests
<1>5. LeaderIsInMap'
  <2>1. inflight \in Requests \cup {None}
    BY DEF InteractiveKeepsContext, TypeOK
  <2>2. CASE to = "download"
    <3>1. \A q \in Requests : req[q].pc \notin {"download", "release"}
      BY <1>2, <2>2, InflightConstants DEF LeaderIsInMap, Requests
    <3>2. \A q \in Requests : req'[q].pc \in {"download", "release"} <=> q = r
      BY <1>2, <2>2, <3>1
    <3> QED BY <1>2, <2>2, <3>2 DEF LeaderIsInMap
  <2>3. CASE to = "await"
    BY <1>1, <1>2, <2>1, <2>3 DEF LeaderIsInMap
  <2> QED BY <2>2, <2>3
<1>6. RecordsInOrder'
  BY <1>1, <1>2 DEF RecordsInOrder
<1>7. Reasons'
  <2>1. \A q \in Requests : req'[q].pc # "new" <=> req[q].pc # "new"
    BY <1>1, <1>2
  <2> QED BY <1>1, <1>2, <2>1 DEF Reasons, Requests
<1>8. CachedOrEvicted'
  BY <1>1 DEF CachedOrEvicted, Stored
<1>9. Following'
  BY <1>1, <1>2 DEF Following, InteractiveKeepsContext, TypeOK
<1>10. Outrunners' = Outrunners /\ Broken' = Broken
  BY <1>1 DEF Outrunners, Broken
<1>11. TurnsLost'
  <2>1. \A s \in Streamers \ {r} : Leader(s)' = Leader(s)
    BY <1>2 DEF Leader, Requests
  <2>2. to = "await" => inflight \notin Outrunners
    BY <1>2 DEF LeaderIsInMap, RecordsInOrder, Outrunners, InteractiveKeepsContext, TypeOK
  <2>3. (Outrunners \ Leader(r))' = Outrunners /\ Leader(r) = {}
    BY <1>1, <1>2, <1>10, <2>2 DEF Leader
  <2>4. \A s \in Streamers : Outrunners \ Leader(s) \subseteq (Outrunners \ Leader(s))'
    BY <1>10, <2>1, <2>3
  <2>5. \A s \in Streamers : req'[s].turn = req[s].turn
    BY <1>2 DEF Requests
  <2> QED BY <1>10, <2>4, <2>5, TurnsKept DEF TurnsLost, InteractiveKeepsContext
<1> QED BY <1>3, <1>5, <1>6, <1>7, <1>8, <1>9, <1>11

(* The transfer ends, well or with an error *)
LEMMA DownloadKeeps ==
  ASSUME FlightInv, NEW r \in Requests, Download(r)
  PROVE  FlightInv'
<1> USE DEF FlightInv, Goto
<1>1. /\ UNCHANGED <<inflight, ctx, gone>>
      /\ req[r].pc = "download" /\ req' = [req EXCEPT ![r].pc = "release"]
  BY DEF Download
<1>2. PICK err \in {"none", "cancel", "fail"}, entry \in BOOLEAN :
         /\ wait' = [wait EXCEPT ![r].err = err, ![r].entry = entry]
         /\ err = "none" <=> entry
         /\ err = "none" => cached' = TRUE /\ used' = used
         /\ err = "cancel" => r \in ctx /\ cached' = cached /\ used' = used
         /\ err = "fail" =>
              /\ Breaks < MaxBreaks /\ cached' = cached
              /\ used' = [used EXCEPT !.failures = @ + 1]
  BY DEF Download, Outcome
<1>3. /\ \A q \in Requests : req'[q].pc = IF q = r THEN "release" ELSE req[q].pc
      /\ \A q \in Requests : req'[q].follows = req[q].follows /\ req'[q].turn = req[q].turn
      /\ \A q \in Requests \ {r} : req'[q] = req[q] /\ wait'[q] = wait[q]
      /\ wait'[r].err = err /\ wait'[r].entry = entry /\ wait'[r].done = wait[r].done
  BY <1>1, <1>2 DEF InteractiveKeepsContext, TypeOK
<1>4. wait[r].err = "none" /\ ~wait[r].entry /\ ~wait[r].done
  BY <1>1 DEF RecordsInOrder
<1>5. /\ used' \in [failures : 0..MaxBreaks, evictions : 0..MaxBreaks]
      /\ used'.evictions = used.evictions /\ used'.failures >= used.failures
      /\ err = "fail" => used'.failures > 0
      /\ used.failures \in Nat
  BY <1>2, BreaksBounded DEF InteractiveKeepsContext, TypeOK
<1>6. InteractiveKeepsContext'
  <2>1. req' \in [Requests -> [pc : {"new", "lookup", "claim", "download", "release",
                                     "close", "await", "woken", "reopen", "served",
                                     "failed"},
                               follows : Requests \cup {None}, turn : 0..(MaxTries - 1)]]
    BY SMTT(30), <1>1 DEF InteractiveKeepsContext, TypeOK
  <2>2. wait' \in [Requests -> [err : {"none", "cancel", "fail"},
                               entry : BOOLEAN, done : BOOLEAN]]
    <3> DEFINE Record == [err : {"none", "cancel", "fail"}, entry : BOOLEAN, done : BOOLEAN]
    <3>1. wait \in [Requests -> Record]
      BY DEF InteractiveKeepsContext, TypeOK
    <3>2. [wait[r] EXCEPT !.err = err, !.entry = entry] \in Record
      BY <3>1
    <3>3. wait' = [wait EXCEPT ![r] = [wait[r] EXCEPT !.err = err, !.entry = entry]]
      BY <1>2, <3>1
    <3> HIDE DEF Record
    <3>4. wait' \in [Requests -> Record]
      BY <3>1, <3>2, <3>3
    <3> QED BY <3>4 DEF Record
  <2>3. cached' \in BOOLEAN
    BY <1>2 DEF InteractiveKeepsContext, TypeOK
  <2> QED BY <1>1, <1>5, <2>1, <2>2, <2>3 DEF InteractiveKeepsContext, TypeOK
<1>7. LeaderIsInMap'
  BY <1>1, <1>3 DEF LeaderIsInMap, InteractiveKeepsContext, TypeOK
<1>8. RecordsInOrder'
  BY ZenonT(30), <1>2, <1>3, <1>4 DEF RecordsInOrder
<1>9. Reasons'
  <2>1. \A q \in Requests : req'[q].pc # "new" <=> req[q].pc # "new"
    BY <1>1, <1>3
  <2>2. ASSUME NEW q \in Requests
        PROVE  /\ wait'[q].err = "fail" => used'.failures > 0
               /\ wait'[q].err = "cancel" => q \in ctx
    BY <1>2, <1>3, <1>5 DEF Reasons
  <2> QED BY <1>1, <2>1, <2>2 DEF Reasons, Requests
<1>10. CachedOrEvicted'
  <2>1. Stored' <=> (Stored \/ entry)
    BY <1>3, <1>4 DEF Stored
  <2> QED BY <1>2, <1>5, <2>1 DEF CachedOrEvicted
<1>11. Following'
  BY <1>1, <1>3, <1>4 DEF Following
<1>12. Outrunners' = Outrunners /\ (Broken => Broken')
  BY <1>1, <1>3, <1>4, <1>5 DEF Outrunners, Broken, Requests
<1>13. TurnsLost'
  <2>1. ASSUME NEW s \in Streamers
        PROVE  Leader(s)' = Leader(s) /\ req'[s].turn = req[s].turn
    <3>1. s \in Requests
      BY DEF Requests
    <3>2. req'[s].turn = req[s].turn /\ req'[s].follows = req[s].follows
      BY <1>3, <3>1
    <3>3. req'[s].pc = req[s].pc \/ (req[s].pc = "download" /\ req'[s].pc = "release")
      BY <1>1, <1>3, <3>1
    <3> QED BY <3>2, <3>3 DEF Leader
  <2> QED BY <1>12, <2>1, TurnsKept DEF TurnsLost, InteractiveKeepsContext
<1> QED BY <1>6, <1>7, <1>8, <1>9, <1>10, <1>11, <1>13

(* The deferred function: the map is free again, then the record is closed *)
LEMMA ReleaseKeeps ==
  ASSUME FlightInv, NEW r \in Requests, Release(r) \/ Close(r)
  PROVE  FlightInv'
<1> USE DEF FlightInv, Goto
<1>1. PICK to \in {"close", "served", "failed"}, done \in BOOLEAN :
         /\ UNCHANGED <<ctx, gone, cached, used>>
         /\ req' = [req EXCEPT ![r].pc = to] /\ wait' = [wait EXCEPT ![r].done = done]
         /\ to = "close" => req[r].pc = "release" /\ inflight' = None /\ ~done
         /\ to # "close" => req[r].pc = "close" /\ inflight' = inflight /\ done
  <2>1. CASE Release(r)
    <3>1. wait' = [wait EXCEPT ![r].done = FALSE]
      BY <2>1 DEF Release, RecordsInOrder, InteractiveKeepsContext, TypeOK
    <3> QED BY <2>1, <3>1 DEF Release
  <2>2. CASE Close(r)
    BY <2>2 DEF Close
  <2> QED BY <2>1, <2>2
<1>2. /\ \A q \in Requests : req'[q].pc = IF q = r THEN to ELSE req[q].pc
      /\ \A q \in Requests : req'[q].follows = req[q].follows /\ req'[q].turn = req[q].turn
      /\ \A q \in Requests \ {r} : req'[q] = req[q] /\ wait'[q] = wait[q]
      /\ \A q \in Requests : wait'[q].err = wait[q].err /\ wait'[q].entry = wait[q].entry
      /\ wait'[r].done = done
  BY <1>1 DEF InteractiveKeepsContext, TypeOK
<1>3. InteractiveKeepsContext'
  BY SMTT(30), <1>1 DEF InteractiveKeepsContext, TypeOK
<1>4. LeaderIsInMap'
  BY <1>1, <1>2 DEF LeaderIsInMap, InteractiveKeepsContext, TypeOK
<1>5. RecordsInOrder'
  BY <1>1, <1>2 DEF RecordsInOrder
<1>6. Reasons'
  <2>1. \A q \in Requests : req'[q].pc # "new" <=> req[q].pc # "new"
    BY <1>1, <1>2
  <2> QED BY <1>1, <1>2, <2>1 DEF Reasons, Requests
<1>7. CachedOrEvicted'
  BY <1>1, <1>2 DEF CachedOrEvicted, Stored
<1>8. ~wait[r].done
  BY <1>1 DEF RecordsInOrder
<1>9. Following'
  BY <1>1, <1>2, <1>8 DEF Following
<1>10. Outrunners \subseteq Outrunners' /\ Broken' = Broken
  BY <1>1, <1>2, <1>8 DEF Outrunners, Broken, Requests
<1>11. TurnsLost'
  <2>1. \A s \in Streamers : Leader(s)' = Leader(s) /\ req'[s].turn = req[s].turn
    BY <1>1, <1>2 DEF Leader, Requests
  <2> QED BY <1>10, <2>1, TurnsKept DEF TurnsLost, InteractiveKeepsContext
<1> QED BY <1>3, <1>4, <1>5, <1>6, <1>7, <1>9, <1>11

(* The caller leaves, or the file is evicted: something is broken from now *)
LEMMA BreakKeeps ==
  ASSUME FlightInv, Evict \/ \E r \in Requests : Leave(r)
  PROVE  FlightInv' /\ Broken' /\ UNCHANGED <<inflight, wait, req>>
<1> USE DEF FlightInv
<1>1. CASE Evict
  <2>1. /\ cached' = FALSE /\ UNCHANGED <<inflight, wait, req, ctx, gone>>
        /\ used' = [used EXCEPT !.evictions = @ + 1] /\ Breaks < MaxBreaks
    BY <1>1 DEF Evict
  <2>2. /\ used' \in [failures : 0..MaxBreaks, evictions : 0..MaxBreaks]
        /\ used'.evictions > 0 /\ used'.failures = used.failures
    BY <2>1, BreaksBounded DEF InteractiveKeepsContext, TypeOK
  <2>3. InteractiveKeepsContext'
    BY <2>1, <2>2 DEF InteractiveKeepsContext, TypeOK
  <2>4. LeaderIsInMap' /\ RecordsInOrder' /\ Reasons' /\ Following'
    BY <2>1, <2>2 DEF LeaderIsInMap, RecordsInOrder, Reasons, Following
  <2>5. CachedOrEvicted' /\ Broken' /\ TurnsLost'
    BY <2>1, <2>2 DEF CachedOrEvicted, Broken, TurnsLost
  <2> QED BY <2>1, <2>3, <2>4, <2>5
<1>2. ASSUME NEW r \in Requests, Leave(r)
      PROVE  FlightInv' /\ Broken' /\ UNCHANGED <<inflight, wait, req>>
  <2>1. /\ UNCHANGED <<inflight, wait, req, cached, used>>
        /\ gone' = gone \cup {r} /\ ctx' = ctx \cup {r}
    BY <1>2 DEF Leave
  <2>2. InteractiveKeepsContext'
    BY <2>1 DEF InteractiveKeepsContext, TypeOK
  <2>3. LeaderIsInMap' /\ RecordsInOrder' /\ Reasons' /\ Following'
    BY <2>1 DEF LeaderIsInMap, RecordsInOrder, Reasons, Following
  <2>4. CachedOrEvicted' /\ Broken' /\ TurnsLost'
    BY <2>1 DEF CachedOrEvicted, Stored, Broken, TurnsLost
  <2> QED BY <2>1, <2>2, <2>3, <2>4
<1> QED BY <1>1, <1>2

-----------------------------------------------------------------------------
(* The invariant of the shared transfers holds in every behaviour. *)
LEMMA FlightInvHolds == Spec => []FlightInv
<1>1. FlightInv /\ [Next]_vars => FlightInv'
  <2> SUFFICES ASSUME FlightInv, [Next]_vars PROVE FlightInv'
    OBVIOUS
  <2>1. ASSUME NEW r \in Requests,
               \/ Arrive(r) \/ Lookup(r) \/ Await(r) \/ WakeFetcher(r)
               \/ WakeStreamer(r) \/ Reopen(r)
        PROVE  FlightInv'
    BY <2>1, PassiveStep, PassiveKeeps
  <2>2. ASSUME NEW r \in Requests, Claim(r) PROVE FlightInv'
    BY <2>2, ClaimKeeps
  <2>3. ASSUME NEW r \in Requests, Download(r) PROVE FlightInv'
    BY <2>3, DownloadKeeps
  <2>4. ASSUME NEW r \in Requests, Release(r) \/ Close(r) PROVE FlightInv'
    BY <2>4, ReleaseKeeps
  <2>5. CASE Evict \/ \E r \in Requests : Leave(r)
    BY <2>5, BreakKeeps
  <2>6. CASE UNCHANGED vars
    BY ZenonT(30), <2>6
       DEF vars, FlightInv, InteractiveKeepsContext, TypeOK, LeaderIsInMap, RecordsInOrder,
                Reasons, CachedOrEvicted, Following, TurnsLost, Stored, Broken, Outrunners, Leader
  <2> QED BY <2>1, <2>2, <2>3, <2>4, <2>5, <2>6 DEF Next, Step
<1> QED BY <1>1, InitFlight, PTL DEF Spec

(* A takeover cancels background downloads only: the context of an         *)
(* interactive request is cancelled by nobody but its caller.              *)
THEOREM OnlyCallersCancel == Spec => []InteractiveKeepsContext
BY FlightInvHolds, PTL DEF FlightInv

-----------------------------------------------------------------------------
(* The refinement *)

Phases == [r \in Requests |-> Phase(r)]

(* The constants and the sets of SingleFlight are those of Inflight. *)
LEMMA SameSets ==
  /\ Flight!Requests = Requests
  /\ \A r \in Requests : Phase(r) # "new" <=> req[r].pc # "new"
  /\ {r \in Fetchers : Phases[r] # "new"} = Came(Fetchers)
  /\ {r \in Streamers : Phases[r] # "new"} = Came(Streamers)
<1>1. Flight!Requests = Requests
  BY DEF Flight!Requests, Requests
<1>2. \A r \in Requests : Phase(r) # "new" <=> req[r].pc # "new"
  BY DEF Phase
<1> QED BY <1>1, <1>2 DEF Came, Phases, Requests

(* Nor does the instance count in another way. *)
LEMMA SameCardinality == \A S : Flight!Cardinality(S) = Cardinality(S)
BY DEF Flight!Cardinality, Cardinality

(* One request moves to another phase. *)
LEMMA PhaseMoves ==
  ASSUME NEW r \in Requests, \A q \in Requests \ {r} : req'[q].pc = req[q].pc
  PROVE  Phases' = [Phases EXCEPT ![r] = Phase(r)']
<1>1. \A q \in Requests \ {r} : Phase(q)' = Phase(q)
  BY DEF Phase
<1> QED BY <1>1 DEF Phases

(* A step that moves nothing in SingleFlight *)
LEMMA Stutters ==
  ASSUME NEW r \in Requests, \A q \in Requests \ {r} : req'[q].pc = req[q].pc,
         Phase(r)' = Phase(r), Stored' = Stored, Broken' = Broken
  PROVE  UNCHANGED Flight!vars
<1>1. Phases' = Phases
  BY PhaseMoves DEF Phases
<1> QED BY <1>1 DEF Flight!vars, Phases, Stored, Broken

(* An answer needs a file that was stored; a refusal needs its reason. *)
LEMMA Answers ==
  ASSUME NEW r \in Requests, \A q \in Requests \ {r} : req'[q].pc = req[q].pc,
         Phase(r) \in {"open", "led"}, UNCHANGED <<Stored, Broken>>,
         \/ Phase(r)' = "answered" /\ Stored
         \/ Phase(r)' = "refused" /\ Reason(r)
  PROVE  Flight!Next
<1>1. Phases' = [Phases EXCEPT ![r] = Phase(r)'] /\ Phases[r] \in {"open", "led"}
  BY PhaseMoves DEF Phases
<1>2. CASE Phase(r)' = "answered" /\ Stored
  <2>1. Flight!Answer(r)
    BY <1>1, <1>2 DEF Flight!Answer, Flight!Move, Phases, Stored, Broken
  <2> QED BY <2>1, SameSets DEF Flight!Next
<1>3. CASE Phase(r)' = "refused" /\ Reason(r)
  <2>1. Flight!Move(r, {"open", "led"}, "refused")
    BY <1>1, <1>3 DEF Flight!Move, Phases
  <2>2. Flight!Came(Fetchers) = Came(Fetchers) /\ Flight!Came(Streamers) = Came(Streamers)
    BY SameSets DEF Flight!Came, Phases
  <2>3. Flight!Refuse(r)
    BY <1>3, <2>1, <2>2, SameCardinality DEF Flight!Refuse, Reason, Stored, Broken
  <2> QED BY <2>3, SameSets DEF Flight!Next
<1> QED BY <1>2, <1>3

(* A step that changes nothing but its request *)
LEMMA PassiveRefines ==
  ASSUME FlightInv, NEW r \in Requests, Passive(r),
         UNCHANGED <<inflight, wait, ctx, gone, cached, used>>
  PROVE  Flight!Next \/ UNCHANGED Flight!vars
<1>0. Stored' = Stored /\ Broken' = Broken
  BY DEF Stored, Broken
<1>1. PICK to \in {"lookup", "claim", "woken", "reopen", "served", "failed"} :
         /\ \A q \in Requests \ {r} : req'[q].pc = req[q].pc
         /\ req'[r].pc = to
         /\ \/ req[r].pc = "new" /\ to = "lookup"
            \/ req[r].pc \in {"lookup", "await", "woken"} /\ to \in {"claim", "woken", "reopen"}
            \/ req[r].pc \in {"lookup", "woken", "reopen"} /\ to = "served" /\ Stored
            \/ /\ req[r].pc \in {"lookup", "await", "woken", "reopen"} /\ to = "failed"
               /\ Reason(r)
  BY DEF Passive, Goto, FlightInv, InteractiveKeepsContext, TypeOK
<1>2. CASE req[r].pc = "new" /\ to = "lookup"
  <2>1. Phase(r) = "new" /\ Phase(r)' = "open"
    BY <1>1, <1>2 DEF Phase
  <2>2. Phases' = [Phases EXCEPT ![r] = "open"] /\ Phases[r] = "new"
    BY <1>1, <2>1, PhaseMoves DEF Phases
  <2>3. Flight!Arrive(r)
    BY <1>0, <2>2 DEF Flight!Arrive, Flight!Move, Phases, Stored, Broken
  <2> QED BY <2>3, SameSets DEF Flight!Next
<1>3. CASE req[r].pc \in {"lookup", "await", "woken"} /\ to \in {"claim", "woken", "reopen"}
  <2>1. Phase(r)' = Phase(r)
    BY <1>1, <1>3 DEF Phase
  <2> QED BY <1>0, <1>1, <2>1, Stutters
<1>4. CASE req[r].pc \in {"lookup", "woken", "reopen"} /\ to = "served" /\ Stored
  <2>1. Phase(r) = "open" /\ Phase(r)' = "answered"
    BY <1>1, <1>4 DEF Phase
  <2> QED BY <1>0, <1>1, <1>4, <2>1, Answers
<1>5. CASE /\ req[r].pc \in {"lookup", "await", "woken", "reopen"} /\ to = "failed"
           /\ Reason(r)
  <2>1. Phase(r) = "open" /\ Phase(r)' = "refused"
    BY <1>1, <1>5 DEF Phase
  <2> QED BY <1>0, <1>1, <1>5, <2>1, Answers
<1> QED BY <1>1, <1>2, <1>3, <1>4, <1>5

(* The claim: nobody leads when the map is empty. *)
LEMMA ClaimRefines ==
  ASSUME FlightInv, NEW r \in Requests, Claim(r)
  PROVE  Flight!Next \/ UNCHANGED Flight!vars
<1>0. Stored' = Stored /\ Broken' = Broken
  BY DEF Claim, Follow, Stored, Broken
<1>1. req[r].pc = "claim" /\ \A q \in Requests \ {r} : req'[q].pc = req[q].pc
  BY DEF Claim, Follow, Goto, FlightInv, InteractiveKeepsContext, TypeOK
<1>2. CASE inflight = None
  <2>1. req'[r].pc = "download"
    BY <1>2 DEF Claim, Follow, Goto, FlightInv, InteractiveKeepsContext, TypeOK
  <2>2. Phase(r) = "open" /\ Phase(r)' = "leading"
    BY <1>1, <2>1 DEF Phase
  <2>3. Phases' = [Phases EXCEPT ![r] = "leading"] /\ Phases[r] = "open"
    BY <1>1, <2>2, PhaseMoves DEF Phases
  <2>4. \A q \in Requests : req[q].pc # "download"
    BY <1>2, InflightConstants DEF FlightInv, LeaderIsInMap, Requests
  <2>5. \A q \in Requests : Phases[q] # "leading"
    BY <2>4 DEF Phases, Phase
  <2>6. Flight!Leading = {}
    BY <2>5, SameSets DEF Flight!Leading, Phases
  <2>7. Flight!Lead(r)
    BY <1>0, <2>3, <2>6 DEF Flight!Lead, Flight!Move, Phases, Stored, Broken
  <2> QED BY <2>7, SameSets DEF Flight!Next
<1>3. CASE inflight # None
  <2>1. req'[r].pc = "await"
    BY <1>3 DEF Claim, Follow, Goto, FlightInv, InteractiveKeepsContext, TypeOK
  <2>2. Phase(r)' = Phase(r)
    BY <1>1, <2>1 DEF Phase
  <2> QED BY <1>0, <1>1, <2>2, Stutters
<1> QED BY <1>2, <1>3

(* The transfer *)
LEMMA DownloadRefines ==
  ASSUME FlightInv, NEW r \in Requests, Download(r)
  PROVE  Flight!Next
<1>1. /\ req[r].pc = "download" /\ req'[r].pc = "release"
      /\ \A q \in Requests \ {r} : req'[q].pc = req[q].pc
  BY DEF Download, Goto, FlightInv, InteractiveKeepsContext, TypeOK
<1>2. Phase(r) = "leading" /\ Phase(r)' = "led"
  BY <1>1 DEF Phase
<1>3. Phases' = [Phases EXCEPT ![r] = "led"] /\ Phases[r] = "leading"
  BY <1>1, <1>2, PhaseMoves DEF Phases
<1>4. /\ \A q \in Requests \ {r} : wait'[q].entry = wait[q].entry
      /\ ~wait[r].entry
  <2>1. PICK err, entry : wait' = [wait EXCEPT ![r].err = err, ![r].entry = entry]
    BY DEF Download, Outcome
  <2> QED BY <1>1, <2>1 DEF FlightInv, RecordsInOrder, InteractiveKeepsContext, TypeOK
<1>5. Stored => Stored'
  BY <1>4 DEF Stored
<1>6. Broken => Broken'
  <2>1. gone' = gone /\ (used' = used \/ used' = [used EXCEPT !.failures = @ + 1])
    BY DEF Download
  <2>2. used \in [failures : 0..MaxBreaks, evictions : 0..MaxBreaks]
    BY DEF FlightInv, InteractiveKeepsContext, TypeOK
  <2>3. used'.failures >= used.failures /\ used'.evictions = used.evictions
        /\ used.failures \in Nat /\ used'.failures \in Int
    BY <2>1, <2>2, InflightConstants
  <2> QED BY <2>1, <2>3 DEF Broken
<1>7. Stored \in BOOLEAN /\ Stored' \in BOOLEAN /\ Broken \in BOOLEAN /\ Broken' \in BOOLEAN
  BY DEF Stored, Broken
<1>8. Stored' \in {Stored, TRUE} /\ Broken' \in {Broken, TRUE}
  BY <1>5, <1>6, <1>7, Zenon
<1>9. Flight!Move(r, {"leading"}, "led")
  BY <1>3 DEF Flight!Move, Phases
<1>10. Flight!Transfer(r)
  BY <1>8, <1>9 DEF Flight!Transfer, Stored, Broken
<1> QED BY <1>10, SameSets DEF Flight!Next

(* What comes after the transfer: with an entry the leader answers, with   *)
(* an error it refuses.                                                    *)
LEMMA ReleaseRefines ==
  ASSUME FlightInv, NEW r \in Requests, Release(r) \/ Close(r)
  PROVE  Flight!Next \/ UNCHANGED Flight!vars
<1>0. Stored' = Stored /\ Broken' = Broken
  <2>1. \A q \in Requests : wait'[q].entry = wait[q].entry
    BY DEF Release, Close, FlightInv, InteractiveKeepsContext, TypeOK
  <2> QED BY <2>1 DEF Release, Close, Stored, Broken
<1>1. \A q \in Requests \ {r} : req'[q].pc = req[q].pc
  BY DEF Release, Close, Goto, FlightInv, InteractiveKeepsContext, TypeOK
<1>2. CASE Release(r)
  <2>1. req[r].pc = "release" /\ req'[r].pc = "close"
    BY <1>2 DEF Release, Goto, FlightInv, InteractiveKeepsContext, TypeOK
  <2>2. Phase(r)' = Phase(r)
    BY <2>1 DEF Phase
  <2> QED BY <1>0, <1>1, <2>2, Stutters
<1>3. CASE Close(r)
  <2>1. /\ req[r].pc = "close"
        /\ req'[r].pc = IF wait[r].err = "none" THEN "served" ELSE "failed"
    BY <1>3 DEF Close, Goto, FlightInv, InteractiveKeepsContext, TypeOK
  <2>2. CASE wait[r].err = "none"
    <3>1. Phase(r) = "led" /\ Phase(r)' = "answered"
      BY <2>1, <2>2 DEF Phase
    <3>2. Stored
      BY <2>1, <2>2 DEF FlightInv, RecordsInOrder, Stored
    <3> QED BY <1>0, <1>1, <3>1, <3>2, Answers
  <2>3. CASE wait[r].err # "none"
    <3>1. Phase(r) = "led" /\ Phase(r)' = "refused"
      BY <2>1, <2>3 DEF Phase
    <3>2. wait[r].err \in {"cancel", "fail"}
      BY <2>3 DEF FlightInv, InteractiveKeepsContext, TypeOK
    <3>3. Broken \/ (r \in Fetchers /\ Came(Streamers) # {})
      BY <3>2 DEF FlightInv, Reasons, Broken, Came
    <3>4. Reason(r)
      BY <3>3 DEF Reason
    <3> QED BY <1>0, <1>1, <3>1, <3>4, Answers
  <2> QED BY <2>2, <2>3
<1> QED BY <1>2, <1>3

(* The requests of one file implement SingleFlight: one transfer at a time,*)
(* an answer only when the file was stored, and no interactive request is  *)
(* refused unless something broke or as many background requests came as   *)
(* it takes turns - whatever the number of requests and turns.             *)
THEOREM FlightRefines == Spec => ImplementsSingleFlight
<1>1. Init => Flight!Init
  <2> SUFFICES ASSUME Init PROVE Flight!Init
    OBVIOUS
  <2>1. Phases = [r \in Requests |-> "new"]
    BY DEF Init, Phases, Phase
  <2>2. ~Stored /\ ~Broken
    BY DEF Init, Stored, Broken
  <2> QED BY <2>1, <2>2, SameSets DEF Flight!Init, Phases, Stored, Broken
<1>2. FlightInv /\ [Next]_vars => [Flight!Next]_(Flight!vars)
  <2> SUFFICES ASSUME FlightInv, [Next]_vars
               PROVE  Flight!Next \/ UNCHANGED Flight!vars
    OBVIOUS
  <2>1. ASSUME NEW r \in Requests,
               \/ Arrive(r) \/ Lookup(r) \/ Await(r) \/ WakeFetcher(r)
               \/ WakeStreamer(r) \/ Reopen(r)
        PROVE  Flight!Next \/ UNCHANGED Flight!vars
    BY <2>1, PassiveStep, PassiveRefines
  <2>2. ASSUME NEW r \in Requests, Claim(r)
        PROVE  Flight!Next \/ UNCHANGED Flight!vars
    BY <2>2, ClaimRefines
  <2>3. ASSUME NEW r \in Requests, Download(r) PROVE Flight!Next
    BY <2>3, DownloadRefines
  <2>4. ASSUME NEW r \in Requests, Release(r) \/ Close(r)
        PROVE  Flight!Next \/ UNCHANGED Flight!vars
    BY <2>4, ReleaseRefines
  <2>5. CASE Evict \/ \E r \in Requests : Leave(r)
    <3>1. Broken' /\ UNCHANGED <<inflight, wait, req>>
      BY <2>5, BreakKeeps
    <3>2. Flight!Break
      BY <3>1 DEF Flight!Break, Phase, Broken
    <3> QED BY <3>2 DEF Flight!Next
  <2>6. CASE UNCHANGED vars
    BY <2>6 DEF vars, Flight!vars, Phase
  <2> QED BY <2>1, <2>2, <2>3, <2>4, <2>5, <2>6 DEF Next, Step
<1> QED BY <1>1, <1>2, FlightInvHolds, PTL DEF Spec, ImplementsSingleFlight, Flight!Spec
=============================================================================
