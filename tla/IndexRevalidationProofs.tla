------------------------ MODULE IndexRevalidationProofs ------------------------
(***************************************************************************)
(* Proofs about the index in the proxy, for any number of requests, every  *)
(* history of publications, failures and deletions: what is kept is one    *)
(* answer, what is called confirmed or new was current, and a request that *)
(* has a copy all along is answered.                                       *)
(***************************************************************************)
EXTENDS IndexRevalidation, TLAPS

MetType == [bodies : BOOLEAN, empty : BOOLEAN, failed : BOOLEAN, torn : BOOLEAN]
History == met \in MetType /\ had \subseteq Requests

(* Neither were two different bodies put at once, nor did one fail. *)
Clean == ~met.bodies /\ ~met.failed

(* The requests that have a body to put. *)
Bringing == {r \in Requests : req[r].pc = "open"} \cup Putting

(* A file is named by a request that has opened one; it has one name: the  *)
(* copy's, the temporary or that next to the copy.                         *)
Opened(f) == f \in Requests => f \in Putting \/ req[f].pc = "done"
Moving == {r \in Requests : req[r].pc = "commit"}
OneName ==
  /\ Opened(entry.file)
  /\ Opened(tmp) /\ (tmp # None => tmp # entry.file)
  /\ \A r \in Requests : req[r].pc \in {"write", "commit"} => staged[r] # None
  /\ \A r \in Requests : Opened(staged[r])
  /\ \A r \in Moving : staged[r] # entry.file /\ staged[r] # tmp
  /\ \A q, r \in Moving : staged[q] = staged[r] => q = r

(* A file that may be read, now or once it has been moved, is empty only   *)
(* while a request is about to write it.                                   *)
Named(f) == f = entry.file \/ f = tmp \/ \E r \in Moving : f = staged[r]
NothingEmpty ==
  ~met.empty /\ ~met.failed =>
    /\ \A r \in Bringing : req[r].body # 0
    /\ \A f \in Files : Named(f) /\ content[f] = 0 => BeingWritten(f)

(* As long as only one body is put at a time, every file contains the body *)
(* of those who put, and tags go with their bodies.                        *)
OneBody ==
  Clean =>
    /\ \A q, r \in Putting : req[q].body = req[r].body
    /\ tmp # None /\ content[tmp] # 0 => \A r \in Putting : content[tmp] = req[r].body
    /\ \A r \in Moving : content[staged[r]] \in {0, req[r].body}
    /\ \A r \in Requests : req[r].pc = "write" => content[staged[r]] \in {0, req[r].body}
    /\ \A r \in Requests : req[r].pc = "write" /\ staged[r] = entry.file
                             => entry.tag = TagOf(req[r].body)
    /\ entry.file # None => content[entry.file] # Torn
    /\ TagIsOfBody
    /\ \A r \in Requests : req[r].pc \in {"stale", "wait"} /\ req[r].body \notin {0, Torn}
                             => req[r].tag = TagOf(req[r].body)
TagsOfBodies == \A r \in Bringing : req[r].tag = TagOf(req[r].body)

(* Who waits follows a revalidation that has begun, and who brings a body  *)
(* knows the one it comes from, or has fetched it himself.                 *)
Leaders ==
  /\ running # None => reval[running].pc # "off"
  /\ \A r \in Requests :
       /\ req[r].pc \in {"new", "miss", "stale", "full"} => reval[r].pc = "off"
       /\ reval[r].pc = "off" => reval[r].base = 0
       /\ reval[r].pc \in {"head", "get", "silent", "renew", "forget", "close"}
            => req[r].pc = "wait" /\ req[r].leader = r
       /\ req[r].pc = "wait" =>
            req[r].leader # None /\ reval[req[r].leader].pc # "off"
       /\ r \in Bringing =>
            /\ req[r].leader # None
            /\ req[r].leader = r \/ reval[req[r].leader].pc # "off"
            /\ Current(req[r].body, reval[req[r].leader].base)

(* What a revalidation finds is not older than its beginning. *)
Results ==
  \A r \in Requests :
    /\ reval[r].base <= upstream
    /\ reval[r].pc = "off" => reval[r].result = "none"
    /\ reval[r].result = "changed" =>
         Current(reval[r].body, reval[r].base) /\ reval[r].body # 0
    /\ reval[r].pc = "head" => req[r].body # 0 /\ req[r].tag # 0
    /\ ~met.torn /\ req[r].pc \in {"stale", "wait"} => req[r].body # Torn
    /\ Clean /\ ~met.torn /\ reval[r].pc = "renew" => Current(req[r].body, reval[r].base)
    /\ Clean /\ ~met.torn /\ reval[r].result = "renewed"
         => Current(reval[r].body, reval[r].base)

(* While anybody counts as having had a copy, there is one to read, and he *)
(* has read it; nobody is answered before he asks.                         *)
HasRead ==
  /\ \A r \in Requests : req[r].pc = "new" => answer[r].label = "none"
  /\ had # {} => Readable(entry, content)
  /\ \A r \in had :
       /\ req[r].pc # "new"
       /\ req[r].pc \in {"stale", "wait"} => req[r].body # 0
       /\ req[r].pc = "full" => r \in Of("prefetch")

IndexInv ==
  /\ TypeOK /\ History
  /\ OneName /\ NothingEmpty /\ OneBody /\ TagsOfBodies
  /\ Leaders /\ Results /\ ConfirmedIsCurrent
  /\ HasRead /\ CopySaves

-----------------------------------------------------------------------------
(* Steps *)

Pcs == {"new", "miss", "stale", "wait", "full", "silent", "open", "write", "put", "commit",
        "cleanup", "done"}
Labels == {"none", "hit", "stale", "miss", "revalidated", "refused"}
Record == [pc : Pcs, body : Bodies, tag : Bodies, leader : Requests \cup {None}]
Others(r) == \A q \in Requests \ {r} : req'[q] = req[q]

(* A request goes to its next step. *)
LEMMA GotoMoves ==
  ASSUME TypeOK, NEW r \in Requests, NEW from, NEW to \in Pcs, Goto(r, from, to)
  PROVE  /\ req' \in [Requests -> Record] /\ Others(r)
         /\ req[r].pc = from /\ req'[r].pc = to /\ req'[r].body = req[r].body
         /\ req'[r].tag = req[r].tag /\ req'[r].leader = req[r].leader
<1>1. req \in [Requests -> Record] /\ req[r] \in Record
  BY DEF TypeOK, Record, Pcs
<1> DEFINE new == [req[r] EXCEPT !.pc = to]
<1>2. /\ new \in Record /\ new.pc = to /\ new.body = req[r].body
      /\ new.tag = req[r].tag /\ new.leader = req[r].leader
  BY <1>1 DEF Record
<1>3. req' = [req EXCEPT ![r] = new] /\ req[r].pc = from
  BY DEF Goto
<1> HIDE DEF new
<1> QED BY <1>1, <1>2, <1>3 DEF Others

(* A request goes on with another body. *)
LEMMA BodyMoves ==
  ASSUME TypeOK, NEW r \in Requests, NEW to \in Pcs, NEW b \in Bodies, NEW t \in Bodies,
         req' = [req EXCEPT ![r] = [@ EXCEPT !.pc = to, !.body = b, !.tag = t]]
  PROVE  /\ req' \in [Requests -> Record] /\ Others(r)
         /\ req'[r].pc = to /\ req'[r].body = b /\ req'[r].tag = t
         /\ req'[r].leader = req[r].leader
<1>1. req \in [Requests -> Record] /\ req[r] \in Record
  BY DEF TypeOK, Record, Pcs
<1> DEFINE new == [req[r] EXCEPT !.pc = to, !.body = b, !.tag = t]
<1>2. /\ new \in Record /\ new.pc = to /\ new.body = b
      /\ new.tag = t /\ new.leader = req[r].leader
  BY <1>1 DEF Record
<1>3. req' = [req EXCEPT ![r] = new]
  OBVIOUS
<1> HIDE DEF new
<1> QED BY <1>1, <1>2, <1>3 DEF Others

(* A request is answered and done. *)
LEMMA AnsweredMoves ==
  ASSUME TypeOK, NEW r \in Requests, NEW label \in Labels, NEW current \in BOOLEAN,
         Answered(r, label, current)
  PROVE  /\ req' \in [Requests -> Record] /\ Others(r)
         /\ req'[r].pc = "done" /\ req'[r].body = 0
         /\ answer' \in [Requests -> [label : Labels, current : BOOLEAN]]
         /\ answer'[r].label = label /\ answer'[r].current = current
         /\ \A q \in Requests \ {r} : answer'[q] = answer[q]
<1>1. 0 \in Bodies
  BY IndexConstants DEF Bodies, Torn
<1>2. Idle("done") \in Record /\ Idle("done").pc = "done" /\ Idle("done").body = 0
  BY <1>1 DEF Idle, Record, Pcs
<1>3. /\ req' \in [Requests -> Record] /\ Others(r)
      /\ req'[r].pc = "done" /\ req'[r].body = 0
  BY <1>2 DEF TypeOK, Answered, Others, Record, Pcs
<1> DEFINE new == [label |-> label, current |-> current]
<1>4. new \in [label : Labels, current : BOOLEAN] /\ new.label = label
      /\ new.current = current
  OBVIOUS
<1> HIDE DEF new
<1>5. answer' = [answer EXCEPT ![r] = new]
  BY DEF Answered, new
<1>6. answer \in [Requests -> [label : Labels, current : BOOLEAN]]
  BY DEF TypeOK, Labels
<1> QED BY <1>3, <1>4, <1>5, <1>6

(* Who reads nothing has found an empty file. *)
LEMMA EmptySeen == 0 \in Seen => ~Readable(entry, content)
<1>1. Torn # 0
  BY IndexConstants DEF Torn
<1> QED BY <1>1 DEF Seen, Readable, Body

(* Requests that find a copy are refused only if it is empty. *)
LEMMA FallBackAnswers ==
  ASSUME NEW r \in Requests, FallBack(r)
  PROVE  \E label \in {"stale", "refused"} :
           /\ Answered(r, label, FALSE)
           /\ label = "refused" => ~Readable(entry, content)
<1>1. CASE entry.file = None
  BY <1>1 DEF FallBack, Readable
<1>2. CASE entry.file # None
  <2>1. PICK body \in Seen : FromCache(r, "stale", body)
    BY <1>2 DEF FallBack
  <2>2. body = 0 => ~Readable(entry, content)
    BY EmptySeen
  <2> QED BY <2>1, <2>2 DEF FromCache
<1> QED BY <1>1, <1>2

-----------------------------------------------------------------------------
(* Types *)

(* What the types of the parts a step leaves alone need. *)
LEMMA TypesOfParts ==
  ASSUME TypeOK, History
  PROVE  /\ req \in [Requests -> Record] /\ content \in [Files -> Bodies]
         /\ answer \in [Requests -> [label : Labels, current : BOOLEAN]]
         /\ upstream \in Bodies /\ 0 \in Bodies /\ None \notin Files
         /\ upstream \in Nat \ {0} /\ upstream <= MaxVersion /\ Torn \in Bodies
         /\ Torn = MaxVersion + 1 /\ MaxVersion \in Nat /\ Seen \subseteq Bodies \cup {Body}
         /\ \A v \in Bodies : TagOf(v) \in Bodies /\ v \in Nat
         /\ setup.kind \in [Requests -> {"GET", "HEAD", "prefetch"}]
         /\ setup.etags \in BOOLEAN
BY IndexConstants DEF TypeOK, History, Record, Pcs, Labels, Bodies, Files, TagOf, Torn, Seen

EntryType == [meta : BOOLEAN, file : Files \cup {None}, tag : Bodies, fresh : BOOLEAN]
RevalType ==
  [pc : {"off", "head", "get", "silent", "renew", "forget", "close", "closed"}, base : Bodies,
   result : {"none", "renewed", "changed"}, body : Bodies]

(* An entry that is dropped has the type of one. *)
LEMMA NoEntryTypes ==
  ASSUME TypeOK, History
  PROVE  NoEntry \in EntryType /\ ~NoEntry.fresh /\ NoEntry.file = None /\ ~NoEntry.meta
BY TypesOfParts DEF NoEntry, EntryType

(* The history is only added to. *)
LEMMA MetGrows ==
  ASSUME met \in MetType, NEW b \in BOOLEAN,
         \/ met' = [met EXCEPT !.bodies = @ \/ b]
         \/ met' = [met EXCEPT !.empty = @ \/ b]
         \/ met' = [met EXCEPT !.torn = @ \/ b]
         \/ met' = [met EXCEPT !.failed = TRUE]
         \/ met' = met
  PROVE  /\ met' \in MetType
         /\ met.bodies => met'.bodies
         /\ met.empty => met'.empty
         /\ met.torn => met'.torn
         /\ met.failed => met'.failed
<1>1. \A x \in BOOLEAN : (x \/ b) \in BOOLEAN /\ (x => (x \/ b))
  OBVIOUS
<1>2. ASSUME NEW x \in BOOLEAN
      PROVE  /\ [met EXCEPT !.bodies = x] \in MetType /\ [met EXCEPT !.bodies = x].bodies = x
             /\ [met EXCEPT !.empty = x] \in MetType /\ [met EXCEPT !.empty = x].empty = x
             /\ [met EXCEPT !.torn = x] \in MetType /\ [met EXCEPT !.torn = x].torn = x
             /\ [met EXCEPT !.failed = x] \in MetType /\ [met EXCEPT !.failed = x].failed = x
  BY DEF MetType
<1>3. /\ met.bodies \in BOOLEAN /\ met.empty \in BOOLEAN
      /\ met.torn \in BOOLEAN /\ met.failed \in BOOLEAN
  BY DEF MetType
<1>4. CASE met' = [met EXCEPT !.bodies = @ \/ b]
  BY <1>1, <1>2, <1>3, <1>4 DEF MetType
<1>5. CASE met' = [met EXCEPT !.empty = @ \/ b]
  BY <1>1, <1>2, <1>3, <1>5 DEF MetType
<1>6. CASE met' = [met EXCEPT !.torn = @ \/ b]
  BY <1>1, <1>2, <1>3, <1>6 DEF MetType
<1>7. CASE met' = [met EXCEPT !.failed = TRUE]
  BY <1>1, <1>2, <1>3, <1>7 DEF MetType
<1> QED BY <1>4, <1>5, <1>6, <1>7

(* The types, variable by variable. *)
LEMMA TypesTogether ==
  ASSUME setup' = setup, TypeOK,
         upstream' \in 1..MaxVersion, entry' \in EntryType,
         entry'.fresh \/ entry'.file # None => entry'.meta,
         content' \in [Files -> Bodies], tmp' \in Requests \cup {None},
         staged' \in [Requests -> Requests \cup {None}],
         req' \in [Requests -> Record], reval' \in [Requests -> RevalType],
         running' \in Requests \cup {None},
         answer' \in [Requests -> [label : Labels, current : BOOLEAN]]
  PROVE  TypeOK'
BY DEF TypeOK, EntryType, RevalType, Record, Pcs, Labels

(* Looking up an index keeps the types. *)
LEMMA LookupTypes ==
  ASSUME TypeOK, History, Leaders, NEW r \in Requests, Lookup(r)
  PROVE  TypeOK' /\ History'
<1> USE DEF fileVars, revalVars
<1>a. UNCHANGED <<setup, upstream, content, tmp, staged>>
  BY DEF Lookup, Arrive, AuthFails, ReadStale, NoCopy, Join, Await
<1>b. entry' \in EntryType /\ (entry'.fresh \/ entry'.file # None => entry'.meta)
  <2>1. entry' \in {entry, NoEntry}
    BY DEF Lookup, Arrive, AuthFails, ReadStale, NoCopy, Join, Await
  <2>2. entry \in EntryType /\ (entry.fresh \/ entry.file # None => entry.meta)
    BY DEF TypeOK, EntryType
  <2> QED BY <2>1, <2>2, NoEntryTypes
<1>0. TypeOK /\ UNCHANGED <<setup, upstream, content, tmp, staged>>
  BY <1>a
<1>1. had' \in {had, had \cup {r}}
  BY DEF Lookup, Arrive, AuthFails, ReadStale, NoCopy, Join, Await
<1>c. met' \in MetType
  <2>1. met' = met \/ \E body \in Seen : met' = [met EXCEPT !.torn = @ \/ body = Torn]
    BY DEF Lookup, Arrive, AuthFails, ReadStale, NoCopy, Join, Await
  <2>2. \A body \in Seen : (body = Torn) \in BOOLEAN
    OBVIOUS
  <2>3. \A b \in BOOLEAN : met' = [met EXCEPT !.torn = @ \/ b] => met' \in MetType
    BY MetGrows DEF History
  <2> QED BY <2>1, <2>2, <2>3 DEF History
<1>2. SUFFICES TypeOK'
  BY <1>0, <1>1, <1>c DEF History
<1>3. ASSUME req' \in [Requests -> Record], UNCHANGED revalVars,
             answer' \in [Requests -> [label : Labels, current : BOOLEAN]]
      PROVE  TypeOK'
  BY <1>0, <1>b, <1>3, TypesTogether DEF TypeOK, RevalType
<1>4. ASSUME NEW label \in Labels, NEW current \in BOOLEAN, Answered(r, label, current),
             UNCHANGED revalVars
      PROVE  TypeOK'
  BY <1>0, <1>3, <1>4, AnsweredMoves
<1>5. ASSUME NEW to \in Pcs, NEW from, Goto(r, from, to), UNCHANGED <<revalVars, answer>>
      PROVE  TypeOK'
  BY <1>0, <1>3, <1>5, TypesOfParts, GotoMoves
<1>6. CASE Arrive(r)
  BY <1>4, <1>5, <1>6 DEF Arrive, FromCache, Labels, Pcs
<1>7. CASE AuthFails(r)
  BY <1>4, <1>7, FallBackAnswers DEF AuthFails, Labels
<1>8. CASE ReadStale(r)
  <2>0. PICK body \in Seen :
          \/ FromCache(r, "stale", body)
          \/ /\ req' = [req EXCEPT ![r] = [@ EXCEPT !.pc = "stale", !.body = body,
                                                    !.tag = entry.tag]]
             /\ UNCHANGED answer
    BY <1>8 DEF ReadStale
  <2>1. CASE FromCache(r, "stale", body)
    BY <1>4, <1>8, <2>1 DEF ReadStale, FromCache, Labels
  <2>2. CASE /\ req' = [req EXCEPT ![r] = [@ EXCEPT !.pc = "stale", !.body = body,
                                                    !.tag = entry.tag]]
             /\ UNCHANGED answer
    <3>1. entry.file \in Files /\ body \in Bodies /\ entry.tag \in Bodies
      BY <1>8, TypesOfParts DEF ReadStale, TypeOK, Body
    <3>2. "stale" \in Pcs
      BY DEF Pcs
    <3>4. req' \in [Requests -> Record]
      BY <2>2, <3>1, <3>2, BodyMoves
    <3> QED BY <1>3, <1>8, <2>2, <3>4, TypesOfParts DEF ReadStale
  <2> QED BY <2>0, <2>1, <2>2
<1>9. CASE NoCopy(r)
  BY <1>5, <1>9 DEF NoCopy, Pcs
<1>10. CASE Join(r)
  <2>1. ASSUME NEW l \in Requests \cup {None}
        PROVE  [req EXCEPT ![r].pc = "wait", ![r].leader = l] \in [Requests -> Record]
    <3> DEFINE new == [req[r] EXCEPT !.pc = "wait", !.leader = l]
    <3>0. req[r] \in Record
      BY TypesOfParts
    <3>1. new \in Record
      BY <3>0 DEF Record, Pcs
    <3>2. [req EXCEPT ![r].pc = "wait", ![r].leader = l] = [req EXCEPT ![r] = new]
      BY TypesOfParts
    <3> HIDE DEF new
    <3> QED BY <3>1, <3>2, TypesOfParts
  <2>2. req' \in [Requests -> Record] /\ running' \in Requests \cup {None}
    <3>1. running \in Requests \cup {None} /\ req' \in
            {[req EXCEPT ![r].pc = "wait", ![r].leader = l] : l \in Requests \cup {None}}
      BY <1>10 DEF Join, TypeOK
    <3> QED BY ZenonT(30), <1>10, <2>1, <3>1 DEF Join
  <2>3. reval' \in [Requests -> RevalType]
    <3> DEFINE to == IF req[r].body = 0 THEN "forget"
                     ELSE IF req[r].tag # 0 THEN "head" ELSE "get"
    <3>1. to \in {"forget", "head", "get"}
      OBVIOUS
    <3>2. reval' = reval \/ reval' = [reval EXCEPT ![r].base = upstream, ![r].pc = to]
      BY <1>10 DEF Join
    <3> HIDE DEF to
    <3> DEFINE new == [reval[r] EXCEPT !.base = upstream, !.pc = to]
    <3>5. reval \in [Requests -> RevalType] /\ reval[r] \in RevalType /\ upstream \in Bodies
      BY TypesOfParts DEF TypeOK, RevalType
    <3>3. new \in RevalType
      BY <3>1, <3>5 DEF RevalType
    <3>4. reval' = reval \/ reval' = [reval EXCEPT ![r] = new]
      BY <3>2, <3>5
    <3> HIDE DEF new
    <3> QED BY <3>3, <3>4, <3>5
  <2> QED BY <1>0, <1>b, <1>10, <2>2, <2>3, TypesTogether, TypesOfParts
          DEF Join, TypeOK
<1>11. CASE Await(r)
  <2> DEFINE v == reval[req[r].leader]
  <2>1. v.body \in Bodies /\ v.base \in Bodies /\ Current(v.body, v.base) \in BOOLEAN
        /\ TagOf(v.body) \in Bodies
    BY <1>11, TypesOfParts DEF Await, Leaders, TypeOK, Current
  <2>2. CASE v.result = "renewed"
    BY <1>4, <1>11, <2>1, <2>2 DEF Await, Labels
  <2>3. CASE v.result = "changed"
    <3>1. req' = [req EXCEPT ![r] = [@ EXCEPT !.pc = "open", !.body = v.body,
                                              !.tag = TagOf(v.body)]]
      BY <1>11, <2>3 DEF Await
    <3>2. "open" \in Pcs
      BY DEF Pcs
    <3>3. req' \in [Requests -> Record]
      <4> HIDE DEF v
      <4> QED BY <2>1, <3>1, <3>2, BodyMoves
    <3> QED BY <1>3, <1>11, <2>3, <3>3, TypesOfParts DEF Await
  <2>4. CASE v.result \notin {"renewed", "changed"}
    BY <1>4, <1>11, <2>4 DEF Await, FromCache, Labels
  <2> QED BY <2>2, <2>3, <2>4
<1> QED BY <1>6, <1>7, <1>8, <1>9, <1>10, <1>11 DEF Lookup

RevalPcs == {"off", "head", "get", "silent", "renew", "forget", "close", "closed"}
OtherRevals(r) == \A q \in Requests \ {r} : reval'[q] = reval[q]

(* A revalidation goes to its next step. *)
LEMMA RevalMoves ==
  ASSUME TypeOK, NEW r \in Requests, NEW to \in RevalPcs,
         reval' = [reval EXCEPT ![r].pc = to]
  PROVE  /\ reval' \in [Requests -> RevalType] /\ OtherRevals(r)
         /\ reval'[r].pc = to /\ reval'[r].base = reval[r].base
         /\ reval'[r].result = reval[r].result /\ reval'[r].body = reval[r].body
<1>1. reval \in [Requests -> RevalType] /\ reval[r] \in RevalType
  BY DEF TypeOK, RevalType
<1> DEFINE new == [reval[r] EXCEPT !.pc = to]
<1>2. /\ new \in RevalType /\ new.pc = to /\ new.base = reval[r].base
      /\ new.result = reval[r].result /\ new.body = reval[r].body
  BY <1>1 DEF RevalType, RevalPcs
<1>3. reval' = [reval EXCEPT ![r] = new]
  OBVIOUS
<1> HIDE DEF new
<1> QED BY <1>1, <1>2, <1>3 DEF OtherRevals

(* A revalidation has found its result. *)
LEMMA RevalResults ==
  ASSUME TypeOK, NEW r \in Requests, NEW found \in {"renewed", "changed"}, NEW b \in Bodies,
         reval' = [reval EXCEPT ![r] =
                     [@ EXCEPT !.pc = "forget", !.result = found, !.body = b]]
  PROVE  /\ reval' \in [Requests -> RevalType] /\ OtherRevals(r)
         /\ reval'[r].pc = "forget" /\ reval'[r].base = reval[r].base
         /\ reval'[r].result = found /\ reval'[r].body = b
<1>1. reval \in [Requests -> RevalType] /\ reval[r] \in RevalType
  BY DEF TypeOK, RevalType
<1> DEFINE new == [reval[r] EXCEPT !.pc = "forget", !.result = found, !.body = b]
<1>2. /\ new \in RevalType /\ new.pc = "forget" /\ new.base = reval[r].base
      /\ new.result = found /\ new.body = b
  BY <1>1 DEF RevalType
<1>3. reval' = [reval EXCEPT ![r] = new]
  OBVIOUS
<1> HIDE DEF new
<1> QED BY <1>1, <1>2, <1>3 DEF OtherRevals

(* A revalidation keeps the types. *)
LEMMA RevalidateTypes ==
  ASSUME TypeOK, History, NEW r \in Requests, Revalidate(r)
  PROVE  TypeOK' /\ History'
<1> USE DEF fileVars
<1>0. UNCHANGED <<setup, upstream, content, tmp, staged, req, answer, met, had>>
  BY DEF Revalidate, Condition, BodyHalts, Compare, Renew, Forget, Close
<1>1. reval' \in [Requests -> RevalType]
  <2>1. CASE Condition(r)
    BY <2>1, RevalMoves DEF Condition, RevalPcs
  <2>2. CASE Compare(r)
    BY <2>2, RevalMoves, RevalResults, TypesOfParts DEF Compare, RevalPcs
  <2>3. CASE Renew(r)
    <3>1. req[r].body \in Bodies
      BY DEF TypeOK
    <3> QED BY <2>3, <3>1, RevalMoves, RevalResults DEF Renew, RevalPcs
  <2>4. CASE Forget(r) \/ Close(r) \/ BodyHalts(r)
    BY <2>4, RevalMoves DEF Forget, Close, BodyHalts, RevalPcs
  <2> QED BY <2>1, <2>2, <2>3, <2>4 DEF Revalidate
<1>2. running' \in Requests \cup {None}
  BY DEF Revalidate, Condition, BodyHalts, Compare, Renew, Forget, Close, TypeOK
<1>3. entry' \in EntryType /\ (entry'.fresh \/ entry'.file # None => entry'.meta)
  <2>1. entry \in EntryType /\ (entry.fresh \/ entry.file # None => entry.meta)
    BY DEF TypeOK, EntryType
  <2>2. entry' = entry \/ (entry' = [entry EXCEPT !.fresh = TRUE] /\ entry.meta)
    BY DEF Revalidate, Condition, BodyHalts, Compare, Renew, Forget, Close
  <2>3. [entry EXCEPT !.fresh = TRUE] \in EntryType
        /\ [entry EXCEPT !.fresh = TRUE].file = entry.file
        /\ [entry EXCEPT !.fresh = TRUE].meta = entry.meta
    BY <2>1 DEF EntryType
  <2> QED BY <2>1, <2>2, <2>3
<1>4. TypeOK'
  BY <1>0, <1>1, <1>2, <1>3, TypesTogether, TypesOfParts DEF TypeOK
<1> QED BY <1>0, <1>4 DEF History

(* Fetching the whole index keeps the types. *)
LEMMA FullGetTypes ==
  ASSUME TypeOK, History, NEW r \in Requests, FullGet(r)
  PROVE  TypeOK' /\ History'
<1> USE DEF fileVars, revalVars
<1>0. UNCHANGED <<setup, upstream, fileVars, revalVars, had>>
  BY DEF FullGet, Fetch, FetchFails, FetchRefused, FetchHalts
<1>1. met' \in MetType
  <2>1. met' = met \/ \E b \in BOOLEAN : met' = [met EXCEPT !.empty = @ \/ b]
    BY DEF FullGet, Fetch, FetchFails, FetchRefused, FetchHalts
  <2> QED BY <2>1, MetGrows DEF History
<1>2. SUFFICES TypeOK'
  BY <1>0, <1>1 DEF History
<1>3. ASSUME req' \in [Requests -> Record],
             answer' \in [Requests -> [label : Labels, current : BOOLEAN]]
      PROVE  TypeOK'
  BY <1>0, <1>3, TypesTogether DEF TypeOK, EntryType, RevalType
<1>4. ASSUME NEW label \in Labels, NEW current \in BOOLEAN, Answered(r, label, current)
      PROVE  TypeOK'
  BY <1>3, <1>4, AnsweredMoves
<1>5. CASE Fetch(r)
  <2>1. CASE Answered(r, "miss", TRUE)
    BY <1>4, <2>1 DEF Labels
  <2>2. CASE r \notin Of("HEAD")
    <3>1. PICK b \in {upstream, 0} :
            req' = [req EXCEPT ![r] = [@ EXCEPT !.pc = "open", !.body = b,
                                                !.tag = TagOf(b), !.leader = r]]
      BY <1>5, <2>2 DEF Fetch
    <3> DEFINE new == [req[r] EXCEPT !.pc = "open", !.body = b, !.tag = TagOf(b), !.leader = r]
    <3>2. b \in Bodies /\ TagOf(b) \in Bodies /\ req[r] \in Record
      BY TypesOfParts
    <3>3. new \in Record
      BY <3>2 DEF Record, Pcs
    <3>4. req' = [req EXCEPT ![r] = new]
      BY <3>1
    <3> HIDE DEF new
    <3>5. req' \in [Requests -> Record]
      BY <3>3, <3>4, TypesOfParts
    <3> QED BY <1>3, <1>5, <2>2, <3>5, TypesOfParts DEF Fetch
  <2> QED BY <1>5, <2>1, <2>2 DEF Fetch
<1>6. CASE FetchFails(r) \/ FetchRefused(r)
  BY <1>4, <1>6, FallBackAnswers DEF FetchFails, FetchRefused, Labels
<1>7. CASE FetchHalts(r)
  <2>1. "silent" \in Pcs /\ Goto(r, "full", "silent") /\ UNCHANGED answer
    BY <1>7 DEF FetchHalts, Pcs
  <2> QED BY <1>3, <2>1, GotoMoves, TypesOfParts
<1> QED BY <1>5, <1>6, <1>7 DEF FullGet

(* The steps of PutBytes; those after which its request is answered. *)
Ends(r) == OpenFails(r) \/ WriteFails(r) \/ CleanUp(r)
Goes(r) == OpenBytes(r) \/ WriteBytes(r) \/ Stage(r) \/ Commit(r) \/ CommitRefused(r) \/
           CommitLoses(r) \/ CommitUnrecorded(r)

(* Who ends PutBytes is answered. *)
LEMMA EndsMoves ==
  ASSUME TypeOK, NEW r \in Requests, Ends(r)
  PROVE  /\ Others(r) /\ r \in Bringing /\ req'[r].pc = "done" /\ req'[r].body = 0
         /\ AnsweredNew(r) /\ req' \in [Requests -> Record]
         /\ answer' \in [Requests -> [label : Labels, current : BOOLEAN]]
<1>1. AnsweredNew(r) /\ r \in Bringing
  BY DEF Ends, OpenFails, WriteFails, CleanUp, Bringing, Putting
<1>2. Current(req[r].body, reval[req[r].leader].base) \in BOOLEAN /\ "miss" \in Labels
  BY DEF Labels, Current
<1> QED BY <1>1, <1>2, AnsweredMoves DEF AnsweredNew

(* Who does not end it goes to its next step. *)
LEMMA GoesMoves ==
  ASSUME TypeOK, NEW r \in Requests, Goes(r)
  PROVE  /\ Others(r) /\ r \in Bringing /\ r \in Putting' /\ req'[r].body = req[r].body
         /\ req'[r].tag = req[r].tag /\ req'[r].leader = req[r].leader
         /\ req' \in [Requests -> Record] /\ UNCHANGED answer
<1>1. PICK from \in {"open", "write", "put", "commit"},
           to \in {"write", "put", "commit", "cleanup"} : Goto(r, from, to)
  BY DEF Goes, OpenBytes, WriteBytes, Stage, Commit, CommitRefused, CommitLoses,
         CommitUnrecorded
<1>2. to \in Pcs
  BY DEF Pcs
<1>3. /\ Others(r) /\ req[r].pc = from /\ req'[r].pc = to /\ req'[r].body = req[r].body
      /\ req'[r].tag = req[r].tag /\ req'[r].leader = req[r].leader
      /\ req' \in [Requests -> Record]
  BY <1>1, <1>2, GotoMoves
<1>4. UNCHANGED answer
  BY DEF Goes, OpenBytes, WriteBytes, Stage, Commit, CommitRefused, CommitLoses,
         CommitUnrecorded
<1> QED BY <1>3, <1>4 DEF Bringing, Putting

(* A step of PutBytes moves one request on, through the steps of PutBytes. *)
LEMMA PutMoves ==
  ASSUME TypeOK, NEW r \in Requests, PutBytes(r)
  PROVE  /\ Others(r) /\ r \in Bringing
         /\ \/ Ends(r) /\ req'[r].pc = "done" /\ r \notin Putting'
            \/ /\ Goes(r) /\ r \in Putting' /\ req'[r].body = req[r].body
               /\ req'[r].tag = req[r].tag /\ req'[r].leader = req[r].leader
BY EndsMoves, GoesMoves DEF PutBytes, Ends, Goes, Putting

(* What has been written is one of the bodies. *)
LEMMA WrittenTypes ==
  ASSUME TypeOK, History, NEW b \in Bodies, NEW c \in Bodies
  PROVE  Written(b, c) \subseteq Bodies /\ Written(b, c) \subseteq {b, c, Torn}
BY TypesOfParts DEF Written

(* Putting a body keeps the types. *)
LEMMA PutTypes ==
  ASSUME TypeOK, History, OneName, Leaders, NEW r \in Requests, PutBytes(r)
  PROVE  TypeOK' /\ History'
<1> USE DEF fileVars
<1>0. UNCHANGED <<setup, upstream, revalVars>>
  BY DEF PutBytes, OpenBytes, OpenFails, WriteBytes, WriteFails, Stage, Commit,
         CommitRefused, CommitLoses, CommitUnrecorded, CleanUp
<1>1. History'
  <2>1. had' \subseteq Requests
    BY DEF PutBytes, OpenBytes, OpenFails, WriteBytes, WriteFails, Stage, Commit,
         CommitRefused, CommitLoses, CommitUnrecorded, CleanUp, History
  <2>2. \/ \E b \in BOOLEAN : met' = [met EXCEPT !.bodies = @ \/ b]
        \/ met' = [met EXCEPT !.failed = TRUE]
        \/ met' = met
    BY DEF PutBytes, OpenBytes, OpenFails, WriteBytes, WriteFails, Stage, Commit,
         CommitRefused, CommitLoses, CommitUnrecorded, CleanUp
  <2>3. FALSE \in BOOLEAN
    OBVIOUS
  <2>4. met' \in MetType
    BY <2>2, <2>3, MetGrows DEF History
  <2> QED BY <2>1, <2>4 DEF History
<1>2. /\ tmp' \in Requests \cup {None} /\ staged' \in [Requests -> Requests \cup {None}]
  BY DEF PutBytes, OpenBytes, OpenFails, WriteBytes, WriteFails, Stage, Commit,
         CommitRefused, CommitLoses, CommitUnrecorded, CleanUp, TypeOK
<1>3. /\ req' \in [Requests -> Record]
      /\ answer' \in [Requests -> [label : Labels, current : BOOLEAN]]
  <2>1. CASE Ends(r)
    BY <2>1, EndsMoves
  <2>2. CASE Goes(r)
    BY <2>2, GoesMoves, TypesOfParts
  <2> QED BY <2>1, <2>2 DEF Ends, Goes, PutBytes
<1>4. content' \in [Files -> Bodies]
  <2>1. \A S : Gone(S) \in [Files -> Bodies]
    BY TypesOfParts DEF Gone
  <2>2. req[r].body \in Bodies
    BY DEF TypeOK
  <2>3. CASE WriteBytes(r) \/ WriteFails(r)
    <3>0. req[r].pc = "write"
      BY <2>3 DEF WriteBytes, WriteFails, Goto
    <3>1. staged[r] \in Files
      BY <3>0 DEF OneName, TypeOK, Files
    <3>2. PICK c \in Written(req[r].body, content[staged[r]])
                       \cup {content[staged[r]], Torn} :
            content' = [content EXCEPT ![staged[r]] = c]
      BY <2>3 DEF WriteBytes, WriteFails
    <3>3. content[staged[r]] \in Bodies
      BY <3>1, TypesOfParts
    <3>4. c \in Bodies
      BY <2>2, <3>2, <3>3, WrittenTypes, TypesOfParts
    <3> QED BY <3>2, <3>4, TypesOfParts
  <2>4. CASE ~WriteBytes(r) /\ ~WriteFails(r)
    BY <2>1, <2>4, TypesOfParts
       DEF PutBytes, OpenBytes, OpenFails, Stage, Commit, CommitRefused, CommitLoses,
           CommitUnrecorded, CleanUp
  <2> QED BY <2>3, <2>4
<1>5. entry' \in EntryType /\ (entry'.fresh \/ entry'.file # None => entry'.meta)
  <2>0. /\ entry \in EntryType /\ (entry.fresh \/ entry.file # None => entry.meta)
        /\ req[r].tag \in Bodies
    BY DEF TypeOK, EntryType
  <2>1. ASSUME req[r].pc = "commit"
        PROVE  staged[r] \in Files /\ staged[r] # None
    BY <2>1 DEF OneName, TypeOK, Files
  <2>2. CASE Commit(r)
    <3>1. /\ req[r].pc = "commit"
          /\ entry' = [meta |-> TRUE, file |-> staged[r], tag |-> req[r].tag, fresh |-> TRUE]
      BY <2>2 DEF Commit, Goto
    <3> QED BY <2>0, <2>1, <3>1 DEF EntryType
  <2>3. CASE CommitLoses(r)
    BY <2>0, <2>3 DEF CommitLoses, EntryType
  <2>4. CASE CommitUnrecorded(r)
    <3> DEFINE f == IF entry.meta THEN staged[r] ELSE None
    <3>1. req[r].pc = "commit" /\ entry' = [entry EXCEPT !.file = f]
      BY <2>4 DEF CommitUnrecorded, Goto
    <3>2. f \in Files \cup {None} /\ (f # None => entry.meta)
      BY <2>1, <3>1
    <3> HIDE DEF f
    <3> QED BY <2>0, <3>1, <3>2 DEF EntryType
  <2>5. CASE ~Commit(r) /\ ~CommitLoses(r) /\ ~CommitUnrecorded(r)
    <3>1. entry' = entry
      BY <2>5 DEF PutBytes, OpenBytes, OpenFails, WriteBytes, WriteFails, Stage,
                  CommitRefused, CleanUp
    <3> QED BY <2>0, <3>1
  <2> QED BY <2>2, <2>3, <2>4, <2>5
<1>6. upstream' \in 1..MaxVersion /\ reval' \in [Requests -> RevalType]
      /\ running' \in Requests \cup {None}
  BY <1>0 DEF revalVars, TypeOK, RevalType
<1>7. TypeOK'
  BY <1>0, <1>2, <1>3, <1>4, <1>5, <1>6, TypesTogether
<1> QED BY <1>1, <1>7

(* Every step keeps the types. *)
LEMMA TypesStep ==
  ASSUME TypeOK, History, OneName, Leaders, [Next]_vars
  PROVE  TypeOK' /\ History'
<1>1. ASSUME UNCHANGED <<setup, content, tmp, staged, req, revalVars, answer, met, had>>,
             upstream' \in 1..MaxVersion, entry' \in EntryType,
             entry'.fresh \/ entry'.file # None => entry'.meta
      PROVE  TypeOK' /\ History'
  BY <1>1, TypesTogether, TypesOfParts DEF TypeOK, History, revalVars, RevalType
<1>2. entry \in EntryType /\ (entry.fresh \/ entry.file # None => entry.meta)
      /\ upstream \in 1..MaxVersion
  BY DEF TypeOK, EntryType
<1>3. CASE Publish
  BY <1>1, <1>2, <1>3, IndexConstants DEF Publish, fileVars
<1>4. CASE Expire
  BY <1>1, <1>2, <1>4 DEF Expire, EntryType
<1>5. CASE Delete
  <2>1. content' \in [Files -> Bodies]
    BY <1>5, TypesOfParts DEF Delete, Gone
  <2>2. entry' \in EntryType /\ (entry'.fresh \/ entry'.file # None => entry'.meta)
    BY <1>5, NoEntryTypes DEF Delete
  <2>3. UNCHANGED <<setup, upstream, tmp, staged, req, revalVars, answer, met>> /\ had' = {}
    BY <1>5 DEF Delete
  <2>4. TypeOK'
    BY <1>2, <2>1, <2>2, <2>3, TypesTogether, TypesOfParts DEF TypeOK, RevalType, revalVars
  <2> QED BY <2>3, <2>4 DEF History
<1>6. CASE UNCHANGED vars
  BY <1>1, <1>2, <1>6 DEF vars, fileVars
<1>7. ASSUME NEW r \in Requests, Lookup(r) \/ Revalidate(r) \/ FullGet(r) \/ PutBytes(r)
      PROVE  TypeOK' /\ History'
  BY <1>7, LookupTypes, RevalidateTypes, FullGetTypes, PutTypes
<1> QED BY <1>3, <1>4, <1>5, <1>6, <1>7 DEF Next

-----------------------------------------------------------------------------
(* Files *)

(* What every step that puts nothing leaves alone. *)
FilesStay ==
  /\ entry'.file = entry.file /\ (entry.file # None => entry'.tag = entry.tag)
  /\ UNCHANGED <<setup, content, tmp, staged>>
  /\ \A q \in Requests :
       /\ IF q \in Putting THEN req'[q] = req[q] ELSE q \notin Putting'
       /\ req[q].pc = "done" => req'[q].pc = "done"

(* One request looks the index up or fetches it: it is not putting yet. *)
LEMMA SeekerMoves ==
  ASSUME TypeOK, NEW r \in Requests, Lookup(r) \/ FullGet(r)
  PROVE  /\ Others(r)
         /\ req[r].pc \in {"new", "miss", "stale", "wait", "full"}
         /\ req'[r].pc \in {"miss", "stale", "wait", "full", "silent", "open", "done"}
<1>1. ASSUME NEW label \in Labels, NEW current \in BOOLEAN, Answered(r, label, current)
      PROVE  Others(r) /\ req'[r].pc = "done"
  BY <1>1, AnsweredMoves
<1>2. ASSUME NEW to \in Pcs, NEW from, Goto(r, from, to)
      PROVE  Others(r) /\ req'[r].pc = to
  BY <1>2, GotoMoves
<1>3. CASE Arrive(r)
  BY <1>1, <1>2, <1>3 DEF Arrive, FromCache, Labels, Pcs
<1>4. CASE AuthFails(r)
  BY <1>1, <1>4, FallBackAnswers DEF AuthFails, Labels
<1>5. CASE ReadStale(r)
  <2>0. PICK body \in Seen :
          \/ FromCache(r, "stale", body)
          \/ req' = [req EXCEPT ![r] = [@ EXCEPT !.pc = "stale", !.body = body,
                                                 !.tag = entry.tag]]
    BY <1>5 DEF ReadStale
  <2>1. CASE FromCache(r, "stale", body)
    BY <1>1, <1>5, <2>1 DEF ReadStale, FromCache, Labels
  <2>2. CASE req' = [req EXCEPT ![r] = [@ EXCEPT !.pc = "stale", !.body = body,
                                                 !.tag = entry.tag]]
    BY <1>5, <2>2 DEF ReadStale, TypeOK, Others
  <2> QED BY <2>0, <2>1, <2>2
<1>6. CASE NoCopy(r)
  BY <1>2, <1>6 DEF NoCopy, Goto, Pcs
<1>7. CASE Join(r)
  BY <1>7 DEF Join, TypeOK, Others
<1>8. CASE Await(r)
  <2> DEFINE v == reval[req[r].leader]
  <2>1. CASE req' = [req EXCEPT ![r] = [@ EXCEPT !.pc = "open", !.body = v.body,
                                                 !.tag = TagOf(v.body)]]
    BY <1>8, <2>1 DEF Await, TypeOK, Others
  <2>2. CASE Answered(r, "revalidated", Current(v.body, v.base))
    <3>1. req' = [req EXCEPT ![r] = Idle("done")]
      BY <2>2 DEF Answered
    <3> QED BY <1>8, <3>1 DEF Await, TypeOK, Others, Idle
  <2>3. CASE FromCache(r, "stale", req[r].body)
    BY <1>1, <1>8, <2>3 DEF Await, FromCache, Labels
  <2> QED BY <1>8, <2>1, <2>2, <2>3 DEF Await
<1>9. CASE Fetch(r)
  <2>1. CASE Answered(r, "miss", TRUE)
    BY <1>1, <1>9, <2>1 DEF Fetch, Labels
  <2>2. CASE r \notin Of("HEAD")
    <3>1. PICK b : req' = [req EXCEPT ![r] = [@ EXCEPT !.pc = "open", !.body = b,
                                                !.tag = TagOf(b), !.leader = r]]
      BY <1>9, <2>2 DEF Fetch
    <3> QED BY <1>9, <3>1 DEF Fetch, TypeOK, Others
  <2> QED BY <1>9, <2>1, <2>2 DEF Fetch
<1>10. CASE FetchFails(r) \/ FetchRefused(r)
  BY <1>1, <1>10, FallBackAnswers DEF FetchFails, FetchRefused, Labels
<1>11. CASE FetchHalts(r)
  BY <1>2, <1>11 DEF FetchHalts, Goto, Pcs
<1> QED BY <1>3, <1>4, <1>5, <1>6, <1>7, <1>8, <1>9, <1>10, <1>11 DEF Lookup, FullGet

(* Such a step and those of the revalidation touch no file. *)
LEMMA SeekerStays ==
  ASSUME TypeOK, NEW r \in Requests, Lookup(r) \/ FullGet(r)
  PROVE  FilesStay
<1>1. UNCHANGED <<setup, content, tmp, staged>>
  BY DEF Lookup, Arrive, AuthFails, ReadStale, NoCopy, Join, Await,
         FullGet, Fetch, FetchFails, FetchRefused, FetchHalts, fileVars
<1>2. entry' = entry \/ (entry.file = None /\ entry'.file = None)
  <2>1. CASE Arrive(r)
    BY <2>1 DEF Arrive, NoEntry
  <2>2. CASE ~Arrive(r)
    BY <2>2 DEF Lookup, AuthFails, ReadStale, NoCopy, Join, Await, FullGet, Fetch,
                FetchFails, FetchRefused, FetchHalts, fileVars
  <2> QED BY <2>1, <2>2
<1> QED BY <1>1, <1>2, SeekerMoves DEF FilesStay, Others, Putting

(* A step of a revalidation touches no file and no request. *)
LEMMA RevalidateStays ==
  ASSUME TypeOK, NEW r \in Requests, Revalidate(r)
  PROVE  FilesStay /\ UNCHANGED <<req, met>>
<1>1. UNCHANGED <<setup, content, tmp, staged, req, met>>
  BY DEF Revalidate, Condition, BodyHalts, Compare, Renew, Forget, Close, fileVars
<1>2. entry' = entry \/ entry' = [entry EXCEPT !.fresh = TRUE]
  BY DEF Revalidate, Condition, BodyHalts, Compare, Renew, Forget, Close, fileVars
<1>3. entry'.file = entry.file /\ entry'.tag = entry.tag
  BY <1>2 DEF TypeOK
<1> QED BY <1>1, <1>3 DEF FilesStay, Putting

(* PutBytes that cannot open its file touches none. *)
LEMMA OpenFailsStays ==
  ASSUME TypeOK, NEW r \in Requests, OpenFails(r)
  PROVE  FilesStay
<1>1. UNCHANGED <<setup, entry, content, tmp, staged>> /\ req[r].pc = "open" /\ Ends(r)
  BY DEF OpenFails, fileVars, Ends
<1> QED BY <1>1, EndsMoves DEF FilesStay, Others, Putting

(* Which steps touch files. *)
LEMMA StaysOrPuts ==
  ASSUME TypeOK, [Next]_vars
  PROVE  FilesStay \/ Delete \/ \E r \in Requests : PutBytes(r)
<1>1. CASE Publish \/ UNCHANGED vars
  BY <1>1 DEF Publish, vars, fileVars, FilesStay, Putting
<1>2. CASE Expire
  BY <1>2 DEF Expire, FilesStay, Putting, TypeOK
<1> QED BY <1>1, <1>2, SeekerStays, RevalidateStays DEF Next

(* What each step of PutBytes does, file by file and request by request.   *)
LEMMA OpenDoes ==
  ASSUME TypeOK, OneName, NEW r \in Requests, OpenBytes(r)
  PROVE  \E f \in Requests :
           /\ req[r].pc = "open" /\ req'[r].pc = "write" /\ entry' = entry /\ setup' = setup
           /\ f = (IF tmp = None THEN r ELSE tmp) /\ tmp' = f
           /\ \A q \in Requests : staged'[q] = IF q = r THEN f ELSE staged[q]
           /\ \A g \in Files : content'[g] = IF g = f THEN 0 ELSE content[g]
           /\ Putting' = Putting \cup {r} /\ r \notin Putting
           /\ Moving' = Moving /\ r \notin Moving
           /\ f # entry.file /\ \A q \in Moving : staged[q] # f
<1>1. PICK f : f = IF tmp = None THEN r ELSE tmp
  OBVIOUS
<1>2. f \in Requests
  BY <1>1, IndexConstants DEF TypeOK
<1>3. /\ req[r].pc = "open" /\ req'[r].pc = "write" /\ Others(r)
      /\ tmp' = f /\ entry' = entry /\ setup' = setup
  BY <1>1, GotoMoves DEF OpenBytes, Pcs
<1>4. /\ \A q \in Requests : staged'[q] = IF q = r THEN f ELSE staged[q]
      /\ \A g \in Files : content'[g] = IF g = f THEN 0 ELSE content[g]
  BY <1>1 DEF OpenBytes, TypeOK
<1>5. /\ Putting' = Putting \cup {r} /\ r \notin Putting
      /\ Moving' = Moving /\ r \notin Moving
  BY <1>3 DEF Putting, Moving, Others
<1>6. f # entry.file /\ \A q \in Moving : staged[q] # f
  BY <1>1, <1>3 DEF OneName, Opened, Putting, Moving
<1> QED BY <1>1, <1>2, <1>3, <1>4, <1>5, <1>6

(* os.WriteFile writes the body into the file that was opened. *)
LEMMA WriteDoes ==
  ASSUME TypeOK, OneName, NEW r \in Requests, WriteBytes(r)
  PROVE  /\ req[r].pc = "write" /\ req'[r].pc = "put" /\ UNCHANGED <<setup, entry, tmp, met>>
         /\ staged[r] \in Requests
         /\ \A q \in Requests : staged'[q] = IF q = r THEN None ELSE staged[q]
         /\ \E c \in Written(req[r].body, content[staged[r]]) : \A g \in Files :
              content'[g] = IF g = staged[r] THEN c ELSE content[g]
         /\ Putting' = Putting /\ r \in Putting /\ Moving' = Moving /\ r \notin Moving
<1>1. /\ req[r].pc = "write" /\ req'[r].pc = "put" /\ Others(r)
      /\ UNCHANGED <<setup, entry, tmp, met>>
  BY GotoMoves DEF WriteBytes, Pcs
<1>2. staged[r] \in Requests
  BY <1>1 DEF OneName, TypeOK
<1>3. /\ \A q \in Requests : staged'[q] = IF q = r THEN None ELSE staged[q]
      /\ \E c \in Written(req[r].body, content[staged[r]]) : \A g \in Files :
           content'[g] = IF g = staged[r] THEN c ELSE content[g]
  BY DEF WriteBytes, TypeOK
<1> QED BY <1>1, <1>2, <1>3 DEF Putting, Moving, Others

(* Put moves the file aside, or removes it. *)
LEMMA StageDoes ==
  ASSUME TypeOK, NEW r \in Requests, Stage(r)
  PROVE  /\ req[r].pc = "put" /\ UNCHANGED <<setup, entry, content, met>> /\ tmp' = None
         /\ \/ /\ tmp # None /\ req'[r].pc = "commit" /\ Moving' = Moving \cup {r}
               /\ \A q \in Requests : staged'[q] = IF q = r THEN tmp ELSE staged[q]
            \/ req'[r].pc = "cleanup" /\ Moving' = Moving /\ staged' = staged
         /\ Putting' = Putting /\ r \in Putting /\ r \notin Moving
<1>1. /\ req[r].pc = "put" /\ Others(r)
      /\ UNCHANGED <<setup, entry, content, met>> /\ tmp' = None
      /\ \/ /\ tmp # None /\ req'[r].pc = "commit"
            /\ \A q \in Requests : staged'[q] = IF q = r THEN tmp ELSE staged[q]
         \/ req'[r].pc = "cleanup" /\ staged' = staged
  BY GotoMoves DEF Stage, Pcs, TypeOK
<1> QED BY <1>1 DEF Putting, Moving, Others

(* Put makes the file that was moved aside the copy. *)
LEMMA CommitDoes ==
  ASSUME TypeOK, OneName, NEW r \in Requests, Commit(r)
  PROVE  /\ req[r].pc = "commit" /\ req'[r].pc = "cleanup" /\ UNCHANGED <<setup, tmp, met>>
         /\ staged[r] \in Requests /\ staged[r] # entry.file
         /\ entry'.file = staged[r] /\ entry'.tag = req[r].tag
         /\ \A q \in Requests : staged'[q] = IF q = r THEN None ELSE staged[q]
         /\ \A g \in Files : content'[g] = IF g = entry.file THEN 0 ELSE content[g]
         /\ Putting' = Putting /\ Moving' = Moving \ {r} /\ r \in Moving
<1>1. /\ req[r].pc = "commit" /\ req'[r].pc = "cleanup" /\ Others(r)
      /\ UNCHANGED <<setup, tmp, met>>
      /\ entry'.file = staged[r] /\ entry'.tag = req[r].tag
      /\ \A q \in Requests : staged'[q] = IF q = r THEN None ELSE staged[q]
  BY GotoMoves DEF Commit, Pcs, TypeOK
<1>2. staged[r] \in Requests /\ staged[r] # entry.file
  BY <1>1 DEF OneName, TypeOK, Moving
<1>3. None \notin Files
  BY IndexConstants DEF Files
<1>4. \A g \in Files : content'[g] = IF g = entry.file THEN 0 ELSE content[g]
  BY <1>3 DEF Commit, Gone, TypeOK
<1> QED BY <1>1, <1>2, <1>4 DEF Putting, Moving, Others

(* Put, refused, removes the file that was moved aside. *)
LEMMA RefusedDoes ==
  ASSUME TypeOK, OneName, NEW r \in Requests, CommitRefused(r)
  PROVE  /\ req[r].pc = "commit" /\ req'[r].pc = "cleanup"
         /\ UNCHANGED <<setup, entry, tmp, met>> /\ staged[r] \in Requests
         /\ \A q \in Requests : staged'[q] = IF q = r THEN None ELSE staged[q]
         /\ \A g \in Files : content'[g] = IF g = staged[r] THEN 0 ELSE content[g]
         /\ Putting' = Putting /\ Moving' = Moving \ {r} /\ r \in Moving
<1>1. /\ req[r].pc = "commit" /\ req'[r].pc = "cleanup" /\ Others(r)
      /\ UNCHANGED <<setup, entry, tmp, met>>
      /\ \A q \in Requests : staged'[q] = IF q = r THEN None ELSE staged[q]
  BY GotoMoves DEF CommitRefused, Pcs, TypeOK
<1>2. staged[r] \in Requests
  BY <1>1 DEF OneName, TypeOK
<1>3. \A g \in Files : content'[g] = IF g = staged[r] THEN 0 ELSE content[g]
  BY <1>2, IndexConstants DEF CommitRefused, Gone, TypeOK
<1> QED BY <1>1, <1>2, <1>3 DEF Putting, Moving, Others

(* Put loses the old file and the one that was moved aside. *)
LEMMA LosesDoes ==
  ASSUME TypeOK, OneName, NEW r \in Requests, CommitLoses(r)
  PROVE  /\ req[r].pc = "commit" /\ req'[r].pc = "cleanup"
         /\ UNCHANGED <<setup, tmp, met>> /\ staged[r] \in Requests /\ entry'.file = None
         /\ \A q \in Requests : staged'[q] = IF q = r THEN None ELSE staged[q]
         /\ \A g \in Files :
              content'[g] = IF g \in {entry.file, staged[r]} THEN 0 ELSE content[g]
         /\ Putting' = Putting /\ Moving' = Moving \ {r} /\ r \in Moving
<1>1. /\ req[r].pc = "commit" /\ req'[r].pc = "cleanup" /\ Others(r)
      /\ UNCHANGED <<setup, tmp, met>> /\ entry'.file = None
      /\ \A q \in Requests : staged'[q] = IF q = r THEN None ELSE staged[q]
  BY GotoMoves DEF CommitLoses, Pcs, TypeOK
<1>2. staged[r] \in Requests
  BY <1>1 DEF OneName, TypeOK
<1>3. \A g \in Files :
        content'[g] = IF g \in {entry.file, staged[r]} THEN 0 ELSE content[g]
  BY DEF CommitLoses, Gone
<1> QED BY <1>1, <1>2, <1>3 DEF Putting, Moving, Others

(* Put cannot record the file that has taken its place. *)
LEMMA UnrecordedDoes ==
  ASSUME TypeOK, History, OneName, NEW r \in Requests, CommitUnrecorded(r)
  PROVE  /\ req[r].pc = "commit" /\ req'[r].pc = "cleanup"
         /\ UNCHANGED <<setup, tmp>> /\ met'.failed
         /\ staged[r] \in Requests /\ staged[r] # entry.file
         /\ entry'.file \in {staged[r], None}
         /\ \A q \in Requests : staged'[q] = IF q = r THEN None ELSE staged[q]
         /\ Putting' = Putting /\ Moving' = Moving \ {r} /\ r \in Moving
<1>1. /\ req[r].pc = "commit" /\ req'[r].pc = "cleanup" /\ Others(r)
      /\ UNCHANGED <<setup, tmp>> /\ entry'.file \in {staged[r], None}
      /\ \A q \in Requests : staged'[q] = IF q = r THEN None ELSE staged[q]
  BY GotoMoves DEF CommitUnrecorded, Pcs, TypeOK
<1>2. staged[r] \in Requests /\ staged[r] # entry.file
  BY <1>1 DEF OneName, TypeOK, Moving
<1>3. met'.failed
  BY DEF CommitUnrecorded, History, MetType
<1> QED BY <1>1, <1>2, <1>3 DEF Putting, Moving, Others

(* A body that could not be written leaves its file where it is. *)
LEMMA WriteFailsDoes ==
  ASSUME TypeOK, History, NEW r \in Requests, WriteFails(r)
  PROVE  /\ req[r].pc = "write" /\ req'[r].pc = "done" /\ met'.failed
         /\ UNCHANGED <<setup, entry, tmp, staged>>
         /\ Putting' = Putting \ {r} /\ r \in Putting
         /\ Moving' = Moving /\ r \notin Moving
<1>1. req[r].pc = "write" /\ UNCHANGED <<setup, entry, tmp, staged>>
  BY DEF WriteFails
<1>2. Others(r) /\ req'[r].pc = "done"
  BY EndsMoves DEF Ends
<1>3. met'.failed
  BY DEF WriteFails, History, MetType
<1> QED BY <1>1, <1>2, <1>3 DEF Putting, Moving, Others

(* The deferred removal takes the temporary name away. *)
LEMMA CleanUpDoes ==
  ASSUME TypeOK, NEW r \in Requests, CleanUp(r)
  PROVE  /\ req[r].pc = "cleanup" /\ req'[r].pc = "done" /\ tmp' = None
         /\ UNCHANGED <<setup, entry, content, staged, met>>
         /\ Putting' = Putting \ {r} /\ r \in Putting
         /\ Moving' = Moving /\ r \notin Moving
<1>1. /\ req[r].pc = "cleanup" /\ tmp' = None
      /\ UNCHANGED <<setup, entry, content, staged, met>>
  BY DEF CleanUp
<1>2. Others(r) /\ req'[r].pc = "done"
  BY EndsMoves DEF Ends
<1> QED BY <1>1, <1>2 DEF Putting, Moving, Others

(* The copy is deleted, and its file with it. *)
LEMMA DeleteDoes ==
  ASSUME TypeOK, Delete
  PROVE  /\ entry'.file = None
         /\ UNCHANGED <<setup, tmp, staged, req, met>>
         /\ \A g \in Files : content'[g] = IF g = entry.file THEN 0 ELSE content[g]
         /\ Putting' = Putting /\ Moving' = Moving
BY DEF Delete, NoEntry, Gone, TypeOK, Putting, Moving

(* A file keeps one name. *)
LEMMA OneNameStep ==
  ASSUME TypeOK, History, OneName, [Next]_vars
  PROVE  OneName'
<1>0. First \notin Requests /\ None \notin Requests /\ First # None
  BY IndexConstants
<1>1. CASE FilesStay
  BY <1>1 DEF FilesStay, OneName, Opened, Moving, Putting
<1>2. CASE Delete
  <2>1. Opened(None) /\ Opened(None)'
    BY <1>0 DEF Opened
  <2> QED BY <1>0, <1>2, <2>1, DeleteDoes DEF OneName, Opened, Moving
<1>3. ASSUME NEW r \in Requests, PutBytes(r)
      PROVE  OneName'
  <2>0. /\ Others(r) /\ r \in Bringing
        /\ req'[r].pc = "done" \/ r \in Putting'
    BY <1>3, EndsMoves, GoesMoves DEF PutBytes, Ends, Goes
  <2>1. ASSUME NEW f, Opened(f)
        PROVE  Opened(f)'
    BY <2>0, <2>1 DEF Opened, Putting, Others, Bringing
  <2>2. Opened(None) /\ Opened(None)'
    BY <1>0 DEF Opened
  <2>3. ASSUME Opened(entry.file)', \A q \in Requests : Opened(staged[q])',
               Opened(tmp)', tmp' # None => tmp' # entry'.file,
               req'[r].pc \in {"write", "commit"} => staged'[r] # None,
               \A q \in Requests \ {r} : staged'[q] = staged[q],
               \A q \in Moving' : staged'[q] # entry'.file /\ staged'[q] # tmp',
               \A p, q \in Moving' : staged'[p] = staged'[q] => p = q
        PROVE  OneName'
    BY <2>0, <2>3 DEF OneName, Others
  <2>4. \A q \in Moving : q \in Requests
    BY DEF Moving
  <2>5. CASE OpenBytes(r)
    <3>1. PICK f \in Requests : f = tmp' /\ (f = r \/ f = tmp) /\ r \in Putting'
      BY <2>5, OpenDoes
    <3>2. Opened(f)'
      <4>1. CASE f = r
        BY <3>1, <4>1 DEF Opened
      <4>2. CASE f = tmp
        BY <2>1, <4>2 DEF OneName
      <4> QED BY <3>1, <4>1, <4>2
    <3> QED BY <1>0, <2>1, <2>3, <2>4, <2>5, <3>1, <3>2, OpenDoes DEF OneName
  <2>6. CASE WriteBytes(r)
    BY <2>1, <2>2, <2>3, <2>4, <2>6, WriteDoes DEF OneName
  <2>7. CASE Stage(r)
    <3>1. Opened(tmp)
      BY <1>0 DEF OneName, Opened, TypeOK
    <3>2. /\ entry' = entry /\ tmp' = None /\ r \notin Moving
          /\ \A q \in Requests \ {r} : staged'[q] = staged[q]
      BY <2>7, StageDoes
    <3>3. \A q \in Requests : Opened(staged[q])'
      <4>1. staged'[r] = tmp \/ staged'[r] = staged[r]
        BY <2>7, StageDoes
      <4>2. ASSUME NEW q \in Requests
            PROVE  \E f : f = staged'[q] /\ Opened(f)
        BY <3>1, <3>2, <4>1 DEF OneName
      <4> QED BY <2>1, <4>2
    <3>4. Opened(entry.file)'
      BY <2>1, <3>2 DEF OneName
    <3>5. \A q \in Moving' : staged'[q] # None
      <4>1. CASE tmp # None /\ Moving' = Moving \cup {r} /\ staged'[r] = tmp
        BY <2>4, <3>2, <4>1 DEF OneName, Moving
      <4>2. CASE Moving' = Moving /\ staged' = staged
        BY <2>4, <4>2 DEF OneName, Moving
      <4> QED BY <2>7, <4>1, <4>2, StageDoes
    <3>6. \A q \in Moving' : staged'[q] # entry.file
      BY <2>4, <2>7, StageDoes DEF OneName
    <3>7. \A p, q \in Moving' : staged'[p] = staged'[q] => p = q
      BY <2>4, <2>7, StageDoes DEF OneName
    <3>8. req'[r].pc \in {"write", "commit"} => staged'[r] # None
      BY <2>7, StageDoes
    <3>9. Opened(tmp)'
      BY <2>2, <3>2
    <3> QED BY <2>3, <3>2, <3>3, <3>4, <3>5, <3>6, <3>7, <3>8, <3>9
  <2>8. CASE Commit(r)
    BY <2>1, <2>2, <2>3, <2>4, <2>8, CommitDoes DEF OneName
  <2>9. CASE CommitRefused(r)
    BY <2>1, <2>2, <2>3, <2>4, <2>9, RefusedDoes DEF OneName
  <2>11. CASE CommitLoses(r)
    <3>1. Opened(entry.file)'
      BY <2>2, <2>11, LosesDoes
    <3>2. \A q \in Requests : Opened(staged[q])'
      <4>1. ASSUME NEW q \in Requests
            PROVE  \E f : f = staged'[q] /\ Opened(f)
        BY <2>2, <2>11, LosesDoes DEF OneName
      <4> QED BY <2>1, <4>1
    <3>3. Opened(tmp)' /\ (tmp' # None => tmp' # entry'.file)
      BY <2>1, <2>11, LosesDoes DEF OneName
    <3>4. \A q \in Moving : staged[q] # None
      BY DEF OneName, Moving
    <3>5. \A q \in Moving' : staged'[q] # entry'.file /\ staged'[q] # tmp'
      BY <2>4, <2>11, <3>4, LosesDoes DEF OneName
    <3>6. \A p, q \in Moving' : staged'[p] = staged'[q] => p = q
      BY <2>4, <2>11, LosesDoes DEF OneName
    <3> QED BY <2>3, <2>11, <3>1, <3>2, <3>3, <3>5, <3>6, LosesDoes
  <2>12. CASE CommitUnrecorded(r)
    <3>1. Opened(entry.file)'
      <4>1. \E f : f = entry'.file /\ Opened(f)
        BY <2>2, <2>12, UnrecordedDoes DEF OneName
      <4> QED BY <2>1, <4>1
    <3>2. \A q \in Requests : Opened(staged[q])'
      <4>1. ASSUME NEW q \in Requests
            PROVE  \E f : f = staged'[q] /\ Opened(f)
        BY <2>2, <2>12, UnrecordedDoes DEF OneName
      <4> QED BY <2>1, <4>1
    <3>3. Opened(tmp)' /\ (tmp' # None => tmp' # entry'.file)
      BY <2>1, <2>2, <2>12, UnrecordedDoes DEF OneName
    <3>4. \A q \in Moving : staged[q] # None
      BY DEF OneName, Moving
    <3>5. \A q \in Moving' : staged'[q] # entry'.file /\ staged'[q] # tmp'
      BY <2>4, <2>12, <3>4, UnrecordedDoes DEF OneName
    <3>6. \A p, q \in Moving' : staged'[p] = staged'[q] => p = q
      BY <2>4, <2>12, UnrecordedDoes DEF OneName
    <3> QED BY <2>3, <2>12, <3>1, <3>2, <3>3, <3>5, <3>6, UnrecordedDoes
  <2>13. CASE WriteFails(r)
    <3>1. Opened(entry.file)' /\ Opened(tmp)' /\ \A q \in Requests : Opened(staged[q])'
      BY <2>1, <2>13, WriteFailsDoes DEF OneName
    <3> QED BY <2>3, <2>4, <2>13, <3>1, WriteFailsDoes DEF OneName
  <2>14. CASE OpenFails(r)
    BY <1>1, <2>14, OpenFailsStays
  <2>10. CASE CleanUp(r)
    <3>1. /\ UNCHANGED <<entry, staged>> /\ tmp' = None /\ Moving' = Moving
          /\ req'[r].pc = "done"
      BY <2>10, CleanUpDoes
    <3>2. \A q \in Requests : Opened(staged[q])'
      <4>1. ASSUME NEW q \in Requests
            PROVE  \E f : f = staged'[q] /\ Opened(f)
        BY <3>1 DEF OneName
      <4> QED BY <2>1, <4>1
    <3>3. Opened(entry.file)'
      BY <2>1, <3>1 DEF OneName
    <3>4. \A q \in Moving : staged[q] # None
      BY DEF OneName, Moving
    <3>5. \A q \in Moving' : staged'[q] # entry'.file /\ staged'[q] # tmp'
      BY <2>4, <3>1, <3>4 DEF OneName
    <3>6. \A p, q \in Moving' : staged'[p] = staged'[q] => p = q
      BY <3>1 DEF OneName
    <3>7. Opened(tmp)'
      BY <2>2, <3>1
    <3> QED BY <2>3, <3>1, <3>2, <3>3, <3>5, <3>6, <3>7
  <2> QED BY <1>3, <2>5, <2>6, <2>7, <2>8, <2>9, <2>10, <2>11, <2>12, <2>13, <2>14
          DEF PutBytes
<1> QED BY <1>1, <1>2, <1>3, StaysOrPuts

(* A request begins to bring a body: that of a revalidation or its own. *)
LEMMA SeekerBrings ==
  ASSUME TypeOK, History, NEW r \in Requests, Lookup(r) \/ FullGet(r), req'[r].pc = "open"
  PROVE  LET l == req'[r].leader
             b == req'[r].body
         IN /\ req'[r].tag = TagOf(b)
            /\ \/ /\ req[r].pc = "wait" /\ l = req[r].leader
                  /\ reval[l].pc = "closed" /\ reval[l].result = "changed"
                  /\ b = reval[l].body /\ UNCHANGED <<met, reval>>
               \/ /\ req[r].pc = "full" /\ l = r
                  /\ b \in {upstream, 0} /\ (b = 0 => met'.empty) /\ reval' = reval
                  /\ met'.bodies = met.bodies /\ met'.failed = met.failed
<1>1. ASSUME NEW label, NEW current, Answered(r, label, current)
      PROVE  FALSE
  BY <1>1 DEF Answered, Idle, TypeOK
<1>2. CASE Arrive(r)
  <2>1. Goto(r, "new", "miss")
    BY <1>1, <1>2 DEF Arrive, FromCache
  <2> QED BY <2>1 DEF Goto, TypeOK
<1>3. CASE AuthFails(r) \/ FetchFails(r) \/ FetchRefused(r)
  BY <1>1, <1>3 DEF AuthFails, FetchFails, FetchRefused, FallBack, FromCache
<1>8. CASE FetchHalts(r)
  BY <1>8 DEF FetchHalts, Goto, TypeOK
<1>4. CASE ReadStale(r)
  <2>1. PICK b \in Seen :
          req' = [req EXCEPT ![r] = [@ EXCEPT !.pc = "stale", !.body = b, !.tag = entry.tag]]
    BY <1>1, <1>4 DEF ReadStale, FromCache
  <2> QED BY <2>1 DEF TypeOK
<1>5. CASE NoCopy(r) \/ Join(r)
  BY <1>5 DEF NoCopy, Join, Goto, TypeOK
<1>6. CASE Await(r)
  <2> DEFINE v == reval[req[r].leader]
  <2>1. v.result \notin {"renewed"} /\ ~FromCache(r, "stale", req[r].body)
    BY <1>1, <1>6 DEF Await, FromCache
  <2>2. /\ v.result = "changed" /\ v.pc = "closed" /\ UNCHANGED <<met, reval>>
        /\ req[r].pc = "wait"
        /\ req' = [req EXCEPT ![r] = [@ EXCEPT !.pc = "open", !.body = v.body,
                                              !.tag = TagOf(v.body)]]
    BY <1>6, <2>1 DEF Await, revalVars
  <2> HIDE DEF v
  <2>3. /\ req'[r].body = v.body /\ req'[r].tag = TagOf(v.body)
        /\ req'[r].leader = req[r].leader
    BY <2>2 DEF TypeOK
  <2> QED BY <2>2, <2>3 DEF v
<1>7. CASE Fetch(r)
  <2>1. r \notin Of("HEAD")
    BY <1>1, <1>7 DEF Fetch
  <2>2. PICK b \in {upstream, 0} :
          /\ met' = [met EXCEPT !.empty = @ \/ (b = 0 /\ r \notin Of("HEAD"))]
          /\ req' = [req EXCEPT ![r] = [@ EXCEPT !.pc = "open", !.body = b,
                                               !.tag = TagOf(b), !.leader = r]]
    BY <1>7, <2>1 DEF Fetch
  <2>3. req'[r].body = b /\ req'[r].tag = TagOf(b) /\ req'[r].leader = r
    BY <2>2 DEF TypeOK
  <2>4. (b = 0 => met'.empty) /\ met'.bodies = met.bodies /\ met'.failed = met.failed
    BY <2>1, <2>2 DEF History, MetType
  <2> QED BY <1>7, <2>2, <2>3, <2>4 DEF Fetch, revalVars
<1> QED BY <1>2, <1>3, <1>4, <1>5, <1>6, <1>7, <1>8 DEF Lookup, FullGet

(* What has met stays in the history. *)
LEMMA HistoryGrows ==
  ASSUME History, [Next]_vars
  PROVE  /\ met.empty => met'.empty
         /\ met.bodies => met'.bodies
         /\ met.failed => met'.failed
         /\ met.torn => met'.torn
         /\ Clean' => Clean
<1> DEFINE Added ==
      \E b \in BOOLEAN :
         \/ met' = [met EXCEPT !.bodies = @ \/ b]
         \/ met' = [met EXCEPT !.empty = @ \/ b]
         \/ met' = [met EXCEPT !.torn = @ \/ b]
         \/ met' = [met EXCEPT !.failed = TRUE]
         \/ met' = met
<1>0. met' = met \/ met' = [met EXCEPT !.failed = TRUE] => Added
  <2>1. TRUE \in BOOLEAN
    OBVIOUS
  <2> QED BY <2>1
<1>1. Added
  <2>1. ASSUME NEW r \in Requests, Lookup(r)
        PROVE  Added
    <3>1. met' = met \/ \E body \in Seen : met' = [met EXCEPT !.torn = @ \/ body = Torn]
      BY <2>1 DEF Lookup, Arrive, AuthFails, ReadStale, NoCopy, Join, Await
    <3> QED BY <1>0, <3>1
  <2>2. ASSUME NEW r \in Requests, Revalidate(r)
        PROVE  Added
    BY <1>0, <2>2, RevalidateStays DEF Revalidate, Condition, BodyHalts, Compare, Renew,
             Forget, Close
  <2>3. ASSUME NEW r \in Requests, FullGet(r)
        PROVE  Added
    <3>1. met' = met \/ \E b \in BOOLEAN : met' = [met EXCEPT !.empty = @ \/ b]
      BY <2>3 DEF FullGet, Fetch, FetchFails, FetchRefused, FetchHalts
    <3> QED BY <1>0, <3>1
  <2>4. ASSUME NEW r \in Requests, PutBytes(r)
        PROVE  Added
    <3>1. \/ \E b \in BOOLEAN : met' = [met EXCEPT !.bodies = @ \/ b]
          \/ met' = [met EXCEPT !.failed = TRUE]
          \/ met' = met
      BY <2>4 DEF PutBytes, OpenBytes, OpenFails, WriteBytes, WriteFails, Stage, Commit,
                  CommitRefused, CommitLoses, CommitUnrecorded, CleanUp
    <3> QED BY <1>0, <3>1
  <2>5. CASE Publish \/ Expire \/ Delete \/ UNCHANGED vars
    BY <1>0, <2>5 DEF Publish, Expire, Delete, vars
  <2> HIDE DEF Added
  <2> QED BY <2>1, <2>2, <2>3, <2>4, <2>5 DEF Next
<1> QED BY <1>1, MetGrows DEF History, Clean

(* Who brings a body has brought it before, or begins to. *)
LEMMA BringersCome ==
  ASSUME TypeOK, History, [Next]_vars, NEW q \in Bringing'
  PROVE  /\ q \in Requests
         /\ \/ /\ q \in Bringing /\ req'[q].body = req[q].body /\ req'[q].tag = req[q].tag
               /\ req'[q].leader = req[q].leader
            \/ (Lookup(q) \/ FullGet(q)) /\ req'[q].pc = "open"
<1>0. q \in Requests
  BY DEF Bringing, Putting
<1>1. ASSUME req'[q] = req[q]
      PROVE  q \in Bringing
  BY <1>1 DEF Bringing, Putting
<1>2. CASE \E r \in Requests : Lookup(r) \/ FullGet(r)
  BY <1>0, <1>1, <1>2, SeekerMoves DEF Others, Bringing, Putting
<1>3. CASE \E r \in Requests : Revalidate(r)
  BY <1>0, <1>1, <1>3, RevalidateStays
<1>4. CASE \E r \in Requests : PutBytes(r)
  <2>1. PICK r \in Requests : PutBytes(r)
    BY <1>4
  <2>2. CASE q = r
    <3>1. Goes(r)
      BY <2>1, <2>2, EndsMoves DEF Bringing, Putting, PutBytes, Ends, Goes
    <3> QED BY <1>0, <2>1, <2>2, <3>1, GoesMoves
  <2>3. CASE q # r
    BY <1>0, <1>1, <2>1, <2>3, EndsMoves, GoesMoves DEF Others, PutBytes, Ends, Goes
  <2> QED BY <2>2, <2>3
<1>5. CASE Publish \/ Expire \/ Delete \/ UNCHANGED vars
  BY <1>0, <1>1, <1>5 DEF Publish, Expire, Delete, vars
<1> QED BY <1>2, <1>3, <1>4, <1>5 DEF Next

(* Nobody finds an empty file, unless it is being written. *)
LEMMA NothingEmptyStep ==
  ASSUME TypeOK, History, OneName, Leaders, Results, NothingEmpty, [Next]_vars
  PROVE  NothingEmpty'
<1> SUFFICES ASSUME ~met'.empty, ~met'.failed
             PROVE  /\ \A r \in Bringing' : req'[r].body # 0
                    /\ \A f \in Files : Named(f)' /\ content'[f] = 0 => BeingWritten(f)'
  BY DEF NothingEmpty
<1>0. /\ \A r \in Bringing : req[r].body # 0
      /\ \A f \in Files : Named(f) /\ content[f] = 0 => BeingWritten(f)
  BY HistoryGrows DEF NothingEmpty
<1>1. \A r \in Bringing' : req'[r].body # 0
  <2>1. ASSUME NEW r \in Bringing', Lookup(r) \/ FullGet(r), req'[r].pc = "open"
        PROVE  req'[r].body # 0
    <3>0. r \in Requests
      BY BringersCome
    <3>1. \/ /\ reval[req[r].leader].result = "changed" /\ req[r].pc = "wait"
             /\ req'[r].body = reval[req[r].leader].body
          \/ req'[r].body \in {upstream, 0} /\ (req'[r].body = 0 => met'.empty)
      BY <2>1, <3>0, SeekerBrings
    <3>2. CASE reval[req[r].leader].result = "changed" /\ req[r].pc = "wait"
               /\ req'[r].body = reval[req[r].leader].body
      <4>1. req[r].leader \in Requests
        BY <3>0, <3>2 DEF Leaders, TypeOK
      <4> QED BY <3>2, <4>1 DEF Results
    <3> QED BY <3>1, <3>2
  <2> QED BY <1>0, <2>1, BringersCome
<1>2. ASSUME NEW f \in Files, Named(f)', content'[f] = 0
      PROVE  BeingWritten(f)'
  <2>0. f # None /\ \A r \in Moving : r \in Requests
    BY TypesOfParts DEF Moving
  <2>1. CASE FilesStay
    <3>1. Named(f) /\ content[f] = 0
      BY <1>2, <2>1 DEF FilesStay, Named, Moving, Putting
    <3> QED BY <1>0, <2>1, <3>1 DEF FilesStay, BeingWritten, Putting
  <2>2. CASE Delete
    <3>1. Named(f) /\ content[f] = 0
      BY <1>2, <2>0, <2>2, DeleteDoes DEF OneName, Named
    <3> QED BY <1>0, <2>2, <3>1, DeleteDoes DEF BeingWritten
  <2>3. ASSUME NEW r \in Requests, PutBytes(r)
        PROVE  BeingWritten(f)'
    <3>0. Others(r)
      BY <2>3, EndsMoves, GoesMoves DEF PutBytes, Ends, Goes
    <3>1. ASSUME Named(f), content[f] = 0,
                 \A q \in Requests \ {r} : staged'[q] = staged[q], req[r].pc # "write"
          PROVE  BeingWritten(f)'
      BY <1>0, <3>0, <3>1 DEF BeingWritten, Others
    <3>2. CASE OpenBytes(r)
      <4>1. PICK g \in Requests :
              /\ req[r].pc = "open" /\ req'[r].pc = "write" /\ entry' = entry
              /\ tmp' = g /\ Moving' = Moving
              /\ \A q \in Requests : staged'[q] = IF q = r THEN g ELSE staged[q]
              /\ \A h \in Files : content'[h] = IF h = g THEN 0 ELSE content[h]
              /\ r \notin Moving
        BY <3>2, OpenDoes
      <4>2. CASE f = g
        BY <4>1, <4>2 DEF BeingWritten
      <4>3. CASE f # g
        <5>1. Named(f)
          BY <1>2, <2>0, <4>1, <4>3 DEF Named
        <5> QED BY <1>2, <3>1, <4>1, <4>3, <5>1
      <4> QED BY <4>2, <4>3
    <3>3. CASE WriteBytes(r)
      <4>1. /\ UNCHANGED <<entry, tmp>> /\ r \in Putting /\ Moving' = Moving /\ r \notin Moving
            /\ \A q \in Requests : staged'[q] = IF q = r THEN None ELSE staged[q]
        BY <3>3, WriteDoes
      <4>4. PICK c \in Written(req[r].body, content[staged[r]]) :
              \A g \in Files : content'[g] = IF g = staged[r] THEN c ELSE content[g]
        BY <3>3, WriteDoes
      <4>5. req[r].body # 0
        BY <1>0, <4>1 DEF Bringing
      <4>6. c # 0
        BY <4>4, <4>5, TypesOfParts DEF Written
      <4>2. f # staged[r] /\ content[f] = 0
        BY <1>2, <4>4, <4>6
      <4>3. Named(f)
        BY <1>2, <2>0, <4>1 DEF Named
      <4> QED BY <1>0, <3>0, <4>1, <4>2, <4>3 DEF BeingWritten, Others
    <3>4. CASE Stage(r)
      <4>1. Named(f)
        BY <1>2, <2>0, <3>4, StageDoes DEF Named
      <4> QED BY <1>2, <3>1, <3>4, <4>1, StageDoes
    <3>5. CASE Commit(r)
      <4>1. /\ staged[r] # entry.file /\ entry'.file = staged[r] /\ tmp' = tmp
            /\ Moving' = Moving \ {r} /\ r \in Moving /\ req[r].pc = "commit"
            /\ \A q \in Requests : staged'[q] = IF q = r THEN None ELSE staged[q]
            /\ \A g \in Files : content'[g] = IF g = entry.file THEN 0 ELSE content[g]
        BY <3>5, CommitDoes
      <4>2. Named(f) /\ f # entry.file
        BY <1>2, <2>0, <4>1 DEF Named, OneName
      <4> QED BY <1>2, <3>1, <4>1, <4>2
    <3>6. CASE CommitRefused(r)
      <4>1. /\ entry' = entry /\ tmp' = tmp
            /\ Moving' = Moving \ {r} /\ r \in Moving /\ req[r].pc = "commit"
            /\ \A q \in Requests : staged'[q] = IF q = r THEN None ELSE staged[q]
            /\ \A g \in Files : content'[g] = IF g = staged[r] THEN 0 ELSE content[g]
        BY <3>6, RefusedDoes
      <4>2. Named(f) /\ f # staged[r]
        BY <1>2, <2>0, <4>1 DEF Named, OneName
      <4> QED BY <1>2, <3>1, <4>1, <4>2
    <3>7. CASE CleanUp(r)
      <4>1. Named(f)
        BY <1>2, <2>0, <3>7, CleanUpDoes DEF Named
      <4> QED BY <1>2, <3>1, <3>7, <4>1, CleanUpDoes
    <3>8. CASE CommitLoses(r)
      <4>1. /\ entry'.file = None /\ tmp' = tmp
            /\ Moving' = Moving \ {r} /\ r \in Moving /\ req[r].pc = "commit"
            /\ \A q \in Requests : staged'[q] = IF q = r THEN None ELSE staged[q]
            /\ \A g \in Files :
                 content'[g] = IF g \in {entry.file, staged[r]} THEN 0 ELSE content[g]
        BY <3>8, LosesDoes
      <4>2. Named(f) /\ f # staged[r] /\ f # entry.file
        BY <1>2, <2>0, <4>1 DEF Named, OneName
      <4> QED BY <1>2, <3>1, <4>1, <4>2
    <3>9. ~CommitUnrecorded(r) /\ ~WriteFails(r)
      BY UnrecordedDoes, WriteFailsDoes
    <3> QED BY <2>1, <2>3, <3>2, <3>3, <3>4, <3>5, <3>6, <3>7, <3>8, <3>9, OpenFailsStays
            DEF PutBytes
  <2> QED BY <2>1, <2>2, <2>3, StaysOrPuts
<1> QED BY <1>1, <1>2
-----------------------------------------------------------------------------
(* Bodies and tags *)

(* Who waits to ask the upstream has waited before, or reads the copy. *)
LEMMA AskersCome ==
  ASSUME TypeOK, History, [Next]_vars, NEW q \in Requests, req'[q].pc \in {"stale", "wait"}
  PROVE  \/ /\ req[q].pc \in {"stale", "wait"}
            /\ req'[q].body = req[q].body /\ req'[q].tag = req[q].tag
         \/ /\ entry.file # None /\ ReadStale(q) /\ req'[q].pc = "stale"
            /\ req'[q].body \in Seen /\ req'[q].tag = entry.tag
            /\ req'[q].body = Torn => met'.torn
<1>1. CASE req'[q] = req[q]
  BY <1>1
<1>2. ASSUME NEW label, NEW current, Answered(q, label, current)
      PROVE  FALSE
  BY <1>2 DEF Answered, Idle, TypeOK
<1>3. CASE Lookup(q) \/ FullGet(q)
  <2>1. CASE Arrive(q)
    <3>1. Goto(q, "new", "miss")
      BY <1>2, <2>1 DEF Arrive, FromCache
    <3> QED BY <3>1 DEF Goto, TypeOK
  <2>2. CASE AuthFails(q) \/ FetchFails(q) \/ FetchRefused(q)
    BY <1>2, <2>2 DEF AuthFails, FetchFails, FetchRefused, FallBack, FromCache
  <2>8. CASE FetchHalts(q)
    BY <2>8 DEF FetchHalts, Goto, TypeOK
  <2>3. CASE ReadStale(q)
    <3>1. PICK b \in Seen :
            /\ req' = [req EXCEPT ![q] = [@ EXCEPT !.pc = "stale", !.body = b,
                                                   !.tag = entry.tag]]
            /\ met' = [met EXCEPT !.torn = @ \/ b = Torn]
      BY <1>2, <2>3 DEF ReadStale, FromCache
    <3>2. req'[q].pc = "stale" /\ req'[q].body = b /\ req'[q].tag = entry.tag
      BY <3>1 DEF TypeOK
    <3>3. b = Torn => met'.torn
      BY <3>1 DEF History, MetType
    <3> QED BY <2>3, <3>1, <3>2, <3>3 DEF ReadStale
  <2>4. CASE NoCopy(q)
    BY <2>4 DEF NoCopy, Goto, TypeOK
  <2>5. CASE Join(q)
    BY <2>5 DEF Join, TypeOK
  <2>6. CASE Await(q)
    <3>1. PICK b, t : req' = [req EXCEPT ![q] = [@ EXCEPT !.pc = "open", !.body = b,
                                                          !.tag = t]]
      BY ZenonT(30), <1>2, <2>6 DEF Await, FromCache
    <3> QED BY <3>1 DEF TypeOK
  <2>7. CASE Fetch(q)
    <3>1. PICK b, t : req' = [req EXCEPT ![q] = [@ EXCEPT !.pc = "open", !.body = b,
                                                          !.tag = t, !.leader = q]]
      BY <1>2, <2>7 DEF Fetch
    <3> QED BY <3>1 DEF TypeOK
  <2> QED BY <1>3, <2>1, <2>2, <2>3, <2>4, <2>5, <2>6, <2>7, <2>8 DEF Lookup, FullGet
<1>4. ASSUME NEW r \in Requests, r # q, Lookup(r) \/ FullGet(r)
      PROVE  req'[q] = req[q]
  BY <1>4, SeekerMoves DEF Others
<1>5. ASSUME NEW r \in Requests, Revalidate(r)
      PROVE  req'[q] = req[q]
  BY <1>5, RevalidateStays
<1>6. ASSUME NEW r \in Requests, PutBytes(r)
      PROVE  req'[q] = req[q]
  BY <1>6, PutMoves DEF Others, Putting
<1>7. CASE Publish \/ Expire \/ Delete \/ UNCHANGED vars
  BY <1>1, <1>7 DEF Publish, Expire, Delete, vars
<1> QED BY <1>1, <1>3, <1>4, <1>5, <1>6, <1>7 DEF Next

(* The setup stays, and with it the tags. *)
LEMMA TagsStay ==
  ASSUME [Next]_vars
  PROVE  setup' = setup /\ \A v : TagOf(v)' = TagOf(v)
<1>1. setup' = setup
  BY ZenonT(30)
     DEF Next, Lookup, Arrive, AuthFails, ReadStale, NoCopy, Join, Await, Revalidate, Condition,
         BodyHalts, Compare, Renew, Forget, Close, FullGet, Fetch, FetchFails, FetchRefused,
         FetchHalts, PutBytes, OpenBytes, OpenFails, WriteBytes, WriteFails, Stage, Commit,
         CommitRefused, CommitLoses, CommitUnrecorded, CleanUp, Publish, Expire, Delete, vars
<1> QED BY <1>1 DEF TagOf

(* Who brings a body brings its tag. *)
LEMMA TagsOfBodiesStep ==
  ASSUME TypeOK, History, TagsOfBodies, [Next]_vars
  PROVE  TagsOfBodies'
<1> SUFFICES ASSUME NEW q \in Bringing'
             PROVE  req'[q].tag = TagOf(req'[q].body)
  BY TagsStay DEF TagsOfBodies, TagOf
<1> QED BY BringersCome, SeekerBrings DEF TagsOfBodies

(* Nobody brings a torn body. *)
LEMMA WholeBodies ==
  ASSUME TypeOK, History, Leaders, NEW r \in Bringing
  PROVE  req[r].body # Torn
<1>1. r \in Requests
  BY DEF Bringing, Putting
<1>2. req[r].leader \in Requests /\ Current(req[r].body, reval[req[r].leader].base)
  BY <1>1 DEF Leaders, TypeOK
<1>3. reval[req[r].leader].base \in Nat
  BY <1>2, TypesOfParts DEF TypeOK
<1> QED BY <1>2, <1>3, TypesOfParts DEF Current

(* As long as one body is put at a time, files, bodies and tags agree. *)
LEMMA OneBodyStep ==
  ASSUME TypeOK, History, OneName, OneBody, TagsOfBodies, Leaders, [Next]_vars
  PROVE  OneBody'
<1>w. ASSUME NEW v
      PROVE  TagOf(v)' = TagOf(v)
  BY TagsStay
<1>c. Clean' => Clean
  BY HistoryGrows
<1> SUFFICES ASSUME Clean'
             PROVE
                    /\ \A q, r \in Putting' : req'[q].body = req'[r].body
                    /\ tmp' # None /\ content'[tmp'] # 0
                         => \A r \in Putting' : content'[tmp'] = req'[r].body
                    /\ \A r \in Moving' : content'[staged'[r]] \in {0, req'[r].body}
                    /\ \A r \in Requests :
                         req'[r].pc = "write" => content'[staged'[r]] \in {0, req'[r].body}
                    /\ \A r \in Requests : req'[r].pc = "write" /\ staged'[r] = entry'.file
                                             => entry'.tag = TagOf(req'[r].body)
                    /\ entry'.file # None => content'[entry'.file] # Torn
                    /\ entry'.file # None /\ content'[entry'.file] \notin {0, Torn}
                         => entry'.tag = TagOf(content'[entry'.file])
                    /\ \A r \in Requests :
                         req'[r].pc \in {"stale", "wait"} /\ req'[r].body \notin {0, Torn}
                           => req'[r].tag = TagOf(req'[r].body)
  BY <1>w DEF OneBody, TagIsOfBody, Body, Torn
<1>0. /\ \A q, r \in Putting : req[q].body = req[r].body
      /\ tmp # None /\ content[tmp] # 0 => \A r \in Putting : content[tmp] = req[r].body
      /\ \A r \in Moving : content[staged[r]] \in {0, req[r].body}
      /\ \A r \in Requests :
           req[r].pc = "write" => content[staged[r]] \in {0, req[r].body}
      /\ \A r \in Requests : req[r].pc = "write" /\ staged[r] = entry.file
                               => entry.tag = TagOf(req[r].body)
      /\ entry.file # None => content[entry.file] # Torn
      /\ entry.file # None /\ content[entry.file] \notin {0, Torn}
           => entry.tag = TagOf(content[entry.file])
      /\ \A r \in Requests : req[r].pc \in {"stale", "wait"} /\ req[r].body \notin {0, Torn}
                               => req[r].tag = TagOf(req[r].body)
  BY <1>c DEF OneBody, TagIsOfBody, Body, Clean
<1>1. \A r \in Requests : req'[r].pc \in {"stale", "wait"} /\ req'[r].body \notin {0, Torn}
                            => req'[r].tag = TagOf(req'[r].body)
  BY <1>0, AskersCome DEF Seen, Body
<1>2. /\ \A r \in Moving : r \in Putting /\ r \in Requests
      /\ \A r \in Putting : r \in Requests
      /\ \A r \in Requests : req[r].pc = "write" => r \in Putting
  BY DEF Moving, Putting
<1>r. \A r \in Requests : req[r].pc = "write" => staged[r] # None /\ staged[r] \in Files
  BY DEF OneName, Files, TypeOK
<1>t. Torn # 0 /\ None \notin Files
  BY TypesOfParts
<1>3. SUFFICES
        /\ \A q, r \in Putting' : req'[q].body = req'[r].body
        /\ tmp' # None /\ content'[tmp'] # 0
             => \A r \in Putting' : content'[tmp'] = req'[r].body
        /\ \A r \in Moving' : content'[staged'[r]] \in {0, req'[r].body}
        /\ \A r \in Requests :
             req'[r].pc = "write" => content'[staged'[r]] \in {0, req'[r].body}
        /\ \A r \in Requests : req'[r].pc = "write" /\ staged'[r] = entry'.file
                                 => entry'.tag = TagOf(req'[r].body)
        /\ entry'.file # None => content'[entry'.file] # Torn
        /\ entry'.file # None /\ content'[entry'.file] \notin {0, Torn}
             => entry'.tag = TagOf(content'[entry'.file])
  BY <1>1
<1>4. CASE FilesStay
  <2>1. Putting' = Putting /\ \A q \in Putting : req'[q] = req[q]
    BY <1>4 DEF FilesStay, Putting
  <2>2. Moving' = Moving
    BY <1>2, <1>4, <2>1 DEF FilesStay, Moving, Putting
  <2>3. \A r \in Requests : req'[r].pc = "write" => r \in Putting /\ req[r].pc = "write"
    BY <2>1 DEF Putting
  <2> QED BY <1>0, <1>2, <1>4, <1>r, <2>1, <2>2, <2>3 DEF FilesStay
<1>5. CASE Delete
  <2>2. \A r \in Moving : staged[r] \in Files
    BY <1>2 DEF OneName, Moving, Files, TypeOK
  <2>3. tmp # None => tmp \in Files
    BY DEF TypeOK, Files
  <2> QED BY <1>0, <1>2, <1>5, <1>r, <1>t, <2>2, <2>3, DeleteDoes
<1>6. ASSUME NEW s \in Requests, PutBytes(s)
      PROVE
        /\ \A q, r \in Putting' : req'[q].body = req'[r].body
        /\ tmp' # None /\ content'[tmp'] # 0
             => \A r \in Putting' : content'[tmp'] = req'[r].body
        /\ \A r \in Moving' : content'[staged'[r]] \in {0, req'[r].body}
        /\ \A r \in Requests :
             req'[r].pc = "write" => content'[staged'[r]] \in {0, req'[r].body}
        /\ \A r \in Requests : req'[r].pc = "write" /\ staged'[r] = entry'.file
                                 => entry'.tag = TagOf(req'[r].body)
        /\ entry'.file # None => content'[entry'.file] # Torn
        /\ entry'.file # None /\ content'[entry'.file] \notin {0, Torn}
             => entry'.tag = TagOf(content'[entry'.file])
  <2>0. \A q \in Requests \ {s} : req'[q] = req[q]
    BY <1>6, PutMoves DEF Others
  <2>1. s \in Putting' => req'[s].body = req[s].body
    BY <1>6, PutMoves
  <2>2. /\ \A q \in Moving : staged[q] \in Files
        /\ tmp # None => tmp \in Files
        /\ entry.file # None => entry.file \in Files
    BY <1>2 DEF OneName, Moving, Files, TypeOK
  <2>3. CASE OpenBytes(s)
    <3>1. \A q \in Putting : req[q].body = req[s].body
      <4>1. ~met'.bodies
        BY DEF Clean
      <4> QED BY <2>3, <4>1 DEF OpenBytes, History, MetType
    <3>2. PICK f \in Requests :
            /\ req'[s].pc = "write" /\ entry' = entry /\ tmp' = f
            /\ \A q \in Requests : staged'[q] = IF q = s THEN f ELSE staged[q]
            /\ \A g \in Files : content'[g] = IF g = f THEN 0 ELSE content[g]
            /\ Putting' = Putting \cup {s} /\ s \notin Putting
            /\ Moving' = Moving /\ s \notin Moving
            /\ f # entry.file /\ \A q \in Moving : staged[q] # f
      BY <2>3, OpenDoes
    <3>3. f \in Files /\ f # None
      BY <1>t DEF Files
    <3>4. \A p, q \in Putting' : req'[p].body = req'[q].body
      <4>1. \A p \in Putting' : req'[p].body = req[s].body
        BY <1>2, <2>0, <2>1, <3>1, <3>2
      <4> QED BY <4>1
    <3>5. tmp' # None => content'[tmp'] = 0
      BY <3>2, <3>3
    <3>6. \A q \in Moving' : content'[staged'[q]] \in {0, req'[q].body}
      BY <1>0, <1>2, <2>0, <2>2, <3>2
    <3>7. \A q \in Requests : req'[q].pc = "write" /\ staged'[q] = entry'.file
                                => entry'.tag = TagOf(req'[q].body)
      BY <1>0, <2>0, <3>2
    <3>8. \A q \in Requests :
            req'[q].pc = "write" => content'[staged'[q]] \in {0, req'[q].body}
      BY <1>0, <1>r, <2>0, <3>2, <3>3
    <3>9. entry'.file # None => content'[entry'.file] = content[entry.file]
      BY <2>2, <3>2
    <3> QED BY <1>0, <3>2, <3>4, <3>5, <3>6, <3>7, <3>8, <3>9
  <2>4. CASE WriteBytes(s)
    <3>1. req[s].pc = "write" /\ content[staged[s]] \in {0, req[s].body}
      BY <1>0, <2>4, WriteDoes
    <3>a. PICK c \in Written(req[s].body, content[staged[s]]) :
            \A g \in Files : content'[g] = IF g = staged[s] THEN c ELSE content[g]
      BY <2>4, WriteDoes
    <3>b. c = req[s].body
      BY <3>1, <3>a DEF Written
    <3>2. /\ \A p \in Putting' : p \in Putting /\ req'[p].body = req[p].body
          /\ s \in Putting /\ Moving' = Moving /\ entry' = entry /\ tmp' = tmp
          /\ \A p \in Moving : staged'[p] = staged[p] /\ req'[p].body = req[p].body
          /\ req'[s].pc = "put"
          /\ \A p \in Files : content'[p] = IF p = staged[s] THEN req[s].body ELSE content[p]
          /\ \A p \in Requests : req'[p].pc = "write" => p # s /\ staged'[p] = staged[p]
                                                        /\ req'[p] = req[p]
      BY <1>2, <2>0, <2>1, <2>4, <3>a, <3>b, WriteDoes
    <3>3. \A p, q \in Putting' : req'[p].body = req'[q].body
      BY <1>0, <3>2
    <3>4. tmp' # None /\ content'[tmp'] # 0
            => \A q \in Putting' : content'[tmp'] = req'[q].body
      BY <1>0, <2>2, <3>2
    <3>5. \A q \in Moving' : content'[staged'[q]] \in {0, req'[q].body}
      BY <1>0, <1>2, <2>2, <3>2
    <3>6. \A q \in Requests : req'[q].pc = "write" /\ staged'[q] = entry'.file
                                => entry'.tag = TagOf(req'[q].body)
      BY <1>0, <3>2
    <3>7. entry'.file # None /\ content'[entry'.file] \notin {0, Torn}
            => entry'.tag = TagOf(content'[entry'.file])
      BY <1>0, <2>2, <3>1, <3>2
    <3>8. \A q \in Requests :
            req'[q].pc = "write" => content'[staged'[q]] \in {0, req'[q].body}
      BY <1>0, <1>2, <1>r, <3>2
    <3>9. entry'.file # None => content'[entry'.file] # Torn
      <4>1. req[s].body # Torn
        BY <3>2, WholeBodies DEF Bringing
      <4> QED BY <1>0, <2>2, <3>2, <4>1
    <3> QED BY <3>3, <3>4, <3>5, <3>6, <3>7, <3>8, <3>9
  <2>5. CASE Stage(s)
    <3>2. /\ \A p \in Putting' : p \in Putting /\ req'[p].body = req[p].body
          /\ s \in Putting /\ entry' = entry /\ content' = content /\ tmp' = None
          /\ req'[s].pc \in {"commit", "cleanup"}
          /\ \A p \in Requests \ {s} : staged'[p] = staged[p]
      BY <1>2, <2>0, <2>1, <2>5, StageDoes
    <3>3. \A q \in Moving' : \/ q \in Moving /\ staged'[q] = staged[q] /\ q \in Putting'
                             \/ q = s /\ tmp # None /\ staged'[q] = tmp /\ q \in Putting'
      BY <1>2, <2>5, StageDoes
    <3>4. \A q \in Moving' : content'[staged'[q]] \in {0, req'[q].body}
      BY <1>0, <3>2, <3>3
    <3> QED BY <1>0, <2>0, <3>2, <3>4
  <2>6. CASE Commit(s)
    <3>2. /\ \A p \in Putting' : p \in Putting /\ req'[p].body = req[p].body
          /\ s \in Putting /\ s \in Moving /\ Moving' = Moving \ {s} /\ tmp' = tmp
          /\ staged[s] # entry.file /\ entry'.file = staged[s] /\ entry'.tag = req[s].tag
          /\ staged[s] \in Files
          /\ \A p \in Moving' : p \in Moving /\ staged'[p] = staged[p] /\ req'[p] = req[p]
          /\ \A p \in Files : content'[p] = IF p = entry.file THEN 0 ELSE content[p]
          /\ \A p \in Requests : req'[p].pc = "write" => p \in Putting /\ req'[p] = req[p]
                                                        /\ staged'[p] = staged[p]
      BY <1>2, <2>0, <2>1, <2>6, CommitDoes DEF Files
    <3>3. req[s].tag = TagOf(req[s].body) /\ req[s].body # Torn
      BY <3>2, WholeBodies DEF TagsOfBodies, Bringing
    <3>4. content[staged[s]] \in {0, req[s].body} /\ content'[staged[s]] = content[staged[s]]
      BY <1>0, <3>2
    <3>5. tmp' # None /\ content'[tmp'] # 0
            => \A q \in Putting' : content'[tmp'] = req'[q].body
      BY <1>0, <2>2, <3>2
    <3>6. \A q \in Moving' : content'[staged'[q]] \in {0, req'[q].body}
      BY <1>0, <2>2, <3>2
    <3>7. \A q \in Requests : req'[q].pc = "write" /\ staged'[q] = entry'.file
                                => entry'.tag = TagOf(req'[q].body)
      BY <1>0, <3>2, <3>3
    <3>8. \A q \in Requests :
            req'[q].pc = "write" => content'[staged'[q]] \in {0, req'[q].body}
      BY <1>0, <1>2, <1>r, <3>2
    <3> QED BY <1>0, <1>t, <3>2, <3>3, <3>4, <3>5, <3>6, <3>7, <3>8
  <2>7. CASE CommitRefused(s)
    <3>2. /\ \A p \in Putting' : p \in Putting /\ req'[p].body = req[p].body
          /\ Moving' = Moving \ {s} /\ tmp' = tmp /\ entry' = entry
          /\ \A p \in Moving' : p \in Moving /\ staged'[p] = staged[p] /\ req'[p] = req[p]
          /\ \A p \in Files : content'[p] = IF p = staged[s] THEN 0 ELSE content[p]
          /\ \A p \in Requests : req'[p].pc = "write" => req'[p] = req[p]
                                                        /\ staged'[p] = staged[p]
      BY <1>2, <2>0, <2>1, <2>7, RefusedDoes
    <3>3. \A q \in Moving' : content'[staged'[q]] \in {0, req'[q].body}
      BY <1>0, <2>2, <3>2
    <3>4. \A q \in Requests :
            req'[q].pc = "write" => content'[staged'[q]] \in {0, req'[q].body}
      BY <1>0, <1>r, <3>2
    <3> QED BY <1>0, <1>t, <2>2, <3>2, <3>3, <3>4
  <2>8. CASE CleanUp(s)
    <3>1. /\ \A p \in Putting' : p \in Putting /\ req'[p].body = req[p].body
          /\ Moving' = Moving /\ tmp' = None /\ UNCHANGED <<entry, content, staged>>
          /\ \A p \in Moving : req'[p] = req[p]
          /\ \A p \in Requests : req'[p].pc = "write" => req'[p] = req[p]
      BY <1>2, <2>0, <2>8, CleanUpDoes
    <3> QED BY <1>0, <3>1
  <2>9. CASE CommitLoses(s)
    <3>2. /\ \A p \in Putting' : p \in Putting /\ req'[p].body = req[p].body
          /\ Moving' = Moving \ {s} /\ tmp' = tmp /\ entry'.file = None
          /\ \A p \in Moving' : p \in Moving /\ staged'[p] = staged[p] /\ req'[p] = req[p]
          /\ \A p \in Files : content'[p] =
                IF p \in {entry.file, staged[s]} THEN 0 ELSE content[p]
          /\ \A p \in Requests : req'[p].pc = "write" => req'[p] = req[p]
                                                        /\ staged'[p] = staged[p]
      BY <1>2, <2>0, <2>1, <2>9, LosesDoes
    <3>3. \A q \in Moving' : content'[staged'[q]] \in {0, req'[q].body}
      BY <1>0, <2>2, <3>2
    <3>4. \A q \in Requests :
            req'[q].pc = "write" => content'[staged'[q]] \in {0, req'[q].body}
      BY <1>0, <1>r, <3>2
    <3>5. tmp' # None /\ content'[tmp'] # 0
            => \A q \in Putting' : content'[tmp'] = req'[q].body
      BY <1>0, <2>2, <3>2
    <3> QED BY <1>0, <1>r, <3>2, <3>3, <3>4, <3>5
  <2>10. ~CommitUnrecorded(s) /\ ~WriteFails(s)
    BY UnrecordedDoes, WriteFailsDoes DEF Clean
  <2>11. CASE OpenFails(s)
    BY <1>4, <2>11, OpenFailsStays
  <2> QED BY <1>6, <2>3, <2>4, <2>5, <2>6, <2>7, <2>8, <2>9, <2>10, <2>11 DEF PutBytes
<1> QED BY <1>4, <1>5, <1>6, StaysOrPuts

-----------------------------------------------------------------------------
(* Revalidations and who waits for them *)

Busy == {"head", "get", "silent", "renew", "forget", "close"}

(* Who waits goes on when the revalidation he follows is over. *)
LEMMA WaitersGo ==
  ASSUME TypeOK, NEW r \in Requests, Lookup(r) \/ FullGet(r), req[r].pc = "wait"
  PROVE  /\ Await(r) /\ reval[req[r].leader].pc = "closed"
         /\ req'[r].pc \in {"open", "done"}
<1>1. Await(r)
  BY DEF Lookup, Arrive, AuthFails, ReadStale, NoCopy, Join, FullGet, Fetch, FetchFails,
         FetchRefused, FetchHalts, Goto
<1>2. CASE \E label, current : Answered(r, label, current)
  BY <1>1, <1>2 DEF Answered, Idle, TypeOK, Await
<1>3. CASE \E b, t : req' = [req EXCEPT ![r] = [@ EXCEPT !.pc = "open", !.body = b, !.tag = t]]
  BY <1>1, <1>3 DEF TypeOK, Await
<1>4. \/ \E label, current : Answered(r, label, current)
      \/ \E b, t : req' = [req EXCEPT ![r] = [@ EXCEPT !.pc = "open", !.body = b, !.tag = t]]
  <2> DEFINE v == reval[req[r].leader]
  <2>1. CASE v.result = "renewed"
    <3>1. Answered(r, "revalidated", Current(v.body, v.base))
      BY <1>1, <2>1, SMTT(30) DEF Await
    <3> QED BY <3>1
  <2>2. CASE v.result = "changed"
    <3>1. req' = [req EXCEPT ![r] = [@ EXCEPT !.pc = "open", !.body = v.body,
                                              !.tag = TagOf(v.body)]]
      BY <1>1, <2>2, SMTT(30) DEF Await
    <3> QED BY <3>1
  <2>3. CASE v.result \notin {"renewed", "changed"}
    <3>1. FromCache(r, "stale", req[r].body)
      BY <1>1, <2>3, SMTT(30) DEF Await
    <3> QED BY <3>1 DEF FromCache
  <2> QED BY <2>1, <2>2, <2>3
<1> QED BY <1>2, <1>3, <1>4

(* Who waits has waited before, or joins now: the revalidation in progress *)
(* or one of his own.                                                      *)
LEMMA WaitersCome ==
  ASSUME TypeOK, History, [Next]_vars, NEW q \in Requests, req'[q].pc = "wait"
  PROVE  \/ req'[q] = req[q]
         \/ /\ Join(q) /\ req[q].pc = "stale"
            /\ \/ running # None /\ req'[q].leader = running
               \/ running = None /\ req'[q].leader = q
<1>1. ASSUME NEW r \in Requests, r # q, Lookup(r) \/ FullGet(r)
      PROVE  req'[q] = req[q]
  BY <1>1, SeekerMoves DEF Others
<1>2. ASSUME NEW r \in Requests, Revalidate(r)
      PROVE  req'[q] = req[q]
  BY <1>2, RevalidateStays
<1>3. ASSUME NEW r \in Requests, PutBytes(r)
      PROVE  req'[q] = req[q]
  BY <1>3, PutMoves DEF Others, Putting
<1>4. CASE Publish \/ Expire \/ Delete \/ UNCHANGED vars
  BY <1>4 DEF Publish, Expire, Delete, vars
<1>5. CASE Lookup(q) \/ FullGet(q)
  <2>1. req[q].pc = "stale" \/ (ReadStale(q) /\ req[q].pc = "miss")
    BY <1>5, AskersCome, WaitersGo DEF ReadStale
  <2>2. CASE Join(q)
    <3>1. /\ req[q].pc = "stale"
          /\ \/ running # None
                /\ req' = [req EXCEPT ![q].pc = "wait", ![q].leader = running]
             \/ running = None /\ req' = [req EXCEPT ![q].pc = "wait", ![q].leader = q]
      BY <2>2 DEF Join
    <3>2. /\ running # None => req'[q].leader = running
          /\ running = None => req'[q].leader = q
      BY <3>1 DEF TypeOK
    <3> QED BY <2>2, <3>1, <3>2
  <2>3. CASE ReadStale(q)
    <3>1. ASSUME NEW label, NEW current, Answered(q, label, current)
          PROVE  FALSE
      BY <3>1 DEF Answered, Idle, TypeOK
    <3>2. PICK b \in Seen :
            req' = [req EXCEPT ![q] = [@ EXCEPT !.pc = "stale", !.body = b, !.tag = entry.tag]]
      BY <2>3, <3>1 DEF ReadStale, FromCache
    <3> QED BY <3>2 DEF TypeOK
  <2>4. CASE req[q].pc = "stale"
    BY <1>5, <2>2, <2>4 DEF Lookup, Arrive, AuthFails, ReadStale, NoCopy, Await, FullGet,
                            Fetch, FetchFails, FetchRefused, FetchHalts, Goto
  <2> QED BY <2>1, <2>3, <2>4
<1> QED BY <1>1, <1>2, <1>3, <1>4, <1>5 DEF Next

(* A revalidation stays as it is, begins, or goes on. *)
LEMMA RevalsMove ==
  ASSUME TypeOK, [Next]_vars, NEW q \in Requests
  PROVE  \/ reval'[q] = reval[q]
         \/ /\ Join(q) /\ running = None /\ req[q].pc = "stale" /\ req'[q].pc = "wait"
            /\ req'[q].leader = q /\ req'[q].body = req[q].body /\ req'[q].tag = req[q].tag
            /\ reval'[q].pc \in {"forget", "head", "get"} /\ reval'[q].base = upstream
            /\ reval'[q].result = reval[q].result /\ reval'[q].body = reval[q].body
            /\ reval'[q].pc = "head" => req[q].body # 0 /\ req[q].tag # 0
            /\ UNCHANGED <<upstream, met>>
         \/ /\ Revalidate(q) /\ req' = req /\ met' = met /\ upstream' = upstream
            /\ reval[q].pc \in Busy /\ reval'[q].pc \in (Busy \cup {"closed"}) \ {"head"}
            /\ reval'[q].base = reval[q].base
            /\ \/ /\ reval'[q].result = reval[q].result /\ reval'[q].body = reval[q].body
                  /\ reval'[q].pc = "renew" =>
                       \/ reval[q].pc = "head" /\ req[q].tag = upstream
                       \/ reval[q].pc = "get" /\ req[q].body = upstream
               \/ reval'[q].pc # "renew" /\ reval'[q].result = "changed"
                  /\ reval'[q].body = upstream
               \/ reval[q].pc = "renew" /\ reval'[q].pc # "renew"
                  /\ reval'[q].result = "renewed" /\ reval'[q].body = req[q].body
<1>1. ASSUME NEW r \in Requests, Lookup(r) \/ FullGet(r), ~Join(r)
      PROVE  reval' = reval
  BY <1>1 DEF Lookup, Arrive, AuthFails, ReadStale, NoCopy, Await, FullGet, Fetch, FetchFails,
              FetchRefused, FetchHalts, revalVars
<1>2. CASE Publish \/ Expire \/ Delete \/ UNCHANGED vars \/ \E r \in Requests : PutBytes(r)
  BY <1>2 DEF Publish, Expire, Delete, vars, PutBytes, OpenBytes, OpenFails, WriteBytes,
              WriteFails, Stage, Commit, CommitRefused, CommitLoses, CommitUnrecorded, CleanUp,
              revalVars
<1>3. ASSUME NEW r \in Requests, Join(r)
      PROVE  \/ reval'[q] = reval[q]
             \/ /\ r = q /\ running = None /\ req[q].pc = "stale" /\ req'[q].pc = "wait"
                /\ req'[q].leader = q /\ req'[q].body = req[q].body /\ req'[q].tag = req[q].tag
                /\ reval'[q].pc \in {"forget", "head", "get"} /\ reval'[q].base = upstream
                /\ reval'[q].result = reval[q].result /\ reval'[q].body = reval[q].body
                /\ reval'[q].pc = "head" => req[q].body # 0 /\ req[q].tag # 0
                /\ UNCHANGED <<upstream, met>>
  <2>1. CASE running # None
    BY <1>3, <2>1 DEF Join, revalVars
  <2>2. CASE running = None
    <3> DEFINE to == IF req[r].body = 0 THEN "forget"
                     ELSE IF req[r].tag # 0 THEN "head" ELSE "get"
    <3>1. /\ to \in {"forget", "head", "get"}
          /\ to = "head" => req[r].body # 0 /\ req[r].tag # 0
      OBVIOUS
    <3>2. /\ reval' = [reval EXCEPT ![r].base = upstream, ![r].pc = to]
          /\ req' = [req EXCEPT ![r].pc = "wait", ![r].leader = r] /\ req[r].pc = "stale"
          /\ UNCHANGED <<upstream, met>>
      BY <1>3, <2>2 DEF Join
    <3> HIDE DEF to
    <3>3. CASE r # q
      BY <3>2, <3>3 DEF TypeOK
    <3>4. CASE r = q
      <4>1. /\ req'[q].pc = "wait" /\ req'[q].leader = q
            /\ req'[q].body = req[q].body /\ req'[q].tag = req[q].tag
        BY <3>2, <3>4 DEF TypeOK
      <4>2. /\ reval'[q].pc = to /\ reval'[q].base = upstream
            /\ reval'[q].result = reval[q].result /\ reval'[q].body = reval[q].body
        BY <3>2, <3>4 DEF TypeOK
      <4> QED BY <2>2, <3>1, <3>2, <3>4, <4>1, <4>2
    <3> QED BY <3>3, <3>4
  <2> QED BY <2>1, <2>2
<1>4. ASSUME NEW r \in Requests, Revalidate(r)
      PROVE  \/ reval'[q] = reval[q]
             \/ /\ r = q /\ req' = req /\ met' = met /\ upstream' = upstream
                /\ reval[q].pc \in Busy /\ reval'[q].pc \in (Busy \cup {"closed"}) \ {"head"}
                /\ reval'[q].base = reval[q].base
                /\ \/ /\ reval'[q].result = reval[q].result /\ reval'[q].body = reval[q].body
                      /\ reval'[q].pc = "renew" =>
                           \/ reval[q].pc = "head" /\ req[q].tag = upstream
                           \/ reval[q].pc = "get" /\ req[q].body = upstream
                   \/ reval'[q].pc # "renew" /\ reval'[q].result = "changed"
                      /\ reval'[q].body = upstream
                   \/ reval[q].pc = "renew" /\ reval'[q].pc # "renew"
                      /\ reval'[q].result = "renewed" /\ reval'[q].body = req[q].body
  <2>1. req' = req /\ met' = met /\ upstream' = upstream /\ reval[r].pc \in Busy
    BY <1>4 DEF Revalidate, Condition, BodyHalts, Compare, Renew, Forget, Close, Busy
  <2>2. req[r].body \in Bodies /\ upstream \in Bodies
    BY IndexConstants DEF TypeOK, Bodies, Torn
  <2>3. CASE Condition(r)
    <3>1. PICK to \in {"renew", "get"} :
            /\ reval' = [reval EXCEPT ![r].pc = to]
            /\ to = "renew" => reval[r].pc = "head" /\ req[r].tag = upstream
      BY <2>3 DEF Condition, NotModified
    <3>2. to \in RevalPcs
      BY DEF RevalPcs
    <3> QED BY <2>1, <3>1, <3>2, RevalMoves DEF OtherRevals, Busy
  <2>4. CASE Compare(r)
    <3>1. CASE \E to \in {"renew", "forget"} :
                 /\ reval' = [reval EXCEPT ![r].pc = to]
                 /\ to = "renew" => reval[r].pc = "get" /\ req[r].body = upstream
      <4>1. PICK to \in {"renew", "forget"} :
                 /\ reval' = [reval EXCEPT ![r].pc = to]
                 /\ to = "renew" => reval[r].pc = "get" /\ req[r].body = upstream
        BY <3>1
      <4>2. to \in RevalPcs
        BY DEF RevalPcs
      <4> QED BY <2>1, <4>1, <4>2, RevalMoves DEF OtherRevals, Busy
    <3>2. CASE reval' = [reval EXCEPT ![r] =
                  [@ EXCEPT !.pc = "forget", !.result = "changed", !.body = upstream]]
      BY ZenonT(30), <2>1, <2>2, <3>2, RevalResults DEF OtherRevals, Busy
    <3> QED BY <2>4, <3>1, <3>2 DEF Compare
  <2>5. CASE Renew(r)
    <3>1. CASE reval' = [reval EXCEPT ![r].pc = "forget"]
      BY <2>1, <3>1, RevalMoves DEF OtherRevals, Busy, RevalPcs
    <3>2. CASE reval' = [reval EXCEPT ![r] =
               [@ EXCEPT !.pc = "forget", !.result = "renewed", !.body = req[r].body]]
      <4>1. /\ \A p \in Requests \ {r} : reval'[p] = reval[p]
            /\ reval'[r].pc = "forget" /\ reval'[r].base = reval[r].base
            /\ reval'[r].result = "renewed" /\ reval'[r].body = req[r].body
        BY <2>2, <3>2, RevalResults DEF OtherRevals
      <4>2. reval[r].pc = "renew"
        BY <2>5 DEF Renew
      <4> QED BY <2>1, <4>1, <4>2 DEF Busy
    <3> QED BY <2>5, <3>1, <3>2 DEF Renew
  <2>6. CASE Forget(r) \/ Close(r) \/ BodyHalts(r)
    BY <2>1, <2>6, RevalMoves DEF OtherRevals, Busy, RevalPcs, Forget, Close, BodyHalts
  <2> QED BY <1>4, <2>3, <2>4, <2>5, <2>6 DEF Revalidate
<1> QED BY <1>1, <1>2, <1>3, <1>4 DEF Next

(* Nobody goes back to look for the copy. *)
LEMMA SeekersWere ==
  ASSUME TypeOK, [Next]_vars, NEW q \in Requests,
         req'[q].pc \in {"new", "miss", "stale", "full"}
  PROVE  req[q].pc \in {"new", "miss", "stale", "full"}
<1>1. ASSUME NEW r \in Requests, Lookup(r) \/ FullGet(r)
      PROVE  req[q].pc \in {"new", "miss", "stale", "full"}
  <2>1. CASE r # q
    BY <1>1, <2>1, SeekerMoves DEF Others
  <2>2. CASE r = q
    BY <1>1, <2>2, SeekerMoves, WaitersGo
  <2> QED BY <2>1, <2>2
<1>2. ASSUME NEW r \in Requests, Revalidate(r)
      PROVE  req' = req
  BY <1>2, RevalidateStays
<1>3. ASSUME NEW r \in Requests, PutBytes(r)
      PROVE  req'[q] = req[q]
  BY <1>3, PutMoves DEF Others, Putting
<1>4. CASE Publish \/ Expire \/ Delete \/ UNCHANGED vars
  BY <1>4 DEF Publish, Expire, Delete, vars
<1> QED BY <1>1, <1>2, <1>3, <1>4 DEF Next

(* A revalidation that has begun is remembered, and when it began. *)
LEMMA BegunStays ==
  ASSUME TypeOK, Leaders, [Next]_vars, NEW q \in Requests, reval[q].pc # "off"
  PROVE  reval'[q].pc # "off" /\ reval'[q].base = reval[q].base
BY RevalsMove DEF Leaders, Busy

(* Who joins begins a revalidation if there is none. *)
LEMMA JoinBegins ==
  ASSUME TypeOK, NEW r \in Requests, Join(r), running = None
  PROVE  reval'[r].pc # "off" /\ running' = r
<1> DEFINE to == IF req[r].body = 0 THEN "forget" ELSE IF req[r].tag # 0 THEN "head" ELSE "get"
<1>1. to # "off"
  OBVIOUS
<1>2. reval' = [reval EXCEPT ![r].base = upstream, ![r].pc = to] /\ running' = r
  BY DEF Join
<1> HIDE DEF to
<1> QED BY <1>1, <1>2 DEF TypeOK

(* Who waits follows a revalidation that has begun. *)
LEMMA LeadersStep ==
  ASSUME TypeOK, History, Leaders, Results, [Next]_vars
  PROVE  Leaders'
<1>0. \A q \in Requests :
        reval[q].pc # "off" => reval'[q].pc # "off" /\ reval'[q].base = reval[q].base
  BY BegunStays
<1>1. running' # None => reval'[running'].pc # "off"
  <2>1. CASE \E r \in Requests : Join(r) /\ running = None
    BY <2>1, JoinBegins
  <2>2. CASE \E r \in Requests : Join(r) /\ running # None
    BY <1>0, <2>2 DEF Join, Leaders, revalVars, TypeOK
  <2>3. CASE ~ \E r \in Requests : Join(r)
    <3>1. running' = running \/ running' = None
      BY <2>3 DEF Next, Lookup, Arrive, AuthFails, ReadStale, NoCopy, Await, Revalidate,
             Condition, BodyHalts, Compare, Renew, Forget, Close, FullGet, Fetch, FetchFails,
             FetchRefused, FetchHalts, PutBytes, OpenBytes, OpenFails, WriteBytes, WriteFails,
             Stage, Commit, CommitRefused, CommitLoses, CommitUnrecorded, CleanUp, Publish,
             Expire, Delete, vars, revalVars
    <3> QED BY <1>0, <3>1 DEF Leaders, TypeOK
  <2> QED BY <2>1, <2>2, <2>3
<1>2. ASSUME NEW q \in Requests
      PROVE  /\ req'[q].pc \in {"new", "miss", "stale", "full"} => reval'[q].pc = "off"
             /\ reval'[q].pc = "off" => reval'[q].base = 0
             /\ reval'[q].pc \in Busy => req'[q].pc = "wait" /\ req'[q].leader = q
             /\ req'[q].pc = "wait" =>
                  req'[q].leader # None /\ reval'[req'[q].leader].pc # "off"
             /\ q \in Bringing' =>
                  /\ req'[q].leader # None
                  /\ req'[q].leader = q \/ reval'[req'[q].leader].pc # "off"
                  /\ Current(req'[q].body, reval'[req'[q].leader].base)
  <2>1. req'[q].pc \in {"new", "miss", "stale", "full"} => reval'[q].pc = "off"
    <3>1. ASSUME req'[q].pc \in {"new", "miss", "stale", "full"}
          PROVE  reval[q].pc = "off"
      BY <3>1, SeekersWere DEF Leaders
    <3> QED BY <3>1, RevalsMove DEF Busy
  <2>2. reval'[q].pc = "off" => reval'[q].base = 0
    BY <1>0, RevalsMove DEF Leaders, Busy
  <2>3. reval'[q].pc \in Busy => req'[q].pc = "wait" /\ req'[q].leader = q
    <3>1. CASE reval[q].pc \in Busy
      <4>1. req[q].pc = "wait" /\ req[q].leader = q
        BY <3>1 DEF Leaders, Busy
      <4>2. ~(Lookup(q) \/ FullGet(q))
        BY <3>1, <4>1, WaitersGo DEF Busy
      <4>3. ASSUME NEW r \in Requests, r # q, Lookup(r) \/ FullGet(r)
            PROVE  req'[q] = req[q]
        BY <4>3, SeekerMoves DEF Others
      <4>4. ASSUME NEW r \in Requests, Revalidate(r)
            PROVE  req' = req
        BY <4>4, RevalidateStays
      <4>5. ASSUME NEW r \in Requests, PutBytes(r)
            PROVE  req'[q] = req[q]
        BY <4>1, <4>5, PutMoves DEF Others, Bringing, Putting
      <4>6. CASE Publish \/ Expire \/ Delete \/ UNCHANGED vars
        BY <4>1, <4>6 DEF Publish, Expire, Delete, vars
      <4> QED BY <4>1, <4>2, <4>3, <4>4, <4>5, <4>6 DEF Next
    <3>2. CASE reval[q].pc \notin Busy
      BY <3>2, RevalsMove
    <3> QED BY <3>1, <3>2
  <2>4. req'[q].pc = "wait" =>
          req'[q].leader # None /\ reval'[req'[q].leader].pc # "off"
    <3> SUFFICES ASSUME req'[q].pc = "wait"
                 PROVE  req'[q].leader # None /\ reval'[req'[q].leader].pc # "off"
      OBVIOUS
    <3>1. CASE req'[q] = req[q]
      <4>1. req[q].leader \in Requests /\ reval[req[q].leader].pc # "off"
        BY <3>1 DEF Leaders, TypeOK
      <4> QED BY <1>0, <3>1, <4>1, IndexConstants
    <3>2. CASE Join(q) /\ running # None /\ req'[q].leader = running
      <4>1. running \in Requests /\ reval[running].pc # "off"
        BY <3>2 DEF Leaders, TypeOK
      <4> QED BY <1>0, <3>2, <4>1
    <3>3. CASE Join(q) /\ running = None /\ req'[q].leader = q
      BY <3>3, JoinBegins, IndexConstants
    <3> QED BY <3>1, <3>2, <3>3, WaitersCome
  <2>5. ASSUME q \in Bringing'
        PROVE  /\ req'[q].leader # None
               /\ req'[q].leader = q \/ reval'[req'[q].leader].pc # "off"
               /\ Current(req'[q].body, reval'[req'[q].leader].base)
    <3>1. CASE /\ q \in Bringing /\ req'[q].body = req[q].body
               /\ req'[q].leader = req[q].leader
      <4>1. /\ req[q].leader \in Requests
            /\ req[q].leader = q \/ reval[req[q].leader].pc # "off"
            /\ Current(req[q].body, reval[req[q].leader].base)
            /\ req[q].pc # "stale"
        BY <3>1 DEF Leaders, TypeOK, Bringing, Putting
      <4>2. reval'[req[q].leader].base = reval[req[q].leader].base
        BY <1>0, <4>1, RevalsMove
      <4> QED BY <1>0, <3>1, <4>1, <4>2, IndexConstants
    <3>2. CASE (Lookup(q) \/ FullGet(q)) /\ req'[q].pc = "open"
      <4>1. CASE /\ req[q].pc = "wait" /\ req'[q].leader = req[q].leader
                 /\ reval[req[q].leader].pc = "closed"
                 /\ reval[req[q].leader].result = "changed"
                 /\ req'[q].body = reval[req[q].leader].body /\ reval' = reval
        <5>1. req[q].leader \in Requests
          BY <4>1 DEF Leaders, TypeOK
        <5> QED BY <4>1, <5>1, IndexConstants DEF Results
      <4>2. CASE /\ req[q].pc = "full" /\ req'[q].leader = q
                 /\ req'[q].body \in {upstream, 0} /\ reval' = reval
        <5>1. reval'[q].base = 0
          BY <4>2 DEF Leaders
        <5>2. Current(req'[q].body, 0)
          BY <4>2, TypesOfParts DEF Current
        <5> QED BY <4>2, <5>1, <5>2, IndexConstants
      <4> QED BY <3>2, <4>1, <4>2, SeekerBrings
    <3> QED BY <2>5, <3>1, <3>2, BringersCome
  <2> QED BY <2>1, <2>2, <2>3, <2>4, <2>5
<1> QED BY <1>1, <1>2 DEF Leaders, Busy, Bringing, Putting, Current

(* Publications only add versions. *)
LEMMA UpstreamGrows ==
  ASSUME TypeOK, [Next]_vars
  PROVE  upstream' = upstream \/ upstream' = upstream + 1
BY ZenonT(30) DEF Next, Lookup, Arrive, AuthFails, ReadStale, NoCopy, Join, Await, Revalidate,
       Condition, BodyHalts, Compare, Renew, Forget, Close, FullGet, Fetch, FetchFails,
       FetchRefused, FetchHalts, PutBytes, OpenBytes, OpenFails, WriteBytes, WriteFails, Stage,
       Commit, CommitRefused, CommitLoses, CommitUnrecorded, CleanUp, Publish, Expire, Delete,
       vars

(* What a revalidation finds is not older than its beginning. *)
LEMMA ResultsStep ==
  ASSUME TypeOK, History, OneBody, Leaders, Results, TypeOK', Leaders', [Next]_vars
  PROVE  Results'
<1> SUFFICES ASSUME NEW q \in Requests
             PROVE  /\ reval'[q].base <= upstream'
                    /\ reval'[q].pc = "off" => reval'[q].result = "none"
                    /\ reval'[q].result = "changed" =>
                         Current(reval'[q].body, reval'[q].base) /\ reval'[q].body # 0
                    /\ reval'[q].pc = "head" => req'[q].body # 0 /\ req'[q].tag # 0
                    /\ ~met'.torn /\ req'[q].pc \in {"stale", "wait"} => req'[q].body # Torn
                    /\ Clean' /\ ~met'.torn /\ reval'[q].pc = "renew"
                         => Current(req'[q].body, reval'[q].base)
                    /\ Clean' /\ ~met'.torn /\ reval'[q].result = "renewed"
                         => Current(reval'[q].body, reval'[q].base)
  BY DEF Results, Current, Torn
<1>0. /\ upstream \in Nat \ {0} /\ upstream' \in Nat /\ upstream' >= upstream
      /\ upstream <= MaxVersion /\ MaxVersion \in Nat
      /\ reval[q].base \in Nat /\ reval[q].body \in Nat /\ req[q].body \in Nat
      /\ req[q].tag \in Nat
  <2>1. upstream \in Nat \ {0} /\ upstream' >= upstream /\ upstream' \in Nat
    BY UpstreamGrows, TypesOfParts
  <2>2. reval[q] \in RevalType /\ req[q] \in Record
    BY TypesOfParts DEF TypeOK, RevalType
  <2>3. /\ reval[q].base \in Bodies /\ reval[q].body \in Bodies /\ req[q].body \in Bodies
        /\ req[q].tag \in Bodies
    BY <2>2 DEF RevalType, Record
  <2> QED BY <2>1, <2>3, TypesOfParts
<1>1. /\ reval[q].base <= upstream
      /\ reval[q].pc = "off" => reval[q].result = "none"
      /\ reval[q].result = "changed" =>
           Current(reval[q].body, reval[q].base) /\ reval[q].body # 0
      /\ reval[q].pc = "head" => req[q].body # 0 /\ req[q].tag # 0
      /\ ~met'.torn /\ req[q].pc \in {"stale", "wait"} => req[q].body # Torn
      /\ Clean' /\ ~met'.torn /\ reval[q].pc = "renew" => Current(req[q].body, reval[q].base)
      /\ Clean' /\ ~met'.torn /\ reval[q].result = "renewed"
           => Current(reval[q].body, reval[q].base)
  <2>1. (Clean' => Clean) /\ (met.torn => met'.torn)
    BY HistoryGrows
  <2> QED BY <2>1 DEF Results
<1>5. ~met'.torn /\ req'[q].pc \in {"stale", "wait"} => req'[q].body # Torn
  BY <1>1, AskersCome
<1>6. Current(upstream, reval[q].base) /\ Current(upstream, upstream)
  BY <1>0, <1>1 DEF Current
<1>2. CASE reval'[q] = reval[q]
  <2>1. CASE reval[q].pc \in Busy
    <3>1. req'[q].pc = "wait"
      BY <1>2, <2>1 DEF Leaders, Busy
    <3>2. req[q].pc # "stale"
      BY <2>1 DEF Leaders, Busy
    <3>3. req'[q] = req[q]
      BY <3>1, <3>2, WaitersCome
    <3> QED BY <1>0, <1>1, <1>2, <1>5, <3>3
  <2>2. CASE reval[q].pc \notin Busy
    BY <1>0, <1>1, <1>2, <1>5, <2>2 DEF Busy
  <2> QED BY <2>1, <2>2
<1>3. CASE /\ req[q].pc = "stale" /\ req'[q].body = req[q].body /\ req'[q].tag = req[q].tag
           /\ reval'[q].pc \in {"forget", "head", "get"} /\ reval'[q].base = upstream
           /\ reval'[q].result = reval[q].result
           /\ reval'[q].pc = "head" => req[q].body # 0 /\ req[q].tag # 0
           /\ UNCHANGED upstream
  <2>1. reval[q].result = "none"
    BY <1>1, <1>3 DEF Leaders
  <2> QED BY <1>0, <1>3, <1>5, <2>1
<1>4. CASE /\ req' = req /\ met' = met /\ upstream' = upstream
           /\ reval[q].pc \in Busy /\ reval'[q].pc \in (Busy \cup {"closed"}) \ {"head"}
           /\ reval'[q].base = reval[q].base
  <2>0. req[q].pc = "wait" /\ reval'[q].pc \notin {"off", "head"}
    BY <1>4 DEF Leaders, Busy
  <2>1. CASE /\ reval'[q].result = reval[q].result /\ reval'[q].body = reval[q].body
             /\ reval'[q].pc = "renew" => \/ reval[q].pc = "head" /\ req[q].tag = upstream
                                          \/ reval[q].pc = "get" /\ req[q].body = upstream
    <3>1. ASSUME Clean', ~met'.torn, reval[q].pc = "head", req[q].tag = upstream
          PROVE  req[q].body = upstream
      <4>1. req[q].body \notin {0, Torn} /\ Clean
        BY <1>1, <2>0, <3>1, HistoryGrows
      <4>2. req[q].tag = TagOf(req[q].body)
        BY <2>0, <4>1 DEF OneBody
      <4> QED BY <1>1, <3>1, <4>2 DEF TagOf
    <3>2. Clean' /\ ~met'.torn /\ reval'[q].pc = "renew" => req[q].body = upstream
      BY <2>1, <3>1
    <3> QED BY <1>0, <1>1, <1>4, <1>5, <1>6, <2>0, <2>1, <3>2
  <2>2. CASE reval'[q].pc # "renew" /\ reval'[q].result = "changed" /\ reval'[q].body = upstream
    BY <1>0, <1>1, <1>4, <1>5, <1>6, <2>0, <2>2
  <2>3. CASE /\ reval[q].pc = "renew" /\ reval'[q].pc # "renew"
             /\ reval'[q].result = "renewed" /\ reval'[q].body = req[q].body
    BY <1>0, <1>1, <1>4, <1>5, <2>0, <2>3
  <2> QED BY <1>2, <1>4, <2>0, <2>1, <2>2, <2>3, RevalsMove
<1> QED BY <1>2, <1>3, <1>4, RevalsMove

-----------------------------------------------------------------------------
(* Answers *)

(* Where answers come from. *)
Renewed(q) ==
  /\ req[q].pc = "wait" /\ reval[req[q].leader].result = "renewed"
  /\ answer'[q].label = "revalidated"
  /\ answer'[q].current = Current(reval[req[q].leader].body, reval[req[q].leader].base)
Brought(q) ==
  /\ q \in Bringing /\ answer'[q].label = "miss"
  /\ answer'[q].current = Current(req[q].body, reval[req[q].leader].base)
Refused(q) ==
  /\ answer'[q].label = "refused"
  /\ \/ ~Readable(entry, content)
     \/ req[q].pc = "wait" /\ req[q].body = 0
     \/ req[q].pc = "full" /\ q \notin Of("prefetch")

(* An answer stays, or one of these comes. *)
LEMMA AnswersCome ==
  ASSUME TypeOK, [Next]_vars, NEW q \in Requests
  PROVE  \/ answer'[q] = answer[q]
         \/ answer'[q].label \in {"hit", "stale"}
         \/ answer'[q].label = "miss" /\ answer'[q].current = TRUE
         \/ Renewed(q) \/ Brought(q) \/ Refused(q)
<1> DEFINE Comes == \/ answer'[q] = answer[q]
                    \/ answer'[q].label \in {"hit", "stale"}
                    \/ answer'[q].label = "miss" /\ answer'[q].current = TRUE
                    \/ Renewed(q) \/ Brought(q) \/ Refused(q)
<1>1. ASSUME answer' = answer
      PROVE  Comes
  BY <1>1
<1>2. ASSUME NEW r \in Requests, NEW label \in Labels, NEW current \in BOOLEAN,
             Answered(r, label, current),
             r = q => \/ label \in {"hit", "stale"}
                      \/ label = "miss" /\ current = TRUE
                      \/ answer'[q].label = label /\ answer'[q].current = current =>
                           Renewed(q) \/ Brought(q) \/ Refused(q)
      PROVE  Comes
  <2>1. /\ answer'[r].label = label /\ answer'[r].current = current
        /\ r # q => answer'[q] = answer[q]
    BY <1>2, AnsweredMoves
  <2>2. CASE r # q
    BY <2>1, <2>2
  <2>3. CASE r = q /\ label \in {"hit", "stale"}
    BY <2>1, <2>3
  <2>4. CASE r = q /\ label = "miss" /\ current = TRUE
    BY <2>1, <2>4
  <2>5. CASE r = q /\ (Renewed(q) \/ Brought(q) \/ Refused(q))
    BY <2>5
  <2> QED BY <1>2, <2>1, <2>2, <2>3, <2>4, <2>5
<1>3. ASSUME NEW r \in Requests, FallBack(r)
      PROVE  Comes
  <2>1. PICK label \in {"stale", "refused"} :
          Answered(r, label, FALSE) /\ (label = "refused" => ~Readable(entry, content))
    BY <1>3, FallBackAnswers
  <2> QED BY <1>2, <2>1 DEF Labels, Refused
<1>4. ASSUME NEW r \in Requests, Arrive(r)
      PROVE  Comes
  <2>1. ASSUME NEW body \in Seen, FromCache(r, "hit", body)
        PROVE  Comes
    <3>1. body = 0 => ~Readable(entry, content)
      BY EmptySeen
    <3> QED BY <1>2, <2>1, <3>1 DEF FromCache, Labels, Refused
  <2> HIDE DEF Comes
  <2> QED BY <1>1, <1>4, <2>1 DEF Arrive
<1>5. ASSUME NEW r \in Requests, ReadStale(r)
      PROVE  Comes
  <2>1. ASSUME NEW body \in Seen, FromCache(r, "stale", body)
        PROVE  Comes
    <3>1. body = 0 => ~Readable(entry, content)
      BY EmptySeen
    <3> QED BY <1>2, <2>1, <3>1 DEF FromCache, Labels, Refused
  <2> HIDE DEF Comes
  <2> QED BY <1>1, <1>5, <2>1 DEF ReadStale
<1>6. ASSUME NEW r \in Requests, Await(r)
      PROVE  Comes
  <2> DEFINE v == reval[req[r].leader]
  <2>0. req[r].pc = "wait"
    BY <1>6 DEF Await
  <2>1. CASE v.result = "renewed" /\ Answered(r, "revalidated", Current(v.body, v.base))
    <3>0. Current(v.body, v.base) \in BOOLEAN
      BY DEF Current
    <3>1. PICK current \in BOOLEAN : current = Current(v.body, v.base)
      BY <3>0, Zenon
    <3>2. Answered(r, "revalidated", current) /\ "revalidated" \in Labels
      BY <2>1, <3>1 DEF Labels
    <3>3. /\ answer'[r].label = "revalidated" /\ answer'[r].current = current
          /\ r # q => answer'[q] = answer[q]
      BY <3>2, AnsweredMoves
    <3>4. r = q => Renewed(q)
      BY <2>0, <2>1, <3>1, <3>3 DEF Renewed
    <3> QED BY <3>3, <3>4
  <2>2. CASE FromCache(r, "stale", req[r].body)
    <3>1. CASE req[r].body = 0
      <4>1. Answered(r, "refused", FALSE) /\ "refused" \in Labels
        BY <2>2, <3>1 DEF FromCache, Labels
      <4>2. answer'[r].label = "refused" /\ (r # q => answer'[q] = answer[q])
        BY <4>1, AnsweredMoves
      <4> QED BY <2>0, <3>1, <4>2 DEF Refused
    <3>2. CASE req[r].body # 0
      <4>1. Answered(r, "stale", FALSE)
        BY <2>2, <3>2 DEF FromCache
      <4> QED BY <1>2, <4>1 DEF Labels
    <3> QED BY <3>1, <3>2
  <2>3. CASE answer' = answer
    BY <1>1, <2>3
  <2> QED BY <1>6, <2>1, <2>2, <2>3 DEF Await
<1>7. ASSUME NEW r \in Requests, FullGet(r)
      PROVE  Comes
  <2>1. CASE Fetch(r)
    <3>1. CASE Answered(r, "miss", TRUE)
      BY <1>2, <3>1 DEF Labels
    <3> QED BY <1>1, <2>1, <3>1 DEF Fetch
  <2>2. CASE FetchFails(r)
    BY <1>3, <2>2 DEF FetchFails
  <2>3. CASE FetchRefused(r)
    BY <1>2, <2>3 DEF FetchRefused, Labels, Refused
  <2>4. CASE FetchHalts(r)
    BY <1>1, <2>4 DEF FetchHalts
  <2> QED BY <1>7, <2>1, <2>2, <2>3, <2>4 DEF FullGet
<1>8. ASSUME NEW r \in Requests, Ends(r)
      PROVE  Comes
  <2> DEFINE current == Current(req[r].body, reval[req[r].leader].base)
  <2>1. current \in BOOLEAN /\ "miss" \in Labels
    BY DEF Labels, Current
  <2>2. Answered(r, "miss", current) /\ r \in Bringing
    BY <1>8, EndsMoves DEF AnsweredNew
  <2>3. answer'[r].label = "miss" /\ answer'[r].current = current => Brought(r)
    BY <2>2 DEF Brought
  <2> HIDE DEF current
  <2> QED BY <1>2, <2>1, <2>2, <2>3
<1>9. ASSUME NEW r \in Requests, Goes(r)
      PROVE  answer' = answer
  BY <1>9, GoesMoves
<1>10. ASSUME NEW r \in Requests, Revalidate(r)
       PROVE  answer' = answer
  BY <1>10 DEF Revalidate, Condition, BodyHalts, Compare, Renew, Forget, Close
<1>11. ASSUME NEW r \in Requests, AuthFails(r)
       PROVE  Comes
  BY <1>3, <1>11 DEF AuthFails
<1>12. ASSUME NEW r \in Requests, NoCopy(r) \/ Join(r)
       PROVE  answer' = answer
  BY <1>12 DEF NoCopy, Join
<1>13. CASE Publish \/ Expire \/ Delete \/ UNCHANGED vars
  BY <1>1, <1>13 DEF Publish, Expire, Delete, vars
<1>14. ASSUME NEW r \in Requests, Lookup(r) \/ Revalidate(r) \/ FullGet(r) \/ PutBytes(r)
       PROVE  Comes
  BY <1>1, <1>4, <1>5, <1>6, <1>7, <1>8, <1>9, <1>10, <1>11, <1>12, <1>14
     DEF Lookup, PutBytes, Ends, Goes
<1> QED BY <1>13, <1>14 DEF Next

(* What is called confirmed or new was current. *)
LEMMA ConfirmedStep ==
  ASSUME TypeOK, History, Leaders, Results, ConfirmedIsCurrent, [Next]_vars
  PROVE  ConfirmedIsCurrent'
<1> SUFFICES ASSUME NEW q \in Requests, answer'[q].label \in {"revalidated", "miss"},
                    ~met'.bodies, ~met'.failed, ~met'.torn
             PROVE  answer'[q].current
  BY DEF ConfirmedIsCurrent
<1>1. ~met.bodies /\ ~met.failed /\ ~met.torn /\ Clean
  BY HistoryGrows DEF Clean
<1>2. CASE answer'[q] = answer[q]
  BY <1>1, <1>2 DEF ConfirmedIsCurrent
<1>3. CASE Renewed(q)
  <2>1. req[q].leader \in Requests
    BY <1>3 DEF Renewed, Leaders, TypeOK
  <2> QED BY <1>1, <1>3, <2>1 DEF Renewed, Results
<1>4. CASE Brought(q)
  BY <1>4 DEF Brought, Leaders, Bringing
<1>5. ~Refused(q)
  BY DEF Refused
<1> QED BY <1>2, <1>3, <1>4, <1>5, AnswersCome
-----------------------------------------------------------------------------
(* Copies that have been there all along *)

(* Who counts has counted before, or finds a copy as he arrives; nobody    *)
(* counts once the copy has been emptied or is gone.                       *)
LEMMA HadComes ==
  ASSUME TypeOK, History, OneName, HasRead, [Next]_vars, NEW q \in had'
  PROVE  /\ q \in Requests /\ Readable(entry, content)'
         /\ \/ q \in had /\ Readable(entry, content)
            \/ Arrive(q) /\ Readable(entry, content)
<1>1. ASSUME FilesStay, NEW r \in Requests, Arrive(r)
      PROVE  /\ q \in Requests /\ Readable(entry, content)'
             /\ \/ q \in had /\ Readable(entry, content)
                \/ Arrive(q) /\ Readable(entry, content)
  <2>1. CASE q \in had
    BY <1>1, <2>1 DEF HasRead, History, Readable, FilesStay
  <2>2. CASE q \notin had
    <3>1. q = r /\ Readable(entry, content)
      BY <1>1, <2>2 DEF Arrive
    <3> QED BY <1>1, <3>1 DEF Readable, FilesStay
  <2> QED BY <2>1, <2>2
<1>2. ASSUME FilesStay, had' = had
      PROVE  q \in had /\ q \in Requests /\ Readable(entry, content) /\ Readable(entry, content)'
  BY <1>2 DEF HasRead, History, Readable, FilesStay
<1>3. ASSUME NEW r \in Requests, PutBytes(r)
      PROVE  q \in had /\ q \in Requests /\ Readable(entry, content) /\ Readable(entry, content)'
  <2>0. q \in had /\ q \in Requests /\ entry.file # None /\ content[entry.file] # 0
    <3>1. q \in had
      BY <1>3 DEF PutBytes, OpenBytes, OpenFails, WriteBytes, WriteFails, Stage, Commit,
                  CommitRefused, CommitLoses, CommitUnrecorded, CleanUp
    <3> QED BY <3>1 DEF HasRead, History, Readable
  <2>1. entry.file \in Files
    BY <2>0 DEF TypeOK
  <2>2. entry'.file # None /\ content'[entry'.file] # 0
    <3>1. CASE OpenBytes(r)
      BY <2>0, <2>1, <3>1, OpenDoes
    <3>2. CASE WriteBytes(r)
      <4>1. PICK c \in Written(req[r].body, content[staged[r]]) :
              \A g \in Files : content'[g] = IF g = staged[r] THEN c ELSE content[g]
        BY <3>2, WriteDoes
      <4>2. content[staged[r]] # 0 => c # 0
        BY <4>1, TypesOfParts DEF Written
      <4>3. entry' = entry
        BY <3>2, WriteDoes
      <4> QED BY <2>0, <2>1, <4>1, <4>2, <4>3
    <3>3. CASE Stage(r)
      BY <2>0, <3>3, StageDoes
    <3>4. CASE Commit(r)
      <4>1. content[staged[r]] # 0
        BY <3>4 DEF Commit
      <4>2. staged[r] \in Files /\ staged[r] # None
        BY <3>4, CommitDoes, IndexConstants DEF Files
      <4> QED BY <3>4, <4>1, <4>2, CommitDoes
    <3>5. CASE CommitRefused(r)
      <4>1. staged[r] # entry.file
        BY <3>5, RefusedDoes DEF OneName
      <4> QED BY <2>0, <2>1, <3>5, <4>1, RefusedDoes
    <3>6. CASE CleanUp(r)
      BY <2>0, <3>6, CleanUpDoes
    <3>7. CASE WriteFails(r)
      <4>1. PICK c \in Written(req[r].body, content[staged[r]])
                         \cup {content[staged[r]], Torn} :
              content' = [content EXCEPT ![staged[r]] = c]
        BY <3>7 DEF WriteFails
      <4>2. content[staged[r]] # 0 => c # 0
        BY <4>1, TypesOfParts DEF Written
      <4>3. entry' = entry
        BY <3>7, WriteFailsDoes
      <4> QED BY <2>0, <2>1, <4>1, <4>2, <4>3, TypesOfParts
    <3>8. ~CommitLoses(r)
      BY DEF CommitLoses
    <3>9. CASE CommitUnrecorded(r)
      <4>1. content[staged[r]] # 0
        BY <3>9 DEF CommitUnrecorded
      <4>2. staged[r] \in Files /\ staged[r] # None /\ staged[r] # entry.file
        BY <3>9, UnrecordedDoes, IndexConstants DEF Files
      <4>3. entry'.file = staged[r]
        BY <2>0, <3>9 DEF CommitUnrecorded, TypeOK
      <4>4. content'[staged[r]] = content[staged[r]]
        BY <3>9, <4>2 DEF CommitUnrecorded, Gone
      <4> QED BY <4>1, <4>2, <4>3, <4>4
    <3>10. CASE OpenFails(r)
      BY <2>0, <3>10, OpenFailsStays DEF FilesStay
    <3> QED BY <1>3, <3>1, <3>2, <3>3, <3>4, <3>5, <3>6, <3>7, <3>8, <3>9, <3>10 DEF PutBytes
  <2> QED BY <2>0, <2>2 DEF Readable
<1>4. ASSUME NEW r \in Requests, Lookup(r) \/ FullGet(r)
      PROVE  FilesStay /\ (Arrive(r) \/ had' = had)
  BY <1>4, SeekerStays DEF Lookup, AuthFails, ReadStale, NoCopy, Join, Await, FullGet, Fetch,
                           FetchFails, FetchRefused, FetchHalts
<1>5. ASSUME NEW r \in Requests, Revalidate(r)
      PROVE  FilesStay /\ had' = had
  BY <1>5, RevalidateStays DEF Revalidate, Condition, BodyHalts, Compare, Renew, Forget, Close
<1>6. CASE Publish \/ Expire \/ UNCHANGED vars
  <2>1. had' = had
    BY <1>6 DEF Publish, Expire, vars
  <2>2. CASE Publish \/ UNCHANGED vars
    BY <1>2, <2>1, <2>2 DEF Publish, vars, fileVars, FilesStay, Putting
  <2>3. CASE Expire
    BY <1>2, <2>1, <2>3 DEF Expire, FilesStay, Putting, TypeOK
  <2> QED BY <1>6, <2>2, <2>3
<1>7. CASE Delete
  BY <1>7 DEF Delete
<1> QED BY <1>1, <1>2, <1>3, <1>4, <1>5, <1>6, <1>7 DEF Next

(* A request is new only before it asks, and fetches the whole index only  *)
(* without a copy, unless it is a prefetch.                                *)
LEMMA FetchersCome ==
  ASSUME TypeOK, History, [Next]_vars, NEW q \in Requests, req'[q].pc \in {"new", "full"}
  PROVE  \/ req'[q] = req[q] /\ ~Arrive(q)
         \/ req'[q].pc = "full" /\ NoCopy(q)
<1>0. ~Arrive(q)
  <2> SUFFICES ASSUME Arrive(q)
               PROVE  FALSE
    OBVIOUS
  <2>1. CASE Goto(q, "new", "miss")
    BY <2>1 DEF Goto, TypeOK
  <2>2. ASSUME NEW body, FromCache(q, "hit", body)
        PROVE  FALSE
    BY <2>2 DEF FromCache, Answered, Idle, TypeOK
  <2> QED BY <2>1, <2>2 DEF Arrive
<1>1. ASSUME NEW r \in Requests, r # q, Lookup(r) \/ FullGet(r)
      PROVE  req'[q] = req[q]
  BY <1>1, SeekerMoves DEF Others
<1>2. ASSUME NEW r \in Requests, Revalidate(r)
      PROVE  req'[q] = req[q]
  BY <1>2, RevalidateStays
<1>3. ASSUME NEW r \in Requests, PutBytes(r)
      PROVE  req'[q] = req[q]
  BY <1>3, PutMoves DEF Others, Putting
<1>4. ASSUME Publish \/ Expire \/ Delete \/ UNCHANGED vars
      PROVE  req'[q] = req[q]
  BY <1>4 DEF Publish, Expire, Delete, vars
<1>5. ASSUME Lookup(q) \/ FullGet(q)
      PROVE  req'[q].pc = "full" /\ NoCopy(q)
  <2>0. ASSUME NEW label, NEW current, Answered(q, label, current)
        PROVE  FALSE
    BY <2>0 DEF Answered, Idle, TypeOK
  <2>1. req'[q].pc = "full"
    BY <1>5, SeekerMoves
  <2>2. ~AuthFails(q) /\ ~FetchFails(q) /\ ~FetchRefused(q)
    BY <2>0 DEF AuthFails, FetchFails, FetchRefused, FallBack, FromCache
  <2>7. ~FetchHalts(q)
    BY <2>1 DEF FetchHalts, Goto, TypeOK
  <2>3. ~ReadStale(q)
    <3>1. ASSUME NEW body, req' = [req EXCEPT ![q] = [@ EXCEPT !.pc = "stale", !.body = body,
                                                    !.tag = entry.tag]]
          PROVE  FALSE
      BY <2>1, <3>1 DEF TypeOK
    <3> QED BY <2>0, <3>1 DEF ReadStale, FromCache
  <2>4. ~Join(q)
    BY <2>1 DEF Join, TypeOK
  <2>5. ~Await(q)
    BY <1>5, <2>1, WaitersGo DEF Await
  <2>6. ~Fetch(q)
    <3>1. ASSUME NEW b, NEW t, req' = [req EXCEPT ![q] = [@ EXCEPT !.pc = "open",
                                          !.body = b, !.tag = t, !.leader = q]]
          PROVE  FALSE
      BY <2>1, <3>1 DEF TypeOK
    <3> QED BY <2>0, <3>1 DEF Fetch
  <2> QED BY <1>0, <1>5, <2>1, <2>2, <2>3, <2>4, <2>5, <2>6, <2>7 DEF Lookup, FullGet
<1>6. CASE Lookup(q) \/ FullGet(q)
  BY <1>5, <1>6
<1>7. CASE ~(Lookup(q) \/ FullGet(q))
  <2>1. req'[q] = req[q]
    BY <1>1, <1>2, <1>3, <1>4, <1>7 DEF Next
  <2> QED BY <1>0, <2>1
<1> QED BY <1>6, <1>7

(* Who counts has read the copy. *)
LEMMA HasReadStep ==
  ASSUME TypeOK, History, OneName, HasRead, [Next]_vars
  PROVE  HasRead'
<1>1. had' # {} => Readable(entry, content)'
  BY HadComes
<1>2. ASSUME NEW q \in Requests, req'[q].pc = "new"
      PROVE  answer'[q].label = "none"
  <2>1. req'[q] = req[q]
    BY <1>2, FetchersCome
  <2>2. answer'[q] = answer[q]
    <3>1. ASSUME NEW r \in Requests, NEW label, NEW current, Answered(r, label, current)
          PROVE  answer'[q] = answer[q]
      <4>1. r # q
        BY <1>2, <3>1 DEF Answered, Idle, TypeOK
      <4> QED BY <3>1, <4>1 DEF Answered, TypeOK
    <3>2. ASSUME NEW r \in Requests, Lookup(r) \/ Revalidate(r) \/ FullGet(r) \/ PutBytes(r)
          PROVE  answer'[q] = answer[q]
      BY <3>1, <3>2 DEF Lookup, Arrive, AuthFails, ReadStale, NoCopy, Join, Await, Revalidate,
           Condition, BodyHalts, Compare, Renew, Forget, Close, FullGet, Fetch, FetchFails,
           FetchRefused, FetchHalts, PutBytes, OpenBytes, OpenFails, WriteBytes, WriteFails,
           AnsweredNew, Stage, Commit, CommitRefused, CommitLoses, CommitUnrecorded, CleanUp,
           FallBack, FromCache
    <3> QED BY <3>2 DEF Next, Publish, Expire, Delete, vars
  <2> QED BY <1>2, <2>1, <2>2 DEF HasRead
<1>3. ASSUME NEW q \in had'
      PROVE  /\ req'[q].pc # "new"
             /\ req'[q].pc \in {"stale", "wait"} => req'[q].body # 0
             /\ req'[q].pc = "full" => q \in Of("prefetch")'
  <2>0. q \in Requests /\ Readable(entry, content)
    BY HadComes
  <2>1. CASE q \in had
    <3>1. req'[q].pc # "new"
      BY <2>0, <2>1, FetchersCome DEF HasRead
    <3>2. req'[q].pc \in {"stale", "wait"} => req'[q].body # 0
      BY <2>0, <2>1, AskersCome, EmptySeen DEF HasRead
    <3>3. req'[q].pc = "full" => q \in Of("prefetch")
      BY <2>0, <2>1, FetchersCome DEF HasRead, NoCopy, Readable
    <3> QED BY <2>0, <3>1, <3>2, <3>3, TagsStay DEF Of
  <2>2. CASE Arrive(q)
    <3>1. CASE Goto(q, "new", "miss")
      BY <2>0, <3>1 DEF Goto, TypeOK
    <3>2. ASSUME NEW body, FromCache(q, "hit", body)
          PROVE  req'[q].pc = "done"
      BY <2>0, <3>2 DEF FromCache, Answered, Idle, TypeOK
    <3> QED BY <2>2, <3>1, <3>2 DEF Arrive
  <2> QED BY <2>1, <2>2, HadComes
<1> QED BY <1>1, <1>2, <1>3 DEF HasRead

(* Who counts is not refused. *)
LEMMA CopySavesStep ==
  ASSUME TypeOK, History, OneName, HasRead, CopySaves, [Next]_vars
  PROVE  CopySaves'
<1> SUFFICES ASSUME NEW q \in had', answer'[q].label = "refused"
             PROVE  FALSE
  BY DEF CopySaves
<1>1. q \in Requests /\ Readable(entry, content) /\ (q \in had \/ Arrive(q))
  BY HadComes
<1>2. CASE answer'[q] = answer[q]
  <2>1. CASE q \in had
    BY <1>2, <2>1 DEF CopySaves
  <2>2. CASE Arrive(q)
    BY <1>1, <1>2, <2>2 DEF Arrive, HasRead
  <2> QED BY <1>1, <2>1, <2>2
<1>3. CASE Refused(q)
  <2>1. CASE q \in had
    BY <1>1, <1>3, <2>1 DEF Refused, HasRead
  <2>2. CASE Arrive(q)
    BY <1>1, <1>3, <2>2 DEF Refused, Arrive
  <2> QED BY <1>1, <2>1, <2>2
<1> QED BY <1>1, <1>2, <1>3, AnswersCome DEF Renewed, Brought

-----------------------------------------------------------------------------
(* The theorems *)

(* The invariant holds as the proxy starts. *)
LEMMA IndexInit ==
  ASSUME Init
  PROVE  IndexInv
<1> USE IndexConstants
<1>1. 0 \in Bodies /\ 1 \in Bodies /\ 1 \in 1..MaxVersion /\ TagOf(1) \in Bodies
      /\ None \notin Files /\ First \in Files /\ Torn \notin {0, 1}
  BY DEF Init, Bodies, TagOf, Files, Torn
<1>2. \/ \E fresh \in BOOLEAN :
           entry = [meta |-> TRUE, file |-> First, tag |-> TagOf(1), fresh |-> fresh]
      \/ entry = [meta |-> FALSE, file |-> None, tag |-> 0, fresh |-> FALSE]
  BY DEF Init, NoEntry
<1>3. /\ entry \in EntryType /\ (entry.fresh \/ entry.file # None => entry.meta)
      /\ entry.file \in {None, First} /\ (entry.file # None => entry.tag = TagOf(1))
  <2>1. ASSUME NEW fresh \in BOOLEAN,
               entry = [meta |-> TRUE, file |-> First, tag |-> TagOf(1), fresh |-> fresh]
        PROVE  /\ entry \in EntryType /\ entry.meta
               /\ entry.file = First /\ entry.tag = TagOf(1)
    <3> DEFINE tag == TagOf(1)
    <3>1. tag \in Bodies
      BY <1>1
    <3>2. entry = [meta |-> TRUE, file |-> First, tag |-> tag, fresh |-> fresh]
      BY <2>1
    <3> HIDE DEF tag
    <3>3. /\ entry \in EntryType /\ entry.meta /\ entry.file = First /\ entry.tag = tag
      BY <1>1, <3>1, <3>2 DEF EntryType
    <3> QED BY <3>3 DEF tag
  <2>2. CASE entry = [meta |-> FALSE, file |-> None, tag |-> 0, fresh |-> FALSE]
    BY <1>1, <2>2 DEF EntryType
  <2> QED BY <1>2, <2>1, <2>2
<1>4. \A r \in Requests :
        /\ req[r] = Idle("new") /\ staged[r] = None
        /\ reval[r] = [pc |-> "off", base |-> 0, result |-> "none", body |-> 0]
        /\ answer[r] = [label |-> "none", current |-> TRUE]
  BY DEF Init
<1>5. TypeOK
  <2>1. Idle("new") \in Record
    BY <1>1 DEF Idle, Record, Pcs
  <2>2. [pc |-> "off", base |-> 0, result |-> "none", body |-> 0] \in RevalType
    BY <1>1 DEF RevalType
  <2>3. [label |-> "none", current |-> TRUE] \in [label : Labels, current : BOOLEAN]
    BY DEF Labels
  <2>4. /\ req \in [Requests -> Record] /\ reval \in [Requests -> RevalType]
        /\ answer \in [Requests -> [label : Labels, current : BOOLEAN]]
    BY <2>1, <2>2, <2>3 DEF Init
  <2>5. /\ content \in [Files -> Bodies] /\ staged \in [Requests -> Requests \cup {None}]
        /\ tmp \in Requests \cup {None} /\ running \in Requests \cup {None}
        /\ setup \in Setups /\ upstream \in 1..MaxVersion
    BY <1>1 DEF Init
  <2> QED BY <1>3, <2>4, <2>5 DEF TypeOK, EntryType, RevalType, Record, Pcs, Labels
<1>6. /\ \A r \in Requests : req[r].pc = "new" /\ reval[r].pc = "off" /\ reval[r].base = 0
                             /\ reval[r].result = "none" /\ answer[r].label = "none"
      /\ tmp = None /\ had = {} /\ running = None /\ upstream = 1
      /\ met = [bodies |-> FALSE, empty |-> FALSE, failed |-> FALSE, torn |-> FALSE]
      /\ \A f \in Files : content[f] = IF f = First THEN 1 ELSE 0
  BY <1>4 DEF Init, Idle
<1>7. Bringing = {} /\ Putting = {} /\ Moving = {}
  BY <1>6 DEF Bringing, Putting, Moving
<1>8. History /\ OneName
  BY <1>1, <1>3, <1>4, <1>6, <1>7 DEF History, MetType, OneName, Opened
<1>9. NothingEmpty
  <2>1. \A f \in Files : Named(f) => f = First
    BY <1>1, <1>3, <1>6, <1>7 DEF Named
  <2> QED BY <1>6, <1>7, <2>1 DEF NothingEmpty
<1>10. OneBody /\ TagsOfBodies
  <2>1. TagIsOfBody
    BY <1>1, <1>3, <1>6 DEF TagIsOfBody, Body
  <2>2. entry.file # None => content[entry.file] # Torn
    BY <1>1, <1>3, <1>6
  <2> QED BY <1>6, <1>7, <2>1, <2>2 DEF OneBody, TagsOfBodies
<1>11. Leaders /\ Results /\ ConfirmedIsCurrent /\ HasRead /\ CopySaves
  BY <1>6, <1>7 DEF Leaders, Results, ConfirmedIsCurrent, HasRead, CopySaves
<1> QED BY <1>5, <1>8, <1>9, <1>10, <1>11 DEF IndexInv

(* Every step keeps the invariant. *)
LEMMA IndexStep ==
  ASSUME IndexInv, [Next]_vars
  PROVE  IndexInv'
<1> USE DEF IndexInv
<1>1. TypeOK' /\ History'
  BY TypesStep
<1>2. OneName'
  BY OneNameStep
<1>3. NothingEmpty'
  BY NothingEmptyStep
<1>4. OneBody' /\ TagsOfBodies'
  BY OneBodyStep, TagsOfBodiesStep
<1>5. Leaders'
  BY LeadersStep
<1>6. Results'
  BY <1>1, <1>5, ResultsStep
<1>7. ConfirmedIsCurrent'
  BY ConfirmedStep
<1>8. HasRead' /\ CopySaves'
  BY HasReadStep, CopySavesStep
<1> QED BY <1>1, <1>2, <1>3, <1>4, <1>5, <1>6, <1>7, <1>8

(* The inductive invariant of the index holds in every behaviour of        *)
(* handleIndex and doRevalidation, for any number of requests.             *)
THEOREM IndexInvariant == Spec => []IndexInv
<1>1. Init => IndexInv
  BY IndexInit
<1>2. IndexInv /\ [Next]_vars => IndexInv'
  BY IndexStep
<1> QED BY <1>1, <1>2, PTL DEF Spec

(* What PutBytes keeps is one answer of the upstream, whole and with its   *)
(* own ETag, unless two different bodies were put at the same time or one  *)
(* could not be written; and what is empty is about to be written.         *)
THEOREM KeptIsOne == Spec => []KeptIsOneAnswer
<1>1. IndexInv => KeptIsOneAnswer
  <2> SUFFICES ASSUME IndexInv
               PROVE  KeptIsOneAnswer
    OBVIOUS
  <2>1. EmptyIsBeingWritten
    <3> SUFFICES ASSUME entry.file # None, Body = 0, ~met.empty, ~met.failed
                 PROVE  BeingWritten(entry.file)
      BY DEF EmptyIsBeingWritten
    <3>1. entry.file \in Files /\ Named(entry.file) /\ content[entry.file] = 0
      BY DEF IndexInv, TypeOK, Named, Body
    <3> QED BY <3>1 DEF IndexInv, NothingEmpty
  <2>2. TagIsOfBody
    BY DEF IndexInv, OneBody, Clean, TagIsOfBody
  <2>3. TornHasACause
    BY DEF IndexInv, OneBody, Clean, TornHasACause, Body
  <2> QED BY <2>1, <2>2, <2>3 DEF IndexInv, KeptIsOneAnswer
<1> QED BY <1>1, IndexInvariant, PTL

(* What doRevalidation and handleIndex call confirmed or new, to whoever   *)
(* shares the revalidation, was current at some time since it began: with  *)
(* the same exceptions, and a copy that was read while it was written.     *)
THEOREM ConfirmedWasCurrent == Spec => []ConfirmedIsCurrent
<1>1. IndexInv => ConfirmedIsCurrent
  BY DEF IndexInv
<1> QED BY <1>1, IndexInvariant, PTL

(* A request that finds a copy all along is answered with it, whatever     *)
(* becomes of the upstream, of the credentials and of the others.          *)
THEOREM CopyHelps == Spec => []CopySaves
<1>1. IndexInv => CopySaves
  BY DEF IndexInv
<1> QED BY <1>1, IndexInvariant, PTL
=============================================================================
